-------------------------- MODULE SequenceProofs --------------------------
(***************************************************************************)
(* The sequence serializer, and the loop of the collection serializers     *)
(* composed with it, for every set of elements, layout, sink and way of    *)
(* granting the room.  The loop only ever makes the sequence serializer's  *)
(* own steps, holds one element at a time and answers Ready only for a     *)
(* whole collection; a serializer that is given one collection streams     *)
(* exactly the bytes of its encoding, a refinement of ByteStream.          *)
(***************************************************************************)
EXTENDS OwnedIterSerializer, SeqSerializerInv, RecursionProofs, SequenceTheorems, TLAPS

-----------------------------------------------------------------------------
(* The sequence serializer *)

LEMMA PaddingStable ==
  ASSUME NEW m \in Nat, NEW q \in Nat, m <= q, q <= m + Padding(m)
  PROVE  q + Padding(q) = m + Padding(m)
<1> DEFINE d == m \div Alignment
           r == m % Alignment
<1>1. Alignment \in Nat /\ Alignment > 0
  BY ConstantsAssumption
<1>2. m = Alignment * d + r /\ r \in 0 .. Alignment - 1 /\ d \in Nat
  BY <1>1
<1>3. CASE r = 0
  BY <1>1, <1>2, <1>3 DEF Padding
<1>4. CASE r # 0 /\ q < Alignment * d + Alignment
  <2>1. q % Alignment = q - Alignment * d
    BY <1>1, <1>2, <1>4
  <2>. QED BY <1>1, <1>2, <1>4, <2>1 DEF Padding
<1>5. CASE r # 0 /\ q = Alignment * d + Alignment
  <2>1. q % Alignment = 0
    BY <1>1, <1>2, <1>5
  <2>. QED BY <1>1, <1>2, <1>5, <2>1 DEF Padding
<1>. QED BY <1>1, <1>2, <1>3, <1>4, <1>5 DEF Padding

LEMMA ConcatBytes ==
  ASSUME NEW s \in Seq(Byte), NEW t \in Seq(Byte)
  PROVE  /\ s \o t \in Seq(Byte)
         /\ Len(s \o t) = Len(s) + Len(t)
         /\ \A i \in 1 .. Len(s) : (s \o t)[i] = s[i]
         /\ \A i \in 1 .. Len(t) : (s \o t)[Len(s) + i] = t[i]
OBVIOUS

LEMMA PutBytes ==
  ASSUME TypeOK, NEW b \in Seq(Byte), Put(b)
  PROVE  /\ out' \in Seq(Byte)
         /\ Accepts(Len(b)) \in 0 .. Len(b)
         /\ Whole(Len(b)) => Accepts(Len(b)) = Len(b)
         /\ Len(out') = Len(out) + Accepts(Len(b))
         /\ Base + Len(out') <= limit
         /\ \A i \in 1 .. Len(out) : out'[i] = out[i]
         /\ \A i \in 1 .. Accepts(Len(b)) : out'[Len(out) + i] = b[i]
<1>1. out \in Seq(Byte) /\ limit \in Nat /\ Base \in Nat /\ Pos <= limit
  BY ConstantsAssumption DEF TypeOK
<1>2. /\ Accepts(Len(b)) \in 0 .. Len(b)
      /\ Whole(Len(b)) => Accepts(Len(b)) = Len(b)
      /\ Accepts(Len(b)) <= limit - Pos
  BY <1>1 DEF Accepts, Whole, Room, Pos
<1> DEFINE s == SubSeq(b, 1, Accepts(Len(b)))
<1>3. /\ s \in Seq(Byte)
      /\ Len(s) = Accepts(Len(b))
      /\ \A i \in 1 .. Len(s) : s[i] = b[i]
  BY <1>2
<1>4. out' = out \o s
  BY DEF Put
<1> HIDE DEF s
<1>5. /\ out' \in Seq(Byte)
      /\ Len(out') = Len(out) + Len(s)
      /\ \A i \in 1 .. Len(out) : out'[i] = out[i]
      /\ \A i \in 1 .. Len(s) : out'[Len(out) + i] = s[i]
  BY <1>1, <1>3, <1>4, ConcatBytes
<1>. QED BY <1>1, <1>2, <1>3, <1>5 DEF Pos

-----------------------------------------------------------------------------
(* Types and bookkeeping *)

LEMMA Numbers ==
  /\ Base \in Nat /\ MaxPos \in Nat /\ Base <= MaxPos
  /\ MaxElements \in Nat /\ MaxElements <= MaxPos
  /\ ChunkSize \in Nat /\ 1 <= ChunkSize /\ ChunkSize <= MaxPos
BY ConstantsAssumption

LEMMA ItemFacts ==
  \A v \in Items : v \in Seq(Byte) /\ v # None /\ Len(v) \in Nat
BY ConstantsAssumption

LEMMA PaddingNat ==
  ASSUME NEW p \in Nat
  PROVE  Padding(p) \in Nat /\ Zeros(Padding(p)) \in Seq(Byte)
         /\ Len(Zeros(Padding(p))) = Padding(p)
<1>1. Padding(p) \in Nat
  BY ConstantsAssumption DEF Padding
<1>. QED BY <1>1 DEF Zeros, Byte

\* What a write changes besides the sink: the state of the call.
LEMMA CallTypes ==
  ASSUME TypeOK, NEW n \in Nat, pc = "poll", Proceed(n)
  PROVE  /\ pc' \in {"idle", "poll"}
         /\ result' \in {"none", "ready", "pending", "error", "busy",
                         "finished"}
         /\ failed' \in BOOLEAN
         /\ ~failed' => ~failed
         /\ Whole(n) => pc' = "poll" /\ result' = result /\ failed' = failed
         /\ ~Whole(n) => pc' = "idle" /\ failed' = (failed \/ strict)
         /\ ~Whole(n) /\ ~failed' => result' = "pending" /\ ~strict
BY ConstantsAssumption DEF TypeOK, Proceed, callVars

LEMMA AppendOffset ==
  ASSUME NEW s \in Seq(0 .. MaxPos), NEW d \in 0 .. MaxPos,
         \A j \in 1 .. Len(s) : s[j] <= d,
         \A i, j \in 1 .. Len(s) : i <= j => s[i] <= s[j]
  PROVE  /\ Append(s, d) \in Seq(0 .. MaxPos)
         /\ Len(Append(s, d)) = Len(s) + 1
         /\ \A j \in 1 .. Len(s) : Append(s, d)[j] = s[j]
         /\ Append(s, d)[Len(s) + 1] = d
         /\ \A j \in 1 .. Len(s) + 1 : Append(s, d)[j] <= d
         /\ \A i, j \in 1 .. Len(s) + 1 :
              i <= j => Append(s, d)[i] <= Append(s, d)[j]
<1> DEFINE t == Append(s, d)
<1>1. /\ t \in Seq(0 .. MaxPos)
      /\ Len(t) = Len(s) + 1
      /\ \A j \in 1 .. Len(s) : t[j] = s[j]
      /\ t[Len(s) + 1] = d
  OBVIOUS
<1>2. \A j \in 1 .. Len(s) + 1 : j <= Len(s) \/ j = Len(s) + 1
  OBVIOUS
<1>3. Len(s) \in Nat
  OBVIOUS
<1>4. \A j \in 1 .. Len(s) + 1 : t[j] <= d /\ t[j] \in 0 .. MaxPos
  BY <1>1, <1>2, <1>3, Numbers
<1> HIDE DEF t
<1>5. \A i, j \in 1 .. Len(s) + 1 : i <= j => t[i] <= t[j]
  <2> SUFFICES ASSUME NEW i \in 1 .. Len(s) + 1, NEW j \in 1 .. Len(s) + 1,
                      i <= j
               PROVE  t[i] <= t[j]
    OBVIOUS
  <2>1. CASE j <= Len(s)
    <3>1. i \in 1 .. Len(s) /\ j \in 1 .. Len(s)
      BY <1>3, <2>1
    <3>. QED BY <1>1, <3>1
  <2>2. CASE j = Len(s) + 1
    BY <1>1, <1>3, <1>4, <2>2
  <2>. QED BY <2>1, <2>2, <1>2
<1>. QED BY <1>1, <1>4, <1>5 DEF t

LEMMA RecordBlockTypes ==
  ASSUME TypeOK, IndexInv, RecordBlock, EnableIndex, Pos' = Pos,
         Len(accepted) < MaxElements, Len(accepted') = Len(accepted) + 1
  PROVE  /\ elementCount' \in 0 .. MaxElements
         /\ startPos' \in (Base .. MaxPos) \cup {None}
         /\ blockOffsets' \in Seq(0 .. MaxPos)
         /\ IndexInv'
<1>1. Len(accepted) \in Nat /\ Pos \in Base .. MaxPos
  BY Numbers DEF TypeOK, Pos
<1>2. elementCount' = Len(accepted') /\ elementCount' \in 1 .. MaxElements
  BY <1>1, Numbers DEF RecordBlock, IndexInv
<1>3. PICK start \in Base .. Pos : startPos' = start
  BY <1>1, Numbers, SMTT(60) DEF RecordBlock, IndexInv, TypeOK
<1>4. PICK d \in 0 .. MaxPos : d = Pos - start
  BY <1>1, <1>3, Numbers
<1>5. Len(blockOffsets) \in Nat /\ Len(blockOffsets) < elementCount'
  BY <1>1, <1>2, SMTT(60) DEF IndexInv, TypeOK
<1>6. \A k \in 1 .. Len(blockOffsets) :
        blockOffsets[k] \in 0 .. MaxPos /\ blockOffsets[k] <= d
  <2>1. CASE elementCount = 0
    BY <2>1 DEF IndexInv
  <2>2. CASE elementCount # 0
    <3>1. start = startPos
      BY <2>2, <1>3 DEF RecordBlock
    <3>2. SUFFICES ASSUME NEW k \in 1 .. Len(blockOffsets)
                   PROVE  /\ blockOffsets[k] \in 0 .. MaxPos
                          /\ blockOffsets[k] <= d
      OBVIOUS
    <3>3. blockOffsets[k] \in 0 .. MaxPos
      BY Numbers DEF TypeOK
    <3>4. startPos + blockOffsets[k] <= Pos
      BY DEF IndexInv
    <3>5. PICK b \in 0 .. MaxPos : blockOffsets[k] = b
      BY <3>3
    <3>6. PICK p \in Nat : Pos = p
      BY <1>1, Numbers
    <3>7. start \in Nat /\ start + b <= p /\ d = p - start
      BY <3>1, <3>4, <3>5, <3>6, <1>3, <1>4, Numbers
    <3>. QED BY <3>3, <3>5, <3>6, <3>7, Numbers
  <2>. QED BY <2>1, <2>2
<1>7. /\ blockOffsets' \in Seq(0 .. MaxPos)
      /\ Len(blockOffsets') <= elementCount'
      /\ \A k \in 1 .. Len(blockOffsets') : blockOffsets'[k] <= d
      /\ \A i, j \in 1 .. Len(blockOffsets') :
           i <= j => blockOffsets'[i] <= blockOffsets'[j]
  <2>1. blockOffsets \in Seq(0 .. MaxPos)
    BY DEF TypeOK
  <2>2. \A i, j \in 1 .. Len(blockOffsets) :
          i <= j => blockOffsets[i] <= blockOffsets[j]
    BY DEF IndexInv
  <2>3. CASE elementCount % ChunkSize = 0
    <3>1. blockOffsets' = Append(blockOffsets, d)
      BY <2>3, <1>3, <1>4 DEF RecordBlock, IndexInv
    <3>. QED BY Numbers, <1>1, <1>2, <3>1, <2>1, <2>2, <1>4, <1>5, <1>6, AppendOffset
  <2>4. CASE elementCount % ChunkSize # 0
    <3>1. blockOffsets' = blockOffsets
      BY <2>4 DEF RecordBlock
    <3>. QED BY Numbers, <1>1, <1>2, <3>1, <2>1, <2>2, <1>5, <1>6
  <2>. QED BY <2>3, <2>4
<1>8. \A k \in 1 .. Len(blockOffsets') : start + blockOffsets'[k] <= Pos
  <2>1. SUFFICES ASSUME NEW k \in 1 .. Len(blockOffsets')
                 PROVE  start + blockOffsets'[k] <= Pos
    OBVIOUS
  <2>2. blockOffsets'[k] \in 0 .. MaxPos /\ blockOffsets'[k] <= d
    BY <1>7, Numbers
  <2>. QED BY <2>2, <1>1, <1>3, <1>4, Numbers
<1>9. IndexInv'
  BY <1>1, <1>2, <1>3, <1>7, <1>8 DEF IndexInv
<1>. QED BY <1>1, <1>2, <1>3, <1>7, <1>9, Numbers

LEMMA InputTypes ==
  ASSUME Unfailed, NEW v \in Items, Input(v)
  PROVE  Unfailed'
<1> USE DEF Unfailed, itemVars, elemVars, indexVars, bufVars
<1>1. CASE finished \/ Busy
  <2>1. /\ result' \in {"busy", "finished"}
        /\ UNCHANGED <<itemVars, elemVars, finished, indexVars, bufVars, out,
                       limit, strict, pc, failed, accepted>>
    BY <1>1 DEF Input, Refuse
  <2>2. TypeOK'
    BY <2>1 DEF TypeOK, Pos
  <2>3. PhaseInv'
    BY <2>1 DEF PhaseInv, Gate
  <2>4. IndexInv'
    BY <2>1 DEF IndexInv, Pos
  <2>. QED BY <2>2, <2>3, <2>4
<1>2. CASE ~finished /\ ~Busy
  <2>1. /\ Len(accepted) < MaxElements
        /\ RecordBlock
        /\ nextItem' = v
        /\ marker' = 1
        /\ markerCursor' = 0
        /\ aligned' = FALSE
        /\ pc' = "poll"
        /\ accepted' = Append(accepted, [at |-> Pos, val |-> v])
        /\ UNCHANGED <<elem, elemCursor, active, started, finished, bufVars,
                       out, limit, strict, result, failed>>
    BY <1>2 DEF Input
  <2>2. Pos' = Pos /\ Pos \in Base .. MaxPos
    BY <2>1, Numbers DEF Pos, TypeOK
  <2>3. /\ accepted' \in Seq([at : Base .. MaxPos, val : Items])
        /\ Len(accepted') = Len(accepted) + 1
    BY <2>1, <2>2 DEF TypeOK
  <2>4. /\ elementCount' \in 0 .. MaxElements
        /\ startPos' \in (Base .. MaxPos) \cup {None}
        /\ blockOffsets' \in Seq(0 .. MaxPos)
        /\ IndexInv'
    <3>1. CASE ~EnableIndex
      BY <2>1, <2>2, <2>3, <3>1, Numbers DEF RecordBlock, TypeOK, IndexInv
    <3>2. CASE EnableIndex
      BY <2>1, <2>2, <2>3, <3>2, RecordBlockTypes
    <3>. QED BY <3>1, <3>2 DEF TypeOK
  <2>5. TypeOK'
    <3>1. /\ nextItem' \in Items \cup {None}
          /\ Pos' <= limit'
          /\ indexBuilt' \in 0 .. Len(blockOffsets')
      BY <2>1, <2>2, <2>4, <1>2, Numbers DEF TypeOK, PhaseInv
    <3>. QED BY <3>1, <2>1, <2>3, <2>4 DEF TypeOK
  <2>6. PhaseInv'
    BY <2>1, <1>2, <2>3, ItemFacts DEF TypeOK, PhaseInv, Gate, Busy
  <2>. QED BY <2>4, <2>5, <2>6
<1>. QED BY <1>1, <1>2 DEF TypeOK

\* The bookkeeping stays right as long as the sink does not lose bytes.
LEMMA IndexKept ==
  ASSUME TypeOK, IndexInv, UNCHANGED indexVars, accepted' = accepted,
         Len(out') \in Nat, Len(out) <= Len(out')
  PROVE  IndexInv'
<1>1. PICK p \in Nat : p = Pos
  BY Numbers DEF TypeOK, Pos
<1>2. PICK q \in Nat : q = Pos' /\ p <= q
  BY <1>1, Numbers DEF TypeOK, Pos
<1>3. elementCount > 0 => startPos \in Base .. q
  BY <1>1, <1>2, Numbers DEF TypeOK, IndexInv
<1>4. \A j \in 1 .. Len(blockOffsets) : startPos + blockOffsets[j] <= q
  <2>1. SUFFICES ASSUME NEW j \in 1 .. Len(blockOffsets)
                 PROVE  startPos + blockOffsets[j] <= q
    OBVIOUS
  <2>2. elementCount \in Nat /\ elementCount > 0
    BY Numbers DEF TypeOK, IndexInv
  <2>3. startPos \in Base .. p
    BY <1>1, <2>2 DEF IndexInv
  <2>4. blockOffsets[j] \in 0 .. MaxPos
    BY Numbers DEF TypeOK
  <2>5. startPos + blockOffsets[j] <= p
    BY <1>1, <2>3, <2>4, Numbers DEF IndexInv
  <2>. QED BY <2>3, <2>4, <2>5, <1>2, Numbers
<1>. QED BY <1>2, <1>3, <1>4, Numbers DEF IndexInv, TypeOK, indexVars

LEMMA PollTypes ==
  ASSUME Unfailed, PollPending
  PROVE  Unfailed'
<1> USE DEF Unfailed, PollPending, itemVars, elemVars, indexVars, bufVars
<1>1. TypeOK'
  BY DEF TypeOK, Pos
<1>2. PhaseInv'
  BY DEF PhaseInv, Gate
<1>3. IndexInv'
  BY DEF IndexInv, Pos
<1>. QED BY <1>1, <1>2, <1>3

LEMMA GrantTypes ==
  ASSUME Unfailed, Grant
  PROVE  Unfailed'
<1> USE DEF Unfailed, Grant, itemVars, elemVars, indexVars, bufVars, callVars
<1>1. limit' \in Base .. MaxPos /\ limit' >= limit
  BY Numbers DEF TypeOK
<1>2. Pos' <= limit'
  BY <1>1, Numbers DEF TypeOK, Pos
<1>3. TypeOK'
  BY <1>1, <1>2 DEF TypeOK
<1>4. PhaseInv'
  BY DEF PhaseInv, Gate
<1>5. IndexInv'
  BY DEF IndexInv, Pos
<1>. QED BY <1>3, <1>4, <1>5

LEMMA VarIntBytes ==
  ASSUME NEW n \in 0 .. MaxPos
  PROVE  SerializeU64(n) \in Seq(Byte)
<1>1. n \in Nat
  BY Numbers
<1>2. SerializeU64(n) \in Seq(Octet)
  BY <1>1, SerializeU64Def
<1>. QED BY <1>2 DEF Byte, Octet

LEMMA FinishTypes ==
  ASSUME Unfailed, FinishRef
  PROVE  Unfailed'
<1> USE DEF Unfailed, itemVars, elemVars, indexVars, bufVars
<1>1. CASE finished
  BY <1>1, PollTypes DEF FinishRef
<1>2. CASE ~finished /\ Busy
  <2>1. /\ result' = "busy"
        /\ UNCHANGED <<itemVars, elemVars, finished, indexVars, bufVars, out,
                       limit, strict, pc, failed, accepted>>
    BY <1>2 DEF FinishRef, Refuse
  <2>2. TypeOK'
    BY <2>1 DEF TypeOK, Pos
  <2>3. PhaseInv'
    BY <2>1 DEF PhaseInv, Gate
  <2>4. IndexInv'
    BY <2>1 DEF IndexInv, Pos
  <2>. QED BY <2>2, <2>3, <2>4
<1>3. CASE ~finished /\ ~Busy
  <2>1. /\ marker' = 0
        /\ markerCursor' = 0
        /\ finished' = TRUE
        /\ UNCHANGED <<nextItem, elemVars, indexVars, indexBuilt, indexCursor,
                       out, limit, strict, result, accepted, failed>>
    BY <1>3 DEF FinishRef
  <2>2. /\ nextItem = None /\ ~active /\ indexBuf = << >>
        /\ indexBuilt = 0 /\ indexCursor = 0
    BY <1>3 DEF Busy, PhaseInv
  <2>3. Len(blockOffsets) \in 0 .. MaxPos
    BY Numbers DEF TypeOK, IndexInv
  <2>4. /\ indexBuf' \in Seq(Byte)
        /\ pc' \in {"index", "poll"}
        /\ pc' = "index" => Len(blockOffsets) > 0
    <3>1. CASE NeedsIndex /\ Len(blockOffsets) > 0
      <4>1. /\ SerializeU64(ChunkSize) \in Seq(Byte)
            /\ SerializeU64(Len(blockOffsets)) \in Seq(Byte)
        BY <2>3, VarIntBytes, Numbers
      <4>2. <<Magic>> \in Seq(Byte)
        BY DEF Magic, Byte
      <4>3. <<Magic>> \o SerializeU64(ChunkSize) \o SerializeU64(Len(blockOffsets))
              \in Seq(Byte)
        BY <4>1, <4>2, ConcatBytes
      <4>4. /\ pc' = "index"
            /\ indexBuf' = <<Magic>> \o SerializeU64(ChunkSize)
                                     \o SerializeU64(Len(blockOffsets))
        BY <3>1, <1>3 DEF FinishRef
      <4>. QED BY <3>1, <4>3, <4>4
    <3>2. CASE ~(NeedsIndex /\ Len(blockOffsets) > 0)
      BY <3>2, <1>3 DEF FinishRef, TypeOK
    <3>. QED BY <3>1, <3>2
  <2>5. indexCursor' \in 0 .. Len(indexBuf')
    BY <2>1, <2>2, <2>4
  <2>6. TypeOK'
    BY <2>1, <2>4, <2>5 DEF TypeOK, Pos
  <2>7. PhaseInv'
    BY <2>1, <2>2, <2>4 DEF PhaseInv
  <2>8. IndexInv'
    BY <2>1 DEF IndexInv, Pos
  <2>. QED BY <2>6, <2>7, <2>8
<1>. QED BY <1>1, <1>2, <1>3 DEF TypeOK

\* The offset encoded next is one serialize_u64 is defined for.
LEMMA DeltaInRange ==
  ASSUME Unfailed, pc = "index"
  PROVE  BlockDelta(indexBuilt + 1) \in 0 .. MaxPos
<1> USE DEF Unfailed
<1>1. /\ indexBuilt \in Nat /\ Len(blockOffsets) \in Nat
      /\ indexBuilt < Len(blockOffsets)
  BY DEF PhaseInv, TypeOK
<1>2. \A j \in 1 .. Len(blockOffsets) : blockOffsets[j] \in 0 .. MaxPos
  BY Numbers DEF TypeOK
<1>3. CASE indexBuilt = 0
  BY <1>2, <1>3, <1>1, Numbers DEF BlockDelta
<1>4. CASE indexBuilt # 0
  <2>1. /\ indexBuilt \in 1 .. Len(blockOffsets)
        /\ indexBuilt + 1 \in 1 .. Len(blockOffsets)
    BY <1>4, <1>1
  <2>2. blockOffsets[indexBuilt] <= blockOffsets[indexBuilt + 1]
    BY <2>1, <1>1, Numbers DEF IndexInv
  <2>. QED BY <1>2, <1>4, <2>1, <2>2, <1>1, Numbers DEF BlockDelta
<1>. QED BY <1>3, <1>4

LEMMA EncodeTypes ==
  ASSUME Unfailed, EncodeOffset
  PROVE  Unfailed'
<1> USE DEF Unfailed, itemVars, elemVars, indexVars
<1>1. /\ indexBuf' = indexBuf \o SerializeU64(BlockDelta(indexBuilt + 1))
      /\ indexBuilt' = indexBuilt + 1
      /\ pc' = IF indexBuilt' = Len(blockOffsets) THEN "poll" ELSE "index"
      /\ UNCHANGED <<itemVars, elemVars, finished, indexVars, indexCursor, out,
                     limit, strict, result, failed, accepted>>
  BY DEF EncodeOffset
<1>2. /\ finished /\ markerCursor = 0 /\ indexCursor = 0
      /\ indexBuilt \in Nat /\ Len(blockOffsets) \in Nat
      /\ indexBuilt < Len(blockOffsets)
  BY DEF EncodeOffset, PhaseInv, TypeOK
<1>3. BlockDelta(indexBuilt + 1) \in 0 .. MaxPos
  BY DeltaInRange DEF EncodeOffset
<1>4. indexBuf' \in Seq(Byte)
  <2>1. indexBuf \in Seq(Byte)
    BY DEF TypeOK
  <2>. QED BY <2>1, <1>1, <1>3, VarIntBytes, ConcatBytes
<1>5. indexBuilt' \in 0 .. Len(blockOffsets)
  BY <1>1, <1>2
<1>6. indexCursor' \in 0 .. Len(indexBuf')
  BY <1>1, <1>2, <1>4
<1>7. TypeOK'
  BY <1>1, <1>4, <1>5, <1>6 DEF TypeOK, Pos
<1>8. PhaseInv'
  BY <1>1, <1>2, <1>5 DEF PhaseInv, Gate
<1>9. IndexInv'
  BY <1>1 DEF IndexInv, Pos
<1>. QED BY <1>7, <1>8, <1>9

\* The bytes of v from the c-th on.
LEMMA RestBytes ==
  ASSUME NEW v \in Seq(Byte), NEW c \in 0 .. Len(v)
  PROVE  LET rest == SubSeq(v, c + 1, Len(v))
         IN  /\ rest \in Seq(Byte)
             /\ Len(rest) = Len(v) - c
             /\ \A i \in 1 .. Len(rest) : rest[i] = v[c + i]
OBVIOUS

LEMMA PutMarkerTypes ==
  ASSUME Unfailed, PutMarker
  PROVE  Unfailed'
<1> USE DEF Unfailed, itemVars, elemVars, indexVars, bufVars
<1>1. /\ pc = "poll" /\ markerCursor = 0
      /\ Put(<<marker>>)
      /\ markerCursor' = Accepts(1)
      /\ Proceed(1)
      /\ UNCHANGED <<nextItem, marker, elemVars, finished, indexVars, bufVars,
                     limit, strict, accepted>>
  BY DEF PutMarker
<1>2. <<marker>> \in Seq(Byte) /\ Len(<<marker>>) = 1
  BY DEF TypeOK, Byte
<1>3. /\ out' \in Seq(Byte)
      /\ Accepts(1) \in 0 .. 1
      /\ Len(out') = Len(out) + Accepts(1)
      /\ Base + Len(out') <= limit
  BY <1>1, <1>2, PutBytes
<1>4. /\ pc' \in {"idle", "poll"}
      /\ result' \in {"none", "ready", "pending", "error", "busy", "finished"}
      /\ failed' \in BOOLEAN
  BY <1>1, CallTypes
<1>5. TypeOK'
  BY <1>1, <1>3, <1>4 DEF TypeOK, Pos
<1>6. PhaseInv'
  BY <1>1, <1>3, <1>4 DEF PhaseInv, Gate
<1>7. Len(out') \in Nat /\ Len(out) <= Len(out')
  BY <1>3 DEF TypeOK
<1>8. IndexInv'
  BY <1>1, <1>7, IndexKept
<1>. QED BY <1>5, <1>6, <1>8

LEMMA FlushTypes ==
  ASSUME Unfailed, FlushIndex
  PROVE  Unfailed'
<1> DEFINE rest == SubSeq(indexBuf, indexCursor + 1, Len(indexBuf))
<1> USE DEF Unfailed, itemVars, elemVars, indexVars
<1>1. /\ pc = "poll" /\ markerCursor = 1 /\ finished
      /\ Put(rest)
      /\ indexCursor' = indexCursor + Accepts(Len(rest))
      /\ IF Whole(Len(rest)) THEN Return("ready") ELSE Proceed(Len(rest))
      /\ UNCHANGED <<itemVars, elemVars, finished, indexVars, indexBuf,
                     indexBuilt, limit, strict, accepted>>
  BY DEF FlushIndex
<1>2. indexBuf \in Seq(Byte) /\ indexCursor \in 0 .. Len(indexBuf)
  BY DEF TypeOK
<1>3. rest \in Seq(Byte) /\ Len(rest) = Len(indexBuf) - indexCursor
  BY <1>2, RestBytes
<1> HIDE DEF rest
<1>4. /\ out' \in Seq(Byte)
      /\ Accepts(Len(rest)) \in 0 .. Len(rest)
      /\ Len(out') = Len(out) + Accepts(Len(rest))
      /\ Base + Len(out') <= limit
  BY <1>1, <1>3, PutBytes
<1>5. indexCursor' \in 0 .. Len(indexBuf)
  BY <1>1, <1>2, <1>3, <1>4
<1>6. /\ pc' \in {"idle", "poll"}
      /\ result' \in {"none", "ready", "pending", "error", "busy", "finished"}
      /\ failed' \in BOOLEAN
  <2>1. CASE Whole(Len(rest))
    BY <1>1, <2>1 DEF Return, TypeOK
  <2>2. CASE ~Whole(Len(rest))
    BY <1>1, <1>3, <2>2, CallTypes
  <2>. QED BY <2>1, <2>2
<1>7. TypeOK'
  BY <1>1, <1>4, <1>5, <1>6 DEF TypeOK, Pos
<1>8. PhaseInv'
  BY <1>1, <1>6 DEF PhaseInv, Gate
<1>9. Len(out') \in Nat /\ Len(out) <= Len(out')
  BY <1>3, <1>4 DEF TypeOK
<1>10. IndexInv'
  BY <1>1, <1>9, IndexKept
<1>. QED BY <1>7, <1>8, <1>10

LEMMA AlignTypes ==
  ASSUME Unfailed, TryAlign
  PROVE  Unfailed'
<1> DEFINE pad == Padding(Pos)
<1> USE DEF Unfailed, indexVars, bufVars
<1>1. /\ InElement /\ (active \/ nextItem # None) /\ ~Gate
      /\ Put(Zeros(pad))
      /\ aligned' = GateOpens(pad)
      /\ nextItem' = IF strict /\ ~Whole(pad) THEN None ELSE nextItem
      /\ Proceed(pad)
      /\ UNCHANGED <<marker, markerCursor, elem, elemCursor, active, started,
                     finished, indexVars, bufVars, limit, strict, accepted>>
  BY DEF TryAlign
<1>2. /\ pad \in Nat /\ Zeros(pad) \in Seq(Byte) /\ Len(Zeros(pad)) = pad
      /\ Len(out) \in Nat
  BY PaddingNat, Numbers DEF TypeOK, Pos
<1> HIDE DEF pad
<1>3. /\ out' \in Seq(Byte)
      /\ Accepts(pad) \in 0 .. pad
      /\ Len(out') = Len(out) + Accepts(pad)
      /\ Base + Len(out') <= limit
  BY <1>1, <1>2, PutBytes
<1>4. /\ pc' \in {"idle", "poll"}
      /\ result' \in {"none", "ready", "pending", "error", "busy", "finished"}
      /\ failed' \in BOOLEAN
  BY <1>1, <1>2, CallTypes DEF InElement
<1>5. ~active /\ nextItem' \in Items \cup {None} /\ aligned' \in BOOLEAN
  BY <1>1 DEF TypeOK, PhaseInv, GateOpens, Whole
<1>6. TypeOK'
  BY <1>1, <1>3, <1>4, <1>5 DEF TypeOK, Pos
<1>7. PhaseInv'
  BY <1>1, <1>4, <1>5 DEF PhaseInv, InElement
<1>8. Len(out') \in Nat /\ Len(out) <= Len(out')
  BY <1>2, <1>3
<1>9. IndexInv'
  BY <1>1, <1>8, IndexKept
<1>. QED BY <1>6, <1>7, <1>9

LEMMA StartTypes ==
  ASSUME Unfailed, StartElement
  PROVE  Unfailed'
<1> USE DEF Unfailed, indexVars, bufVars
<1>1. /\ InElement /\ ~active /\ nextItem # None /\ Gate
      /\ Put(nextItem)
      /\ elem' = nextItem
      /\ elemCursor' = Accepts(Len(nextItem))
      /\ nextItem' = None
      /\ active' = (Whole(Len(nextItem)) \/ ~strict)
      /\ started' = (~Whole(Len(nextItem)) /\ ~strict)
      /\ Proceed(Len(nextItem))
      /\ UNCHANGED <<marker, markerCursor, aligned, finished, indexVars,
                     bufVars, limit, strict, accepted>>
  BY DEF StartElement
<1>2. /\ nextItem \in Items /\ nextItem \in Seq(Byte)
      /\ Len(nextItem) \in Nat /\ Len(out) \in Nat
  BY <1>1, ItemFacts DEF TypeOK
<1>3. /\ out' \in Seq(Byte)
      /\ Accepts(Len(nextItem)) \in 0 .. Len(nextItem)
      /\ Whole(Len(nextItem)) => Accepts(Len(nextItem)) = Len(nextItem)
      /\ Len(out') = Len(out) + Accepts(Len(nextItem))
      /\ Base + Len(out') <= limit
  BY <1>1, <1>2, PutBytes
<1>4. /\ pc' \in {"idle", "poll"}
      /\ result' \in {"none", "ready", "pending", "error", "busy", "finished"}
      /\ failed' \in BOOLEAN
  BY <1>1, <1>2, CallTypes DEF InElement
<1>5. /\ elemCursor' \in Nat /\ elemCursor' <= Len(elem')
      /\ active' \in BOOLEAN /\ started' \in BOOLEAN
      /\ active' /\ ~started' => elemCursor' = Len(elem')
  BY <1>1, <1>2, <1>3, ConstantsAssumption DEF Whole
<1>6. TypeOK'
  BY <1>1, <1>2, <1>3, <1>4, <1>5 DEF TypeOK, Pos
<1>7. PhaseInv'
  BY <1>1, <1>2, <1>4, <1>5 DEF PhaseInv, InElement, Gate
<1>8. Len(out') \in Nat /\ Len(out) <= Len(out')
  BY <1>2, <1>3
<1>9. IndexInv'
  BY <1>1, <1>8, IndexKept
<1>. QED BY <1>6, <1>7, <1>9

LEMMA ResumeTypes ==
  ASSUME Unfailed, ResumeElement
  PROVE  Unfailed'
<1> DEFINE rest == SubSeq(elem, elemCursor + 1, Len(elem))
<1> USE DEF Unfailed, itemVars, indexVars, bufVars
<1>1. /\ InElement /\ active /\ Gate /\ Unwritten
      /\ Put(rest)
      /\ IF Whole(Len(rest))
         THEN DropSerializer
         ELSE /\ elemCursor' = elemCursor + Accepts(Len(rest))
              /\ UNCHANGED <<elem, active, started, aligned>>
      /\ Proceed(Len(rest))
      /\ UNCHANGED <<itemVars, finished, indexVars, bufVars, limit,
                     strict, accepted>>
  BY DEF ResumeElement
<1>2. elem \in Items /\ elem \in Seq(Byte) /\ elemCursor \in 0 .. Len(elem)
  BY <1>1, ItemFacts DEF TypeOK, PhaseInv
<1>3. rest \in Seq(Byte) /\ Len(rest) = Len(elem) - elemCursor
  BY <1>2, RestBytes
<1> HIDE DEF rest
<1>4. /\ out' \in Seq(Byte)
      /\ Accepts(Len(rest)) \in 0 .. Len(rest)
      /\ Len(out') = Len(out) + Accepts(Len(rest))
      /\ Base + Len(out') <= limit
  BY <1>1, <1>3, PutBytes
<1>5. /\ pc' \in {"idle", "poll"}
      /\ result' \in {"none", "ready", "pending", "error", "busy", "finished"}
      /\ failed' \in BOOLEAN
  BY <1>1, <1>3, CallTypes DEF InElement
<1>6. /\ elem' \in Items \cup {None} /\ elemCursor' \in Nat
      /\ active' \in BOOLEAN /\ started' \in BOOLEAN /\ aligned' \in BOOLEAN
      /\ active' => /\ elem' = elem /\ aligned' = aligned /\ started'
                    /\ elemCursor' <= Len(elem)
  <2>1. CASE Whole(Len(rest))
    <3>1. DropSerializer
      BY <1>1, <2>1
    <3>. QED BY <3>1 DEF DropSerializer
  <2>2. CASE ~Whole(Len(rest))
    <3>1. /\ elemCursor' = elemCursor + Accepts(Len(rest))
          /\ UNCHANGED <<elem, active, started, aligned>>
      BY <1>1, <2>2
    <3>2. elemCursor' \in Nat /\ elemCursor' <= Len(elem)
      BY <3>1, <1>2, <1>3, <1>4
    <3>. QED BY <3>1, <3>2, <1>1 DEF TypeOK, Unwritten
  <2>. QED BY <2>1, <2>2
<1>7. TypeOK'
  BY <1>1, <1>4, <1>5, <1>6 DEF TypeOK, Pos
<1>8. PhaseInv'
  BY <1>1, <1>2, <1>5, <1>6, ItemFacts DEF PhaseInv, InElement, Gate
<1>9. Len(out') \in Nat /\ Len(out) <= Len(out')
  BY <1>3, <1>4 DEF TypeOK
<1>10. IndexInv'
  BY <1>1, <1>9, IndexKept
<1>. QED BY <1>7, <1>8, <1>10

LEMMA RetireTypes ==
  ASSUME Unfailed, RetireElement
  PROVE  Unfailed'
<1> USE DEF Unfailed, RetireElement, InElement, DropSerializer, itemVars,
            indexVars, bufVars, callVars
<1>1. TypeOK'
  BY DEF TypeOK, Pos
<1>2. PhaseInv'
  BY DEF PhaseInv
<1>3. IndexInv'
  BY DEF IndexInv, Pos
<1>. QED BY <1>1, <1>2, <1>3

LEMMA ReadyTypes ==
  ASSUME Unfailed, ReturnReady
  PROVE  Unfailed'
<1> USE DEF Unfailed, ReturnReady, InElement, Return, itemVars, elemVars,
            indexVars, bufVars
<1>1. TypeOK'
  BY DEF TypeOK, Pos
<1>2. PhaseInv'
  BY DEF PhaseInv, Gate
<1>3. IndexInv'
  BY DEF IndexInv, Pos
<1>. QED BY <1>1, <1>2, <1>3

LEMMA UnfailedInit ==
  Init => Unfailed
<1> SUFFICES ASSUME Init PROVE Unfailed
  OBVIOUS
<1> USE DEF Init, Unfailed
<1>1. TypeOK
  <2>1. Pos = Base /\ limit \in Base .. MaxPos
    BY Numbers DEF Pos
  <2>2. << >> \in Seq(Byte) /\ << >> \in Seq(0 .. MaxPos)
        /\ << >> \in Seq([at : Base .. MaxPos, val : Items])
    BY EmptySeq
  <2>3. Pos <= limit /\ 0 \in 0 .. MaxElements
    BY <2>1, Numbers
  <2>4. indexBuilt \in 0 .. Len(blockOffsets)
        /\ indexCursor \in 0 .. Len(indexBuf)
    OBVIOUS
  <2>5. blockOffsets \in Seq(0 .. MaxPos) /\ indexBuf \in Seq(Byte)
        /\ out \in Seq(Byte)
        /\ accepted \in Seq([at : Base .. MaxPos, val : Items])
    BY <2>2
  <2>. QED BY <2>1, <2>3, <2>4, <2>5 DEF TypeOK
<1>2. PhaseInv
  BY DEF PhaseInv
<1>3. IndexInv
  BY Numbers DEF IndexInv
<1>. QED BY <1>1, <1>2, <1>3

LEMMA UnfailedNext ==
  ASSUME Unfailed, [Next]_vars
  PROVE  Unfailed'
<1>1. CASE UNCHANGED vars
  <2> USE <1>1 DEF vars, itemVars, elemVars, indexVars, bufVars, callVars
  <2>1. TypeOK'
    BY DEF Unfailed, TypeOK, Pos
  <2>2. PhaseInv'
    BY DEF Unfailed, PhaseInv, Gate
  <2>3. IndexInv'
    BY DEF Unfailed, IndexInv, Pos
  <2>. QED BY <2>1, <2>2, <2>3 DEF Unfailed
<1>2. CASE \E v \in Items : Input(v)
  BY <1>2, InputTypes
<1>3. CASE PollPending
  BY <1>3, PollTypes
<1>4. CASE FinishRef
  BY <1>4, FinishTypes
<1>5. CASE Grant
  BY <1>5, GrantTypes
<1>6. CASE Step
  BY <1>6, EncodeTypes, PutMarkerTypes, FlushTypes, AlignTypes, StartTypes,
     ResumeTypes, RetireTypes, ReadyTypes DEF Step
<1>. QED BY <1>1, <1>2, <1>3, <1>4, <1>5, <1>6 DEF Next

\* The fields of the serializer keep their types, the sink never holds more
\* than its room, and a cursor never runs past the bytes it walks over
\* (sequence.rs:22-43, cursor.rs:242-273).
THEOREM TypeCorrect == Spec => []TypeOK
<1>1. Unfailed => TypeOK
  BY DEF Unfailed
<1>. QED BY <1>1, UnfailedInit, UnfailedNext, PTL DEF Spec

-----------------------------------------------------------------------------
(* What is put into the sink, for every alignment, chunk size, payload,    *)
(* room and order of calls: the elements in their places, a `Ready` that   *)
(* means it, and a block index that is written exactly for the sequences   *)
(* longer than a block and leads to their first elements.                  *)

Entry == [at : Base .. MaxPos, val : Items]

LEMMA EntryFacts ==
  ASSUME NEW e \in Entry
  PROVE  /\ e.at \in Nat /\ Base <= e.at
         /\ e.val \in Seq(Byte) /\ Len(e.val) \in Nat
         /\ PayloadAt(e) \in Nat /\ e.at + 1 <= PayloadAt(e)
         /\ ~FixedSize => PayloadAt(e) = e.at + 1
         /\ FixedSize => PayloadAt(e) = e.at + 1 + Padding(e.at + 1)
         /\ EndOf(e) \in Nat /\ EndOf(e) = PayloadAt(e) + Len(e.val)
<1>1. e.at \in Nat /\ Base <= e.at /\ e.val \in Items
  BY Numbers DEF Entry
<1>2. e.val \in Seq(Byte) /\ Len(e.val) \in Nat
  BY <1>1, ItemFacts
<1>2a. PICK q \in Nat : e.at + 1 = q
  BY <1>1
<1>2b. Padding(q) \in Nat
  BY PaddingNat
<1>3. Padding(e.at + 1) \in Nat
  BY <1>2a, <1>2b
<1>4. /\ PayloadAt(e) \in Nat /\ e.at + 1 <= PayloadAt(e)
      /\ ~FixedSize => PayloadAt(e) = e.at + 1
      /\ FixedSize => PayloadAt(e) = e.at + 1 + Padding(e.at + 1)
  BY <1>1, <1>3 DEF PayloadAt
<1>. QED BY <1>1, <1>2, <1>4 DEF EndOf

LEMMA EntriesFacts ==
  ASSUME TypeOK
  PROVE  /\ Len(accepted) \in Nat
         /\ \A k \in 1 .. Len(accepted) : accepted[k] \in Entry
         /\ accepted = << >> => BodyEnd = Base
         /\ accepted # << >> => /\ Len(accepted) \in 1 .. Len(accepted)
                                /\ Latest \in Entry
                                /\ BodyEnd = EndOf(Latest)
         /\ BodyEnd \in Nat
<1>1. accepted \in Seq(Entry)
  BY DEF TypeOK, Entry
<1>2. Len(accepted) \in Nat /\ \A k \in 1 .. Len(accepted) : accepted[k] \in Entry
  BY <1>1
<1>3. CASE accepted = << >>
  BY <1>2, <1>3, Numbers DEF BodyEnd
<1>4. CASE accepted # << >>
  <2>1. Len(accepted) \in 1 .. Len(accepted)
    BY <1>1, <1>4
  <2>2. Latest \in Entry
    BY <1>2, <2>1 DEF Latest
  <2>. QED BY <1>2, <1>4, <2>1, <2>2, EntryFacts DEF BodyEnd, Latest
<1>. QED BY <1>2, <1>3, <1>4

\* The step writes p .. q - 1: what the last element or the trailer has there.
ExtendsContent(p, q) ==
  /\ accepted' = accepted /\ Trailer' = Trailer
  /\ Pos = p /\ Pos' = q /\ p <= q
  /\ \A i \in 1 .. Len(out) : out'[i] = out[i]
  /\ accepted # << >> =>
       /\ Latest.at <= p
       /\ \A r \in p .. q - 1 :
            r < EndOf(Latest) => out'[r - Base + 1] = ImageByte(Latest, r)
  /\ \A r \in p .. q - 1 :
       r >= BodyEnd => out'[r - Base + 1] = Trailer[r - BodyEnd + 1]

\* A write in the middle of the sequence keeps what is there, and what it adds
\* has only to agree with the last element and with the trailer.
LEMMA ContentExtended ==
  ASSUME TypeOK, ChainInv, ContentInv, NEW p \in Nat, NEW q \in Nat,
         ExtendsContent(p, q)
  PROVE  ContentInv'
<1> USE DEF ExtendsContent
<1>1. /\ Len(accepted) \in Nat
      /\ \A k \in 1 .. Len(accepted) : accepted[k] \in Entry
      /\ BodyEnd \in Nat
  BY EntriesFacts
<1>2. Len(out) \in Nat /\ p = Base + Len(out) /\ Base \in Nat
  BY Numbers DEF TypeOK, Pos
<1>3. BodyEnd' = BodyEnd
  BY DEF BodyEnd
<1>4. ASSUME NEW k \in 1 .. Len(accepted), NEW r \in accepted[k].at .. q - 1,
             r < EndOf(accepted[k])
      PROVE  out'[r - Base + 1] = ImageByte(accepted[k], r)
  <2>1. /\ accepted[k].at \in Nat /\ Base <= accepted[k].at /\ r \in Nat
        /\ EndOf(accepted[k]) \in Nat
    BY <1>1, <1>2, EntryFacts
  <2>2. CASE r < p
    <3>1. r - Base + 1 \in 1 .. Len(out)
      BY <1>2, <2>1, <2>2
    <3>2. r \in accepted[k].at .. p - 1
      BY <2>1, <2>2
    <3>3. out[r - Base + 1] = ImageByte(accepted[k], r)
      BY <1>4, <3>2 DEF ContentInv, ByteAt
    <3>. QED BY <3>1, <3>3
  <2>3. CASE r >= p
    <3>1. accepted # << >>
      BY <1>1
    <3>2. k = Len(accepted)
      <4>1. ASSUME k # Len(accepted) PROVE FALSE
        <5>1. k \in 1 .. Len(accepted) - 1
          BY <4>1, <1>1
        <5>2. EndOf(accepted[k]) <= Latest.at
          BY <5>1 DEF ChainInv
        <5>3. Latest.at \in Nat /\ Latest.at <= p
          BY <3>1, EntriesFacts, EntryFacts
        <5>. QED BY <5>2, <5>3, <1>4, <2>1, <2>3
      <4>. QED BY <4>1
    <3>3. r \in p .. q - 1
      BY <2>1, <2>3
    <3>. QED BY <3>1, <3>2, <3>3, <1>4 DEF Latest
  <2>. QED BY <2>1, <2>2, <2>3
<1>5. ASSUME NEW r \in BodyEnd .. q - 1
      PROVE  out'[r - Base + 1] = Trailer[r - BodyEnd + 1]
  <2>1. r \in Nat /\ BodyEnd <= r /\ Base <= BodyEnd
    <3>1. CASE accepted = << >>
      BY <1>1, <1>2, <3>1, EntriesFacts
    <3>2. CASE accepted # << >>
      <4>1. Latest \in Entry /\ BodyEnd = EndOf(Latest)
        BY <3>2, EntriesFacts
      <4>2. /\ Latest.at \in Nat /\ Base <= Latest.at /\ PayloadAt(Latest) \in Nat
            /\ Len(Latest.val) \in Nat /\ Latest.at + 1 <= PayloadAt(Latest)
            /\ EndOf(Latest) = PayloadAt(Latest) + Len(Latest.val)
        BY <4>1, EntryFacts
      <4>. QED BY <1>1, <1>2, <4>1, <4>2
    <3>. QED BY <3>1, <3>2
  <2>2. CASE r < p
    <3>1. r - Base + 1 \in 1 .. Len(out)
      BY <1>1, <1>2, <2>1, <2>2
    <3>2. r \in BodyEnd .. p - 1
      BY <1>1, <2>1, <2>2
    <3>. QED BY <3>1, <3>2 DEF ContentInv, ByteAt
  <2>3. CASE r >= p
    <3>1. r \in p .. q - 1
      BY <1>1, <2>1, <2>3
    <3>. QED BY <3>1, <2>1
  <2>. QED BY <2>1, <2>2, <2>3
<1>. QED BY <1>3, <1>4, <1>5 DEF ContentInv, ByteAt

\* Between two writes, and when a call returns, nothing moves.
LEMMA ContentKept ==
  ASSUME ContentInv,
         UNCHANGED <<out, accepted, finished, indexBuf>>
  PROVE  ContentInv' /\ Pos' = Pos /\ BodyEnd' = BodyEnd /\ Trailer' = Trailer
         /\ Latest' = Latest
BY DEF ContentInv, ByteAt, Pos, BodyEnd, Trailer, Latest

LEMMA ChainKept ==
  ASSUME ChainInv, accepted' = accepted
  PROVE  ChainInv'
BY DEF ChainInv, Latest

LEMMA PollSound ==
  ASSUME Sound, ~failed, PollPending
  PROVE  Placed' /\ ResultInv'
<1> USE DEF Sound, Placed, PollPending, itemVars, elemVars, indexVars, bufVars
<1>1. ContentInv' /\ Pos' = Pos /\ BodyEnd' = BodyEnd /\ Latest' = Latest
  BY ContentKept
<1>2. PosInv'
  BY <1>1 DEF PosInv, Gate
<1>3. ResultInv'
  BY DEF ResultInv
<1>. QED BY <1>1, <1>2, <1>3, ChainKept

LEMMA GrantSound ==
  ASSUME Sound, ~failed, Grant
  PROVE  Placed' /\ ResultInv'
<1> USE DEF Sound, Placed, Grant, itemVars, elemVars, indexVars, bufVars,
            callVars
<1>1. ContentInv' /\ Pos' = Pos /\ BodyEnd' = BodyEnd /\ Latest' = Latest
      /\ Trailer' = Trailer
  BY ContentKept
<1>2. PosInv'
  BY <1>1 DEF PosInv, Gate
<1>3. ResultInv'
  BY <1>1 DEF ResultInv, Unsent
<1>. QED BY <1>1, <1>2, <1>3, ChainKept

\* What a busy serializer still has to write.
LEMMA BusyUnsent ==
  ASSUME Sound, ~failed, pc = "idle", Busy
  PROVE  Unsent > 0
<1> USE DEF Sound, Unfailed, Placed
<1>1. PICK p \in Nat : p = Pos
  BY Numbers DEF TypeOK, Pos
<1>2. BodyEnd \in Nat /\ Len(Trailer) \in Nat
  BY EntriesFacts DEF Trailer, TypeOK, Byte
<1>3. ASSUME p < BodyEnd
      PROVE  Unsent > 0
  BY <1>1, <1>2, <1>3 DEF Unsent
<1>4. CASE finished
  <2>1. markerCursor = 0 /\ indexCursor = 0
    BY <1>4 DEF Busy, PhaseInv, TypeOK
  <2>2. p = BodyEnd
    BY <1>1, <1>2, <1>4, <2>1 DEF PosInv
  <2>3. Len(Trailer) > 0
    BY <1>4 DEF Trailer, TypeOK, Byte
  <2>. QED BY <1>1, <1>2, <2>2, <2>3 DEF Unsent
<1>5. CASE nextItem # None
  <2>1. accepted # << >>
    BY <1>5 DEF PhaseInv
  <2>2. /\ Latest.at \in Nat /\ PayloadAt(Latest) \in Nat
        /\ Latest.at + 1 <= PayloadAt(Latest) /\ PayloadAt(Latest) <= BodyEnd
    BY <2>1, <1>2, EntriesFacts, EntryFacts
  <2>3. CASE markerCursor = 0
    BY <1>1, <1>2, <1>3, <1>5, <2>2, <2>3 DEF PosInv
  <2>4. CASE markerCursor = 1
    BY <1>1, <1>2, <1>3, <1>5, <2>2, <2>4 DEF ResultInv
  <2>. QED BY <2>3, <2>4 DEF TypeOK
<1>6. CASE active
  <2>1. accepted # << >> /\ elem = Latest.val /\ p = PayloadAt(Latest) + elemCursor
    BY <1>1, <1>6 DEF PosInv
  <2>2. /\ PayloadAt(Latest) \in Nat /\ Len(Latest.val) \in Nat
        /\ BodyEnd = PayloadAt(Latest) + Len(Latest.val)
    BY <2>1, EntriesFacts, EntryFacts
  <2>3. elemCursor \in Nat /\ elemCursor < Len(elem)
    BY <1>6 DEF ResultInv, TypeOK
  <2>. QED BY <1>1, <1>2, <1>3, <2>1, <2>2, <2>3
<1>7. finished \/ nextItem # None \/ active
  BY DEF Busy, PhaseInv, TypeOK
<1>. QED BY <1>4, <1>5, <1>6, <1>7

LEMMA RefuseSound ==
  ASSUME Sound, ~failed, pc = "idle",
         \/ Refuse("finished")
         \/ Busy /\ Refuse("busy")
  PROVE  Placed' /\ ResultInv'
<1> USE DEF Sound, Placed, Refuse, itemVars, elemVars, indexVars, bufVars
<1>1. ContentInv' /\ Pos' = Pos /\ BodyEnd' = BodyEnd /\ Latest' = Latest
      /\ Trailer' = Trailer
  BY ContentKept
<1>2. PosInv'
  BY <1>1 DEF PosInv, Gate
<1>3. Unsent' = Unsent
  BY <1>1 DEF Unsent
<1>4. result' = "busy" => Unsent > 0
  BY BusyUnsent
<1>5. ResultInv'
  BY <1>1, <1>3, <1>4 DEF ResultInv
<1>. QED BY <1>1, <1>2, <1>5, ChainKept

LEMMA InputSound ==
  ASSUME Sound, ~failed, NEW v \in Items, Input(v)
  PROVE  Placed' /\ ResultInv'
<1>1. CASE finished \/ Busy
  BY <1>1, RefuseSound DEF Input
<1>2. CASE ~finished /\ ~Busy
  <2> USE DEF Sound, Placed, Unfailed, elemVars, bufVars
  <2>1. /\ nextItem' = v
        /\ markerCursor' = 0
        /\ aligned' = FALSE
        /\ pc' = "poll"
        /\ accepted' = Append(accepted, [at |-> Pos, val |-> v])
        /\ UNCHANGED <<active, finished, indexBuf, out>>
    BY <1>2 DEF Input
  <2>2. ~active /\ nextItem = None /\ Pos = BodyEnd
    BY <1>2 DEF Busy, PosInv
  <2>3. PICK p \in Nat : p = Pos /\ Base <= p
    BY Numbers DEF TypeOK, Pos
  <2>4. PICK e \in Entry : e = [at |-> Pos, val |-> v]
    <3>1. Pos \in Base .. MaxPos
      BY Numbers DEF TypeOK, Pos
    <3>. QED BY <3>1 DEF Entry
  <2>5. e.at = p /\ e.val = v
    BY <2>3, <2>4
  <2>6. /\ e.at + 1 <= PayloadAt(e) /\ PayloadAt(e) \in Nat
        /\ EndOf(e) \in Nat /\ PayloadAt(e) <= EndOf(e)
    BY EntryFacts
  <2>7. /\ Len(accepted) \in Nat
        /\ accepted' # << >>
        /\ Len(accepted') = Len(accepted) + 1
        /\ \A k \in 1 .. Len(accepted) : accepted'[k] = accepted[k]
        /\ accepted'[Len(accepted) + 1] = e
    <3>1. accepted \in Seq(Entry) /\ accepted' = Append(accepted, e)
      BY <2>1, <2>4 DEF TypeOK, Entry
    <3>. QED BY <3>1
  <2>8. Latest' = e /\ BodyEnd' = EndOf(e) /\ Pos' = Pos /\ Trailer' = << >>
    BY <2>1, <2>7, <1>2 DEF Latest, BodyEnd, Pos, Trailer
  <2>9. PosInv'
    <3>1. ~finished' /\ ~active' /\ markerCursor' = 0 /\ nextItem' = v
          /\ v # None
      BY <2>1, <2>2, <1>2, ItemFacts
    <3>2. nextItem' = Latest'.val /\ Pos' = Latest'.at
      BY <2>1, <2>3, <2>5, <2>8
    <3>. QED BY <3>1, <3>2 DEF PosInv
  <2>10. ChainInv'
    <3>1. ASSUME NEW k \in 1 .. Len(accepted')
          PROVE  accepted'[k].at = IF k = 1 THEN Base
                                   ELSE EndOf(accepted'[k - 1])
      <4>1. CASE k \in 1 .. Len(accepted)
        <5>1. k = 1 \/ k - 1 \in 1 .. Len(accepted)
          BY <2>7, <4>1
        <5>. QED BY <2>7, <4>1, <5>1 DEF ChainInv
      <4>2. CASE k = Len(accepted) + 1 /\ k = 1
        BY <2>2, <2>3, <2>5, <2>7, <4>2 DEF BodyEnd
      <4>3. CASE k = Len(accepted) + 1 /\ k # 1
        <5>1. k - 1 = Len(accepted) /\ Len(accepted) \in 1 .. Len(accepted)
              /\ accepted # << >>
          BY <2>7, <4>3
        <5>2. accepted'[k - 1] = Latest
          BY <2>7, <5>1 DEF Latest
        <5>3. BodyEnd = EndOf(Latest)
          BY <5>1 DEF BodyEnd, Latest
        <5>. QED BY <2>2, <2>3, <2>5, <2>7, <4>3, <5>2, <5>3
      <4>. QED BY <2>7, <4>1, <4>2, <4>3
    <3>2. ASSUME NEW k \in 1 .. Len(accepted') - 1
          PROVE  EndOf(accepted'[k]) <= e.at
      <4>1. k \in 1 .. Len(accepted) /\ accepted # << >>
        BY <2>7
      <4>2. BodyEnd = EndOf(Latest) /\ Latest \in Entry /\ accepted[k] \in Entry
        BY <4>1, EntriesFacts
      <4>3. CASE k = Len(accepted)
        BY <2>2, <2>3, <2>5, <2>7, <4>1, <4>2, <4>3, EntryFacts DEF Latest
      <4>4. CASE k # Len(accepted)
        <5>1. k \in 1 .. Len(accepted) - 1
          BY <2>7, <4>1, <4>4
        <5>2. EndOf(accepted[k]) <= Latest.at
          BY <5>1 DEF ChainInv
        <5>3. /\ EndOf(accepted[k]) \in Nat /\ Latest.at \in Nat
              /\ EndOf(Latest) \in Nat /\ Latest.at <= EndOf(Latest)
          <6>1. PICK f \in Entry : accepted[k] = f
            BY <4>2
          <6>2. PICK l \in Entry : Latest = l
            BY <4>2
          <6>3. EndOf(f) \in Nat
            BY EntryFacts
          <6>4. l.at \in Nat /\ EndOf(l) \in Nat /\ l.at <= EndOf(l)
            BY EntryFacts
          <6>. QED BY <6>1, <6>2, <6>3, <6>4
        <5>4. accepted'[k] = accepted[k]
          BY <2>7, <4>1
        <5>5. e.at = EndOf(Latest)
          BY <2>2, <2>3, <2>5, <4>2
        <5>. QED BY <5>2, <5>3, <5>4, <5>5
      <4>. QED BY <4>3, <4>4
    <3>. QED BY <3>1, <3>2, <2>8 DEF ChainInv
  <2>11. ContentInv'
    <3>1. ASSUME NEW k \in 1 .. Len(accepted'), NEW r \in accepted'[k].at .. p - 1,
                 r < EndOf(accepted'[k])
          PROVE  ByteAt(r) = ImageByte(accepted'[k], r)
      <4>1. CASE k \in 1 .. Len(accepted)
        BY <2>3, <2>7, <3>1, <4>1 DEF ContentInv
      <4>2. CASE k = Len(accepted) + 1
        BY <2>3, <2>5, <2>7, <4>2
      <4>. QED BY <2>7, <4>1, <4>2
    <3>2. ASSUME NEW r \in EndOf(e) .. p - 1
          PROVE  FALSE
      BY <2>5, <2>6
    <3>3. Pos' = p /\ out' = out
      BY <2>1, <2>3, <2>8
    <3>. QED BY <3>1, <3>2, <3>3, <2>8 DEF ContentInv, ByteAt
  <2>12. ResultInv'
    BY <2>1 DEF ResultInv
  <2>. QED BY <2>9, <2>10, <2>11, <2>12
<1>. QED BY <1>1, <1>2 DEF Sound, Unfailed, TypeOK

LEMMA FinishSound ==
  ASSUME Sound, ~failed, FinishRef
  PROVE  Placed' /\ ResultInv'
<1>1. CASE finished
  BY <1>1, PollSound DEF FinishRef
<1>2. CASE ~finished /\ Busy
  BY <1>2, RefuseSound DEF FinishRef
<1>3. CASE ~finished /\ ~Busy
  <2> USE DEF Sound, Placed, Unfailed, elemVars, indexVars
  <2>1. /\ markerCursor' = 0
        /\ finished' = TRUE
        /\ pc' # "idle"
        /\ UNCHANGED <<nextItem, elemVars, indexCursor, out, accepted>>
    BY <1>3 DEF FinishRef
  <2>2. /\ nextItem = None /\ ~active /\ indexCursor = 0
        /\ Pos = BodyEnd
    BY <1>3 DEF Busy, PosInv, PhaseInv
  <2>3. PICK p \in Nat : p = Pos
    BY Numbers DEF TypeOK, Pos
  <2>4. Pos' = p /\ BodyEnd' = p /\ out' = out /\ accepted' = accepted
    BY <2>1, <2>2, <2>3 DEF Pos, BodyEnd
  <2>5. PosInv'
    BY <2>1, <2>2, <2>3, <2>4 DEF PosInv
  <2>6. ContentInv'
    <3>1. \A k \in 1 .. Len(accepted) : \A r \in accepted[k].at .. p - 1 :
            r < EndOf(accepted[k]) => ByteAt(r) = ImageByte(accepted[k], r)
      BY <2>3 DEF ContentInv
    <3>2. \A r \in p .. p - 1 : FALSE
      BY <2>3
    <3>. QED BY <2>4, <3>1, <3>2 DEF ContentInv, ByteAt
  <2>7. ResultInv'
    BY <2>1 DEF ResultInv
  <2>. QED BY <2>4, <2>5, <2>6, <2>7, ChainKept
<1>. QED BY <1>1, <1>2, <1>3 DEF Sound, Unfailed, TypeOK

LEMMA EncodeSound ==
  ASSUME Sound, ~failed, EncodeOffset
  PROVE  Placed' /\ ResultInv'
<1> USE DEF Sound, Placed, Unfailed, itemVars, elemVars, indexVars
<1>1. /\ pc' # "idle"
      /\ UNCHANGED <<itemVars, elemVars, finished, indexCursor, out, accepted>>
  BY DEF EncodeOffset
<1>2. PICK p \in Nat : p = Pos
  BY Numbers DEF TypeOK, Pos
<1>3. finished /\ markerCursor = 0 /\ indexCursor = 0 /\ BodyEnd = p
  BY <1>2, EntriesFacts DEF EncodeOffset, PhaseInv, PosInv, TypeOK
<1>4. Pos' = p /\ BodyEnd' = p /\ Latest' = Latest
  BY <1>1, <1>2, <1>3 DEF Pos, BodyEnd, Latest
<1>5. PosInv'
  BY <1>1, <1>2, <1>3, <1>4 DEF PosInv, Gate
<1>6. ContentInv'
  <2>1. \A k \in 1 .. Len(accepted) : \A r \in accepted[k].at .. p - 1 :
          r < EndOf(accepted[k]) => ByteAt(r) = ImageByte(accepted[k], r)
    BY <1>2 DEF ContentInv
  <2>2. \A r \in p .. p - 1 : FALSE
    BY <1>2
  <2>. QED BY <1>1, <1>4, <2>1, <2>2 DEF ContentInv, ByteAt
<1>7. ResultInv'
  BY <1>1 DEF ResultInv
<1>. QED BY <1>1, <1>5, <1>6, <1>7, ChainKept

LEMMA RetireSound ==
  ASSUME Sound, ~failed, RetireElement
  PROVE  Placed' /\ ResultInv'
<1> USE DEF Sound, Placed, Unfailed, RetireElement, InElement, DropSerializer,
            itemVars, indexVars, bufVars, callVars
<1>1. ContentInv' /\ Pos' = Pos /\ BodyEnd' = BodyEnd /\ Latest' = Latest
  BY ContentKept
<1>2. /\ accepted # << >> /\ nextItem = None
      /\ Pos = PayloadAt(Latest) + Len(Latest.val)
  BY DEF PosInv, PhaseInv, Unwritten
<1>3. Pos = BodyEnd
  BY <1>2, EntriesFacts, EntryFacts
<1>4. PosInv'
  BY <1>1, <1>2, <1>3 DEF PosInv
<1>5. ResultInv'
  BY DEF ResultInv
<1>. QED BY <1>1, <1>4, <1>5, ChainKept

LEMMA ReadySound ==
  ASSUME Sound, ~failed, ReturnReady
  PROVE  Placed' /\ ResultInv'
<1> USE DEF Sound, Placed, Unfailed, ReturnReady, InElement, Return, itemVars,
            elemVars, indexVars, bufVars
<1>1. ContentInv' /\ Pos' = Pos /\ BodyEnd' = BodyEnd /\ Latest' = Latest
      /\ Trailer' = Trailer
  BY ContentKept
<1>2. PosInv'
  BY <1>1 DEF PosInv, Gate
<1>3. Pos = BodyEnd /\ Trailer = << >>
  BY DEF PosInv, Trailer
<1>4. Unsent' = 0
  BY <1>1, <1>3, EntriesFacts DEF Unsent
<1>5. ResultInv'
  BY <1>1, <1>4 DEF ResultInv
<1>. QED BY <1>1, <1>2, <1>5, ChainKept

\* A write seen as positions of the sink.
LEMMA PutAt ==
  ASSUME TypeOK, NEW b \in Seq(Byte), Put(b), NEW p \in Nat, Pos = p
  PROVE  \E n \in 0 .. Len(b) :
           /\ n = Accepts(Len(b))
           /\ Whole(Len(b)) => n = Len(b)
           /\ ~Whole(Len(b)) => n < Len(b)
           /\ Pos' = p + n
           /\ \A i \in 1 .. Len(out) : out'[i] = out[i]
           /\ \A r \in p .. p + n - 1 : out'[r - Base + 1] = b[r - p + 1]
<1>1. Len(b) \in Nat /\ Len(out) \in Nat /\ p = Base + Len(out) /\ Base \in Nat
      /\ limit \in Nat /\ p <= limit
  BY Numbers DEF TypeOK, Pos
<1>2. PICK n \in 0 .. Len(b) : n = Accepts(Len(b))
  BY PutBytes
<1>3. /\ Whole(Len(b)) => n = Len(b)
      /\ Len(out') = Len(out) + n
      /\ \A i \in 1 .. Len(out) : out'[i] = out[i]
      /\ \A i \in 1 .. n : out'[Len(out) + i] = b[i]
  BY <1>2, PutBytes
<1>4. ~Whole(Len(b)) => n < Len(b)
  BY <1>1, <1>2, ConstantsAssumption DEF Whole, Accepts, Room
<1>5. Pos' = p + n
  BY <1>1, <1>3 DEF Pos
<1>6. ASSUME NEW r \in p .. p + n - 1
      PROVE  out'[r - Base + 1] = b[r - p + 1]
  <2>1. r - p + 1 \in 1 .. n /\ Len(out) + (r - p + 1) = r - Base + 1
    BY <1>1, <1>2
  <2>. QED BY <2>1, <1>3
<1>. QED BY <1>2, <1>3, <1>4, <1>5, <1>6

LEMMA PutMarkerSound ==
  ASSUME Sound, ~failed', PutMarker
  PROVE  Placed' /\ ResultInv'
<1> USE DEF itemVars, elemVars, indexVars, bufVars
<1>1. /\ pc = "poll" /\ markerCursor = 0
      /\ Put(<<marker>>)
      /\ markerCursor' = Accepts(1)
      /\ Proceed(1)
      /\ UNCHANGED <<nextItem, marker, elemVars, finished, indexVars, bufVars,
                     limit, strict, accepted>>
  BY DEF PutMarker
<1>2. TypeOK /\ PhaseInv /\ Placed
  BY <1>1, CallTypes DEF Sound, Unfailed
<1>3. <<marker>> \in Seq(Byte) /\ Len(<<marker>>) = 1 /\ <<marker>>[1] = marker
  BY <1>2 DEF TypeOK, Byte
<1>4. PICK p \in Nat : Pos = p
  BY <1>2, Numbers DEF TypeOK, Pos
<1>5. PICK n \in 0 .. 1 :
        /\ n = Accepts(1)
        /\ ~Whole(1) => n < 1
        /\ Pos' = p + n
        /\ \A i \in 1 .. Len(out) : out'[i] = out[i]
        /\ \A r \in p .. p + n - 1 : out'[r - Base + 1] = <<marker>>[r - p + 1]
  BY <1>1, <1>2, <1>3, <1>4, PutAt
<1>6. \A r \in p .. p + n - 1 : r = p /\ out'[r - Base + 1] = marker
  BY <1>3, <1>5
<1>7. pc' = "idle" => result' = "pending" /\ n = 0
  BY <1>1, <1>2, <1>5, CallTypes
<1>8. BodyEnd \in Nat /\ BodyEnd' = BodyEnd /\ Latest' = Latest /\ ~active
  BY <1>1, <1>2, EntriesFacts DEF BodyEnd, Latest, PhaseInv
<1>9. Trailer' = Trailer
  BY <1>1 DEF Trailer
<1>10. ResultInv'
  BY <1>1, <1>5, <1>7, <1>8 DEF ResultInv
<1>11. CASE finished
  <2>1. p = BodyEnd /\ indexCursor = 0 /\ nextItem = None /\ marker = 0
    BY <1>1, <1>2, <1>4, <1>8, <1>11 DEF Placed, PosInv, PhaseInv, TypeOK
  <2>2. PosInv'
    BY <1>1, <1>5, <1>8, <1>11, <2>1 DEF PosInv
  <2>3. accepted # << >> => Latest.at <= p /\ p = EndOf(Latest) /\ EndOf(Latest) \in Nat
    BY <1>2, <2>1, EntriesFacts, EntryFacts
  <2>4. Trailer[1] = 0
    BY <1>2, <1>11 DEF Trailer, TypeOK, Byte
  <2>5. \A r \in p .. p + n - 1 :
          /\ accepted # << >> => ~(r < EndOf(Latest))
          /\ out'[r - Base + 1] = Trailer[r - BodyEnd + 1]
    BY <1>6, <2>1, <2>3, <2>4
  <2>6. ContentInv'
    <3>1. PICK q \in Nat : q = p + n
      OBVIOUS
    <3>2. ExtendsContent(p, q)
      BY <1>1, <1>2, <1>4, <1>5, <1>9, <2>3, <2>5, <3>1 DEF ExtendsContent
    <3>. QED BY <1>1, <1>2, <1>4, <1>5, <3>2, ContentExtended
             DEF Placed
  <2>. QED BY <1>1, <1>2, <1>10, <2>2, <2>6, ChainKept DEF Placed
<1>12. CASE ~finished
  <2>1. /\ marker = 1 /\ nextItem # None /\ ~aligned /\ accepted # << >>
        /\ nextItem = Latest.val /\ p = Latest.at
    BY <1>1, <1>2, <1>4, <1>12 DEF Placed, PosInv, PhaseInv
  <2>2. /\ Latest \in Entry /\ BodyEnd = EndOf(Latest)
        /\ p + 1 <= PayloadAt(Latest) /\ PayloadAt(Latest) \in Nat
        /\ EndOf(Latest) \in Nat /\ PayloadAt(Latest) <= EndOf(Latest)
        /\ ~FixedSize => PayloadAt(Latest) = p + 1
    BY <1>2, <2>1, EntriesFacts, EntryFacts
  <2>3. PosInv'
    <3>1. /\ ~finished' /\ ~active' /\ nextItem' = Latest'.val
          /\ markerCursor' = n /\ (Gate' => ~FixedSize)
      BY <1>1, <1>5, <1>8, <1>12, <2>1 DEF Gate
    <3>2. CASE n = 0
      BY <1>5, <1>8, <2>1, <3>1, <3>2 DEF PosInv
    <3>3. CASE n = 1
      BY <1>1, <1>5, <1>8, <2>1, <2>2, <3>1, <3>3 DEF PosInv
    <3>. QED BY <3>2, <3>3
  <2>4. \A r \in p .. p + n - 1 :
          /\ out'[r - Base + 1] = ImageByte(Latest, r)
          /\ ~(r >= BodyEnd)
    BY <1>6, <2>1, <2>2 DEF ImageByte
  <2>5. ContentInv'
    <3>1. PICK q \in Nat : q = p + n
      OBVIOUS
    <3>2. Latest.at <= p
      BY <2>1
    <3>3. ExtendsContent(p, q)
      BY <1>1, <1>2, <1>4, <1>5, <1>9, <2>4, <3>1, <3>2 DEF ExtendsContent
    <3>. QED BY <1>1, <1>2, <1>4, <1>5, <3>3, ContentExtended
             DEF Placed
  <2>. QED BY <1>1, <1>2, <1>10, <2>3, <2>5, ChainKept DEF Placed
<1>. QED BY <1>2, <1>11, <1>12 DEF TypeOK

LEMMA FlushSound ==
  ASSUME Sound, ~failed', FlushIndex
  PROVE  Placed' /\ ResultInv'
<1> DEFINE rest == SubSeq(indexBuf, indexCursor + 1, Len(indexBuf))
<1> USE DEF itemVars, elemVars, indexVars
<1>1. /\ pc = "poll" /\ markerCursor = 1 /\ finished
      /\ Put(rest)
      /\ indexCursor' = indexCursor + Accepts(Len(rest))
      /\ IF Whole(Len(rest)) THEN Return("ready") ELSE Proceed(Len(rest))
      /\ UNCHANGED <<itemVars, elemVars, finished, indexVars, indexBuf,
                     indexBuilt, limit, strict, accepted>>
  BY DEF FlushIndex
<1>2. TypeOK /\ indexBuf \in Seq(Byte) /\ indexCursor \in 0 .. Len(indexBuf)
  BY DEF Sound, Unfailed, TypeOK
<1>3. /\ rest \in Seq(Byte) /\ Len(rest) = Len(indexBuf) - indexCursor
      /\ \A i \in 1 .. Len(rest) : rest[i] = indexBuf[indexCursor + i]
  BY <1>2, RestBytes
<1> HIDE DEF rest
<1>4. /\ ~failed
      /\ Whole(Len(rest)) => pc' = "idle" /\ result' = "ready"
      /\ ~Whole(Len(rest)) => result' = "pending"
  BY <1>1, <1>2, <1>3, CallTypes DEF Return
<1>5. PhaseInv /\ Placed
  BY <1>4 DEF Sound, Unfailed
<1>6. PICK p \in Nat : Pos = p
  BY <1>2, Numbers DEF TypeOK, Pos
<1>7. PICK n \in 0 .. Len(rest) :
        /\ n = Accepts(Len(rest))
        /\ Whole(Len(rest)) => n = Len(rest)
        /\ Pos' = p + n
        /\ \A i \in 1 .. Len(out) : out'[i] = out[i]
        /\ \A r \in p .. p + n - 1 : out'[r - Base + 1] = rest[r - p + 1]
  BY <1>1, <1>2, <1>3, <1>6, PutAt
<1>8. /\ BodyEnd \in Nat /\ BodyEnd' = BodyEnd
      /\ p = BodyEnd + 1 + indexCursor /\ ~active /\ nextItem = None
  BY <1>1, <1>2, <1>5, <1>6, EntriesFacts
     DEF BodyEnd, Placed, PosInv, PhaseInv
<1>9. /\ Trailer' = Trailer /\ Len(Trailer) = 1 + Len(indexBuf)
      /\ \A i \in 1 .. Len(indexBuf) : Trailer[1 + i] = indexBuf[i]
  BY <1>1, <1>2 DEF Trailer, Byte
<1>10. PosInv'
  BY <1>1, <1>2, <1>3, <1>7, <1>8 DEF PosInv
<1>11. accepted # << >> => /\ Latest.at \in Nat /\ EndOf(Latest) \in Nat
                           /\ Latest.at <= p /\ EndOf(Latest) <= p
  <2>1. SUFFICES ASSUME accepted # << >>
                 PROVE  /\ Latest.at \in Nat /\ EndOf(Latest) \in Nat
                        /\ Latest.at <= p /\ EndOf(Latest) <= p
    OBVIOUS
  <2>2. Latest \in Entry /\ BodyEnd = EndOf(Latest)
    BY <1>2, <2>1, EntriesFacts
  <2>3. /\ Latest.at \in Nat /\ PayloadAt(Latest) \in Nat
        /\ Latest.at + 1 <= PayloadAt(Latest) /\ PayloadAt(Latest) <= EndOf(Latest)
    BY <2>2, EntryFacts
  <2>. QED BY <1>2, <1>8, <2>2, <2>3
<1>12. ASSUME NEW r \in p .. p + n - 1
       PROVE  /\ accepted # << >> => ~(r < EndOf(Latest))
              /\ out'[r - Base + 1] = Trailer[r - BodyEnd + 1]
  <2>1. /\ r - p + 1 \in 1 .. Len(rest)
        /\ indexCursor + (r - p + 1) \in 1 .. Len(indexBuf)
        /\ 1 + (indexCursor + (r - p + 1)) = r - BodyEnd + 1
    BY <1>2, <1>3, <1>7, <1>8
  <2>2. out'[r - Base + 1] = indexBuf[indexCursor + (r - p + 1)]
    BY <1>3, <1>7, <2>1
  <2>3. Trailer[r - BodyEnd + 1] = indexBuf[indexCursor + (r - p + 1)]
    BY <1>9, <2>1
  <2>. QED BY <1>11, <2>2, <2>3
<1>13. ContentInv'
  <2>1. PICK q \in Nat : q = p + n
    BY <1>3
  <2>2. \A r \in p .. q - 1 :
          /\ accepted # << >> => ~(r < EndOf(Latest))
          /\ out'[r - Base + 1] = Trailer[r - BodyEnd + 1]
    BY <1>12, <2>1
  <2>3. p <= q /\ Pos' = q /\ \A i \in 1 .. Len(out) : out'[i] = out[i]
    BY <1>3, <1>7, <2>1
  <2>4. accepted' = accepted /\ Trailer' = Trailer /\ Pos = p
    BY <1>1, <1>6, <1>7, <1>9
  <2>5. ExtendsContent(p, q)
    BY <1>11, <2>2, <2>3, <2>4 DEF ExtendsContent
  <2>6. TypeOK /\ ChainInv /\ ContentInv
    BY <1>2, <1>5, <1>6 DEF Placed
  <2>. QED BY <2>5, <2>6, ContentExtended
<1>14. ResultInv'
  <2>1. result' = "ready" => Unsent' = 0
    <3>1. ASSUME result' = "ready" PROVE Whole(Len(rest))
      BY <1>4, <3>1
    <3>2. ASSUME Whole(Len(rest)) PROVE Pos' = BodyEnd + Len(Trailer)
      <4>1. PICK l \in Nat, c \in Nat : Len(indexBuf) = l /\ indexCursor = c
        BY <1>2
      <4>2. PICK b \in Nat : BodyEnd = b
        BY <1>8
      <4>3. n = l - c /\ Pos' = p + n /\ n \in Int
        BY <1>3, <1>7, <3>2, <4>1
      <4>4. p = b + 1 + c /\ Len(Trailer) = 1 + l
        BY <1>8, <1>9, <4>1, <4>2
      <4>. QED BY <4>1, <4>2, <4>3, <4>4
    <3>3. ASSUME Pos' = BodyEnd + Len(Trailer) PROVE Unsent' = 0
      BY <1>2, <1>8, <1>9, <3>3 DEF Unsent
    <3>. QED BY <3>1, <3>2, <3>3
  <2>. QED BY <1>1, <1>4, <1>8, <2>1 DEF ResultInv
<1>. QED BY <1>1, <1>5, <1>10, <1>13, <1>14, ChainKept DEF Placed

LEMMA AlignSound ==
  ASSUME Sound, ~failed', TryAlign
  PROVE  Placed' /\ ResultInv'
<1> DEFINE pad == Padding(Pos)
<1> USE DEF indexVars, bufVars
<1>1. /\ InElement /\ (active \/ nextItem # None) /\ ~Gate
      /\ Put(Zeros(pad))
      /\ aligned' = GateOpens(pad)
      /\ nextItem' = IF strict /\ ~Whole(pad) THEN None ELSE nextItem
      /\ Proceed(pad)
      /\ UNCHANGED <<marker, markerCursor, elem, elemCursor, active, started,
                     finished, indexVars, bufVars, limit, strict, accepted>>
  BY DEF TryAlign
<1>2. TypeOK /\ Len(out) \in Nat
  BY DEF Sound, Unfailed, TypeOK
<1>3. PICK p \in Nat : Pos = p
  BY <1>2, Numbers DEF Pos
<1>4. /\ pad \in Nat /\ Zeros(pad) \in Seq(Byte) /\ Len(Zeros(pad)) = pad
      /\ \A i \in 1 .. pad : Zeros(pad)[i] = 0
  BY <1>3, PaddingNat DEF Zeros
<1> HIDE DEF pad
<1>5. /\ ~failed
      /\ Whole(pad) => pc' = "poll"
      /\ ~Whole(pad) => ~strict /\ result' = "pending"
  BY <1>1, <1>2, <1>4, CallTypes DEF InElement
<1>6. PhaseInv /\ Placed
  BY <1>5 DEF Sound, Unfailed
<1>7. PICK n \in 0 .. pad :
        /\ Whole(pad) => n = pad
        /\ ~Whole(pad) => n < pad
        /\ Pos' = p + n
        /\ \A i \in 1 .. Len(out) : out'[i] = out[i]
        /\ \A r \in p .. p + n - 1 : out'[r - Base + 1] = Zeros(pad)[r - p + 1]
  <2>1. PICK b \in Seq(Byte) : Zeros(pad) = b
    BY <1>4
  <2>2. Len(b) = pad /\ Put(b)
    BY <1>1, <1>4, <2>1
  <2>3. \E n \in 0 .. Len(b) :
          /\ Whole(Len(b)) => n = Len(b)
          /\ ~Whole(Len(b)) => n < Len(b)
          /\ Pos' = p + n
          /\ \A i \in 1 .. Len(out) : out'[i] = out[i]
          /\ \A r \in p .. p + n - 1 : out'[r - Base + 1] = b[r - p + 1]
    BY <1>2, <1>3, <2>2, PutAt
  <2>. QED BY <2>1, <2>2, <2>3
<1>8. /\ FixedSize /\ ~aligned /\ ~active /\ nextItem # None /\ nextItem' = nextItem
      /\ markerCursor = 1 /\ ~finished /\ accepted # << >>
  BY <1>1, <1>5, <1>6 DEF InElement, Gate, PhaseInv
<1>9. /\ nextItem = Latest.val /\ Latest.at + 1 <= p /\ p <= PayloadAt(Latest)
      /\ Latest' = Latest /\ BodyEnd' = BodyEnd /\ Trailer' = Trailer
  BY <1>1, <1>3, <1>6, <1>8 DEF Placed, PosInv, Latest, BodyEnd, Trailer
<1>10. /\ Latest \in Entry /\ Latest.at \in Nat /\ BodyEnd = EndOf(Latest)
       /\ PayloadAt(Latest) = Latest.at + 1 + Padding(Latest.at + 1)
       /\ PayloadAt(Latest) \in Nat /\ EndOf(Latest) \in Nat
       /\ PayloadAt(Latest) <= EndOf(Latest)
  BY <1>2, <1>8, EntriesFacts, EntryFacts
<1>11. p + pad = PayloadAt(Latest)
  BY <1>3, <1>9, <1>10, PaddingStable DEF pad
<1>12. PosInv'
  <2>1. ~active' /\ ~finished' /\ markerCursor' = 1 /\ nextItem' = Latest'.val
    BY <1>1, <1>8, <1>9
  <2>2. Latest.at + 1 <= p + n /\ p + n <= PayloadAt(Latest)
    BY <1>4, <1>7, <1>9, <1>10, <1>11
  <2>3. Gate' => p + n = PayloadAt(Latest)
    BY <1>1, <1>7, <1>8, <1>11 DEF Gate, GateOpens
  <2>. QED BY <1>7, <1>8, <1>9, <2>1, <2>2, <2>3 DEF PosInv
<1>13. ASSUME NEW r \in p .. p + n - 1
       PROVE  /\ out'[r - Base + 1] = ImageByte(Latest, r)
              /\ ~(r >= BodyEnd)
  <2>1. /\ r - p + 1 \in 1 .. pad /\ r # Latest.at /\ r < PayloadAt(Latest)
        /\ ~(r >= BodyEnd)
    BY <1>4, <1>7, <1>9, <1>10, <1>11
  <2>2. out'[r - Base + 1] = 0
    BY <1>4, <1>7, <2>1
  <2>. QED BY <2>1, <2>2 DEF ImageByte
<1>14. ContentInv'
  <2>1. PICK q \in Nat : q = p + n
    BY <1>4
  <2>2. Latest.at <= p
    BY <1>9, <1>10
  <2>3. ExtendsContent(p, q)
    BY <1>1, <1>2, <1>3, <1>6, <1>7, <1>9, <1>13, <2>1, <2>2 DEF ExtendsContent
  <2>. QED BY <1>1, <1>2, <1>3, <1>6, <2>3, ContentExtended DEF Placed
<1>15. ResultInv'
  <2>1. pc' = "idle" => ~Whole(pad) /\ result' = "pending"
    BY <1>5
  <2>2. ~Whole(pad) => p + n < PayloadAt(Latest)
    BY <1>4, <1>7, <1>10, <1>11
  <2>. QED BY <1>1, <1>7, <1>8, <1>9, <2>1, <2>2 DEF ResultInv
<1>. QED BY <1>1, <1>6, <1>12, <1>14, <1>15, ChainKept DEF Placed

\* The step writes n payload bytes of the last element, from its byte c + 1.
ExtendsPayload(c, n, p, q) ==
  /\ accepted # << >> /\ accepted' = accepted /\ Trailer' = Trailer
  /\ c + n <= Len(Latest.val)
  /\ Pos = p /\ PayloadAt(Latest) + c = p
  /\ Pos' = q /\ p + n = q
  /\ \A i \in 1 .. Len(out) : out'[i] = out[i]
  /\ \A r \in p .. q - 1 : out'[r - Base + 1] = Latest.val[c + (r - p + 1)]

\* Payload bytes of the last element, put where the element has them.
LEMMA PayloadExtended ==
  ASSUME TypeOK, ChainInv, ContentInv, NEW c \in Nat, NEW n \in Nat,
         NEW p \in Nat, NEW q \in Nat, ExtendsPayload(c, n, p, q)
  PROVE  ContentInv'
<1> USE DEF ExtendsPayload
<1>1. /\ Latest \in Entry /\ BodyEnd = EndOf(Latest)
      /\ Latest.at \in Nat /\ Len(Latest.val) \in Nat
      /\ PayloadAt(Latest) \in Nat /\ Latest.at + 1 <= PayloadAt(Latest)
      /\ EndOf(Latest) = PayloadAt(Latest) + Len(Latest.val)
  BY EntriesFacts, EntryFacts
<1>2. Latest.at <= p
  BY <1>1
<1>3. ASSUME NEW r \in p .. q - 1
      PROVE  /\ out'[r - Base + 1] = ImageByte(Latest, r)
             /\ ~(r >= BodyEnd)
  <2>1. r \in Nat /\ p <= r /\ r < q
    OBVIOUS
  <2>2. r # Latest.at /\ ~(r < PayloadAt(Latest))
    BY <1>1, <2>1
  <2>3. ~(r >= BodyEnd)
    <3>1. q <= BodyEnd
      BY <1>1
    <3>. QED BY <1>1, <2>1, <3>1
  <2>4. c + (r - p + 1) = r - PayloadAt(Latest) + 1
    <3>1. PICK y \in Nat : PayloadAt(Latest) = y
      BY <1>1
    <3>2. y + c = p
      BY <3>1
    <3>3. c + (r - p + 1) = r - y + 1
      BY <2>1, <3>2
    <3>. QED BY <3>1, <3>3
  <2>. QED BY <2>2, <2>3, <2>4 DEF ImageByte
<1>4. p <= q
  OBVIOUS
<1>5. ExtendsContent(p, q)
  BY <1>2, <1>3, <1>4 DEF ExtendsContent
<1>. QED BY <1>5, ContentExtended

LEMMA StartSound ==
  ASSUME Sound, ~failed', StartElement
  PROVE  Placed' /\ ResultInv'
<1> USE DEF indexVars, bufVars
<1>1. /\ InElement /\ ~active /\ nextItem # None /\ Gate
      /\ Put(nextItem)
      /\ elem' = nextItem
      /\ elemCursor' = Accepts(Len(nextItem))
      /\ nextItem' = None
      /\ active' = (Whole(Len(nextItem)) \/ ~strict)
      /\ Proceed(Len(nextItem))
      /\ UNCHANGED <<marker, markerCursor, aligned, finished, indexVars,
                     bufVars, limit, strict, accepted>>
  BY DEF StartElement
<1>2. TypeOK /\ nextItem \in Seq(Byte) /\ Len(nextItem) \in Nat
  BY <1>1, ItemFacts DEF Sound, Unfailed, TypeOK
<1>3. /\ ~failed
      /\ Whole(Len(nextItem)) => pc' = "poll"
      /\ ~Whole(Len(nextItem)) => ~strict /\ result' = "pending"
  BY <1>1, <1>2, CallTypes DEF InElement
<1>4. PhaseInv /\ Placed /\ active' = TRUE
  BY <1>1, <1>3 DEF Sound, Unfailed
<1>5. PICK p \in Nat : Pos = p
  BY <1>2, Numbers DEF TypeOK, Pos
<1>6. PICK n \in 0 .. Len(nextItem) :
        /\ n = Accepts(Len(nextItem))
        /\ ~Whole(Len(nextItem)) => n < Len(nextItem)
        /\ Pos' = p + n
        /\ \A i \in 1 .. Len(out) : out'[i] = out[i]
        /\ \A r \in p .. p + n - 1 : out'[r - Base + 1] = nextItem[r - p + 1]
  BY <1>1, <1>2, <1>5, PutAt
<1>7. /\ ~finished /\ markerCursor = 1 /\ accepted # << >>
      /\ nextItem = Latest.val /\ p = PayloadAt(Latest)
  BY <1>1, <1>4, <1>5 DEF InElement, PhaseInv, Placed, PosInv
<1>8. Latest' = Latest /\ Trailer' = Trailer /\ elemCursor' = n
  BY <1>1, <1>6 DEF Latest, Trailer
<1>9. PosInv'
  BY <1>1, <1>4, <1>6, <1>7, <1>8 DEF PosInv
<1>10. ContentInv'
  <2>1. PICK q \in Nat : p + n = q
    BY <1>2
  <2>2. PICK c \in Nat : c = 0
    OBVIOUS
  <2>3. PayloadAt(Latest) + c = p /\ c + n <= Len(Latest.val) /\ n \in Nat
    BY <1>2, <1>7, <2>2
  <2>4. ASSUME NEW r \in p .. q - 1
        PROVE  out'[r - Base + 1] = Latest.val[c + (r - p + 1)]
    <3>1. r \in p .. p + n - 1 /\ c + (r - p + 1) = r - p + 1
      BY <1>2, <2>1, <2>2
    <3>. QED BY <1>6, <1>7, <3>1
  <2>5. Pos' = q /\ \A i \in 1 .. Len(out) : out'[i] = out[i]
    BY <1>6, <2>1
  <2>6. TypeOK /\ ChainInv /\ ContentInv
    BY <1>2, <1>4, <1>5 DEF Placed
  <2>7. /\ accepted # << >> /\ accepted' = accepted
        /\ Trailer' = Trailer
    BY <1>1, <1>7, <1>8
  <2>8. \A r \in p .. q - 1 : out'[r - Base + 1] = Latest.val[c + (r - p + 1)]
    BY <2>4
  <2>9. ExtendsPayload(c, n, p, q)
    BY <1>5, <2>1, <2>3, <2>4, <2>5, <2>7, <2>8 DEF ExtendsPayload
  <2>10. n \in Nat
    BY <2>3, <2>4
  <2>. QED BY <2>6, <2>9, <2>10, PayloadExtended
<1>11. ResultInv'
  BY <1>1, <1>2, <1>3, <1>6, <1>8 DEF ResultInv
<1>. QED BY <1>1, <1>4, <1>9, <1>10, <1>11, ChainKept DEF Placed

LEMMA ResumeSound ==
  ASSUME Sound, ~failed', ResumeElement
  PROVE  Placed' /\ ResultInv'
<1> DEFINE rest == SubSeq(elem, elemCursor + 1, Len(elem))
<1> USE DEF itemVars, indexVars, bufVars
<1>1. /\ InElement /\ active /\ Gate
      /\ Put(rest)
      /\ IF Whole(Len(rest))
         THEN DropSerializer
         ELSE /\ elemCursor' = elemCursor + Accepts(Len(rest))
              /\ UNCHANGED <<elem, active, started, aligned>>
      /\ Proceed(Len(rest))
      /\ UNCHANGED <<itemVars, finished, indexVars, bufVars, limit,
                     strict, accepted>>
  BY DEF ResumeElement
<1>2. /\ TypeOK /\ elem \in Seq(Byte) /\ elemCursor \in 0 .. Len(elem)
      /\ Len(elem) \in Nat
  BY <1>1, ItemFacts DEF Sound, Unfailed, TypeOK, PhaseInv
<1>3. /\ rest \in Seq(Byte) /\ Len(rest) = Len(elem) - elemCursor
      /\ \A i \in 1 .. Len(rest) : rest[i] = elem[elemCursor + i]
  BY <1>2, RestBytes
<1> HIDE DEF rest
<1>4. /\ ~failed
      /\ Whole(Len(rest)) => pc' = "poll"
      /\ ~Whole(Len(rest)) => ~strict /\ result' = "pending"
  BY <1>1, <1>2, <1>3, CallTypes DEF InElement
<1>5. PhaseInv /\ Placed
  BY <1>4 DEF Sound, Unfailed
<1>6. PICK p \in Nat : Pos = p
  BY <1>2, Numbers DEF TypeOK, Pos
<1>7. PICK n \in 0 .. Len(rest) :
        /\ n = Accepts(Len(rest))
        /\ Whole(Len(rest)) => n = Len(rest)
        /\ ~Whole(Len(rest)) => n < Len(rest)
        /\ Pos' = p + n
        /\ \A i \in 1 .. Len(out) : out'[i] = out[i]
        /\ \A r \in p .. p + n - 1 : out'[r - Base + 1] = rest[r - p + 1]
  BY <1>1, <1>2, <1>3, <1>6, PutAt
<1>8. /\ ~finished /\ nextItem = None /\ accepted # << >>
      /\ elem = Latest.val /\ p = PayloadAt(Latest) + elemCursor
  BY <1>1, <1>5, <1>6 DEF InElement, PhaseInv, Placed, PosInv
<1>9. Latest' = Latest /\ Trailer' = Trailer /\ BodyEnd' = BodyEnd
  BY <1>1 DEF Latest, Trailer, BodyEnd
<1>10. PayloadAt(Latest) \in Nat /\ BodyEnd = PayloadAt(Latest) + Len(Latest.val)
  BY <1>2, <1>8, EntriesFacts, EntryFacts
<1>11. PosInv'
  <2>1. CASE Whole(Len(rest))
    <3>1. ~active' /\ p + n = BodyEnd
      BY <1>1, <1>2, <1>3, <1>7, <1>8, <1>10, <2>1 DEF DropSerializer
    <3>. QED BY <1>1, <1>7, <1>8, <1>9, <3>1 DEF PosInv
  <2>2. CASE ~Whole(Len(rest))
    <3>1. elemCursor' = elemCursor + n /\ elem' = elem
      BY <1>1, <1>7, <2>2
    <3>2. p + n = PayloadAt(Latest) + (elemCursor + n)
      BY <1>2, <1>3, <1>8, <1>10
    <3>. QED BY <1>1, <1>7, <1>8, <1>9, <3>1, <3>2, <2>2 DEF PosInv
  <2>. QED BY <2>1, <2>2
<1>12. ContentInv'
  <2>1. PICK q \in Nat : p + n = q
    BY <1>2, <1>3
  <2>2. PICK c \in Nat : elemCursor = c
    BY <1>2
  <2>3. ASSUME NEW r \in p .. q - 1
        PROVE  out'[r - Base + 1] = Latest.val[c + (r - p + 1)]
    <3>1. r \in p .. p + n - 1 /\ r - p + 1 \in 1 .. Len(rest)
      BY <1>2, <1>3, <2>1
    <3>. QED BY <1>3, <1>7, <1>8, <2>2, <3>1
  <2>4. c + n <= Len(Latest.val) /\ PayloadAt(Latest) + c = p /\ n \in Nat
    BY <1>2, <1>3, <1>8, <2>2
  <2>5. Pos' = q /\ \A i \in 1 .. Len(out) : out'[i] = out[i]
    BY <1>7, <2>1
  <2>6. TypeOK /\ ChainInv /\ ContentInv
    BY <1>2, <1>4, <1>5 DEF Placed
  <2>7. /\ accepted # << >> /\ accepted' = accepted
        /\ Trailer' = Trailer
    BY <1>1, <1>8, <1>9
  <2>8. \A r \in p .. q - 1 : out'[r - Base + 1] = Latest.val[c + (r - p + 1)]
    BY <2>3
  <2>9. ExtendsPayload(c, n, p, q)
    BY <1>6, <2>1, <2>3, <2>4, <2>5, <2>7, <2>8 DEF ExtendsPayload
  <2>10. n \in Nat
    BY <2>3, <2>4
  <2>. QED BY <2>6, <2>9, <2>10, PayloadExtended
<1>13. ResultInv'
  <2>1. pc' = "idle" => ~Whole(Len(rest)) /\ result' = "pending"
    BY <1>4
  <2>2. ~Whole(Len(rest)) => elemCursor' < Len(elem')
    BY <1>1, <1>2, <1>3, <1>7
  <2>. QED BY <1>1, <1>8, <2>1, <2>2 DEF ResultInv
<1>. QED BY <1>1, <1>5, <1>11, <1>12, <1>13, ChainKept DEF Placed

LEMMA SoundInit ==
  Init => Sound
<1> SUFFICES ASSUME Init PROVE Sound
  OBVIOUS
<1>1. Pos = Base /\ Base \in Nat /\ BodyEnd = Base
  BY Numbers DEF Init, Pos, BodyEnd
<1>2. PosInv /\ ChainInv
  BY <1>1 DEF Init, PosInv, ChainInv
<1>3. ContentInv
  BY <1>1 DEF Init, ContentInv
<1>4. ResultInv
  BY DEF Init, ResultInv
<1>. QED BY UnfailedInit, <1>2, <1>3, <1>4 DEF Sound, Placed

LEMMA SoundNext ==
  ASSUME Sound, [Next]_vars
  PROVE  Sound'
<1>1. Unfailed'
  BY UnfailedNext DEF Sound
<1>2. SUFFICES ASSUME ~failed'
               PROVE  Placed' /\ ResultInv'
  BY <1>1 DEF Sound
<1>3. CASE UNCHANGED vars
  <2> USE <1>3 DEF vars, itemVars, elemVars, indexVars, bufVars, callVars
  <2>1. ContentInv' /\ Pos' = Pos /\ BodyEnd' = BodyEnd /\ Latest' = Latest
        /\ Trailer' = Trailer /\ Placed /\ ResultInv
    BY <1>2, ContentKept DEF Sound, Placed
  <2>2. PosInv'
    BY <2>1 DEF Placed, PosInv, Gate
  <2>3. ResultInv'
    BY <2>1 DEF ResultInv, Unsent
  <2>. QED BY <2>1, <2>2, <2>3, ChainKept DEF Placed
<1>4. CASE \E v \in Items : Input(v)
  <2>1. ~failed
    BY <1>2, <1>4 DEF Input, Refuse
  <2>. QED BY <1>4, <2>1, InputSound
<1>5. CASE PollPending
  BY <1>2, <1>5, PollSound DEF PollPending
<1>6. CASE FinishRef
  <2>1. ~failed
    BY <1>2, <1>6 DEF FinishRef, PollPending, Refuse
  <2>. QED BY <1>6, <2>1, FinishSound
<1>7. CASE Grant
  BY <1>2, <1>7, GrantSound DEF Grant, callVars
<1>8. CASE EncodeOffset
  BY <1>2, <1>8, EncodeSound DEF EncodeOffset
<1>9. CASE RetireElement
  BY <1>2, <1>9, RetireSound DEF RetireElement, callVars
<1>10. CASE ReturnReady
  BY <1>2, <1>10, ReadySound DEF ReturnReady, Return
<1>11. CASE PutMarker \/ FlushIndex \/ TryAlign \/ StartElement
            \/ ResumeElement
  BY <1>2, <1>11, PutMarkerSound, FlushSound, AlignSound, StartSound,
     ResumeSound
<1>. QED BY <1>3, <1>4, <1>5, <1>6, <1>7, <1>8, <1>9, <1>10, <1>11
         DEF Next, Step

LEMMA SoundAlways == Spec => []Sound
BY SoundInit, SoundNext, PTL DEF Spec

\* The sink never holds more than what was accepted.
LEMMA NeverBeyond ==
  ASSUME TypeOK, PhaseInv, PosInv
  PROVE  Unsent >= 0
<1>1. PICK p \in Nat, b \in Nat : Pos = p /\ BodyEnd = b
  BY EntriesFacts, Numbers DEF TypeOK, Pos
<1>2. PICK t \in Nat : /\ Len(Trailer) = t
                       /\ finished => t = 1 + Len(indexBuf)
  <2>1. indexBuf \in Seq(Byte) /\ Len(indexBuf) \in Nat
    BY DEF TypeOK
  <2>2. CASE finished
    <3>1. Len(Trailer) = 1 + Len(indexBuf)
      BY <2>1, <2>2 DEF Trailer, Byte
    <3>. QED BY <2>1, <2>2, <3>1
  <2>3. CASE ~finished
    BY <2>3 DEF Trailer
  <2>. QED BY <2>2, <2>3
<1>3. p <= b + t
  <2>1. CASE finished
    <3>1. /\ markerCursor \in 0 .. 1 /\ indexCursor \in 0 .. Len(indexBuf)
          /\ Len(indexBuf) \in Nat
      BY DEF TypeOK
    <3>2. p = b + markerCursor + indexCursor
      BY <1>1, <2>1 DEF PosInv
    <3>. QED BY <1>1, <1>2, <2>1, <3>1, <3>2
  <2>2. CASE ~finished /\ ~active /\ nextItem = None
    BY <1>1, <1>2, <2>2 DEF PosInv
  <2>3. CASE active \/ nextItem # None
    <3>1. accepted # << >>
      BY <2>3 DEF PhaseInv, PosInv
    <3>2. Latest \in Entry /\ EndOf(Latest) = b
      BY <1>1, <3>1, EntriesFacts
    <3>3. PICK a \in Nat, y \in Nat, l \in Nat :
            /\ Latest.at = a /\ PayloadAt(Latest) = y /\ Len(Latest.val) = l
            /\ a + 1 <= y /\ b = y + l
      BY <3>2, EntryFacts DEF EndOf
    <3>4. CASE active
      <4>1. p = y + elemCursor /\ elemCursor \in Nat /\ elemCursor <= l
        BY <1>1, <3>3, <3>4 DEF PosInv, PhaseInv, TypeOK
      <4>. QED BY <1>1, <1>2, <3>3, <4>1
    <3>5. CASE nextItem # None
      <4>1. p = a \/ p <= y
        BY <1>1, <3>3, <3>5 DEF PosInv, TypeOK
      <4>. QED BY <1>1, <1>2, <3>3, <4>1
    <3>. QED BY <2>3, <3>4, <3>5
  <2>. QED BY <2>1, <2>2, <2>3
<1>. QED BY <1>1, <1>2, <1>3 DEF Unsent

\* Whatever the room and the order of the calls, the sink holds the elements
\* one behind the other at their aligned places, then the terminator and the
\* index (sequence.rs:207-343).
THEOREM Placement == Spec => []ElementsInPlace
<1>1. Sound => ElementsInPlace
  <2>1. Sound /\ ~failed => TypeOK /\ PhaseInv /\ Placed
    BY DEF Sound, Unfailed
  <2>2. Sound /\ ~failed => Unsent >= 0
    BY <2>1, NeverBeyond DEF Placed
  <2>. QED BY <2>1, <2>2 DEF Placed, ChainInv, ContentInv, ElementsInPlace
<1>. QED BY <1>1, SoundAlways, PTL

\* `Ready` is returned only when nothing of what was fed is unsent
\* (sequence.rs:265-284, 339-341).
THEOREM ReadyIsHonest == Spec => []ReadyMeansWritten
<1>1. Sound => ReadyMeansWritten
  BY DEF Sound, ResultInv, ReadyMeansWritten
<1>. QED BY <1>1, SoundAlways, PTL

\* An element is refused as busy only while an earlier one is being written
\* (sequence.rs:218-223).
THEOREM BusyIsHonest == Spec => []BusyOnlyWhileUnsent
<1>1. Sound => BusyOnlyWhileUnsent
  BY DEF Sound, ResultInv, BusyOnlyWhileUnsent
<1>. QED BY <1>1, SoundAlways, PTL

-----------------------------------------------------------------------------
(* A pending call *)

\* A write after which a call returns pending has filled the sink.
LEMMA CutShort ==
  ASSUME TypeOK, NEW b \in Seq(Byte), Put(b), Proceed(Len(b)),
         pc = "poll", pc' = "idle", result' = "pending"
  PROVE  /\ ~strict /\ ~Whole(Len(b))
         /\ Accepts(Len(b)) \in 0 .. Len(b) /\ Accepts(Len(b)) < Len(b)
         /\ Pos' = limit
<1>1. ~Whole(Len(b))
  BY DEF Proceed, callVars
<1>2. ~strict
  BY <1>1 DEF Proceed
<1>3. /\ Accepts(Len(b)) \in 0 .. Len(b) /\ Accepts(Len(b)) < Len(b)
      /\ Accepts(Len(b)) = limit - Pos
  <2>1. /\ limit \in Nat /\ Pos \in Nat /\ Len(b) \in Nat
        /\ Pos <= limit
    BY Numbers DEF TypeOK, Pos
  <2>2. Len(b) > limit - Pos
    BY <1>1, <2>1 DEF Whole, Room
  <2>. QED BY <1>2, <2>1, <2>2 DEF Accepts, Room
<1>4. Len(out') = Len(out) + Accepts(Len(b))
  BY PutBytes
<1>5. /\ limit \in Nat /\ Base \in Nat /\ Len(out) \in Nat
      /\ Pos = Base + Len(out) /\ Pos' = Base + Len(out')
  BY Numbers DEF TypeOK, Pos
<1>. QED BY <1>1, <1>2, <1>3, <1>4, <1>5

\* BusyUnsent, about the state behind a step.
LEMMA BusyUnsentNext ==
  Sound' /\ ~failed' /\ pc' = "idle" /\ Busy' => Unsent' > 0
<1>1. Sound /\ ~failed /\ pc = "idle" /\ Busy => Unsent > 0
  BY BusyUnsent
<1>2. (Sound /\ ~failed /\ pc = "idle" /\ Busy => Unsent > 0)'
  BY <1>1, PTL
<1>. QED BY <1>2

\* The index is cut short: there is more of it.
LEMMA IndexCutShort ==
  ASSUME Sound, Sound', FlushIndex, pc' = "idle", result' = "pending"
  PROVE  Pos' = limit /\ (~failed' => Unsent' > 0)
<1> DEFINE rest == SubSeq(indexBuf, indexCursor + 1, Len(indexBuf))
<1>1. TypeOK /\ indexBuf \in Seq(Byte) /\ indexCursor \in 0 .. Len(indexBuf)
  BY DEF Sound, Unfailed, TypeOK
<1>2. rest \in Seq(Byte) /\ Len(rest) = Len(indexBuf) - indexCursor
  BY <1>1, RestBytes
<1>3. /\ Put(rest) /\ pc = "poll" /\ Proceed(Len(rest))
      /\ indexCursor' = indexCursor + Accepts(Len(rest))
      /\ finished' /\ markerCursor' = 1 /\ indexBuf' = indexBuf
  BY DEF FlushIndex, Return, itemVars
<1> HIDE DEF rest
<1>4. /\ Accepts(Len(rest)) \in 0 .. Len(rest)
      /\ Accepts(Len(rest)) < Len(rest) /\ Pos' = limit
  BY <1>1, <1>2, <1>3, CutShort
<1>5. ASSUME ~failed' PROVE Unsent' > 0
  <2>1. Pos' = BodyEnd' + 1 + indexCursor'
    BY <1>3, <1>5 DEF Sound, Placed, PosInv
  <2>2. Len(Trailer') = 1 + Len(indexBuf)
    BY <1>1, <1>3 DEF Trailer, Byte
  <2>3. Len(indexBuf) \in Nat /\ indexCursor \in Nat /\ Pos' \in Nat
    BY <1>1, <1>4, Numbers DEF TypeOK
  <2>4. indexCursor' \in Nat /\ indexCursor' < Len(indexBuf)
    BY <1>2, <1>3, <1>4, <2>3
  <2>5. BodyEnd' \in Nat
    <3>1. TypeOK => BodyEnd \in Nat
      BY EntriesFacts
    <3>2. accepted' = accepted
      BY DEF FlushIndex
    <3>. QED BY <1>1, <3>1, <3>2 DEF BodyEnd, EndOf, PayloadAt
  <2>. QED BY <2>1, <2>2, <2>3, <2>4, <2>5 DEF Unsent
<1>. QED BY <1>4, <1>5

\* Any other write is cut short with an element queued or active, or a marker
\* to be put.
LEMMA ElementCutShort ==
  ASSUME Sound, Sound', pc' = "idle", result' = "pending",
         PutMarker \/ TryAlign \/ StartElement \/ ResumeElement
  PROVE  Pos' = limit /\ (~failed' => Unsent' > 0)
<1> USE DEF itemVars, elemVars
<1>1. SUFFICES Pos' = limit /\ Busy'
  BY BusyUnsentNext
<1>2. TypeOK /\ PhaseInv /\ pc = "poll"
  BY DEF Sound, Unfailed, PutMarker, TryAlign, StartElement, ResumeElement,
         InElement
<1>3. CASE PutMarker
  <2>1. /\ <<marker>> \in Seq(Byte) /\ Len(<<marker>>) = 1
    BY <1>2 DEF TypeOK, Byte
  <2>2. /\ Put(<<marker>>) /\ Proceed(Len(<<marker>>))
        /\ markerCursor' = Accepts(Len(<<marker>>))
    BY <1>3, <2>1 DEF PutMarker
  <2>3. /\ Accepts(Len(<<marker>>)) < Len(<<marker>>) /\ Pos' = limit
        /\ Accepts(Len(<<marker>>)) \in 0 .. Len(<<marker>>)
    BY <1>2, <2>1, <2>2, CutShort
  <2>. QED BY <2>1, <2>2, <2>3 DEF Busy
<1>4. CASE TryAlign
  <2>1. PICK p \in Nat : Pos = p
    BY <1>2, Numbers DEF TypeOK, Pos
  <2>2. Padding(Pos) \in Nat /\ Zeros(Padding(Pos)) \in Seq(Byte)
    BY <2>1, PaddingNat
  <2>3. Len(Zeros(Padding(Pos))) = Padding(Pos)
    BY <2>2 DEF Zeros
  <2>4. /\ Put(Zeros(Padding(Pos))) /\ Proceed(Padding(Pos))
        /\ active \/ nextItem # None
        /\ active' = active
        /\ ~strict => nextItem' = nextItem
    BY <1>4 DEF TryAlign
  <2>5. ~strict /\ Pos' = limit
    BY <1>2, <2>2, <2>3, <2>4, CutShort
  <2>. QED BY <2>4, <2>5 DEF Busy
<1>5. CASE StartElement
  <2>1. nextItem \in Seq(Byte)
    BY <1>2, <1>5, ItemFacts DEF StartElement, TypeOK
  <2>2. /\ Put(nextItem) /\ Proceed(Len(nextItem))
        /\ active' = (Whole(Len(nextItem)) \/ ~strict)
    BY <1>5 DEF StartElement
  <2>3. ~strict /\ Pos' = limit
    BY <1>2, <2>1, <2>2, CutShort
  <2>. QED BY <2>2, <2>3 DEF Busy
<1>6. CASE ResumeElement
  <2> DEFINE rest == SubSeq(elem, elemCursor + 1, Len(elem))
  <2>1. elem \in Seq(Byte) /\ elemCursor \in 0 .. Len(elem) /\ active
    BY <1>2, <1>6, ItemFacts DEF ResumeElement, TypeOK, PhaseInv
  <2>2. rest \in Seq(Byte)
    BY <2>1, RestBytes
  <2>3. /\ Put(rest) /\ Proceed(Len(rest))
        /\ ~Whole(Len(rest)) => active' = active
    BY <1>6 DEF ResumeElement
  <2> HIDE DEF rest
  <2>4. ~Whole(Len(rest)) /\ Pos' = limit
    BY <1>2, <2>2, <2>3, CutShort
  <2>. QED BY <2>1, <2>3, <2>4 DEF Busy
<1>. QED BY <1>3, <1>4, <1>5, <1>6

\* A call returns Pending only when it has filled the sink and has more to
\* write, so a caller that makes room always gets further
\* (sequence.rs:252-343).
THEOREM PendingIsHonest == Spec => PendingMeansFull
<1>1. Sound /\ Sound' /\ [Next]_vars
        => [pc = "poll" /\ pc' = "idle" /\ result' = "pending"
              => /\ Pos' = limit
                 /\ ~failed' => Unsent' > 0]_vars
  <2>1. SUFFICES ASSUME Sound, Sound', Next,
                        pc = "poll", pc' = "idle", result' = "pending"
                 PROVE  Pos' = limit /\ (~failed' => Unsent' > 0)
    OBVIOUS
  <2>2. ~(\E v \in Items : Input(v)) /\ ~PollPending /\ ~FinishRef /\ ~Grant
    BY <2>1 DEF Input, PollPending, FinishRef, Grant
  <2>3. ~EncodeOffset /\ ~RetireElement /\ ~ReturnReady
    BY <2>1 DEF EncodeOffset, RetireElement, ReturnReady, Return, callVars
  <2>4. FlushIndex \/ PutMarker \/ TryAlign \/ StartElement \/ ResumeElement
    BY <2>1, <2>2, <2>3 DEF Next, Step
  <2>. QED BY <2>1, <2>4, IndexCutShort, ElementCutShort
<1>. QED BY <1>1, SoundAlways, PTL DEF Spec, PendingMeansFull

-----------------------------------------------------------------------------
(* The block index *)

LEMMA Monotone ==
  ASSUME NEW a \in Int, NEW b \in Int, a <= b
  PROVE  a * ChunkSize <= b * ChunkSize
<1>1. ChunkSize \in Nat
  BY Numbers
<1>2. (b - a) * ChunkSize >= 0
  BY <1>1
<1>. QED BY <1>1, <1>2

LEMMA Division ==
  ASSUME NEW n \in Nat
  PROVE  \E k \in Nat, r \in 0 .. ChunkSize - 1 :
           n % ChunkSize = r /\ n = k * ChunkSize + r
<1> DEFINE k == n \div ChunkSize
           r == n % ChunkSize
<1>1. ChunkSize \in Nat /\ ChunkSize > 0
  BY Numbers
<1>2. n = k * ChunkSize + r /\ r \in 0 .. ChunkSize - 1 /\ k \in Nat
  BY <1>1
<1>. QED BY <1>2

\* n elements fill l blocks, the last one perhaps in part: a new element begins
\* a block exactly when the last one is full.
LEMMA BlockFull ==
  ASSUME NEW n \in Nat, NEW l \in Nat,
         (l - 1) * ChunkSize < n, n <= l * ChunkSize
  PROVE  n % ChunkSize = 0 <=> n = l * ChunkSize
<1>1. ChunkSize \in Nat /\ ChunkSize >= 1
  BY Numbers
<1>2. PICK k \in Nat, r \in 0 .. ChunkSize - 1 :
        n % ChunkSize = r /\ n = k * ChunkSize + r
  BY Division
<1>3. n % ChunkSize = r
  BY <1>2
<1>4. PICK kc \in Nat : k * ChunkSize = kc
  BY <1>1
<1>5. PICK lc \in Nat : l * ChunkSize = lc
  BY <1>1
<1>6. (l - 1) * ChunkSize = lc - ChunkSize /\ (l + 1) * ChunkSize = lc + ChunkSize
  BY <1>1, <1>5
<1>7. n = kc + r
  BY <1>2, <1>4
<1>8. lc - ChunkSize < n /\ n <= lc
  BY <1>5, <1>6
<1>9. CASE k >= l + 1
  <2>1. lc + ChunkSize <= kc
    BY <1>4, <1>6, <1>9, Monotone
  <2>. QED BY <1>1, <1>7, <1>8, <2>1
<1>10. CASE k = l
  BY <1>1, <1>3, <1>4, <1>5, <1>7, <1>8, <1>10
<1>11. CASE k <= l - 1
  <2>1. kc <= lc - ChunkSize
    BY <1>4, <1>6, <1>11, Monotone
  <2>. QED BY <1>1, <1>3, <1>5, <1>7, <1>8, <2>1
<1>. QED BY <1>9, <1>10, <1>11

\* The j-th of l blocks begins at an element that n elements include.
LEMMA BlockBegins ==
  ASSUME NEW n \in Nat, NEW l \in Nat, NEW j \in 1 .. l,
         (l - 1) * ChunkSize < n
  PROVE  (j - 1) * ChunkSize + 1 \in 1 .. n
<1>1. PICK c \in Nat : (j - 1) * ChunkSize = c
  BY Numbers
<1>2. PICK d \in Nat : (l - 1) * ChunkSize = d
  BY Numbers
<1>3. c <= d
  BY <1>1, <1>2, Monotone
<1>. QED BY <1>1, <1>2, <1>3

LEMMA InputBlocks ==
  ASSUME Sound, ~failed, BlocksInv, NEW v \in Items, Input(v)
  PROVE  BlocksInv'
<1>1. CASE finished \/ Busy
  BY <1>1 DEF Input, Refuse, indexVars, bufVars, BlocksInv
<1>2. CASE ~finished /\ ~Busy /\ EnableIndex
  <2> USE DEF Sound, Placed, Unfailed
  <2>1. /\ RecordBlock
        /\ accepted' = Append(accepted, [at |-> Pos, val |-> v])
        /\ ~finished' /\ pc' = "poll"
    BY <1>2 DEF Input
  <2>2. PICK n \in Nat : Len(accepted) = n
    BY DEF TypeOK
  <2>3. PICK l \in Nat : Len(blockOffsets) = l
    BY DEF TypeOK
  <2>4. /\ elementCount = n
        /\ n = 0 => blockOffsets = << >>
        /\ (l - 1) * ChunkSize < n /\ n <= l * ChunkSize
    BY <1>2, <2>2, <2>3 DEF IndexInv, BlocksInv
  <2>5. PICK p \in Base .. MaxPos : Pos = p
    BY Numbers DEF TypeOK, Pos
  <2>6. /\ Len(accepted') = n + 1
        /\ \A k \in 1 .. n : accepted'[k] = accepted[k]
        /\ accepted'[n + 1].at = p
    <3>1. PICK e \in Entry : e = [at |-> Pos, val |-> v] /\ e.at = p
      <4>1. [at |-> p, val |-> v] \in Entry
        BY <2>5 DEF Entry
      <4>. QED BY <2>5, <4>1
    <3>2. accepted \in Seq(Entry) /\ accepted' = Append(accepted, e)
      BY <2>1, <3>1 DEF TypeOK, Entry
    <3>. QED BY <2>2, <3>1, <3>2
  <2>7. startPos' = Base
    <3>1. CASE n = 0
      <4>1. accepted = << >> /\ Pos = Base
        BY <1>2, <2>2, <3>1, EntriesFacts DEF Busy, PosInv, TypeOK
      <4>. QED BY <1>2, <2>1, <2>4, <3>1, <4>1 DEF RecordBlock
    <3>2. CASE n # 0
      <4>1. accepted # << >>
        BY <2>2, <3>2
      <4>. QED BY <1>2, <2>1, <2>4, <3>2, <4>1 DEF RecordBlock, BlocksInv
    <3>. QED BY <3>1, <3>2
  <2>8. PICK d \in 0 .. MaxPos : d = p - Base
    BY <2>5, Numbers
  <2>9. \A j \in 1 .. l :
          accepted'[(j - 1) * ChunkSize + 1].at = Base + blockOffsets[j]
    <3>1. SUFFICES ASSUME NEW j \in 1 .. l
                   PROVE  accepted'[(j - 1) * ChunkSize + 1].at
                            = Base + blockOffsets[j]
      OBVIOUS
    <3>2. (j - 1) * ChunkSize + 1 \in 1 .. n
      BY <2>4, BlockBegins
    <3>3. accepted[(j - 1) * ChunkSize + 1].at = Base + blockOffsets[j]
      BY <1>2, <2>3 DEF BlocksInv
    <3>. QED BY <2>6, <3>2, <3>3
  <2>10. PICK lc \in Nat : l * ChunkSize = lc
    BY Numbers
  <2>11. (l + 1) * ChunkSize = lc + ChunkSize /\ (l + 1) - 1 = l
    BY <2>10, Numbers
  <2>12. CASE n = lc
    <3>1. n % ChunkSize = 0
      BY <2>4, <2>10, <2>12, BlockFull
    <3>2. /\ Len(blockOffsets') = l + 1
          /\ \A j \in 1 .. l : blockOffsets'[j] = blockOffsets[j]
          /\ blockOffsets'[l + 1] = d
      <4>1. blockOffsets' = Append(blockOffsets, d)
        <5>1. blockOffsets' = Append(blockOffsets, Pos - startPos')
          BY <1>2, <2>1, <2>4, <3>1 DEF RecordBlock
        <5>. QED BY <2>5, <2>7, <2>8, <5>1
      <4>2. blockOffsets \in Seq(0 .. MaxPos)
        BY DEF TypeOK
      <4>. QED BY <2>3, <4>1, <4>2
    <3>3. \A j \in 1 .. l + 1 :
            accepted'[(j - 1) * ChunkSize + 1].at = Base + blockOffsets'[j]
      <4>1. SUFFICES ASSUME NEW j \in 1 .. l + 1
                     PROVE  accepted'[(j - 1) * ChunkSize + 1].at
                              = Base + blockOffsets'[j]
        OBVIOUS
      <4>2. CASE j \in 1 .. l
        BY <2>9, <3>2, <4>2
      <4>3. CASE j = l + 1
        <5>1. (j - 1) * ChunkSize + 1 = n + 1
          BY <2>10, <2>11, <2>12, <4>3
        <5>2. Base + d = p
          BY <2>5, <2>8, Numbers
        <5>. QED BY <2>6, <3>2, <4>3, <5>1, <5>2
      <4>. QED BY <4>2, <4>3
    <3>4. /\ (Len(blockOffsets') - 1) * ChunkSize < Len(accepted')
          /\ Len(accepted') <= Len(blockOffsets') * ChunkSize
      BY <2>6, <2>10, <2>11, <2>12, <3>2, Numbers
    <3>. QED BY <1>2, <2>1, <2>7, <3>2, <3>3, <3>4 DEF BlocksInv
  <2>13. CASE n # lc
    <3>1. n % ChunkSize # 0
      BY <2>4, <2>10, <2>13, BlockFull
    <3>2. blockOffsets' = blockOffsets
      BY <1>2, <2>1, <2>4, <3>1 DEF RecordBlock
    <3>3. /\ (l - 1) * ChunkSize < n + 1
          /\ n + 1 <= l * ChunkSize
      <4>1. PICK m \in Int : (l - 1) * ChunkSize = m
        BY Numbers
      <4>. QED BY <2>4, <2>10, <2>13, <4>1
    <3>. QED BY <1>2, <2>1, <2>3, <2>6, <2>7, <2>9, <3>2, <3>3 DEF BlocksInv
  <2>. QED BY <2>12, <2>13
<1>3. CASE ~EnableIndex
  BY <1>3 DEF BlocksInv
<1>. QED BY <1>1, <1>2, <1>3 DEF Sound, Unfailed, TypeOK

LEMMA NonEmptyConcat ==
  ASSUME NEW s \in Seq(Byte), NEW t \in Seq(Byte), Len(s) >= 1
  PROVE  s \o t \in Seq(Byte) /\ Len(s \o t) >= 1 /\ s \o t # << >>
<1>1. s \o t \in Seq(Byte) /\ Len(s \o t) = Len(s) + Len(t)
  BY ConcatBytes
<1>2. Len(s \o t) >= 1
  BY <1>1
<1>. QED BY <1>1, <1>2

LEMMA FinishBlocks ==
  ASSUME Sound, ~failed, BlocksInv, FinishRef
  PROVE  BlocksInv'
<1>1. CASE finished \/ Busy
  BY <1>1 DEF FinishRef, PollPending, Refuse, indexVars, bufVars, BlocksInv
<1>2. CASE ~finished /\ ~Busy /\ EnableIndex
  <2>1. UNCHANGED <<accepted, indexVars>>
    BY <1>2 DEF FinishRef
  <2>2. /\ indexBuf = << >> /\ elementCount = Len(accepted)
        /\ Len(accepted) \in Nat /\ Len(blockOffsets) \in Nat
    BY <1>2 DEF Sound, Unfailed, PhaseInv, IndexInv, TypeOK
  <2>3. CASE Len(accepted) > ChunkSize
    <3>1. NeedsIndex
      BY <1>2, <2>2, <2>3 DEF NeedsIndex
    <3>2. Len(blockOffsets) > 0
      BY <1>2, <2>2, <2>3, Numbers DEF BlocksInv
    <3>3. /\ SerializeU64(ChunkSize) \in Seq(Byte)
          /\ SerializeU64(Len(blockOffsets)) \in Seq(Byte)
      <4>1. Len(blockOffsets) \in 0 .. MaxPos /\ ChunkSize \in 0 .. MaxPos
        BY <2>2, Numbers DEF Sound, Unfailed, TypeOK, IndexInv
      <4>. QED BY <4>1, VarIntBytes
    <3>4. indexBuf' # << >>
      <4>1. indexBuf' = <<Magic>> \o SerializeU64(ChunkSize)
                                  \o SerializeU64(Len(blockOffsets))
        BY <1>2, <3>1, <3>2 DEF FinishRef
      <4>2. <<Magic>> \in Seq(Byte) /\ Len(<<Magic>>) = 1
        BY DEF Magic, Byte
      <4>. QED BY <3>3, <4>1, <4>2, NonEmptyConcat
    <3>. QED BY <2>1, <2>3, <3>4 DEF BlocksInv, indexVars
  <2>4. CASE ~(Len(accepted) > ChunkSize)
    <3>1. indexBuf' = << >>
      BY <1>2, <2>2, <2>4 DEF FinishRef, NeedsIndex
    <3>2. pc' = "poll"
      BY <1>2, <2>2, <2>4 DEF FinishRef, NeedsIndex
    <3>. QED BY <3>2, <2>1, <2>4, <3>1 DEF BlocksInv, indexVars
  <2>. QED BY <2>3, <2>4
<1>3. CASE ~EnableIndex
  BY <1>3 DEF BlocksInv
<1>. QED BY <1>1, <1>2, <1>3 DEF Sound, Unfailed, TypeOK

LEMMA EncodeBlocks ==
  ASSUME Sound, ~failed, BlocksInv, EncodeOffset
  PROVE  BlocksInv'
<1>1. /\ UNCHANGED <<accepted, indexVars, finished>>
      /\ indexBuf' = indexBuf \o SerializeU64(BlockDelta(indexBuilt + 1))
  BY DEF EncodeOffset
<1>2. CASE EnableIndex
  <2>1. indexBuf # << >> /\ indexBuf \in Seq(Byte) /\ finished
    BY <1>2 DEF EncodeOffset, BlocksInv, Sound, Unfailed, PhaseInv, TypeOK
  <2>2. SerializeU64(BlockDelta(indexBuilt + 1)) \in Seq(Byte)
    BY DeltaInRange, VarIntBytes DEF EncodeOffset, Sound, Unfailed
  <2>3. Len(indexBuf) >= 1
    BY <2>1
  <2>4. Len(indexBuf') >= 1
    BY <1>1, <2>1, <2>2, <2>3, ConcatBytes
  <2>5. indexBuf' # << >>
    BY <2>4
  <2>. QED BY <1>1, <1>2, <2>1, <2>5 DEF BlocksInv, indexVars
<1>3. CASE ~EnableIndex
  BY <1>3 DEF BlocksInv
<1>. QED BY <1>2, <1>3

LEMMA IInvInit ==
  Init => IInv
<1> SUFFICES ASSUME Init PROVE IInv
  OBVIOUS
<1>1. Sound
  BY SoundInit
<1>2. BlocksInv
  <2>1. /\ Len(accepted) = 0 /\ Len(blockOffsets) = 0 /\ accepted = << >>
        /\ ~finished /\ pc # "index"
    BY DEF Init
  <2>. QED BY <2>1, Numbers DEF BlocksInv
<1>. QED BY <1>1, <1>2 DEF IInv

LEMMA IInvNext ==
  ASSUME IInv, [Next]_vars
  PROVE  IInv'
<1>1. Sound /\ Sound'
  BY SoundNext DEF IInv
<1>2. SUFFICES ASSUME ~failed'
               PROVE  BlocksInv'
  BY <1>1 DEF IInv
<1> USE DEF itemVars, elemVars, indexVars, bufVars, callVars
<1>3. CASE \E v \in Items : Input(v)
  BY <1>1, <1>2, <1>3, InputBlocks DEF IInv, Input, Refuse
<1>4. CASE FinishRef
  BY <1>1, <1>2, <1>4, FinishBlocks DEF IInv, FinishRef, PollPending, Refuse
<1>5. CASE EncodeOffset
  BY <1>1, <1>2, <1>5, EncodeBlocks DEF IInv, EncodeOffset
<1>6. ASSUME pc' # "index", ~failed,
             UNCHANGED <<accepted, startPos, blockOffsets, finished, indexBuf>>
      PROVE  BlocksInv'
  BY <1>6 DEF IInv, BlocksInv
<1>7. CASE UNCHANGED vars
  BY <1>2, <1>7 DEF IInv, BlocksInv, vars
<1>8. CASE PollPending
  BY <1>2, <1>6, <1>8 DEF PollPending
<1>9. CASE Grant
  BY <1>2, <1>6, <1>9 DEF Grant
<1>10. CASE RetireElement
  BY <1>2, <1>6, <1>10 DEF RetireElement, InElement
<1>11. CASE ReturnReady
  BY <1>2, <1>6, <1>11 DEF ReturnReady, Return
<1>12. CASE PutMarker
  BY <1>2, <1>6, <1>12 DEF PutMarker, Proceed
<1>13. CASE FlushIndex
  BY <1>2, <1>6, <1>13 DEF FlushIndex, Proceed, Return
<1>14. CASE TryAlign
  BY <1>2, <1>6, <1>14 DEF TryAlign, Proceed, InElement
<1>15. CASE StartElement
  BY <1>2, <1>6, <1>15 DEF StartElement, Proceed, InElement
<1>16. CASE ResumeElement
  BY <1>2, <1>6, <1>16 DEF ResumeElement, Proceed, InElement
<1>. QED BY <1>3, <1>4, <1>5, <1>7, <1>8, <1>9, <1>10, <1>11, <1>12, <1>13,
            <1>14, <1>15, <1>16 DEF Next, Step

\* A finished sequence carries an index exactly when it is longer than a block,
\* and every offset of the index leads to the marker of the first element of
\* its block, however the writes were cut (sequence.rs:148-197, 226-240).
THEOREM IndexIsRight == Spec => []IndexLeadsToMarkers
<1>1. IInv => IndexLeadsToMarkers
  BY DEF IInv, BlocksInv, IndexLeadsToMarkers
<1>. QED BY <1>1, IInvInit, IInvNext, PTL DEF Spec

-----------------------------------------------------------------------------
(* The loop of the collection serializers *)

OwnedTypes ==
  /\ source \in Collections \cup {None}
  /\ iter \in Seq(Items)
  /\ inputs \in Nat
  /\ stage \in {"idle", "polling", "feeding", "closing"}
  /\ outcome \in {"none", "unfed", "pending", "ready", "error", "closed"}

\* Between calls the sequence serializer rests, and before the first
\* collection it is new.
Resting ==
  /\ stage = "idle" => pc = "idle"
  /\ inputs = 0 => /\ source = None /\ accepted = << >> /\ ~finished /\ ~failed
                   /\ stage = "idle" /\ outcome \in {"none", "unfed"}
  /\ inputs > 0 => source # None
  /\ stage = "closing" => outcome = "ready"

\* An error ends the running call, and the caller does not come back.
Stopped ==
  failed => /\ pc = "idle" /\ result = "error"
            /\ stage = "idle" => outcome = "error"

\* The first collection is what was accepted, then what the iterator holds.
InOrder ==
  inputs = 1 /\ ~failed =>
    /\ Len(source) = Len(accepted) + Len(iter)
    /\ \A k \in 1 .. Len(accepted) : accepted[k].val = source[k]
    /\ \A k \in 1 .. Len(iter) : iter[k] = source[Len(accepted) + k]
    /\ finished => iter = << >>

\* A collection that was answered Ready stays written.
StaysWritten ==
  inputs = 1 /\ outcome \in {"ready", "closed"}
    => /\ ~failed /\ finished /\ markerCursor = 1
       /\ pc # "index" /\ indexCursor = Len(indexBuf)

OneHeld == Len(accepted) > 1 => EndOf(accepted[Len(accepted) - 1]) <= Pos

CInv ==
  /\ Sound
  /\ OwnedTypes
  /\ Resting
  /\ Stopped
  /\ InOrder
  /\ StaysWritten
  /\ OneHeld

-----------------------------------------------------------------------------
(* The steps of the sequence serializer, as the loop sees them *)

LEMMA CollectionsAreSequences ==
  \A c \in Collections : c \in Seq(Items)
BY ConstantsAssumption DEF Collections

\* t begins with s.
PrefixOf(s, t) == Len(s) <= Len(t) /\ \A q \in 1 .. Len(s) : t[q] = s[q]

\* A write never takes anything back, and one that fails adds nothing.
LEMMA PutGrows ==
  ASSUME TypeOK, NEW b \in Seq(Byte), Put(b)
  PROVE  /\ Pos <= Pos' /\ PrefixOf(out, out')
         /\ Proceed(Len(b)) /\ ~failed /\ failed' => out' = out
<1>1. /\ out' \in Seq(Byte) /\ out \in Seq(Byte)
      /\ Len(out') = Len(out) + Accepts(Len(b))
      /\ Accepts(Len(b)) \in Nat
      /\ \A i \in 1 .. Len(out) : out'[i] = out[i]
  BY PutBytes DEF TypeOK
<1>2. Len(out) \in Nat /\ Base \in Nat
  BY Numbers DEF TypeOK
<1>3. Pos <= Pos'
  BY <1>1, <1>2 DEF Pos
<1>4. PrefixOf(out, out')
  BY <1>1, <1>2 DEF PrefixOf
<1>5. ASSUME Proceed(Len(b)), ~failed, failed'
      PROVE  out' = out
  <2>1. ~Whole(Len(b)) /\ strict
    BY <1>5 DEF Proceed, callVars
  <2>2. Accepts(Len(b)) = 0
    BY <2>1 DEF Whole, Accepts
  <2>3. Len(out') = Len(out)
    BY <1>1, <1>2, <2>2
  <2>. QED BY <1>1, <2>3
<1>. QED BY <1>3, <1>4, <1>5

\* Inside a call nothing is accepted and the sink only gets more bytes; the
\* step that fails writes none.
LEMMA StepEffects ==
  ASSUME Sound, ~failed, Step
  PROVE  /\ pc # "idle"
         /\ UNCHANGED <<accepted, finished>>
         /\ Pos <= Pos' /\ PrefixOf(out, out')
         /\ failed' => pc' = "idle" /\ result' = "error" /\ out' = out
<1>1. TypeOK
  BY DEF Sound, Unfailed
<1>2. /\ pc # "idle"
      /\ UNCHANGED <<accepted, finished>>
  BY DEF Step, EncodeOffset, PutMarker, FlushIndex, TryAlign, StartElement,
         ResumeElement, RetireElement, ReturnReady, InElement
<1>3. failed' => pc' = "idle" /\ result' = "error"
  BY DEF Step, EncodeOffset, PutMarker, FlushIndex, TryAlign, StartElement,
         ResumeElement, RetireElement, ReturnReady, Return, Proceed, callVars
<1> DEFINE Grows == /\ Pos <= Pos' /\ PrefixOf(out, out')
                    /\ failed' => out' = out
<1>4. Grows
  <2>1. CASE UNCHANGED out
    <3>1. Pos \in Nat /\ Pos' = Pos /\ Len(out) \in Nat
      BY <1>1, <2>1, Numbers DEF Pos, TypeOK
    <3>. QED BY <2>1, <3>1 DEF PrefixOf
  <2>2. CASE PutMarker
    <3>1. <<marker>> \in Seq(Byte) /\ Len(<<marker>>) = 1
      BY <1>1 DEF TypeOK, Byte
    <3>2. Put(<<marker>>) /\ Proceed(1)
      BY <2>2 DEF PutMarker
    <3>. QED BY <1>1, <3>1, <3>2, PutGrows
  <2>3. CASE FlushIndex
    <3> DEFINE rest == SubSeq(indexBuf, indexCursor + 1, Len(indexBuf))
    <3>1. rest \in Seq(Byte)
      BY <1>1, RestBytes DEF TypeOK
    <3>2. Put(rest)
      BY <2>3 DEF FlushIndex
    <3>3. Proceed(Len(rest)) \/ failed' = failed
      BY <2>3 DEF FlushIndex, Return
    <3> HIDE DEF rest
    <3>. QED BY <1>1, <3>1, <3>2, <3>3, PutGrows
  <2>4. CASE TryAlign
    <3>1. Pos \in Nat
      BY <1>1, Numbers DEF TypeOK, Pos
    <3>2. /\ Zeros(Padding(Pos)) \in Seq(Byte)
          /\ Len(Zeros(Padding(Pos))) = Padding(Pos)
      BY <3>1, PaddingNat
    <3>3. Put(Zeros(Padding(Pos))) /\ Proceed(Padding(Pos))
      BY <2>4 DEF TryAlign
    <3>. QED BY <1>1, <3>2, <3>3, PutGrows
  <2>5. CASE StartElement
    <3>1. nextItem \in Seq(Byte)
      BY <1>1, <2>5, ItemFacts DEF StartElement, TypeOK
    <3>2. Put(nextItem) /\ Proceed(Len(nextItem))
      BY <2>5 DEF StartElement
    <3>. QED BY <1>1, <3>1, <3>2, PutGrows
  <2>6. CASE ResumeElement
    <3> DEFINE rest == SubSeq(elem, elemCursor + 1, Len(elem))
    <3>1. elem \in Seq(Byte) /\ elemCursor \in 0 .. Len(elem)
      BY <1>1, <2>6, ItemFacts DEF ResumeElement, Sound, Unfailed, PhaseInv, TypeOK
    <3>2. rest \in Seq(Byte)
      BY <3>1, RestBytes
    <3>3. Put(rest) /\ Proceed(Len(rest))
      BY <2>6 DEF ResumeElement
    <3> HIDE DEF rest
    <3>. QED BY <1>1, <3>2, <3>3, PutGrows
  <2>7. EncodeOffset \/ RetireElement \/ ReturnReady => UNCHANGED out
    BY DEF EncodeOffset, RetireElement, ReturnReady
  <2> HIDE DEF Grows
  <2>8. QED
    BY <2>1, <2>2, <2>3, <2>4, <2>5, <2>6, <2>7 DEF Step
<1>5. QED
  BY <1>2, <1>3, <1>4

\* A sequence that is written stays so when it is polled again.
LEMMA WrittenStays ==
  ASSUME Sound, finished, markerCursor = 1, pc # "index",
         indexCursor = Len(indexBuf), Step
  PROVE  /\ UNCHANGED <<failed, finished, markerCursor, indexBuf, indexCursor, out>>
         /\ pc' = "idle" /\ result' = "ready"
<1>1. /\ indexBuf \in Seq(Byte) /\ Len(indexBuf) \in Nat
      /\ Room \in Nat
  BY Numbers DEF Sound, Unfailed, TypeOK, Room, Pos
<1>2. FlushIndex
  <2>1. ~EncodeOffset
    BY DEF EncodeOffset
  <2>2. ~PutMarker
    BY DEF PutMarker
  <2>3. ~TryAlign /\ ~StartElement /\ ~ResumeElement
    BY DEF TryAlign, StartElement, ResumeElement, InElement
  <2>4. ~RetireElement /\ ~ReturnReady
    BY DEF RetireElement, ReturnReady, InElement
  <2>5. QED
    BY <2>1, <2>2, <2>3, <2>4 DEF Step
<1>3. Len(SubSeq(indexBuf, indexCursor + 1, Len(indexBuf))) = 0
  BY <1>1
<1>4. Whole(0) /\ Accepts(0) = 0
  BY <1>1 DEF Whole, Accepts
<1>5. out' = out
  <2> DEFINE rest == SubSeq(indexBuf, indexCursor + 1, Len(indexBuf))
  <2>1. rest \in Seq(Byte)
    BY RestBytes DEF Sound, Unfailed, TypeOK
  <2>2. Put(rest)
    BY <1>2 DEF FlushIndex
  <2> HIDE DEF rest
  <2>3. TypeOK /\ Len(rest) = 0
    BY <1>3 DEF Sound, Unfailed, rest
  <2>4. /\ out' \in Seq(Byte) /\ Len(out') = Len(out) + 0
        /\ \A i \in 1 .. Len(out) : out'[i] = out[i]
    BY <1>4, <2>1, <2>2, <2>3, PutBytes
  <2>5. out \in Seq(Byte) /\ Len(out) \in Nat
    BY <2>3 DEF TypeOK
  <2>. QED BY <2>4, <2>5
<1>6. QED
  BY <1>1, <1>2, <1>3, <1>4, <1>5 DEF FlushIndex, Return, itemVars

\* After an answer Ready a new element, or the end, is taken at once.
LEMMA ReadyTakes ==
  ASSUME Sound, ~failed, pc = "idle", result = "ready", ~finished
  PROVE  /\ ~Busy
         /\ Pos = BodyEnd
<1>1. Unsent = 0
  BY DEF Sound, ResultInv
<1>2. ~Busy
  BY <1>1, BusyUnsent
<1>3. QED
  BY <1>2 DEF Busy, Sound, Placed, PosInv

-----------------------------------------------------------------------------
(* The loop makes the sequence serializer's steps *)

\* What the loop calls is always a call of the sequence serializer, made when
\* the last one has returned, with an element of the collection.
LEMMA LoopSteps ==
  ASSUME OwnedTypes, [OwnedNext]_ownedVars
  PROVE  [Next]_vars
<1>1. CASE FeedNext
  <2>1. iter \in Seq(Items) /\ iter # << >>
    BY <1>1 DEF FeedNext, OwnedTypes
  <2>2. Head(iter) \in Items
    BY <2>1
  <2>3. QED
    BY <1>1, <2>2 DEF FeedNext, Next
<1>2. CASE \/ \E collection \in Collections : OwnedInput(collection)
           \/ OwnedPollPending \/ OwnedFinish \/ OwnedGrant
  BY <1>2 DEF OwnedInput, OwnedPollPending, OwnedFinish, OwnedGrant, Next
<1>3. CASE Step /\ UNCHANGED ownerVars
  BY <1>3 DEF Next
<1>4. CASE Relay \/ Completed \/ FeedEnd \/ LoopAgain \/ Closed
  BY <1>4 DEF Relay, Completed, FeedEnd, LoopAgain, Closed, OwnedReturn, Next
<1>5. CASE Gone \/ UNCHANGED ownedVars
  BY <1>5 DEF Gone, ownedVars
<1>6. QED
  BY <1>1, <1>2, <1>3, <1>4, <1>5 DEF OwnedNext, OwnedStep

-----------------------------------------------------------------------------
(* The invariant *)

\* What the call of the sequence serializer leaves alone.
LEMMA CallKeeps ==
  ASSUME PollPending \/ Grant \/ UNCHANGED vars
  PROVE  /\ UNCHANGED <<accepted, out, finished, failed, markerCursor, indexBuf,
                        indexCursor, result>>
         /\ pc' \in {pc, "poll"} /\ (pc' = "poll" => PollPending \/ pc = "poll")
         /\ PollPending => pc' = "poll"
  BY DEF PollPending, Grant, vars, itemVars, elemVars, indexVars, bufVars, callVars

LEMMA OwnedInitInv == OwnedInit => CInv
<1> SUFFICES ASSUME OwnedInit PROVE CInv
  OBVIOUS
<1>1. Sound
  BY SoundInit DEF OwnedInit
<1>2. OwnedTypes
  BY DEF OwnedInit, OwnedTypes
<1>3. Resting /\ Stopped /\ InOrder /\ StaysWritten /\ OneHeld
  BY DEF OwnedInit, Init, Resting, Stopped, InOrder, StaysWritten, OneHeld
<1>4. QED
  BY <1>1, <1>2, <1>3 DEF CInv

LEMMA OwnedInputKeeps ==
  ASSUME CInv, NEW c \in Collections, OwnedInput(c), Sound'
  PROVE  CInv'
<1> USE DEF CInv
<1>1. /\ stage = "idle" /\ outcome \in {"none", "ready", "unfed"}
      /\ source' = c /\ iter' = c /\ inputs' = inputs + 1
      /\ stage' = "polling" /\ PollPending /\ outcome' = outcome
  BY DEF OwnedInput
<1>2. c \in Seq(Items) /\ c # None
  BY CollectionsAreSequences, OwnedAssumption
<1>3. /\ UNCHANGED <<accepted, out, finished, failed, result>>
      /\ ~failed
  BY <1>1, CallKeeps DEF Stopped
<1>4. inputs' = 1 => inputs = 0
  BY <1>1 DEF OwnedTypes
<1>5. OwnedTypes'
  BY <1>1, <1>2 DEF OwnedTypes
<1>6. Resting' /\ Stopped'
  BY <1>1, <1>2, <1>3 DEF Resting, Stopped, OwnedTypes
<1>7. InOrder'
  BY <1>1, <1>2, <1>3, <1>4 DEF InOrder, Resting
<1>8. StaysWritten'
  BY <1>1, <1>4 DEF StaysWritten, Resting
<1>9. OneHeld'
  BY <1>3 DEF OneHeld, EndOf, PayloadAt, Pos
<1>10. QED
  BY <1>5, <1>6, <1>7, <1>8, <1>9

LEMMA OwnedPollKeeps ==
  ASSUME CInv, OwnedPollPending, Sound'
  PROVE  CInv'
<1> USE DEF CInv
<1>1. /\ stage = "idle" /\ UNCHANGED <<source, iter, inputs>>
  BY DEF OwnedPollPending
<1>2. CASE source = None
  <2>1. outcome' = "unfed" /\ UNCHANGED <<vars, stage>> /\ inputs = 0
    BY <1>2 DEF OwnedPollPending, Resting, OwnedTypes
  <2>2. UNCHANGED <<accepted, out, finished, failed, pc, result>>
    BY <2>1 DEF vars, callVars
  <2>3. OwnedTypes' /\ Resting' /\ Stopped' /\ InOrder' /\ StaysWritten'
    BY <1>1, <1>2, <2>1, <2>2
       DEF OwnedTypes, Resting, Stopped, InOrder, StaysWritten
  <2>4. OneHeld'
    BY <2>2 DEF OneHeld, EndOf, PayloadAt, Pos
  <2>5. QED
    BY <2>3, <2>4
<1>3. CASE source # None
  <2>1. /\ outcome \in {"pending", "ready"} /\ stage' = "polling"
        /\ PollPending /\ outcome' = outcome
    BY <1>3 DEF OwnedPollPending
  <2>2. /\ UNCHANGED <<accepted, out, finished, failed, markerCursor, indexBuf,
                       indexCursor, result>>
        /\ pc' = "poll" /\ ~failed
    BY <1>1, <2>1, CallKeeps DEF Stopped
  <2>3. OwnedTypes' /\ Resting' /\ Stopped'
    BY <1>1, <1>3, <2>1, <2>2 DEF OwnedTypes, Resting, Stopped
  <2>4. InOrder' /\ StaysWritten'
    BY <1>1, <2>1, <2>2 DEF InOrder, StaysWritten
  <2>5. OneHeld'
    BY <2>2 DEF OneHeld, EndOf, PayloadAt, Pos
  <2>6. QED
    BY <2>3, <2>4, <2>5
<1>4. QED
  BY <1>2, <1>3

\* finish of a collection that was answered Ready; after a second collection
\* the sequence may be any.
LEMMA OwnedFinishKeeps ==
  ASSUME CInv, OwnedFinish, Sound'
  PROVE  CInv'
<1> USE DEF CInv
<1>1. /\ stage = "idle" /\ outcome = "ready" /\ stage' = "closing" /\ FinishRef
      /\ UNCHANGED <<source, iter, inputs, outcome>>
  BY DEF OwnedFinish
<1>2. inputs # 0 /\ ~failed
  BY <1>1 DEF Resting, Stopped
<1>3. UNCHANGED <<accepted, out, failed>>
  BY <1>1 DEF FinishRef, PollPending, Refuse
<1>4. inputs = 1 =>
        /\ pc' = "poll"
        /\ UNCHANGED <<finished, markerCursor, indexBuf, indexCursor>>
  <2>1. SUFFICES ASSUME inputs = 1
                 PROVE  /\ pc' = "poll"
                        /\ UNCHANGED <<finished, markerCursor, indexBuf, indexCursor>>
    OBVIOUS
  <2>2. finished
    BY <1>1, <2>1 DEF StaysWritten
  <2>3. PollPending
    BY <1>1, <2>2 DEF FinishRef
  <2>4. QED
    BY <2>3, CallKeeps
<1>5. OwnedTypes' /\ Resting' /\ Stopped'
  BY <1>1, <1>2, <1>3 DEF OwnedTypes, Resting, Stopped
<1>6. InOrder' /\ StaysWritten'
  BY <1>1, <1>3, <1>4 DEF InOrder, StaysWritten
<1>7. OneHeld'
  BY <1>3 DEF OneHeld, EndOf, PayloadAt, Pos
<1>8. QED
  BY <1>5, <1>6, <1>7

LEMMA OwnedStillKeeps ==
  ASSUME CInv, OwnedGrant \/ Gone \/ UNCHANGED ownedVars, Sound'
  PROVE  CInv'
<1> USE DEF CInv
<1>1. UNCHANGED <<source, iter, inputs, stage, outcome>>
  BY DEF OwnedGrant, Gone, ownedVars, ownerVars
<1>2. UNCHANGED <<accepted, out, finished, failed, markerCursor, indexBuf,
                  indexCursor, result, pc>>
  BY DEF OwnedGrant, Grant, Gone, ownedVars, vars, itemVars, bufVars, callVars
<1>3. OwnedTypes' /\ Resting' /\ Stopped'
  BY <1>1, <1>2 DEF OwnedTypes, Resting, Stopped
<1>4. InOrder' /\ StaysWritten'
  BY <1>1, <1>2 DEF InOrder, StaysWritten
<1>5. OneHeld'
  BY <1>2 DEF OneHeld, EndOf, PayloadAt, Pos
<1>6. QED
  BY <1>3, <1>4, <1>5

\* Where the elements end, as numbers.
LEMMA EndsAreNumbers ==
  ASSUME Sound
  PROVE  /\ Pos \in Nat /\ Len(accepted) \in Nat
         /\ \A k \in 1 .. Len(accepted) : EndOf(accepted[k]) \in Nat
<1>1. TypeOK
  BY DEF Sound, Unfailed
<1>2. Pos \in Nat
  BY <1>1, Numbers DEF TypeOK, Pos
<1>3. QED
  BY <1>1, <1>2, EntriesFacts, EntryFacts

\* A step of the sequence serializer inside the call.
LEMMA StepKeeps ==
  ASSUME CInv, Step, UNCHANGED ownerVars, Sound'
  PROVE  CInv'
<1> USE DEF CInv
<1>1. UNCHANGED <<source, iter, inputs, stage, outcome>>
  BY DEF ownerVars
<1>2. pc # "idle"
  BY DEF Step, EncodeOffset, PutMarker, FlushIndex, TryAlign, StartElement,
         ResumeElement, RetireElement, ReturnReady, InElement
<1>3. ~failed /\ stage # "idle" /\ inputs # 0
  BY <1>2 DEF Stopped, Resting
<1>4. /\ UNCHANGED <<accepted, finished>>
      /\ Pos <= Pos'
      /\ failed' => pc' = "idle" /\ result' = "error"
  BY <1>3, StepEffects
<1>5. OwnedTypes' /\ Resting' /\ Stopped'
  BY <1>1, <1>3, <1>4 DEF OwnedTypes, Resting, Stopped
<1>6. InOrder'
  BY <1>1, <1>3, <1>4 DEF InOrder
<1>7. StaysWritten'
  BY <1>1, WrittenStays DEF StaysWritten
<1>8. OneHeld'
  <2>1. SUFFICES ASSUME Len(accepted) > 1
                 PROVE  EndOf(accepted[Len(accepted) - 1]) <= Pos'
    BY <1>4 DEF OneHeld, EndOf, PayloadAt
  <2>2. EndOf(accepted[Len(accepted) - 1]) \in Nat /\ Pos \in Nat /\ Pos' \in Nat
    <3>1. /\ Pos \in Nat /\ Len(accepted) \in Nat
          /\ \A k \in 1 .. Len(accepted) : EndOf(accepted[k]) \in Nat
      BY EndsAreNumbers
    <3>2. Len(accepted) - 1 \in 1 .. Len(accepted)
      BY <2>1, <3>1
    <3>3. TypeOK'
      BY DEF Sound, Unfailed
    <3>4. Pos' \in Nat
      BY <3>3, Numbers DEF Pos, TypeOK
    <3>5. QED
      BY <3>1, <3>2, <3>4
  <2>3. EndOf(accepted[Len(accepted) - 1]) <= Pos
    BY <2>1 DEF OneHeld
  <2>4. QED
    BY <1>4, <2>2, <2>3
<1>9. QED
  BY <1>5, <1>6, <1>7, <1>8

\* The loop returns; Ready is answered only behind a finished sequence.
LEMMA ReturnKeeps ==
  ASSUME CInv, Relay \/ Completed \/ Closed, Sound'
  PROVE  CInv'
<1> USE DEF CInv
<1>1. /\ pc = "idle" /\ stage # "idle" /\ stage' = "idle"
      /\ UNCHANGED <<source, iter, inputs>>
      /\ UNCHANGED vars
  BY DEF Relay, Completed, Closed, Answered, OwnedReturn
<1>2. UNCHANGED <<accepted, out, finished, failed, markerCursor, indexBuf,
                  indexCursor, result, pc>>
  BY <1>1 DEF vars, itemVars, bufVars, callVars
<1>3. CASE Relay
  <2>1. /\ result # "ready" /\ outcome' \in {"pending", "error"}
        /\ result = "error" => outcome' = "error"
    BY <1>3 DEF Relay, OwnedReturn
  <2>2. OwnedTypes' /\ Resting' /\ Stopped'
    BY <1>1, <1>2, <2>1 DEF OwnedTypes, Resting, Stopped
  <2>3. InOrder' /\ StaysWritten'
    BY <1>1, <1>2, <2>1 DEF InOrder, StaysWritten
  <2>4. QED
    BY <1>2, <2>2, <2>3 DEF OneHeld, EndOf, PayloadAt, Pos
<1>4. CASE Completed
  <2>1. result = "ready" /\ IsFinished /\ outcome' = "ready" /\ ~failed
    BY <1>4 DEF Completed, OwnedReturn, Stopped
  <2>2. OwnedTypes' /\ Resting' /\ Stopped'
    BY <1>1, <1>2, <2>1 DEF OwnedTypes, Resting, Stopped
  <2>3. indexCursor = Len(indexBuf)
    BY <2>1 DEF IsFinished, Sound, Unfailed, TypeOK
  <2>4. InOrder' /\ StaysWritten'
    BY <1>1, <1>2, <2>1, <2>3 DEF InOrder, StaysWritten, IsFinished
  <2>5. QED
    BY <1>2, <2>2, <2>4 DEF OneHeld, EndOf, PayloadAt, Pos
<1>5. CASE Closed
  <2>1. result = "ready" /\ outcome = "ready" /\ outcome' = "closed" /\ ~failed
    BY <1>5 DEF Closed, Answered, OwnedReturn, Stopped, Resting
  <2>2. OwnedTypes' /\ Resting' /\ Stopped'
    BY <1>1, <1>2, <2>1 DEF OwnedTypes, Resting, Stopped
  <2>3. InOrder' /\ StaysWritten'
    BY <1>1, <1>2, <2>1 DEF InOrder, StaysWritten
  <2>4. QED
    BY <1>2, <2>2, <2>3 DEF OneHeld, EndOf, PayloadAt, Pos
<1>6. QED
  BY <1>3, <1>4, <1>5

\* The sequence serializer takes what the loop feeds: none of it is refused.
LEMMA FeedTakes ==
  ASSUME CInv, MayFeed
  PROVE  /\ pc = "idle" /\ result = "ready" /\ ~finished /\ ~failed /\ ~Busy
         /\ stage # "idle" /\ inputs # 0
         /\ inputs = 1 => outcome \notin {"ready", "closed"}
         /\ Pos = BodyEnd
<1>1. /\ pc = "idle" /\ result = "ready" /\ ~finished /\ stage = "polling"
  BY DEF MayFeed, Answered
<1>2. ~failed
  BY <1>1 DEF CInv, Stopped
<1>3. inputs # 0 /\ (inputs = 1 => outcome \notin {"ready", "closed"})
  BY <1>1 DEF CInv, Resting, StaysWritten
<1>4. QED
  BY <1>1, <1>2, <1>3, ReadyTakes DEF CInv

LEMMA FeedNextKeeps ==
  ASSUME CInv, FeedNext, Sound'
  PROVE  CInv'
<1>1. /\ iter # << >> /\ iter' = Tail(iter) /\ stage' = "feeding"
      /\ UNCHANGED <<source, inputs, outcome>>
      /\ Input(Head(iter))
  BY DEF FeedNext
<1>2. /\ pc = "idle" /\ ~finished /\ ~failed /\ ~Busy
      /\ inputs # 0 /\ (inputs = 1 => outcome \notin {"ready", "closed"})
      /\ Pos = BodyEnd
  BY FeedTakes DEF FeedNext
<1>3. /\ accepted' = Append(accepted, [at |-> Pos, val |-> Head(iter)])
      /\ UNCHANGED <<finished, out, failed>>
  BY <1>1, <1>2 DEF Input
<1>4. /\ iter \in Seq(Items) /\ Head(iter) = iter[1] /\ Tail(iter) \in Seq(Items)
      /\ Len(iter) \in Nat \ {0} /\ Len(Tail(iter)) = Len(iter) - 1
      /\ \A k \in 1 .. Len(iter) - 1 : Tail(iter)[k] = iter[k + 1]
  BY <1>1 DEF CInv, OwnedTypes
<1>5. /\ accepted \in Seq([at : Base .. MaxPos, val : Items])
      /\ Len(accepted) \in Nat
      /\ Len(accepted') = Len(accepted) + 1
      /\ \A k \in 1 .. Len(accepted) : accepted'[k] = accepted[k]
      /\ accepted'[Len(accepted) + 1] = [at |-> Pos, val |-> Head(iter)]
  <2>1. accepted \in Seq([at : Base .. MaxPos, val : Items])
    BY DEF CInv, Sound, Unfailed, TypeOK
  <2>2. QED
    BY <1>3, <2>1
<1>6. OwnedTypes' /\ Resting' /\ Stopped'
  BY <1>1, <1>2, <1>3, <1>4 DEF CInv, OwnedTypes, Resting, Stopped
<1>7. InOrder'
  <2>1. SUFFICES ASSUME inputs = 1
                 PROVE  /\ Len(source) = Len(accepted') + Len(iter')
                        /\ \A k \in 1 .. Len(accepted') : accepted'[k].val = source[k]
                        /\ \A k \in 1 .. Len(iter') :
                             iter'[k] = source[Len(accepted') + k]
    BY <1>1, <1>2, <1>3 DEF InOrder
  <2>2. /\ Len(source) = Len(accepted) + Len(iter)
        /\ \A k \in 1 .. Len(accepted) : accepted[k].val = source[k]
        /\ \A k \in 1 .. Len(iter) : iter[k] = source[Len(accepted) + k]
    BY <1>2, <2>1 DEF CInv, InOrder
  <2>3. Len(source) = Len(accepted') + Len(iter')
    BY <1>1, <1>4, <1>5, <2>2
  <2>4. ASSUME NEW k \in 1 .. Len(accepted')
        PROVE  accepted'[k].val = source[k]
    <3>1. CASE k \in 1 .. Len(accepted)
      BY <1>5, <2>2, <3>1
    <3>2. CASE k = Len(accepted) + 1
      <4>1. accepted'[k].val = iter[1]
        BY <1>4, <1>5, <3>2
      <4>2. iter[1] = source[Len(accepted) + 1]
        BY <1>4, <2>2
      <4>3. QED
        BY <3>2, <4>1, <4>2
    <3>3. QED
      BY <1>5, <3>1, <3>2
  <2>5. ASSUME NEW k \in 1 .. Len(iter')
        PROVE  iter'[k] = source[Len(accepted') + k]
    <3>1. k \in 1 .. Len(iter) - 1 /\ k + 1 \in 1 .. Len(iter)
      BY <1>1, <1>4
    <3>2. iter'[k] = iter[k + 1]
      BY <1>1, <1>4, <3>1
    <3>3. iter[k + 1] = source[Len(accepted) + (k + 1)]
      BY <2>2, <3>1
    <3>4. Len(accepted) + (k + 1) = Len(accepted') + k
      BY <1>5, <3>1
    <3>5. QED
      BY <3>2, <3>3, <3>4
  <2>6. QED
    BY <2>3, <2>4, <2>5
<1>8. StaysWritten'
  BY <1>1, <1>2 DEF StaysWritten
<1>9. OneHeld'
  <2>1. SUFFICES ASSUME Len(accepted) + 1 > 1
                 PROVE  EndOf(accepted'[Len(accepted)]) <= Pos
    BY <1>3, <1>5 DEF OneHeld, EndOf, PayloadAt, Pos
  <2>2. Len(accepted) \in 1 .. Len(accepted) /\ accepted # << >>
    BY <1>5, <2>1
  <2>3. accepted'[Len(accepted)] = accepted[Len(accepted)]
    BY <1>5, <2>2
  <2>4. EndOf(accepted[Len(accepted)]) = Pos
    BY <1>2, <2>2 DEF BodyEnd
  <2>5. Pos \in Nat
    BY EndsAreNumbers DEF CInv
  <2>6. QED
    BY <2>3, <2>4, <2>5
<1>10. QED
  BY <1>6, <1>7, <1>8, <1>9 DEF CInv

LEMMA FeedEndKeeps ==
  ASSUME CInv, FeedEnd, Sound'
  PROVE  CInv'
<1>1. /\ iter = << >> /\ stage' = "feeding" /\ FinishRef
      /\ UNCHANGED <<source, iter, inputs, outcome>>
  BY DEF FeedEnd
<1>2. /\ ~finished /\ ~failed /\ ~Busy
      /\ inputs # 0 /\ (inputs = 1 => outcome \notin {"ready", "closed"})
  BY FeedTakes DEF FeedEnd
<1>3. UNCHANGED <<accepted, out, failed>>
  BY <1>1, <1>2 DEF FinishRef
<1>4. OwnedTypes' /\ Resting' /\ Stopped'
  BY <1>1, <1>2, <1>3 DEF CInv, OwnedTypes, Resting, Stopped
<1>5. InOrder' /\ StaysWritten'
  BY <1>1, <1>2, <1>3 DEF CInv, InOrder, StaysWritten
<1>6. OneHeld'
  BY <1>3 DEF CInv, OneHeld, EndOf, PayloadAt, Pos
<1>7. QED
  BY <1>4, <1>5, <1>6 DEF CInv

LEMMA LoopAgainKeeps ==
  ASSUME CInv, LoopAgain, Sound'
  PROVE  CInv'
<1> USE DEF CInv
<1>1. /\ pc = "idle" /\ result = "ready" /\ stage = "feeding"
      /\ stage' = "polling" /\ PollPending
      /\ UNCHANGED <<source, iter, inputs, outcome>>
  BY DEF LoopAgain, Answered
<1>2. /\ UNCHANGED <<accepted, out, finished, failed, markerCursor, indexBuf,
                     indexCursor, result>>
      /\ pc' = "poll" /\ ~failed
  BY <1>1, CallKeeps DEF Stopped
<1>3. OwnedTypes' /\ Resting' /\ Stopped'
  BY <1>1, <1>2 DEF OwnedTypes, Resting, Stopped
<1>4. InOrder' /\ StaysWritten'
  BY <1>1, <1>2 DEF InOrder, StaysWritten
<1>5. OneHeld'
  BY <1>2 DEF OneHeld, EndOf, PayloadAt, Pos
<1>6. QED
  BY <1>3, <1>4, <1>5

LEMMA OwnedStepInv ==
  CInv /\ [OwnedNext]_ownedVars => CInv'
<1> SUFFICES ASSUME CInv, [OwnedNext]_ownedVars PROVE CInv'
  OBVIOUS
<1>1. Sound'
  BY LoopSteps, SoundNext DEF CInv
<1>2. CASE \E collection \in Collections : OwnedInput(collection)
  BY <1>1, <1>2, OwnedInputKeeps
<1>3. CASE OwnedPollPending
  BY <1>1, <1>3, OwnedPollKeeps
<1>4. CASE OwnedFinish
  BY <1>1, <1>4, OwnedFinishKeeps
<1>5. CASE OwnedGrant \/ Gone \/ UNCHANGED ownedVars
  BY <1>1, <1>5, OwnedStillKeeps
<1>6. CASE Step /\ UNCHANGED ownerVars
  BY <1>1, <1>6, StepKeeps
<1>7. CASE Relay \/ Completed \/ Closed
  BY <1>1, <1>7, ReturnKeeps
<1>8. CASE FeedNext
  BY <1>1, <1>8, FeedNextKeeps
<1>9. CASE FeedEnd
  BY <1>1, <1>9, FeedEndKeeps
<1>10. CASE LoopAgain
  BY <1>1, <1>10, LoopAgainKeeps
<1>11. QED
  BY <1>2, <1>3, <1>4, <1>5, <1>6, <1>7, <1>8, <1>9, <1>10
     DEF OwnedNext, OwnedStep

LEMMA OwnedInvariance == OwnedSpec => []CInv
<1>1. OwnedInit => CInv
  BY OwnedInitInv
<1>2. CInv /\ [OwnedNext]_ownedVars => CInv'
  BY OwnedStepInv
<1>3. QED
  BY <1>1, <1>2, PTL DEF OwnedSpec

-----------------------------------------------------------------------------
(* The theorems *)

\* The composition: the loop of the collection serializers uses the sequence
\* serializer as its specification allows, so what is proved of that one holds
\* inside every collection (iter/serialize.rs:140-176).
THEOREM LoopUsesTheSequence == OwnedSpec => Spec
<1>1. OwnedInit => Init
  BY DEF OwnedInit
<1>2. CInv /\ [OwnedNext]_ownedVars => [Next]_vars
  BY LoopSteps DEF CInv
<1>3. QED
  BY <1>1, <1>2, OwnedInvariance, PTL DEF OwnedSpec, Spec

\* The iterator yields an element only when all the earlier ones are in the
\* sink: at most one element of the collection is held.
THEOREM OneAtATime == OwnedSpec => []OneElementHeld
<1>1. CInv => OneElementHeld
  BY DEF CInv, OneHeld, OneElementHeld
<1>2. QED
  BY <1>1, OwnedInvariance, PTL

\* Ready, for a collection, means that each of its elements was fed, in order
\* and none twice, and that nothing of them or of the trailer is unsent.
THEOREM ReadyIsTheWhole == OwnedSpec => []ReadyIsWhole
<1>1. ASSUME CInv PROVE ReadyIsWhole
  <2>1. SUFFICES ASSUME inputs = 1, outcome \in {"ready", "closed"}
                 PROVE  /\ finished /\ Unsent = 0
                        /\ source = [k \in 1 .. Len(accepted) |-> accepted[k].val]
    BY DEF ReadyIsWhole
  <2>2. /\ ~failed /\ finished /\ markerCursor = 1 /\ indexCursor = Len(indexBuf)
    BY <1>1, <2>1 DEF CInv, StaysWritten
  <2>3. Unsent = 0
    <3>1. indexBuf \in Seq(Byte) /\ Len(indexBuf) \in Nat
      BY <1>1 DEF CInv, Sound, Unfailed, TypeOK
    <3>2. Pos = BodyEnd + 1 + Len(indexBuf)
      BY <1>1, <2>2 DEF CInv, Sound, Placed, PosInv
    <3>3. Len(Trailer) = 1 + Len(indexBuf)
      BY <2>2, <3>1 DEF Trailer, Byte
    <3>4. BodyEnd \in Nat
      BY <1>1, EntriesFacts DEF CInv, Sound, Unfailed
    <3>5. QED
      BY <3>1, <3>2, <3>3, <3>4 DEF Unsent
  <2>4. source \in Seq(Items)
    BY <1>1, <2>1, CollectionsAreSequences DEF CInv, OwnedTypes, Resting
  <2>5. /\ Len(source) = Len(accepted) + Len(iter) /\ iter = << >>
        /\ \A k \in 1 .. Len(accepted) : accepted[k].val = source[k]
    BY <1>1, <2>1, <2>2 DEF CInv, InOrder
  <2>6. Len(source) = Len(accepted)
    BY <1>1, <2>5, EndsAreNumbers DEF CInv
  <2>7. source = [k \in 1 .. Len(source) |-> source[k]]
    BY <2>4
  <2>8. QED
    BY <2>2, <2>3, <2>5, <2>6, <2>7
<1>2. CInv => ReadyIsWhole
  BY <1>1
<1>3. QED
  BY <1>2, OwnedInvariance, PTL

-----------------------------------------------------------------------------
(* The encoding of a collection *)

Gap(bytes) == IF FixedSize THEN Padding(Base + Len(bytes) + 1) ELSE 0

LEMMA AfterBytes ==
  ASSUME NEW b \in Seq(Byte), NEW item \in Items
  PROVE  /\ Gap(b) \in Nat
         /\ After(b, item) \in Seq(Byte)
         /\ Len(After(b, item)) = Len(b) + 1 + Gap(b) + Len(item)
         /\ \A i \in 1 .. Len(b) : After(b, item)[i] = b[i]
         /\ After(b, item)[Len(b) + 1] = 1
         /\ \A i \in 1 .. Gap(b) : After(b, item)[Len(b) + 1 + i] = 0
         /\ \A i \in 1 .. Len(item) :
              After(b, item)[Len(b) + 1 + Gap(b) + i] = item[i]
<1>1. item \in Seq(Byte) /\ Len(item) \in Nat /\ Len(b) \in Nat
  BY ItemFacts
<1> DEFINE z == IF FixedSize THEN Zeros(Padding(Base + Len(b) + 1)) ELSE << >>
<1>2. /\ z \in Seq(Byte) /\ Len(z) = Gap(b) /\ Len(z) \in Nat
      /\ \A i \in 1 .. Len(z) : z[i] = 0
  <2>1. CASE FixedSize
    <3>1. PICK p \in Nat : p = Base + Len(b) + 1
      BY <1>1, Numbers
    <3>2. /\ Padding(p) \in Nat /\ Zeros(Padding(p)) \in Seq(Byte)
          /\ Len(Zeros(Padding(p))) = Padding(p)
      BY <3>1, PaddingNat
    <3>3. \A i \in 1 .. Padding(p) : Zeros(Padding(p))[i] = 0
      BY DEF Zeros
    <3>. QED BY <2>1, <3>1, <3>2, <3>3 DEF Gap
  <2>2. CASE ~FixedSize
    BY <2>2 DEF Gap
  <2>. QED BY <2>1, <2>2
<1> HIDE DEF z
<1>3. Gap(b) \in Nat
  BY <1>2
<1>4. <<1>> \in Seq(Byte) /\ Len(<<1>>) = 1 /\ <<1>>[1] = 1
  BY DEF Byte
<1>5. PICK s \in Seq(Byte) : s = b \o <<1>>
  BY <1>4, ConcatBytes
<1>6. /\ Len(s) = Len(b) + 1
      /\ \A i \in 1 .. Len(b) : s[i] = b[i]
      /\ s[Len(b) + 1] = 1
  BY <1>4, <1>5, ConcatBytes
<1>7. PICK t \in Seq(Byte) : t = s \o z
  BY <1>2, ConcatBytes
<1>8. /\ Len(t) = Len(b) + 1 + Gap(b)
      /\ \A i \in 1 .. Len(b) : t[i] = b[i]
      /\ t[Len(b) + 1] = 1
      /\ \A i \in 1 .. Gap(b) : t[Len(b) + 1 + i] = 0
  <2>1. /\ Len(t) = Len(s) + Len(z)
        /\ \A i \in 1 .. Len(s) : t[i] = s[i]
        /\ \A i \in 1 .. Len(z) : t[Len(s) + i] = z[i]
    BY <1>7, ConcatBytes
  <2>2. PICK l, g \in Nat : l = Len(b) /\ g = Gap(b)
    BY <1>1, <1>3
  <2>3. \A i \in 1 .. g : t[l + 1 + i] = 0
    BY <1>2, <1>6, <2>1, <2>2
  <2>4. Len(t) = l + 1 + g /\ \A i \in 1 .. l + 1 : t[i] = s[i]
    BY <1>2, <1>6, <2>1, <2>2
  <2>5. t[l + 1] = 1 /\ \A i \in 1 .. l : t[i] = b[i]
    BY <1>6, <2>2, <2>4
  <2>. QED BY <2>2, <2>3, <2>4, <2>5
<1>9. After(b, item) = t \o item
  BY <1>5, <1>7 DEF After, z
<1>10. /\ After(b, item) \in Seq(Byte)
       /\ Len(After(b, item)) = Len(t) + Len(item)
       /\ \A i \in 1 .. Len(t) : After(b, item)[i] = t[i]
       /\ \A i \in 1 .. Len(item) : After(b, item)[Len(t) + i] = item[i]
  BY <1>1, <1>9, ConcatBytes
<1>11. PICK u \in Seq(Byte) : u = After(b, item)
  BY <1>10
<1>12. PICK l, g, m \in Nat : l = Len(b) /\ g = Gap(b) /\ m = Len(item)
  BY <1>1, <1>3
<1>13. /\ Len(u) = l + 1 + g + m
       /\ \A i \in 1 .. l + 1 + g : u[i] = t[i]
       /\ \A i \in 1 .. m : u[l + 1 + g + i] = item[i]
  BY <1>8, <1>10, <1>11, <1>12
<1>14. \A i \in 1 .. l : u[i] = b[i]
  BY <1>8, <1>12, <1>13
<1>15. u[l + 1] = 1 /\ \A i \in 1 .. g : u[l + 1 + i] = 0
  BY <1>8, <1>12, <1>13
<1>. QED BY <1>11, <1>12, <1>13, <1>14, <1>15

LEMMA BodiesDef ==
  ASSUME NEW c \in Seq(Items)
  PROVE  /\ Bodies(c) \in [0 .. Len(c) -> Seq(Byte)]
         /\ Bodies(c)[0] = << >>
         /\ \A k \in 1 .. Len(c) : Bodies(c)[k] = After(Bodies(c)[k - 1], c[k])
<1> DEFINE n == Len(c)
           IsBodies(f) == f = [k \in 0 .. n |->
                                 IF k = 0 THEN << >> ELSE After(f[k - 1], c[k])]
           step == [k \in 1 .. n |-> [b \in Seq(Byte) |-> After(b, c[k])]]
<1>1. Bodies(c) = CHOOSE f : IsBodies(f)
  BY DEF Bodies
<1>2. PICK f \in [0 .. n -> Seq(Byte)] : IsBodies(f)
  <2>1. step \in [1 .. n -> [Seq(Byte) -> Seq(Byte)]]
    <3>1. ASSUME NEW k \in 1 .. n, NEW b \in Seq(Byte)
          PROVE  After(b, c[k]) \in Seq(Byte)
      BY AfterBytes, SMTT(60)
    <3>. QED BY <3>1
  <2>2. n \in Nat /\ << >> \in Seq(Byte)
    OBVIOUS
  <2>3. \A k \in 1 .. n : \A b \in Seq(Byte) : step[k][b] = After(b, c[k])
    OBVIOUS
  <2> HIDE DEF n, step
  <2>4. PICK g : g \in Recursions(n, Seq(Byte), << >>, step)
    BY <2>1, <2>2, Recursion
  <2>4a. /\ g \in [0 .. n -> Seq(Byte)] /\ g[0] = << >>
         /\ \A k \in 1 .. n : g[k] = step[k][g[k - 1]]
    BY <2>4 DEF Recursions
  <2>5. \A k \in 1 .. n : g[k] = After(g[k - 1], c[k])
    <3>1. ASSUME NEW k \in 1 .. n
          PROVE  g[k] = After(g[k - 1], c[k])
      <4>1. k - 1 \in 0 .. n
        BY <2>2
      <4>2. g[k - 1] \in Seq(Byte)
        BY <2>4a, <4>1
      <4>3. step[k][g[k - 1]] = After(g[k - 1], c[k])
        BY <2>3, <4>2
      <4>. QED BY <2>4a, <4>3
    <3>. QED BY <3>1
  <2>6. g = [k \in 0 .. n |-> IF k = 0 THEN << >> ELSE After(g[k - 1], c[k])]
    BY <2>2, <2>4a, <2>5
  <2>. QED BY <2>4a, <2>6
<1>3. IsBodies(Bodies(c))
  <2> HIDE DEF IsBodies
  <2>. QED BY <1>1, <1>2
<1>4. PICK B : B = Bodies(c)
  OBVIOUS
<1>5. /\ B = [k \in 0 .. n |-> B[k]]
      /\ B[0] = << >>
      /\ \A k \in 1 .. n : B[k] = After(B[k - 1], c[k])
  BY <1>3, <1>4, SMTT(60)
<1>6. \A k \in 0 .. n : B[k] \in Seq(Byte)
  <2> DEFINE S == {k \in 0 .. n : B[k] \in Seq(Byte)}
  <2>3. n \in Nat
    OBVIOUS
  <2>1. 0 \in S
    <3>1. << >> \in Seq(Byte) /\ 0 \in 0 .. n
      BY <2>3
    <3>. QED BY <1>5, <3>1
  <2>2. \A k \in 0 .. n - 1 : k \in S => k + 1 \in S
    <3>1. SUFFICES ASSUME NEW k \in 0 .. n - 1, B[k] \in Seq(Byte)
                   PROVE  B[k + 1] \in Seq(Byte)
      OBVIOUS
    <3>2. k + 1 \in 1 .. n /\ c[k + 1] \in Items /\ (k + 1) - 1 = k
      OBVIOUS
    <3>3. B[k + 1] = After(B[k], c[k + 1])
      BY <1>5, <3>2
    <3>. QED BY <3>1, <3>2, <3>3, AfterBytes
  <2> HIDE DEF S, n
  <2>4. \A k \in 0 .. n : k \in S
    BY <2>1, <2>2, <2>3, Induction
  <2>. QED BY <2>4 DEF S
<1>. QED BY <1>4, <1>5, <1>6

\* The bytes of a longer part of a collection begin with those of a shorter.
LEMMA BodiesGrow ==
  ASSUME NEW c \in Seq(Items), NEW i \in 0 .. Len(c)
  PROVE  \A j \in i .. Len(c) : PrefixOf(Bodies(c)[i], Bodies(c)[j])
<1> DEFINE n == Len(c) - i
           S == {d \in 0 .. n : PrefixOf(Bodies(c)[i], Bodies(c)[i + d])}
<1>1. n \in Nat
  OBVIOUS
<1>2. \A k \in 0 .. Len(c) :
        Bodies(c)[k] \in Seq(Byte) /\ Len(Bodies(c)[k]) \in Nat
  BY BodiesDef
<1>3. 0 \in S
  BY <1>1, <1>2 DEF PrefixOf
<1>4. ASSUME NEW d \in 0 .. n - 1, d \in S
      PROVE  d + 1 \in S
  <2>1. i + d \in 0 .. Len(c) /\ i + d + 1 \in 1 .. Len(c)
        /\ (i + d + 1) - 1 = i + d /\ i + (d + 1) = i + d + 1
    BY <1>1
  <2>2. PICK s, t \in Seq(Byte) :
          s = Bodies(c)[i] /\ t = Bodies(c)[i + d] /\ PrefixOf(s, t)
    BY <1>2, <1>4, <2>1
  <2>3. PICK u : u = Bodies(c)[i + d + 1] /\ u = After(t, c[i + d + 1])
    BY <2>1, <2>2, BodiesDef
  <2>4. c[i + d + 1] \in Items
    BY <2>1
  <2>5. PICK v \in Items : v = c[i + d + 1]
    BY <2>4
  <2>6. /\ Gap(t) \in Nat /\ Len(v) \in Nat /\ Len(t) \in Nat
        /\ Len(u) = Len(t) + 1 + Gap(t) + Len(v)
        /\ \A q \in 1 .. Len(t) : u[q] = t[q]
    <3>1. u = After(t, v) /\ v \in Items /\ t \in Seq(Byte)
      BY <2>3, <2>5
    <3>2. Len(v) \in Nat /\ Len(t) \in Nat
      BY <3>1, ItemFacts
    <3>. QED BY <3>1, <3>2, AfterBytes
  <2>7. Len(s) \in Nat /\ Len(s) <= Len(t) /\ \A q \in 1 .. Len(s) : t[q] = s[q]
    BY <2>2 DEF PrefixOf
  <2>8. PrefixOf(s, u)
    <3>1. Len(s) <= Len(u)
      BY <2>6, <2>7
    <3>2. ASSUME NEW q \in 1 .. Len(s)
          PROVE  u[q] = s[q]
      <4>1. q \in 1 .. Len(t)
        BY <2>6, <2>7
      <4>. QED BY <2>6, <2>7, <4>1
    <3>. QED BY <3>1, <3>2 DEF PrefixOf
  <2>9. PrefixOf(Bodies(c)[i], Bodies(c)[i + (d + 1)])
    BY <2>1, <2>2, <2>3, <2>8
  <2>10. d + 1 \in 0 .. n
    BY <1>1
  <2>. QED BY <2>9, <2>10
<1>5. \A d \in 0 .. n : d \in S
  <2> HIDE DEF n, S
  <2>. QED BY <1>1, <1>3, <1>4, Induction
<1>6. ASSUME NEW j \in i .. Len(c)
      PROVE  PrefixOf(Bodies(c)[i], Bodies(c)[j])
  <2>1. j - i \in 0 .. n /\ i + (j - i) = j
    OBVIOUS
  <2>2. j - i \in S
    BY <1>5, <2>1
  <2>. QED BY <2>1, <2>2
<1>. QED BY <1>6

LEMMA HeaderBytes ==
  ASSUME NEW n \in Nat
  PROVE  IndexHeader(n) \in Seq(Byte) /\ Len(IndexHeader(n)) >= 1
<1>1. SerializeU64(ChunkSize) \in Seq(Byte) /\ SerializeU64(n) \in Seq(Byte)
  BY Numbers, SerializeU64Def DEF Byte, Octet
<1>2. <<Magic>> \in Seq(Byte) /\ Len(<<Magic>>) = 1
  BY DEF Magic, Byte
<1>. QED BY <1>1, <1>2, NonEmptyConcat DEF IndexHeader

LEMMA IndexesDef ==
  ASSUME NEW o \in Seq(Nat), \A j \in 1 .. Len(o) : Distance(o, j) \in Nat
  PROVE  /\ Indexes(o) \in [0 .. Len(o) -> Seq(Byte)]
         /\ Indexes(o)[0] = IndexHeader(Len(o))
         /\ \A j \in 1 .. Len(o) :
              Indexes(o)[j] = Indexes(o)[j - 1] \o SerializeU64(Distance(o, j))
<1> DEFINE n == Len(o)
           IsIndexes(f) ==
             f = [k \in 0 .. n |->
                    IF k = 0 THEN IndexHeader(n)
                    ELSE f[k - 1] \o SerializeU64(Distance(o, k))]
           step == [k \in 1 .. n |->
                      [b \in Seq(Byte) |-> b \o SerializeU64(Distance(o, k))]]
<1>1. Indexes(o) = CHOOSE f : IsIndexes(f)
  BY DEF Indexes
<1>2. n \in Nat /\ IndexHeader(n) \in Seq(Byte)
  BY HeaderBytes
<1>3. ASSUME NEW k \in 1 .. n, NEW b \in Seq(Byte)
      PROVE  b \o SerializeU64(Distance(o, k)) \in Seq(Byte)
  <2>1. SerializeU64(Distance(o, k)) \in Seq(Byte)
    BY SerializeU64Def DEF Byte, Octet
  <2>. QED BY <2>1, ConcatBytes
<1>4. step \in [1 .. n -> [Seq(Byte) -> Seq(Byte)]]
  BY <1>3
<1>5. \A k \in 1 .. n : \A b \in Seq(Byte) :
        step[k][b] = b \o SerializeU64(Distance(o, k))
  OBVIOUS
<1>6. PICK f \in [0 .. n -> Seq(Byte)] : IsIndexes(f)
  <2> HIDE DEF n, step
  <2>1. PICK g : g \in Recursions(n, Seq(Byte), IndexHeader(n), step)
    BY <1>2, <1>4, Recursion
  <2>2. /\ g \in [0 .. n -> Seq(Byte)] /\ g[0] = IndexHeader(n)
        /\ \A k \in 1 .. n : g[k] = step[k][g[k - 1]]
    BY <2>1 DEF Recursions
  <2>3. ASSUME NEW k \in 1 .. n
        PROVE  g[k] = g[k - 1] \o SerializeU64(Distance(o, k))
    <3>1. k - 1 \in 0 .. n
      BY <1>2
    <3>2. g[k - 1] \in Seq(Byte)
      BY <2>2, <3>1
    <3>. QED BY <1>5, <2>2, <3>2
  <2>4. g = [k \in 0 .. n |-> IF k = 0 THEN IndexHeader(n)
                             ELSE g[k - 1] \o SerializeU64(Distance(o, k))]
    <3>1. g = [k \in 0 .. n |-> g[k]]
      BY <2>2
    <3>2. \A k \in 0 .. n : k # 0 => k \in 1 .. n
      BY <1>2
    <3>. QED BY <2>2, <2>3, <3>1, <3>2
  <2>. QED BY <2>2, <2>4
<1>7. IsIndexes(Indexes(o))
  <2> HIDE DEF IsIndexes
  <2>. QED BY <1>1, <1>6
<1>8. PICK X : X = Indexes(o)
  OBVIOUS
<1>9. /\ X = [k \in 0 .. n |-> X[k]]
      /\ X[0] = IndexHeader(n)
      /\ \A k \in 1 .. n : X[k] = X[k - 1] \o SerializeU64(Distance(o, k))
  <2>1. X = [k \in 0 .. n |-> IF k = 0 THEN IndexHeader(n)
                             ELSE X[k - 1] \o SerializeU64(Distance(o, k))]
    BY <1>7, <1>8
  <2> HIDE DEF n
  <2>2. \A k \in 0 .. n :
          X[k] = IF k = 0 THEN IndexHeader(n)
                 ELSE X[k - 1] \o SerializeU64(Distance(o, k))
    BY <2>1
  <2>3. 0 \in 0 .. n /\ \A k \in 1 .. n : k \in 0 .. n /\ k # 0
    BY <1>2
  <2>4. X = [k \in 0 .. n |-> X[k]]
    BY <2>1
  <2>. QED BY <2>2, <2>3, <2>4
<1>10. \A k \in 0 .. n : X[k] \in Seq(Byte)
  <2> DEFINE S == {k \in 0 .. n : X[k] \in Seq(Byte)}
  <2>1. 0 \in S
    BY <1>2, <1>9
  <2>2. ASSUME NEW k \in 0 .. n - 1, k \in S
        PROVE  k + 1 \in S
    <3>1. k + 1 \in 1 .. n /\ (k + 1) - 1 = k /\ k + 1 \in 0 .. n
      BY <1>2
    <3>2. X[k + 1] = X[k] \o SerializeU64(Distance(o, k + 1))
      BY <1>9, <3>1
    <3>3. X[k] \in Seq(Byte)
      BY <2>2
    <3>. QED BY <1>3, <3>1, <3>2, <3>3
  <2> HIDE DEF S, n
  <2>3. \A k \in 0 .. n : k \in S
    BY <1>2, <2>1, <2>2, Induction
  <2>. QED BY <2>3 DEF S
<1>. QED BY <1>8, <1>9, <1>10

-----------------------------------------------------------------------------
(* The index that is built *)

\* The index is built to where it has been encoded, and whole once the
\* encoding is over.
IndexBytes ==
  /\ pc = "index" => indexBuf = Indexes(blockOffsets)[indexBuilt]
  /\ pc # "index" /\ indexBuf # << >> =>
       indexBuf = Indexes(blockOffsets)[Len(blockOffsets)]
  /\ ~EnableIndex => indexBuf = << >> /\ pc # "index"

LEMMA OffsetsFacts ==
  ASSUME TypeOK, IndexInv
  PROVE  /\ blockOffsets \in Seq(Nat) /\ Len(blockOffsets) \in Nat
         /\ \A j \in 1 .. Len(blockOffsets) : Distance(blockOffsets, j) \in Nat
<1>1. /\ blockOffsets \in Seq(0 .. MaxPos) /\ Len(blockOffsets) \in Nat
      /\ \A j \in 1 .. Len(blockOffsets) : blockOffsets[j] \in 0 .. MaxPos
  <2> DEFINE D == 0 .. MaxPos
  <2>1. blockOffsets \in Seq(D)
    BY DEF TypeOK
  <2>2. Len(blockOffsets) \in Nat
    BY <2>1
  <2> HIDE DEF D
  <2>3. \A j \in 1 .. Len(blockOffsets) : blockOffsets[j] \in D
    BY <2>1
  <2>. QED BY <2>1, <2>2, <2>3 DEF D
<1>2. blockOffsets \in Seq(Nat)
  BY <1>1
<1>3. ASSUME NEW j \in 1 .. Len(blockOffsets)
      PROVE  Distance(blockOffsets, j) \in Nat
  <2>1. CASE j = 1
    BY <1>1, <2>1 DEF Distance
  <2>2. CASE j # 1
    <3>1. j - 1 \in 1 .. Len(blockOffsets) /\ j - 1 <= j
      BY <2>2
    <3>2. blockOffsets[j - 1] <= blockOffsets[j]
      BY <3>1 DEF IndexInv
    <3>. QED BY <1>1, <2>2, <3>1, <3>2 DEF Distance
  <2>. QED BY <2>1, <2>2
<1>. QED BY <1>1, <1>2, <1>3

LEMMA IndexBytesInit == Init => IndexBytes
BY DEF Init, IndexBytes

LEMMA IndexBytesNext ==
  ASSUME Sound, IndexBytes, [Next]_vars
  PROVE  IndexBytes'
<1> USE DEF itemVars, elemVars, indexVars, bufVars, callVars
<1>1. TypeOK /\ PhaseInv /\ IndexInv
  BY DEF Sound, Unfailed
<1>2. CASE \E v \in Items : Input(v)
  BY <1>1, <1>2 DEF Input, Refuse, PhaseInv, IndexBytes
<1>3. CASE FinishRef
  <2>1. CASE finished \/ Busy
    BY <1>3, <2>1 DEF FinishRef, PollPending, Refuse, IndexBytes
  <2>2. CASE ~finished /\ ~Busy
    <3>1. indexBuf = << >> /\ indexBuilt = 0
      BY <1>1, <2>2 DEF PhaseInv
    <3>2. UNCHANGED <<blockOffsets, indexBuilt>>
      BY <1>3, <2>2 DEF FinishRef
    <3>3. CASE NeedsIndex /\ Len(blockOffsets) > 0
      <4>1. pc' = "index" /\ indexBuf' = IndexHeader(Len(blockOffsets))
        BY <1>3, <2>2, <3>3 DEF FinishRef, IndexHeader
      <4>2. Indexes(blockOffsets)[0] = IndexHeader(Len(blockOffsets))
        BY <1>1, OffsetsFacts, IndexesDef
      <4>3. EnableIndex
        BY <3>3 DEF NeedsIndex
      <4>. QED BY <3>1, <3>2, <4>1, <4>2, <4>3 DEF IndexBytes
    <3>4. CASE ~(NeedsIndex /\ Len(blockOffsets) > 0)
      BY <1>3, <2>2, <3>1, <3>4 DEF FinishRef, IndexBytes
    <3>. QED BY <3>3, <3>4
  <2>. QED BY <2>1, <2>2
<1>4. CASE EncodeOffset
  <2>1. /\ indexBuf = Indexes(blockOffsets)[indexBuilt]
        /\ indexBuf' = indexBuf \o SerializeU64(Distance(blockOffsets, indexBuilt + 1))
        /\ indexBuilt' = indexBuilt + 1 /\ blockOffsets' = blockOffsets
        /\ pc' = IF indexBuilt' = Len(blockOffsets) THEN "poll" ELSE "index"
    BY <1>4 DEF EncodeOffset, IndexBytes, BlockDelta, Distance
  <2>2. PICK l, n \in Nat :
          l = Len(blockOffsets) /\ n = indexBuilt + 1 /\ n \in 1 .. l
          /\ n - 1 = indexBuilt
    BY <1>1, <1>4, OffsetsFacts DEF EncodeOffset, PhaseInv, TypeOK
  <2>3. Indexes(blockOffsets)[n]
          = Indexes(blockOffsets)[n - 1] \o SerializeU64(Distance(blockOffsets, n))
    BY <1>1, <2>2, OffsetsFacts, IndexesDef
  <2>4. indexBuf' = Indexes(blockOffsets)[n]
    BY <2>1, <2>2, <2>3
  <2>5. EnableIndex
    BY <1>4 DEF EncodeOffset, IndexBytes
  <2>. QED BY <2>1, <2>2, <2>4, <2>5 DEF IndexBytes
<1>5. ASSUME UNCHANGED <<indexBuf, blockOffsets>>, pc' # "index", pc # "index"
      PROVE  IndexBytes'
  BY <1>5 DEF IndexBytes
<1>6. CASE UNCHANGED vars
  BY <1>6 DEF IndexBytes, vars
<1>7. CASE PollPending
  BY <1>5, <1>7 DEF PollPending
<1>8. CASE Grant
  BY <1>5, <1>8 DEF Grant
<1>9. CASE RetireElement
  BY <1>5, <1>9 DEF RetireElement, InElement
<1>10. CASE ReturnReady
  BY <1>5, <1>10 DEF ReturnReady, Return, InElement
<1>11. CASE PutMarker
  BY <1>5, <1>11 DEF PutMarker, Proceed
<1>12. CASE FlushIndex
  BY <1>5, <1>12 DEF FlushIndex, Proceed, Return
<1>13. CASE TryAlign
  BY <1>5, <1>13 DEF TryAlign, Proceed, InElement
<1>14. CASE StartElement
  BY <1>5, <1>14 DEF StartElement, Proceed, InElement
<1>15. CASE ResumeElement
  BY <1>5, <1>15 DEF ResumeElement, Proceed, InElement
<1>. QED BY <1>2, <1>3, <1>4, <1>6, <1>7, <1>8, <1>9, <1>10, <1>11, <1>12,
            <1>13, <1>14, <1>15 DEF Next, Step

-----------------------------------------------------------------------------
(* The elements accepted are the encoding of the collection so far *)

\* The first collection, and what of it was accepted.
LEMMA SourceFacts ==
  ASSUME CInv, ~failed, inputs = 1
  PROVE  /\ source \in Seq(Items) /\ source # None /\ Len(source) \in Nat
         /\ Len(accepted) \in 0 .. Len(source)
         /\ finished => Len(accepted) = Len(source)
         /\ \A k \in 1 .. Len(accepted) :
              /\ accepted[k] \in Entry /\ accepted[k].val = source[k]
              /\ accepted[k].at = IF k = 1 THEN Base ELSE EndOf(accepted[k - 1])
<1>1. source \in Seq(Items) /\ source # None /\ Len(source) \in Nat
  BY CollectionsAreSequences, OwnedAssumption DEF CInv, OwnedTypes, Resting
<1>2. TypeOK /\ ChainInv /\ Len(accepted) \in Nat /\ iter \in Seq(Items)
      /\ Len(iter) \in Nat
  BY DEF CInv, OwnedTypes, Sound, Unfailed, Placed, TypeOK
<1>3. /\ Len(source) = Len(accepted) + Len(iter)
      /\ \A k \in 1 .. Len(accepted) : accepted[k].val = source[k]
      /\ finished => iter = << >>
  BY DEF CInv, InOrder
<1>4. \A k \in 1 .. Len(accepted) :
        /\ accepted[k] \in Entry
        /\ accepted[k].at = IF k = 1 THEN Base ELSE EndOf(accepted[k - 1])
  BY <1>2, EntriesFacts DEF ChainInv
<1>5. finished => Len(accepted) = Len(source)
  BY <1>2, <1>3
<1>6. Len(accepted) \in 0 .. Len(source)
  BY <1>1, <1>2, <1>3
<1>. QED BY <1>1, <1>3, <1>4, <1>5, <1>6

\* Where the first k elements end.
EndOfFirst(k) == IF k = 0 THEN Base ELSE EndOf(accepted[k])

LEMMA OneFurther ==
  ASSUME CInv, ~failed, inputs = 1, NEW k \in 0 .. Len(accepted) - 1,
         NEW b \in Seq(Byte), Base + Len(b) = EndOfFirst(k)
  PROVE  LET e == accepted[k + 1]
             u == After(b, source[k + 1])
         IN  /\ u \in Seq(Byte)
             /\ Base + Len(b) = e.at
             /\ Base + Len(u) = EndOf(e)
             /\ \A q \in 1 .. Len(b) : u[q] = b[q]
             /\ \A p \in e.at .. EndOf(e) - 1 : u[p - Base + 1] = ImageByte(e, p)
<1> DEFINE e == accepted[k + 1]
           u == After(b, source[k + 1])
<1>1. k + 1 \in 1 .. Len(accepted) /\ (k + 1) - 1 = k /\ k \in Nat
  BY SourceFacts
<1>2. e \in Entry /\ e.val = source[k + 1] /\ e.val \in Items
  BY <1>1, SourceFacts DEF Entry
<1>3. e.at = EndOfFirst(k)
  BY <1>1, SourceFacts DEF EndOfFirst
<1> HIDE DEF e, u
<1>4. u = After(b, e.val)
  BY <1>2 DEF u
<1>5. /\ Gap(b) \in Nat /\ u \in Seq(Byte)
      /\ Len(u) = Len(b) + 1 + Gap(b) + Len(e.val)
      /\ \A i \in 1 .. Len(b) : u[i] = b[i]
      /\ u[Len(b) + 1] = 1
      /\ \A i \in 1 .. Gap(b) : u[Len(b) + 1 + i] = 0
      /\ \A i \in 1 .. Len(e.val) : u[Len(b) + 1 + Gap(b) + i] = e.val[i]
  BY <1>2, <1>4, AfterBytes
<1>6. /\ e.at \in Nat /\ Len(e.val) \in Nat /\ Len(b) \in Nat /\ Base \in Nat
      /\ e.at = Base + Len(b)
      /\ PayloadAt(e) \in Nat /\ EndOf(e) = PayloadAt(e) + Len(e.val)
  BY <1>2, <1>3, EntryFacts, Numbers
<1>7. PayloadAt(e) = e.at + 1 + Gap(b)
  <2>1. e.at + 1 = Base + Len(b) + 1
    BY <1>6
  <2>2. CASE FixedSize
    BY <1>2, <2>1, <2>2, EntryFacts DEF Gap
  <2>3. CASE ~FixedSize
    BY <1>2, <1>6, <2>3, EntryFacts DEF Gap
  <2>. QED BY <2>2, <2>3
<1>8. Base + Len(u) = EndOf(e)
  <2>1. PICK l, g, m \in Nat : l = Len(b) /\ g = Gap(b) /\ m = Len(e.val)
    BY <1>5, <1>6
  <2>2. Len(u) = l + 1 + g + m
    BY <1>5, <2>1
  <2>3. EndOf(e) = (Base + l) + 1 + g + m
    BY <1>6, <1>7, <2>1
  <2>. QED BY <1>6, <2>2, <2>3
<1>9. ASSUME NEW p \in e.at .. EndOf(e) - 1
      PROVE  u[p - Base + 1] = ImageByte(e, p)
  <2>1. PICK l, g, m, a \in Nat :
          l = Len(b) /\ g = Gap(b) /\ m = Len(e.val) /\ a = e.at
    BY <1>5, <1>6
  <2>2. p \in Nat /\ a = Base + l /\ a <= p /\ p < a + 1 + g + m
        /\ PayloadAt(e) = a + 1 + g
    <3>1. PayloadAt(e) = a + 1 + g /\ EndOf(e) = a + 1 + g + m
      BY <1>6, <1>7, <2>1
    <3>2. p \in a .. (a + 1 + g + m) - 1
      BY <2>1, <3>1
    <3>3. p \in Nat /\ a <= p /\ p < a + 1 + g + m
      BY <3>2
    <3>4. a = Base + l
      BY <1>6, <2>1
    <3>. QED BY <3>1, <3>3, <3>4
  <2>3. CASE p = a
    <3>1. p - Base + 1 = l + 1
      BY <1>6, <2>2, <2>3
    <3>. QED BY <1>5, <2>1, <2>3, <3>1 DEF ImageByte
  <2>4. CASE p # a /\ p < a + 1 + g
    <3>1. PICK i \in 1 .. g : i = p - a
      BY <2>2, <2>4
    <3>2. p - Base + 1 = l + 1 + i
      BY <1>6, <2>2, <3>1
    <3>3. u[l + 1 + i] = 0
      BY <1>5, <2>1
    <3>. QED BY <2>1, <2>2, <2>4, <3>2, <3>3 DEF ImageByte
  <2>5. CASE p >= a + 1 + g
    <3>1. PICK i \in 1 .. m : i = p - (a + 1 + g) + 1
      BY <2>2, <2>5
    <3>2. p - Base + 1 = l + 1 + g + i
      BY <1>6, <2>2, <3>1
    <3>3. u[l + 1 + g + i] = e.val[i]
      BY <1>5, <2>1
    <3>4. p # a /\ ~(p < a + 1 + g)
      BY <2>2, <2>5
    <3>. QED BY <2>1, <2>2, <3>1, <3>2, <3>3, <3>4 DEF ImageByte
  <2>. QED BY <2>2, <2>3, <2>4, <2>5
<1>. QED BY <1>3, <1>5, <1>6, <1>8, <1>9 DEF e, u

LEMMA SourceBodies ==
  ASSUME CInv, ~failed, inputs = 1
  PROVE  /\ Bodies(source)[0] = << >>
         /\ \A k \in 0 .. Len(accepted) : Bodies(source)[k] \in Seq(Byte)
         /\ \A k \in 1 .. Len(accepted) :
              Bodies(source)[k] = After(Bodies(source)[k - 1], source[k])
<1>1. PICK n, m \in Nat : n = Len(source) /\ m = Len(accepted) /\ m <= n
  BY SourceFacts
<1>2. PICK B : B = Bodies(source)
  OBVIOUS
<1>3. /\ B \in [0 .. n -> Seq(Byte)] /\ B[0] = << >>
      /\ \A k \in 1 .. n : B[k] = After(B[k - 1], source[k])
  BY <1>1, <1>2, SourceFacts, BodiesDef
<1>4. ASSUME NEW k \in 0 .. m PROVE B[k] \in Seq(Byte)
  <2>1. k \in 0 .. n
    BY <1>1
  <2>. QED BY <1>3, <2>1
<1>5. ASSUME NEW k \in 1 .. m PROVE B[k] = After(B[k - 1], source[k])
  <2>1. k \in 1 .. n
    BY <1>1
  <2>. QED BY <1>3, <2>1
<1>. QED BY <1>1, <1>2, <1>3, <1>4, <1>5

\* The first k elements of the encoding end where the k-th accepted one does.
LEMMA BodyEnds ==
  ASSUME CInv, ~failed, inputs = 1
  PROVE  \A k \in 0 .. Len(accepted) :
           Base + Len(Bodies(source)[k]) = EndOfFirst(k)
<1> DEFINE m == Len(accepted)
           S == {k \in 0 .. m : Base + Len(Bodies(source)[k]) = EndOfFirst(k)}
<1>1. m \in Nat /\ m <= Len(source) /\ Len(source) \in Nat
      /\ source \in Seq(Items)
  BY SourceFacts
<1>2. /\ Bodies(source)[0] = << >>
      /\ \A k \in 0 .. m : Bodies(source)[k] \in Seq(Byte)
      /\ \A k \in 1 .. m : Bodies(source)[k] = After(Bodies(source)[k - 1], source[k])
  BY SourceBodies
<1>3. 0 \in S
  <2>1. Len(Bodies(source)[0]) = 0 /\ Base + 0 = Base
    BY <1>2, Numbers
  <2>. QED BY <1>1, <2>1 DEF EndOfFirst
<1>4. ASSUME NEW k \in 0 .. m - 1, k \in S
      PROVE  k + 1 \in S
  <2>1. k + 1 \in 1 .. m /\ (k + 1) - 1 = k /\ k \in 0 .. m /\ k + 1 # 0
    BY <1>1
  <2>2. PICK b \in Seq(Byte) :
          b = Bodies(source)[k] /\ Base + Len(b) = EndOfFirst(k)
    BY <1>2, <1>4, <2>1
  <2>3. Bodies(source)[k + 1] = After(b, source[k + 1])
    BY <1>2, <2>1, <2>2
  <2>4. Base + Len(After(b, source[k + 1])) = EndOf(accepted[k + 1])
    BY <2>2, OneFurther
  <2>. QED BY <2>1, <2>3, <2>4 DEF EndOfFirst
<1>5. \A k \in 0 .. m : k \in S
  <2> HIDE DEF m, S
  <2>. QED BY <1>1, <1>3, <1>4, Induction
<1>. QED BY <1>5

\* What the sink holds of the first k elements is what the encoding has there.
LEMMA BodyBytes ==
  ASSUME CInv, ~failed, inputs = 1
  PROVE  \A k \in 0 .. Len(accepted) : \A q \in 1 .. Len(out) :
           q <= Len(Bodies(source)[k]) => out[q] = Bodies(source)[k][q]
<1> DEFINE m == Len(accepted)
           S == {k \in 0 .. m : \A q \in 1 .. Len(out) :
                   q <= Len(Bodies(source)[k]) => out[q] = Bodies(source)[k][q]}
<1>1. m \in Nat /\ m <= Len(source) /\ Len(source) \in Nat
      /\ source \in Seq(Items)
  BY SourceFacts
<1>2. /\ Bodies(source)[0] = << >>
      /\ \A k \in 0 .. m : Bodies(source)[k] \in Seq(Byte)
      /\ \A k \in 1 .. m : Bodies(source)[k] = After(Bodies(source)[k - 1], source[k])
  BY SourceBodies
<1>3. 0 \in S
  BY <1>1, <1>2
<1>4. ASSUME NEW k \in 0 .. m - 1, k \in S
      PROVE  k + 1 \in S
  <2>1. k + 1 \in 1 .. m /\ (k + 1) - 1 = k /\ k \in 0 .. m
    BY <1>1
  <2>2. PICK b \in Seq(Byte) :
          b = Bodies(source)[k] /\ Base + Len(b) = EndOfFirst(k)
    BY <1>2, <2>1, BodyEnds
  <2>3. PICK u : u = After(b, source[k + 1])
    OBVIOUS
  <2>4. PICK e : e = accepted[k + 1]
    OBVIOUS
  <2>5. /\ u \in Seq(Byte)
        /\ Base + Len(b) = e.at
        /\ Base + Len(u) = EndOf(e)
        /\ \A q \in 1 .. Len(b) : u[q] = b[q]
        /\ \A p \in e.at .. EndOf(e) - 1 : u[p - Base + 1] = ImageByte(e, p)
    BY <2>2, <2>3, <2>4, OneFurther
  <2>6. Bodies(source)[k + 1] = u
    BY <1>2, <2>1, <2>2, <2>3
  <2>7. Len(out) \in Nat /\ Base \in Nat /\ Pos = Base + Len(out)
    BY Numbers DEF CInv, Sound, Unfailed, TypeOK, Pos
  <2>8. \A p \in e.at .. Pos - 1 :
          p < EndOf(e) => out[p - Base + 1] = ImageByte(e, p)
    BY <2>1, <2>4 DEF CInv, Sound, Placed, ContentInv, ByteAt
  <2>9. ASSUME NEW q \in 1 .. Len(out), q <= Len(u)
        PROVE  out[q] = u[q]
    <3>1. CASE q <= Len(b)
      <4>1. out[q] = b[q]
        BY <1>4, <2>2, <3>1
      <4>2. u[q] = b[q]
        BY <2>5, <2>7, <3>1
      <4>. QED BY <4>1, <4>2
    <3>2. CASE q > Len(b)
      <4>1. PICK p \in Nat : p = Base + q - 1
        BY <2>7
      <4>2. p \in e.at .. Pos - 1 /\ p \in e.at .. EndOf(e) - 1 /\ p < EndOf(e)
            /\ p - Base + 1 = q
        BY <2>5, <2>7, <2>9, <3>2, <4>1
      <4>. QED BY <2>5, <2>8, <4>2
    <3>3. Len(b) \in Nat
      BY <2>2
    <3>. QED BY <3>1, <3>2, <3>3
  <2>. QED BY <2>1, <2>6, <2>9
<1>5. \A k \in 0 .. m : k \in S
  <2> HIDE DEF m, S
  <2>. QED BY <1>1, <1>3, <1>4, Induction
<1>. QED BY <1>5

-----------------------------------------------------------------------------
(* The sink holds a prefix of the encoding *)

LEMMA PrefixTrans ==
  ASSUME NEW s \in Seq(Byte), NEW t \in Seq(Byte), NEW u \in Seq(Byte),
         PrefixOf(s, t), PrefixOf(t, u)
  PROVE  PrefixOf(s, u)
<1>1. Len(s) \in Nat /\ Len(t) \in Nat /\ Len(u) \in Nat
  OBVIOUS
<1>2. Len(s) <= Len(t) /\ Len(t) <= Len(u)
  BY DEF PrefixOf
<1>3. ASSUME NEW q \in 1 .. Len(s) PROVE u[q] = s[q]
  <2>1. q \in 1 .. Len(t)
    BY <1>1, <1>2
  <2>. QED BY <2>1 DEF PrefixOf
<1>. QED BY <1>1, <1>2, <1>3 DEF PrefixOf

\* n elements fill l blocks: the division rounds up.
LEMMA RoundUp ==
  ASSUME NEW n \in Nat, NEW l \in Nat,
         (l - 1) * ChunkSize < n, n <= l * ChunkSize
  PROVE  (n + ChunkSize - 1) \div ChunkSize = l
<1>1. ChunkSize \in Nat /\ ChunkSize >= 1
  BY Numbers
<1>2. PICK k \in Nat : k = (n + ChunkSize - 1) \div ChunkSize
  BY <1>1
<1>3. PICK r \in 0 .. ChunkSize - 1 : n + ChunkSize - 1 = k * ChunkSize + r
  BY <1>1, <1>2
<1>4. PICK kc, lc \in Nat : kc = k * ChunkSize /\ lc = l * ChunkSize
  BY <1>1
<1>5. (l - 1) * ChunkSize = lc - ChunkSize /\ (l + 1) * ChunkSize = lc + ChunkSize
  BY <1>1, <1>4
<1>6. lc - ChunkSize < n /\ n <= lc /\ n + ChunkSize - 1 = kc + r
  BY <1>3, <1>4, <1>5
<1>7. CASE k >= l + 1
  <2>1. lc + ChunkSize <= kc
    BY <1>4, <1>5, <1>7, Monotone
  <2>. QED BY <1>1, <1>6, <2>1
<1>8. CASE k <= l - 1
  <2>1. kc <= lc - ChunkSize
    BY <1>4, <1>5, <1>8, Monotone
  <2>. QED BY <1>1, <1>6, <2>1
<1>9. CASE k = l
  BY <1>2, <1>9
<1>. QED BY <1>7, <1>8, <1>9

\* The blocks begin at elements of the collection, each behind the one before.
LEMMA BlockOffsetsFacts ==
  ASSUME NEW c \in Seq(Items)
  PROVE  /\ BlockOffsets(c) \in Seq(Nat)
         /\ \A j \in 1 .. Len(BlockOffsets(c)) : Distance(BlockOffsets(c), j) \in Nat
<1>1. PICK n, l \in Nat :
        n = Len(c) /\ l = (Len(c) + ChunkSize - 1) \div ChunkSize
  BY Numbers
<1>2. ChunkSize \in Nat /\ ChunkSize >= 1
  BY Numbers
<1>3. PICK B : B = Bodies(c)
  OBVIOUS
<1>4. /\ \A k \in 0 .. n : B[k] \in Seq(Byte)
      /\ \A i \in 0 .. n : \A j \in i .. n : PrefixOf(B[i], B[j])
  BY <1>1, <1>3, BodiesDef, BodiesGrow
<1>5. PICK o : o = BlockOffsets(c)
  OBVIOUS
<1>6. o = [j \in 1 .. l |-> Len(B[(j - 1) * ChunkSize])]
  BY <1>1, <1>3, <1>5 DEF BlockOffsets
<1>7. ASSUME NEW j \in 1 .. l
      PROVE  /\ (j - 1) * ChunkSize \in 0 .. n
             /\ o[j] = Len(B[(j - 1) * ChunkSize]) /\ o[j] \in Nat
  <2>1. PICK d, e \in Nat : d = (j - 1) * ChunkSize /\ e = (l - 1) * ChunkSize
    BY <1>2
  <2>2. d <= e
    BY <2>1, Monotone
  <2>3. PICK r \in 0 .. ChunkSize - 1 : n + ChunkSize - 1 = l * ChunkSize + r
    BY <1>1, <1>2
  <2>4. l * ChunkSize = e + ChunkSize
    BY <1>2, <2>1
  <2>5. d \in 0 .. n
    BY <1>2, <2>2, <2>3, <2>4
  <2>6. B[d] \in Seq(Byte) /\ Len(B[d]) \in Nat
    BY <1>4, <2>5
  <2>. QED BY <1>6, <2>1, <2>5, <2>6
<1>8. o \in Seq(Nat) /\ Len(o) = l
  <2>1. o \in [1 .. l -> Nat]
    BY <1>6, <1>7
  <2>. QED BY <2>1
<1>9. ASSUME NEW j \in 1 .. l
      PROVE  Distance(o, j) \in Nat
  <2>1. CASE j = 1
    BY <1>7, <2>1 DEF Distance
  <2>2. CASE j # 1
    <3>1. j - 1 \in 1 .. l
      BY <2>2
    <3>2. PICK d, e \in Nat :
            d = ((j - 1) - 1) * ChunkSize /\ e = (j - 1) * ChunkSize
      BY <1>2, <3>1
    <3>3. d <= e /\ d \in 0 .. n /\ e \in 0 .. n /\ o[j - 1] = Len(B[d])
          /\ o[j] = Len(B[e])
      BY <1>7, <3>1, <3>2, Monotone
    <3>4. Len(B[d]) <= Len(B[e])
      BY <1>4, <3>3 DEF PrefixOf
    <3>. QED BY <1>7, <2>2, <3>1, <3>3, <3>4 DEF Distance
  <2>. QED BY <2>1, <2>2
<1>. QED BY <1>5, <1>8, <1>9

LEMMA BlockIndexBytes ==
  ASSUME NEW c \in Seq(Items)
  PROVE  BlockIndex(c) \in Seq(Byte)
<1>1. CASE EnableIndex /\ Len(c) > ChunkSize
  <2>1. PICK o : o = BlockOffsets(c)
    OBVIOUS
  <2>2. o \in Seq(Nat) /\ \A j \in 1 .. Len(o) : Distance(o, j) \in Nat
    BY <2>1, BlockOffsetsFacts
  <2>3. Indexes(o) \in [0 .. Len(o) -> Seq(Byte)] /\ Len(o) \in 0 .. Len(o)
    BY <2>2, IndexesDef
  <2>4. Indexes(o)[Len(o)] \in Seq(Byte)
    BY <2>3
  <2>. QED BY <1>1, <2>1, <2>4 DEF BlockIndex
<1>2. CASE ~(EnableIndex /\ Len(c) > ChunkSize)
  BY <1>2 DEF BlockIndex
<1>. QED BY <1>1, <1>2

LEMMA EncodingBytes ==
  ASSUME NEW c \in Seq(Items)
  PROVE  LET b == Bodies(c)[Len(c)]
             x == BlockIndex(c)
         IN  /\ b \in Seq(Byte) /\ x \in Seq(Byte)
             /\ Encoding(c) \in Seq(Byte) /\ PrefixOf(b, Encoding(c))
             /\ Len(Encoding(c)) = Len(b) + 1 + Len(x)
             /\ Encoding(c)[Len(b) + 1] = 0
             /\ \A q \in 1 .. Len(x) : Encoding(c)[Len(b) + 1 + q] = x[q]
<1>1. PICK b \in Seq(Byte) : b = Bodies(c)[Len(c)]
  <2>1. Len(c) \in 0 .. Len(c)
    OBVIOUS
  <2>. QED BY <2>1, BodiesDef
<1>2. PICK x \in Seq(Byte) : x = BlockIndex(c)
  BY BlockIndexBytes
<1>3. <<0>> \in Seq(Byte) /\ Len(<<0>>) = 1 /\ <<0>>[1] = 0
  BY DEF Byte
<1>4. PICK t \in Seq(Byte) : t = b \o <<0>>
  BY <1>3, ConcatBytes
<1>5. /\ Len(t) = Len(b) + 1 /\ t[Len(b) + 1] = 0
      /\ \A q \in 1 .. Len(b) : t[q] = b[q]
  BY <1>3, <1>4, ConcatBytes
<1>6. PICK e : e = Encoding(c) /\ e = t \o x
  BY <1>1, <1>2, <1>4 DEF Encoding, Body
<1>7. /\ e \in Seq(Byte) /\ Len(e) = Len(t) + Len(x)
      /\ \A q \in 1 .. Len(t) : e[q] = t[q]
      /\ \A q \in 1 .. Len(x) : e[Len(t) + q] = x[q]
  BY <1>6, ConcatBytes
<1>8. PICK l, m \in Nat : l = Len(b) /\ m = Len(x)
  OBVIOUS
<1>9. /\ Len(e) = l + 1 + m /\ e[l + 1] = 0
      /\ \A q \in 1 .. l : e[q] = b[q]
      /\ \A q \in 1 .. m : e[l + 1 + q] = x[q]
  BY <1>5, <1>7, <1>8
<1>10. PrefixOf(b, e)
  BY <1>8, <1>9 DEF PrefixOf
<1>. QED BY <1>1, <1>2, <1>6, <1>7, <1>8, <1>9, <1>10

\* The offsets recorded while the elements were fed are those of the blocks.
LEMMA OffsetsAreTheBlocks ==
  ASSUME CInv, BlocksInv, ~failed, inputs = 1, finished, EnableIndex
  PROVE  blockOffsets = BlockOffsets(source)
<1>1. PICK n \in Nat : n = Len(source) /\ n = Len(accepted)
  BY SourceFacts
<1>2. TypeOK /\ IndexInv
  BY DEF CInv, Sound, Unfailed
<1>3. PICK l \in Nat : l = Len(blockOffsets)
  BY <1>2, OffsetsFacts
<1>4. (l - 1) * ChunkSize < n /\ n <= l * ChunkSize
  BY <1>1, <1>3 DEF BlocksInv
<1>5. (n + ChunkSize - 1) \div ChunkSize = l
  BY <1>4, RoundUp
<1>6. ASSUME NEW j \in 1 .. l
      PROVE  blockOffsets[j] = Len(Bodies(source)[(j - 1) * ChunkSize])
  <2>1. PICK k \in Nat : k = (j - 1) * ChunkSize
    BY Numbers
  <2>2. k + 1 \in 1 .. n
    BY <1>4, <2>1, BlockBegins
  <2>3. accepted[k + 1].at = Base + blockOffsets[j]
    BY <1>3, <2>1 DEF BlocksInv
  <2>4. accepted[k + 1].at = EndOfFirst(k)
    <3>1. (k + 1) - 1 = k /\ (k + 1 = 1 <=> k = 0)
      OBVIOUS
    <3>2. accepted[k + 1].at
            = IF k + 1 = 1 THEN Base ELSE EndOf(accepted[(k + 1) - 1])
      BY <1>1, <2>2, SourceFacts
    <3>. QED BY <3>1, <3>2 DEF EndOfFirst
  <2>5. k \in 0 .. Len(accepted)
    BY <1>1, <2>2
  <2>6. /\ Base + Len(Bodies(source)[k]) = EndOfFirst(k)
        /\ Len(Bodies(source)[k]) \in Nat
    <3>1. Bodies(source)[k] \in Seq(Byte)
      BY <2>5, SourceBodies
    <3>. QED BY <2>5, <3>1, BodyEnds
  <2>7. blockOffsets[j] \in Nat
    BY <1>2, <1>3, OffsetsFacts
  <2>8. Base + blockOffsets[j] = Base + Len(Bodies(source)[k])
    BY <2>3, <2>4, <2>6
  <2>. QED BY <2>1, <2>6, <2>7, <2>8, Numbers
<1>7. blockOffsets = [j \in 1 .. l |-> blockOffsets[j]]
  BY <1>2, <1>3, OffsetsFacts
<1>8. BlockOffsets(source)
        = [j \in 1 .. l |-> Len(Bodies(source)[(j - 1) * ChunkSize])]
  BY <1>1, <1>5 DEF BlockOffsets
<1>. QED BY <1>6, <1>7, <1>8

LEMMA IndexIsBuilt ==
  ASSUME CInv, BlocksInv, IndexBytes, ~failed, inputs = 1, finished,
         pc # "index"
  PROVE  indexBuf = BlockIndex(source)
<1>1. Len(source) = Len(accepted)
  BY SourceFacts
<1>2. CASE EnableIndex /\ Len(source) > ChunkSize
  <2>1. indexBuf # << >>
    BY <1>1, <1>2 DEF BlocksInv
  <2>2. indexBuf = Indexes(blockOffsets)[Len(blockOffsets)]
    BY <2>1 DEF IndexBytes
  <2>3. blockOffsets = BlockOffsets(source)
    BY <1>2, OffsetsAreTheBlocks
  <2>. QED BY <1>2, <2>2, <2>3 DEF BlockIndex
<1>3. CASE EnableIndex /\ ~(Len(source) > ChunkSize)
  BY <1>1, <1>3 DEF BlocksInv, BlockIndex
<1>4. CASE ~EnableIndex
  BY <1>4 DEF IndexBytes, BlockIndex
<1>. QED BY <1>2, <1>3, <1>4

\* While elements are still to be written the sink holds no more than theirs.
LEMMA InTheBody ==
  ASSUME CInv, ~failed, inputs = 1, Pos <= BodyEnd
  PROVE  PrefixOf(out, Encoding(source))
<1>1. PICK n, m \in Nat : n = Len(source) /\ m = Len(accepted) /\ m <= n
  BY SourceFacts
<1>2. source \in Seq(Items)
  BY SourceFacts
<1>3. PICK b, t \in Seq(Byte) :
        b = Bodies(source)[m] /\ t = Bodies(source)[n] /\ PrefixOf(b, t)
  BY <1>1, <1>2, BodiesDef, BodiesGrow
<1>4. PICK e \in Seq(Byte) : e = Encoding(source) /\ PrefixOf(t, e)
  BY <1>1, <1>2, <1>3, EncodingBytes
<1>5. TypeOK
  BY DEF CInv, Sound, Unfailed
<1>6. out \in Seq(Byte) /\ Len(out) \in Nat /\ Base \in Nat
  BY <1>5, Numbers DEF TypeOK
<1>7. BodyEnd = Base + Len(b)
  <2>1. Base + Len(b) = EndOfFirst(m)
    BY <1>1, <1>3, BodyEnds
  <2>2. BodyEnd = EndOfFirst(m)
    <3>1. accepted = << >> <=> m = 0
      <4>1. accepted \in Seq([at : Base .. MaxPos, val : Items])
        BY <1>5 DEF TypeOK
      <4>. QED BY <1>1, <4>1
    <3>. QED BY <1>1, <3>1 DEF BodyEnd, EndOfFirst
  <2>. QED BY <2>1, <2>2
<1>8. Len(out) <= Len(b)
  BY <1>6, <1>7 DEF Pos
<1>9. \A q \in 1 .. Len(out) : out[q] = b[q]
  <2>1. ASSUME NEW q \in 1 .. Len(out) PROVE out[q] = b[q]
    <3>1. q <= Len(b)
      BY <1>6, <1>8
    <3>. QED BY <1>1, <1>3, <3>1, BodyBytes
  <2>. QED BY <2>1
<1>10. PrefixOf(out, b)
  BY <1>8, <1>9 DEF PrefixOf
<1>11. PrefixOf(out, t)
  BY <1>3, <1>6, <1>10, PrefixTrans
<1>. QED BY <1>4, <1>6, <1>11, PrefixTrans

\* Behind the elements it holds the terminator and the index.
LEMMA InTheTrailer ==
  ASSUME CInv, BlocksInv, IndexBytes, ~failed, inputs = 1, finished,
         pc # "index"
  PROVE  /\ PrefixOf(out, Encoding(source))
         /\ Unsent = 0 => out = Encoding(source)
<1>1. PICK n \in Nat : n = Len(source) /\ n = Len(accepted)
  BY SourceFacts
<1>2. source \in Seq(Items) /\ TypeOK
  BY SourceFacts DEF CInv, Sound, Unfailed
<1>3. PICK b, x, e \in Seq(Byte) :
        /\ b = Bodies(source)[n] /\ x = BlockIndex(source) /\ e = Encoding(source)
        /\ Len(e) = Len(b) + 1 + Len(x)
        /\ \A q \in 1 .. Len(b) : e[q] = b[q]
        /\ e[Len(b) + 1] = 0
        /\ \A q \in 1 .. Len(x) : e[Len(b) + 1 + q] = x[q]
  BY <1>1, <1>2, EncodingBytes DEF PrefixOf
<1>4. Trailer = <<0>> \o x
  BY <1>3, IndexIsBuilt DEF Trailer
<1>5. <<0>> \in Seq(Byte) /\ Len(<<0>>) = 1 /\ <<0>>[1] = 0
  BY DEF Byte
<1>6. /\ Len(Trailer) = 1 + Len(x) /\ Trailer[1] = 0
      /\ \A q \in 1 .. Len(x) : Trailer[1 + q] = x[q]
  BY <1>4, <1>5, ConcatBytes
<1>7. out \in Seq(Byte) /\ Len(out) \in Nat /\ Base \in Nat
      /\ Pos = Base + Len(out)
  BY <1>2, Numbers DEF TypeOK, Pos
<1>8. BodyEnd = Base + Len(b)
  <2>1. Base + Len(b) = EndOfFirst(n)
    BY <1>1, <1>3, BodyEnds
  <2>2. accepted = << >> <=> n = 0
    <3>1. accepted \in Seq([at : Base .. MaxPos, val : Items])
      BY <1>2 DEF TypeOK
    <3>. QED BY <1>1, <3>1
  <2>. QED BY <1>1, <2>1, <2>2 DEF BodyEnd, EndOfFirst
<1>9. PICK l, m, o \in Nat : l = Len(b) /\ m = Len(x) /\ o = Len(out)
  BY <1>7
<1>10. /\ Unsent = (l + 1 + m) - o /\ Unsent >= 0
  <2>1. Unsent >= 0
    BY NeverBeyond DEF CInv, Sound, Unfailed, Placed
  <2>. QED BY <1>6, <1>7, <1>8, <1>9, <2>1 DEF Unsent
<1>11. o <= Len(e) /\ Len(e) = l + 1 + m
  BY <1>3, <1>9, <1>10
<1>12. ASSUME NEW q \in 1 .. o
       PROVE  e[q] = out[q]
  <2>1. CASE q <= l
    <3>1. out[q] = b[q]
      BY <1>1, <1>3, <1>9, <2>1, BodyBytes
    <3>. QED BY <1>3, <1>9, <2>1, <3>1
  <2>2. CASE q > l
    <3>1. PICK p \in Nat : p = Base + q - 1
      BY <1>7
    <3>2. p \in BodyEnd .. Pos - 1 /\ p - Base + 1 = q /\ p - BodyEnd + 1 = q - l
      BY <1>7, <1>8, <1>9, <2>2, <3>1
    <3>3. out[q] = Trailer[q - l]
      BY <3>2 DEF CInv, Sound, Placed, ContentInv, ByteAt
    <3>4. CASE q = l + 1
      <4>1. q - l = 1
        BY <1>9, <3>4
      <4>. QED BY <1>3, <1>6, <1>9, <3>3, <3>4, <4>1
    <3>5. CASE q # l + 1
      <4>1. PICK i \in 1 .. m : q = l + 1 + i
        <5>1. q - (l + 1) \in 1 .. m /\ q = l + 1 + (q - (l + 1))
          BY <1>11, <1>12, <2>2, <3>5
        <5>. QED BY <5>1
      <4>2. q - l = 1 + i
        BY <4>1
      <4>. QED BY <1>3, <1>6, <1>9, <3>3, <4>1, <4>2
    <3>. QED BY <3>4, <3>5
  <2>. QED BY <1>9, <2>1, <2>2
<1>13. PrefixOf(out, e)
  BY <1>9, <1>11, <1>12 DEF PrefixOf
<1>14. ASSUME Unsent = 0 PROVE out = e
  <2>1. Len(out) = Len(e)
    BY <1>9, <1>10, <1>11, <1>14
  <2>2. /\ out \in Seq(Byte) /\ e \in Seq(Byte)
        /\ Len(out) = o /\ Len(e) = o /\ o \in Nat
    BY <1>7, <1>9, <2>1
  <2>3. out = [q \in 1 .. o |-> out[q]] /\ e = [q \in 1 .. o |-> e[q]]
    BY <2>2
  <2>. QED BY <1>12, <2>3
<1>. QED BY <1>3, <1>13, <1>14

\* After Ready the running call answers Ready again.
StillReady ==
  inputs = 1 /\ outcome \in {"ready", "closed"}
    => /\ stage # "feeding"
       /\ stage # "idle" /\ pc = "idle" => result = "ready"

OutBegins ==
  /\ source = None => out = << >>
  /\ source # None => PrefixOf(out, Encoding(source))

\* The invariant of a serializer that is given one collection.
SInv ==
  /\ CInv
  /\ ~failed => BlocksInv
  /\ IndexBytes
  /\ StillReady
  /\ OutBegins
  /\ inputs <= 1

LEMMA OutBeginsSound ==
  ASSUME CInv, BlocksInv, IndexBytes, ~failed, inputs \in {0, 1}
  PROVE  OutBegins
<1>1. TypeOK /\ PhaseInv /\ PosInv
  BY DEF CInv, Sound, Unfailed, Placed
<1>2. out \in Seq(Byte) /\ Len(out) \in Nat /\ Base \in Nat
      /\ Pos = Base + Len(out)
  BY <1>1, Numbers DEF TypeOK, Pos
<1>3. CASE inputs = 0
  <2>1. source = None /\ accepted = << >> /\ ~finished
    BY <1>3 DEF CInv, Resting
  <2>2. BodyEnd = Base /\ Len(Trailer) = 0
    BY <2>1 DEF BodyEnd, Trailer
  <2>3. Len(out) = 0
    BY <1>1, <1>2, <2>2, NeverBeyond DEF Unsent
  <2>. QED BY <1>2, <2>1, <2>3 DEF OutBegins
<1>4. CASE inputs = 1
  <2>1. source # None
    BY <1>4, SourceFacts
  <2>2. CASE ~finished \/ pc = "index"
    <3>1. Pos <= BodyEnd
      <4>1. BodyEnd \in Nat
        BY <1>1, EntriesFacts
      <4>2. CASE ~finished
        <5>1. Len(Trailer) = 0
          BY <4>2 DEF Trailer
        <5>. QED BY <1>1, <1>2, <4>1, <5>1, NeverBeyond DEF Unsent
      <4>3. CASE pc = "index"
        <5>1. finished /\ markerCursor = 0
          BY <1>1, <4>3 DEF PhaseInv
        <5>2. indexCursor = 0
          <6>1. indexCursor \in Nat /\ ~(indexCursor > 0)
            BY <1>1, <5>1 DEF PhaseInv, TypeOK
          <6>. QED BY <6>1
        <5>. QED BY <1>1, <4>1, <5>1, <5>2 DEF PosInv
      <4>. QED BY <2>2, <4>2, <4>3
    <3>. QED BY <1>4, <2>1, <3>1, InTheBody DEF OutBegins
  <2>3. CASE finished /\ pc # "index"
    BY <1>4, <2>1, <2>3, InTheTrailer DEF OutBegins
  <2>. QED BY <2>2, <2>3
<1>. QED BY <1>3, <1>4

\* What was answered Ready is the whole encoding.
LEMMA ReadyIsTheEncoding ==
  ASSUME SInv, inputs = 1, outcome \in {"ready", "closed"}
  PROVE  out = Encoding(source)
<1>1. CInv /\ ~failed /\ finished /\ pc # "index" /\ IndexBytes /\ BlocksInv
      /\ markerCursor = 1 /\ indexCursor = Len(indexBuf)
  BY DEF SInv, CInv, StaysWritten
<1>2. Unsent = 0
  <2>1. indexBuf \in Seq(Byte) /\ Len(indexBuf) \in Nat
    BY <1>1 DEF CInv, Sound, Unfailed, TypeOK
  <2>2. Pos = BodyEnd + 1 + Len(indexBuf)
    BY <1>1 DEF CInv, Sound, Placed, PosInv
  <2>3. Len(Trailer) = 1 + Len(indexBuf)
    BY <1>1, <2>1 DEF Trailer, Byte
  <2>4. BodyEnd \in Nat
    BY <1>1, EntriesFacts DEF CInv, Sound, Unfailed
  <2>. QED BY <2>1, <2>2, <2>3, <2>4 DEF Unsent
<1>. QED BY <1>1, <1>2, InTheTrailer

\* Only a step of the sequence serializer inside the call writes.
LEMMA OnlyStepsWrite ==
  ASSUME CInv, [OwnedNext]_ownedVars, inputs \in {0, 1}, inputs' \in {0, 1},
         MaxInputs = 1
  PROVE  \/ Step /\ UNCHANGED ownerVars /\ ~failed
         \/ /\ out' = out
            /\ failed' = failed
            /\ \/ source' = source
               \/ source = None /\ inputs = 0
            /\ inputs = 1 => inputs' = 1
<1>1. CASE \E c \in Collections : OwnedInput(c)
  <2>1. inputs = 0 /\ PollPending
    BY <1>1 DEF OwnedInput
  <2>2. source = None /\ out' = out /\ failed' = failed
    BY <2>1, CallKeeps DEF CInv, Resting
  <2>. QED BY <2>1, <2>2
<1>2. CASE OwnedPollPending
  BY <1>2, CallKeeps DEF OwnedPollPending, PollPending
<1>3. CASE OwnedFinish
  BY <1>3 DEF OwnedFinish, FinishRef, PollPending, Refuse
<1>4. CASE OwnedGrant \/ Gone \/ UNCHANGED ownedVars
  BY <1>4 DEF OwnedGrant, Grant, Gone, ownedVars, ownerVars, vars, callVars
<1>5. CASE Step /\ UNCHANGED ownerVars
  <2>1. pc # "idle"
    BY <1>5 DEF Step, EncodeOffset, PutMarker, FlushIndex, TryAlign, StartElement,
         ResumeElement, RetireElement, ReturnReady, InElement
  <2>. QED BY <1>5, <2>1 DEF CInv, Stopped
<1>6. CASE Relay \/ Completed \/ Closed
  BY <1>6 DEF Relay, Completed, Closed, OwnedReturn, vars, callVars
<1>7. CASE FeedNext
  BY <1>7 DEF FeedNext, Input, Refuse
<1>8. CASE FeedEnd
  BY <1>8 DEF FeedEnd, FinishRef, PollPending, Refuse
<1>9. CASE LoopAgain
  BY <1>9 DEF LoopAgain, PollPending
<1>. QED BY <1>1, <1>2, <1>3, <1>4, <1>5, <1>6, <1>7, <1>8, <1>9
         DEF OwnedNext, OwnedStep

LEMMA OutBeginsNext ==
  CInv' /\ BlocksInv' /\ IndexBytes' /\ ~failed' /\ inputs' \in {0, 1}
    => OutBegins'
<1>1. CInv /\ BlocksInv /\ IndexBytes /\ ~failed /\ inputs \in {0, 1}
        => OutBegins
  BY OutBeginsSound
<1>2. (CInv /\ BlocksInv /\ IndexBytes /\ ~failed /\ inputs \in {0, 1}
        => OutBegins)'
  BY <1>1, PTL
<1>. QED BY <1>2

LEMMA OutBeginsKeeps ==
  ASSUME SInv, [OwnedNext]_ownedVars, MaxInputs = 1, inputs' \in {0, 1},
         CInv', ~failed' => BlocksInv', IndexBytes'
  PROVE  OutBegins'
<1>1. CASE ~failed'
  BY <1>1, OutBeginsNext
<1>2. CASE failed'
  <2>1. inputs \in {0, 1}
    BY DEF SInv, CInv, OwnedTypes
  <2>2. inputs # 0 \/ ~failed
    BY DEF SInv, CInv, Resting
  <2>3. CASE Step /\ UNCHANGED ownerVars /\ ~failed
    <3>1. out' = out
      BY <1>2, <2>3, StepEffects DEF SInv, CInv
    <3>2. source' = source
      BY <2>3 DEF ownerVars
    <3>. QED BY <3>1, <3>2 DEF SInv, OutBegins, Encoding, Body, Bodies, BlockIndex
  <2>4. CASE /\ out' = out
             /\ failed' = failed
             /\ source' = source \/ inputs = 0
    BY <1>2, <2>2, <2>4 DEF SInv, OutBegins
  <2>. QED BY <2>1, <2>3, <2>4, OnlyStepsWrite DEF SInv
<1>. QED BY <1>1, <1>2

LEMMA StillReadyKeeps ==
  ASSUME SInv, [OwnedNext]_ownedVars, MaxInputs = 1, inputs' \in {0, 1}
  PROVE  /\ StillReady'
         /\ outcome \in {"ready", "closed"} => outcome' \in {"ready", "closed"}
<1>1. /\ CInv /\ StillReady /\ inputs \in {0, 1}
      /\ inputs = 0 => outcome \notin {"ready", "closed"}
  BY DEF SInv, CInv, OwnedTypes, Resting
<1>2. CASE \E c \in Collections : OwnedInput(c)
  BY <1>1, <1>2 DEF OwnedInput, StillReady
<1>3. CASE OwnedPollPending
  BY <1>1, <1>3 DEF OwnedPollPending, PollPending, StillReady, CInv, Resting
<1>4. CASE OwnedFinish
  <2>1. /\ finished /\ FinishRef /\ stage' = "closing" /\ outcome' = outcome
    BY <1>1, <1>4 DEF OwnedFinish, CInv, StaysWritten
  <2>2. pc' = "poll"
    BY <2>1 DEF FinishRef, PollPending
  <2>. QED BY <2>1, <2>2 DEF StillReady
<1>5. CASE OwnedGrant \/ Gone \/ UNCHANGED ownedVars
  BY <1>1, <1>5 DEF OwnedGrant, Grant, Gone, ownedVars, ownerVars, vars, callVars,
                    StillReady
<1>6. CASE Step /\ UNCHANGED ownerVars
  <2>1. CASE outcome \in {"ready", "closed"}
    <3>1. pc' = "idle" /\ result' = "ready"
      BY <1>1, <1>6, <2>1, WrittenStays DEF CInv, StaysWritten
    <3>. QED BY <1>1, <1>6, <2>1, <3>1 DEF StillReady, ownerVars
  <2>2. CASE outcome \notin {"ready", "closed"}
    BY <1>6, <2>2 DEF StillReady, ownerVars
  <2>. QED BY <2>1, <2>2
<1>7. CASE Relay
  BY <1>1, <1>7 DEF Relay, Answered, OwnedReturn, StillReady
<1>8. CASE Completed \/ Closed
  BY <1>8 DEF Completed, Closed, OwnedReturn, StillReady
<1>9. CASE FeedNext \/ FeedEnd
  <2>1. MayFeed /\ outcome' = outcome /\ inputs' = inputs
    BY <1>9 DEF FeedNext, FeedEnd
  <2>2. outcome \notin {"ready", "closed"}
    BY <1>1, <2>1, FeedTakes
  <2>. QED BY <2>1, <2>2 DEF StillReady
<1>10. CASE LoopAgain
  BY <1>1, <1>10 DEF LoopAgain, Answered, StillReady
<1>. QED BY <1>2, <1>3, <1>4, <1>5, <1>6, <1>7, <1>8, <1>9, <1>10
         DEF OwnedNext, OwnedStep

LEMMA SInvInit == OwnedInit => SInv
<1> SUFFICES ASSUME OwnedInit PROVE SInv
  OBVIOUS
<1>1. CInv /\ IndexBytes
  BY OwnedInitInv, IndexBytesInit DEF OwnedInit
<1>2. BlocksInv
  BY IInvInit DEF OwnedInit, IInv, Init
<1>3. StillReady /\ OutBegins /\ inputs <= 1
  BY DEF OwnedInit, Init, StillReady, OutBegins
<1>. QED BY <1>1, <1>2, <1>3 DEF SInv

LEMMA SInvNext ==
  ASSUME MaxInputs = 1, SInv, [OwnedNext]_ownedVars
  PROVE  SInv'
<1>1. CInv' /\ [Next]_vars
  BY OwnedStepInv, LoopSteps DEF SInv, CInv
<1>2. (~failed' => BlocksInv') /\ IndexBytes'
  BY <1>1, IInvNext, IndexBytesNext DEF SInv, CInv, IInv
<1>3. inputs' \in {0, 1}
  <2>1. inputs \in {0, 1}
    BY DEF SInv, CInv, OwnedTypes
  <2>2. CASE \E c \in Collections : OwnedInput(c)
    BY <2>1, <2>2 DEF OwnedInput
  <2>3. CASE UNCHANGED inputs
    BY <2>1, <2>3
  <2>. QED BY <2>2, <2>3 DEF OwnedNext, OwnedStep, OwnedPollPending, OwnedFinish,
           OwnedGrant, Relay, Completed, FeedNext, FeedEnd, LoopAgain, Closed,
           OwnedReturn, Gone, ownerVars, ownedVars
<1>4. OutBegins' /\ StillReady'
  BY <1>1, <1>2, <1>3, OutBeginsKeeps, StillReadyKeeps
<1>. QED BY <1>1, <1>2, <1>3, <1>4 DEF SInv

LEMMA ReadyIsTheEncodingNext ==
  SInv' /\ inputs' = 1 /\ outcome' \in {"ready", "closed"}
    => out' = (Encoding(source))'
<1>1. SInv /\ inputs = 1 /\ outcome \in {"ready", "closed"}
        => out = Encoding(source)
  BY ReadyIsTheEncoding
<1>2. (SInv /\ inputs = 1 /\ outcome \in {"ready", "closed"}
        => out = Encoding(source))'
  BY <1>1, PTL
<1>. QED BY <1>2

LEMMA PrefixIsPrefix ==
  ASSUME NEW s \in Seq(Byte), NEW t \in Seq(Byte), PrefixOf(s, t)
  PROVE  Stream!IsPrefix(s, t)
BY DEF PrefixOf, Stream!IsPrefix

\* A step of the loop is a call of the byte stream, or none of its business.
LEMMA LoopStreams ==
  ASSUME MaxInputs = 1, SInv, SInv', [OwnedNext]_ownedVars
  PROVE  [Stream!Call]_<<IF source = None THEN << >> ELSE Encoding(source), out,
                         outcome \in {"ready", "closed"}>>
<1> DEFINE enc == IF source = None THEN << >> ELSE Encoding(source)
           done == outcome \in {"ready", "closed"}
<1>1. /\ inputs \in {0, 1} /\ inputs' \in {0, 1}
      /\ inputs = 0 => source = None /\ ~done
      /\ inputs' = 0 => ~done'
      /\ inputs' = 1 => source' # None /\ source' \in Seq(Items)
      /\ inputs = 1 => source # None
  <2>1. inputs \in {0, 1} /\ inputs' \in {0, 1}
    BY DEF SInv, CInv, OwnedTypes
  <2>2. source' # None => source' \in Seq(Items)
    BY CollectionsAreSequences DEF SInv, CInv, OwnedTypes
  <2>. QED BY <2>1, <2>2 DEF SInv, CInv, Resting
<1>2. /\ out \in Seq(Byte) /\ out' \in Seq(Byte)
  BY DEF SInv, CInv, Sound, Unfailed, TypeOK
<1>3. /\ PrefixOf(out, out')
      /\ inputs = 1 => enc' = enc /\ inputs' = 1
  <2>1. PrefixOf(out, out)
    BY <1>2 DEF PrefixOf
  <2>2. source' = source => enc' = enc
    BY DEF Encoding, Body, Bodies, BlockIndex
  <2>3. CASE Step /\ UNCHANGED ownerVars /\ ~failed
    <3>1. source' = source /\ inputs' = inputs
      BY <2>3 DEF ownerVars
    <3>2. PrefixOf(out, out')
      BY <2>3, StepEffects DEF SInv, CInv
    <3>. QED BY <2>2, <3>1, <3>2
  <2>4. CASE /\ out' = out
             /\ source' = source \/ inputs = 0
             /\ inputs = 1 => inputs' = 1
    <3>1. PrefixOf(out, out')
      BY <2>1, <2>4
    <3>2. inputs = 1 => source' = source /\ inputs' = 1
      BY <2>4
    <3> HIDE DEF enc
    <3>. QED BY <2>2, <3>1, <3>2
  <2>5. CInv
    BY DEF SInv
  <2>. QED BY <1>1, <2>3, <2>4, <2>5, OnlyStepsWrite
<1>4. PrefixOf(out', enc') /\ enc' \in Seq(Byte)
  <2>1. CASE source' = None
    BY <1>2, <2>1 DEF SInv, OutBegins, PrefixOf
  <2>2. CASE source' # None
    <3>1. source' \in Seq(Items)
      BY <1>1, <2>2 DEF SInv, CInv, Resting
    <3>2. Encoding(source') \in Seq(Byte)
      BY <3>1, EncodingBytes
    <3>3. enc' = Encoding(source')
      BY <2>2 DEF Encoding, Body, Bodies, BlockIndex
    <3>. QED BY <2>2, <3>2, <3>3 DEF SInv, OutBegins
  <2>. QED BY <2>1, <2>2
<1>5. done' => out' = enc'
  BY <1>1, ReadyIsTheEncodingNext
<1>6. CASE done
  <2>1. done' /\ inputs = 1
    BY <1>1, <1>6, StillReadyKeeps DEF SInv
  <2>2. out = enc
    BY <1>1, <1>6, <2>1, ReadyIsTheEncoding
  <2>. QED BY <1>3, <1>5, <1>6, <2>1, <2>2
<1>7. CASE ~done
  <2>1. Stream!IsPrefix(out, out') /\ Stream!IsPrefix(out', enc')
    BY <1>2, <1>3, <1>4, PrefixIsPrefix
  <2>2. enc = << >> \/ enc' = enc
    BY <1>1, <1>3
  <2>. QED BY <1>5, <1>7, <2>1, <2>2 DEF Stream!Call
<1>. QED BY <1>6, <1>7

\* A serializer that is given one collection hands its sink the bytes of the
\* collection's encoding, in order, none twice and no others, whatever room the
\* sink has and however often the loop is left and entered again; it answers
\* Ready only behind the last of them, and a sink that fails holds a prefix
\* (iter/serialize.rs:136-176, sequence.rs:126-343).
THEOREM StreamsItsEncoding ==
  ASSUME MaxInputs = 1
  PROVE  OwnedSpec => StreamsTheEncoding
<1>1. OwnedInit => Stream!Init
  BY DEF OwnedInit, Init, Stream!Init
<1>2. OwnedInit => SInv
  BY SInvInit
<1>3. SInv /\ [OwnedNext]_ownedVars => SInv'
  BY SInvNext
<1>4. SInv /\ SInv' /\ [OwnedNext]_ownedVars
        => [Stream!Call]_<<IF source = None THEN << >> ELSE Encoding(source), out,
                           outcome \in {"ready", "closed"}>>
  BY LoopStreams
<1>. QED BY <1>1, <1>2, <1>3, <1>4, PTL DEF OwnedSpec, StreamsTheEncoding, Stream!Spec
=============================================================================
