-------------------------- MODULE ChunkTextProofs ---------------------------
(***************************************************************************)
(* TLAPS proofs about ChunkText, for texts of every length and every window *)
(* that the assumptions allow: the code's 1200, 180 and 80 among them.      *)
(***************************************************************************)
EXTENDS ChunkText, TLAPS

Last == chunks[Len(chunks)]

\* What the chunks cut so far look like.
Windows ==
    /\ \A i \in 1..Len(chunks) :
          /\ chunks[i].from < chunks[i].to
          /\ chunks[i].to <= length
          /\ i < Len(chunks) => chunks[i].to - chunks[i].from = Size
          /\ chunks[i].to - chunks[i].from <= Size
          /\ i = 1 => chunks[i].from = 0
          /\ i > 1 => /\ chunks[i].from = chunks[i - 1].to - Overlap
                      /\ chunks[i].to > chunks[i - 1].to

\* Where the loop stands between two turns, and how it ends.
Loop ==
    /\ pc = "cut" /\ chunks = <<>> => start = 0
    /\ pc = "cut" /\ chunks # <<>> =>
          /\ start = Last.to - Overlap
          /\ Last.to < length
          /\ Last.to - Last.from = Size
    /\ pc # "cut" => (chunks = <<>> /\ length = 0) \/ (chunks # <<>> /\ Last.to = length)

\* The chunks cover the text up to the end of the last one.
Covers ==
    chunks # <<>> => \A x \in 0..(Last.to - 1) :
        \E i \in 1..Len(chunks) : chunks[i].from <= x /\ x < chunks[i].to

\* A text of at least MinLength characters loses no chunk in save_chunks.
Saved == pc = "done" /\ length >= MinLength => saved = 1..Len(chunks)

IInv == TypeOK /\ Windows /\ Loop /\ Covers /\ Saved

\* The ends of a chunk are positions.
LEMMA ChunkType ==
    ASSUME chunks \in Seq(Interval), NEW i \in 1..Len(chunks)
    PROVE  chunks[i].from \in Nat /\ chunks[i].to \in Nat
<1>1. chunks[i] \in Interval
  OBVIOUS
<1> QED BY <1>1 DEF Interval

\* The interval a turn of the loop cuts.
LEMMA CutStep ==
    ASSUME IInv, Cut
    PROVE  \E end \in Nat :
              /\ end = Minimum(length, start + Size)
              /\ start < end /\ end <= length /\ end - start <= Size
              /\ end # length => end = start + Size /\ end < length
              /\ [from |-> start, to |-> end] \in Interval
              /\ chunks' = Append(chunks, [from |-> start, to |-> end])
              /\ end = length => pc' = "save" /\ start' = start
              /\ end # length => pc' = "cut" /\ start' = end - Overlap
              /\ UNCHANGED <<length, saved>>
<1> DEFINE end == Minimum(length, start + Size)
<1>1. length \in Nat /\ start \in Nat /\ Size \in Nat /\ Overlap \in Nat /\ Overlap < Size
  BY LengthsAssumption, WindowAssumption DEF IInv, TypeOK
<1>2. start < length
  BY DEF Cut
<1>3. /\ end \in Nat /\ start < end /\ end <= length /\ end - start <= Size
      /\ end # length => end = start + Size /\ end < length
  BY <1>1, <1>2 DEF Minimum
<1>4. end # length => Maximum(0, end - Overlap) = end - Overlap
  BY <1>1, <1>3 DEF Maximum
<1>5. [from |-> start, to |-> end] \in Interval
  BY <1>1, <1>3 DEF Interval
<1>6. /\ chunks' = Append(chunks, [from |-> start, to |-> end])
      /\ end = length => pc' = "save" /\ start' = start
      /\ end # length => pc' = "cut" /\ start' = end - Overlap
      /\ UNCHANGED <<length, saved>>
  BY <1>4 DEF Cut, NextStart
<1> HIDE DEF end
<1>7. end = Minimum(length, start + Size)
  BY DEF end
<1> QED BY <1>3, <1>5, <1>6, <1>7

\* A turn of the loop keeps the invariant.
LEMMA CutKeeps ==
    ASSUME IInv, Cut
    PROVE  IInv'
<1>1. PICK end \in Nat :
              /\ start < end /\ end <= length /\ end - start <= Size
              /\ end # length => end = start + Size /\ end < length
              /\ [from |-> start, to |-> end] \in Interval
              /\ chunks' = Append(chunks, [from |-> start, to |-> end])
              /\ end = length => pc' = "save" /\ start' = start
              /\ end # length => pc' = "cut" /\ start' = end - Overlap
              /\ UNCHANGED <<length, saved>>
  BY CutStep
<1> DEFINE n == Len(chunks)
           new == [from |-> start, to |-> end]
<1>2. /\ chunks \in Seq(Interval) /\ n \in Nat /\ length \in Nat /\ start \in Nat
      /\ Size \in Nat /\ Overlap \in Nat /\ Overlap < Size /\ pc = "cut"
      /\ saved \subseteq Nat /\ length \in Lengths
  BY LengthsAssumption, WindowAssumption DEF IInv, TypeOK, Cut
<1>3. /\ Len(chunks') = n + 1 /\ chunks'[n + 1] = new
      /\ \A i \in 1..n : chunks'[i] = chunks[i]
      /\ chunks' # <<>> /\ chunks' \in Seq(Interval)
  BY <1>1, <1>2
<1>4. \A i \in 1..n : chunks[i].from \in Nat /\ chunks[i].to \in Nat
  BY <1>2, ChunkType
<1>5. /\ n = 0 => start = 0
      /\ n > 0 => /\ start = chunks[n].to - Overlap
                  /\ chunks[n].to < length
                  /\ chunks[n].to - chunks[n].from = Size
  <2>1. n = 0 => chunks = <<>>
    BY <1>2
  <2>2. n > 0 => chunks # <<>>
    BY <1>2
  <2> QED BY <1>2, <2>1, <2>2 DEF IInv, Loop, Last
<1>6. n > 0 => end > chunks[n].to
  <2> SUFFICES ASSUME n > 0 PROVE end > chunks[n].to
    OBVIOUS
  <2>1. n \in 1..n
    BY <1>2
  <2> QED BY <1>1, <1>2, <1>4, <1>5, <2>1
<1>7. TypeOK'
  <2>1. start' \in Nat
    BY <1>1, <1>2
  <2> QED BY <1>1, <1>2, <1>3, <2>1 DEF TypeOK
<1>8. Windows'
  <2> SUFFICES ASSUME NEW i \in 1..(n + 1)
               PROVE  /\ chunks'[i].from < chunks'[i].to
                      /\ chunks'[i].to <= length
                      /\ i < n + 1 => chunks'[i].to - chunks'[i].from = Size
                      /\ chunks'[i].to - chunks'[i].from <= Size
                      /\ i = 1 => chunks'[i].from = 0
                      /\ i > 1 => /\ chunks'[i].from = chunks'[i - 1].to - Overlap
                                  /\ chunks'[i].to > chunks'[i - 1].to
    BY <1>1, <1>3 DEF Windows
  <2>1. CASE i = n + 1
    <3>1. chunks'[i] = new /\ new.from = start /\ new.to = end
      BY <1>3, <2>1
    <3>2. i > 1 => chunks'[i - 1] = chunks[n] /\ n > 0
      BY <1>2, <1>3, <2>1
    <3> HIDE DEF new
    <3> QED BY <1>1, <1>2, <1>5, <1>6, <2>1, <3>1, <3>2
  <2>2. CASE i # n + 1
    <3>1. i \in 1..n /\ chunks'[i] = chunks[i]
      BY <1>2, <1>3, <2>2
    <3>2. i > 1 => chunks'[i - 1] = chunks[i - 1]
      BY <1>2, <1>3, <3>1
    <3>3. /\ chunks[i].from < chunks[i].to
          /\ chunks[i].to <= length
          /\ i < n => chunks[i].to - chunks[i].from = Size
          /\ chunks[i].to - chunks[i].from <= Size
          /\ i = 1 => chunks[i].from = 0
          /\ i > 1 => /\ chunks[i].from = chunks[i - 1].to - Overlap
                      /\ chunks[i].to > chunks[i - 1].to
      BY <3>1 DEF IInv, Windows
    <3>4. i = n => chunks[i].to - chunks[i].from = Size
      BY <1>2, <1>5, <3>1
    <3>5. i < n \/ i = n
      BY <1>2, <3>1
    <3> QED BY <3>1, <3>2, <3>3, <3>4, <3>5
  <2> QED BY <2>1, <2>2
<1>9. Last' = new /\ new.from = start /\ new.to = end
  BY <1>3 DEF Last
<1>10. Loop'
  <2>1. CASE end = length
    BY <1>1, <1>3, <1>9, <2>1 DEF Loop
  <2>2. CASE end # length
    BY <1>1, <1>2, <1>3, <1>9, <2>2 DEF Loop
  <2> QED BY <2>1, <2>2
<1>11. Covers'
  <2> SUFFICES ASSUME NEW x \in 0..(end - 1)
               PROVE  \E i \in 1..(n + 1) : chunks'[i].from <= x /\ x < chunks'[i].to
    BY <1>3, <1>9 DEF Covers
  <2>1. CASE x >= start
    <3>1. n + 1 \in 1..(n + 1) /\ chunks'[n + 1].from <= x /\ x < chunks'[n + 1].to
      BY <1>1, <1>2, <1>3, <1>9, <2>1
    <3> QED BY <3>1
  <2>2. CASE x < start
    <3>1. n > 0 /\ x \in 0..(chunks[n].to - 1) /\ chunks # <<>>
      <4>1. n > 0
        BY <1>2, <1>5, <2>2
      <4>2. n \in 1..n /\ chunks[n].to \in Nat
        BY <1>2, <1>4, <4>1
      <4> QED BY <1>2, <1>5, <2>2, <4>1, <4>2
    <3>2. PICK i \in 1..n : chunks[i].from <= x /\ x < chunks[i].to
      BY <3>1 DEF IInv, Covers, Last
    <3>3. i \in 1..(n + 1) /\ chunks'[i] = chunks[i]
      BY <1>2, <1>3
    <3> QED BY <3>2, <3>3
  <2> QED BY <1>2, <2>1, <2>2
<1>12. Saved'
  BY <1>1 DEF Saved
<1> QED BY <1>7, <1>8, <1>10, <1>11, <1>12 DEF IInv

\* A chunk of a text of at least MinLength characters is never too short.
LEMMA NoChunkIsDropped ==
    ASSUME IInv, pc = "save", length >= MinLength,
           NEW i \in 1..Len(chunks), NEW b \in 0..2, b <= Blanks(chunks[i])
    PROVE  LongEnough(chunks[i], b)
<1> DEFINE n == Len(chunks)
<1>1. /\ chunks \in Seq(Interval) /\ n \in Nat /\ length \in Nat
      /\ Size \in Nat /\ Overlap \in Nat /\ MinLength \in Nat
      /\ MinLength <= Overlap /\ MinLength + 2 <= Size
  BY LengthsAssumption, WindowAssumption, MinLengthAssumption DEF IInv, TypeOK
<1>2. \A j \in 1..n : chunks[j].from \in Nat /\ chunks[j].to \in Nat
  BY <1>1, ChunkType
<1>3. /\ i < n => chunks[i].to - chunks[i].from = Size
      /\ i = 1 => chunks[i].from = 0
      /\ i > 1 => /\ chunks[i].from = chunks[i - 1].to - Overlap
                  /\ chunks[i].to > chunks[i - 1].to
  BY DEF IInv, Windows
<1>4. CASE i < n
  BY <1>1, <1>2, <1>3, <1>4 DEF LongEnough
<1>5. CASE i = n
  <2>1. chunks[i].to = length
    <3>1. chunks # <<>>
      BY <1>1
    <3> QED BY <1>5, <3>1 DEF IInv, Loop, Last
  <2>2. CASE i = 1
    <3>1. Blanks(chunks[i]) = 0
      BY <1>1, <1>3, <2>1, <2>2 DEF Blanks
    <3>2. b = 0
      BY <3>1
    <3> QED BY <1>1, <1>3, <2>1, <2>2, <3>2 DEF LongEnough
  <2>3. CASE i > 1
    <3>1. Blanks(chunks[i]) <= 1
      BY <1>1, <1>2, <2>1 DEF Blanks
    <3>2. b <= 1
      BY <3>1 DEF Blanks
    <3>3. i - 1 \in 1..n /\ chunks[i - 1].to \in Nat
      BY <1>1, <1>2, <2>3
    <3> QED BY <1>1, <1>2, <1>3, <2>3, <3>2, <3>3 DEF LongEnough
  <2> QED BY <2>2, <2>3
<1> QED BY <1>1, <1>4, <1>5

\* Every action keeps the invariant.
LEMMA Keeps == IInv /\ [Next]_vars => IInv'
<1> SUFFICES ASSUME IInv, [Next]_vars PROVE IInv'
  OBVIOUS
<1>1. CASE Cut
  BY <1>1, CutKeeps
<1>2. CASE Empty
  <2>1. length \in Nat /\ start \in Nat /\ pc = "cut" /\ start >= length
    BY <1>2, LengthsAssumption DEF Empty, IInv, TypeOK
  <2>2. chunks = <<>> /\ length = 0
    <3>1. CASE chunks = <<>>
      BY <2>1, <3>1 DEF IInv, Loop
    <3>2. CASE chunks # <<>>
      <4>1. chunks \in Seq(Interval) /\ Len(chunks) \in 1..Len(chunks)
        BY <3>2 DEF IInv, TypeOK
      <4>2. Last.to \in Nat
        BY <4>1, ChunkType DEF Last
      <4> QED BY <2>1, <3>2, <4>2, WindowAssumption DEF IInv, Loop
    <3> QED BY <3>1, <3>2
  <2> QED BY <1>2, <2>2 DEF Empty, IInv, TypeOK, Windows, Loop, Covers, Saved, Last
<1>3. CASE Save
  <2>1. PICK blanks \in [1..Len(chunks) -> 0..2] :
           /\ \A i \in 1..Len(chunks) : blanks[i] <= Blanks(chunks[i])
           /\ saved' = {i \in 1..Len(chunks) : LongEnough(chunks[i], blanks[i])}
    BY <1>3 DEF Save
  <2>2. length >= MinLength => saved' = 1..Len(chunks)
    BY <1>3, <2>1, NoChunkIsDropped DEF Save
  <2>3. saved' \subseteq Nat
    BY <2>1
  <2> QED BY <1>3, <2>2, <2>3 DEF Save, IInv, TypeOK, Windows, Loop, Covers, Saved, Last
<1>4. CASE UNCHANGED vars
  BY <1>4 DEF vars, IInv, TypeOK, Windows, Loop, Covers, Saved, Last
<1> QED BY <1>1, <1>2, <1>3, <1>4 DEF Next, Done

\* The loop starts in the invariant.
LEMMA Starts == Init => IInv
BY DEF Init, IInv, TypeOK, Windows, Loop, Covers, Saved, Interval

\* The invariant holds, for every text.
THEOREM ChunksInvariant == Spec => []IInv
BY Starts, Keeps, PTL DEF Spec

\* chunk_text and save_chunks keep their variables in range.
THEOREM TypeCorrect == Spec => []TypeOK
<1>1. IInv => TypeOK
  BY DEF IInv
<1> QED BY <1>1, ChunksInvariant, PTL

\* Chunks are not empty, not longer than size, and overlap by exactly overlap.
THEOREM OverlapIsExact == Spec => []WindowsOverlap
<1>1. IInv => WindowsOverlap
  BY DEF IInv, Windows, WindowsOverlap
<1> QED BY <1>1, ChunksInvariant, PTL

\* No character of a text of at least 80 characters is lost between chunk_text
\* and save_chunks.
THEOREM NothingIsLost == Spec => []EveryCharacterIsStored
<1>1. IInv => EveryCharacterIsStored
  <2> SUFFICES ASSUME IInv, pc = "done", length >= MinLength, NEW x \in 0..(length - 1)
               PROVE  \E i \in saved : chunks[i].from <= x /\ x < chunks[i].to
    BY DEF EveryCharacterIsStored
  <2>1. saved = 1..Len(chunks) /\ chunks # <<>> /\ Last.to = length
    BY MinLengthAssumption DEF IInv, Saved, Loop
  <2> QED BY <2>1 DEF IInv, Covers
<1> QED BY <1>1, ChunksInvariant, PTL

\* chunk_text ends: start moves forward at every turn and stays in the text.
THEOREM LoopAdvances == Spec => EveryTurnAdvances
<1>1. IInv /\ [Next]_vars =>
         [pc = "cut" /\ pc' = "cut" => start < start' /\ start' < length]_vars
  <2> SUFFICES ASSUME IInv, Next, pc = "cut", pc' = "cut"
               PROVE  start < start' /\ start' < length
    BY DEF vars
  <2>1. Cut
    BY DEF Next, Empty, Save, Done
  <2>2. PICK end \in Nat :
              /\ end # length => end = start + Size /\ end < length
              /\ end = length => pc' = "save" /\ start' = start
              /\ end # length => pc' = "cut" /\ start' = end - Overlap
    BY <2>1, CutStep
  <2>3. start \in Nat /\ length \in Nat
    BY LengthsAssumption DEF IInv, TypeOK
  <2> QED BY <2>2, <2>3, WindowAssumption
<1> QED BY <1>1, ChunksInvariant, PTL DEF Spec, EveryTurnAdvances
=============================================================================
