----------------------------- MODULE ChunkText ------------------------------
(***************************************************************************)
(* FullTextService.chunk_text (app/services/fulltext_service.py) and the    *)
(* filter of save_chunks (app/db/database.py), as positions in a text: a    *)
(* chunk is the half-open interval [start, end).  The loop is a state       *)
(* machine, one action per turn, so that the text need not be bounded.      *)
(***************************************************************************)
EXTENDS Integers, Sequences

CONSTANTS
    Lengths,    \* lengths of the whitespace-normalised text
    Size,       \* chunk_text's size, 1200 in the code
    Overlap,    \* chunk_text's overlap, 180 in the code
    MinLength   \* save_chunks drops anything shorter, 80 in the code

ASSUME LengthsAssumption == Lengths \subseteq Nat
ASSUME WindowAssumption == Size \in Nat /\ Overlap \in Nat /\ Overlap < Size
ASSUME MinLengthAssumption ==
    MinLength \in Nat \ {0} /\ MinLength <= Overlap /\ MinLength + 2 <= Size

VARIABLES
    length,     \* len(clean)
    start,      \* the loop variable
    chunks,     \* the intervals appended so far
    saved,      \* the intervals save_chunks has stored
    pc

vars == <<length, start, chunks, saved, pc>>

Minimum(a, b) == IF a <= b THEN a ELSE b
Maximum(a, b) == IF a >= b THEN a ELSE b

Init ==
    /\ length \in Lengths
    /\ start = 0
    /\ chunks = <<>>
    /\ saved = {}
    /\ pc = "cut"

\* start = max(0, end - overlap)
NextStart_NoOverlap(end) == end     \* mutant: the overlap is forgotten
NextStart(end) == Maximum(0, end - Overlap)

\* One turn of the while loop; the empty text returns before it.
Cut ==
    /\ pc = "cut" /\ start < length
    /\ LET end == Minimum(length, start + Size) IN
          /\ chunks' = Append(chunks, [from |-> start, to |-> end])
          /\ IF end = length
               THEN pc' = "save" /\ UNCHANGED start
               ELSE start' = NextStart(end) /\ UNCHANGED pc
    /\ UNCHANGED <<length, saved>>

\* if not clean: return []
Empty ==
    /\ pc = "cut" /\ start >= length
    /\ pc' = "save"
    /\ UNCHANGED <<length, start, chunks, saved>>

\* The blanks save_chunks can strip from a chunk: one at each end that is not
\* an end of the text, which is normalised already.
Blanks(c) == (IF c.from > 0 THEN 1 ELSE 0) + (IF c.to < length THEN 1 ELSE 0)

\* save_chunks: if len(clean) < 80: continue
LongEnough_Wrong(c, blanks) == c.to - c.from - blanks > Size \div 2     \* mutant
LongEnough(c, blanks) == c.to - c.from - blanks >= MinLength

Save ==
    /\ pc = "save"
    /\ \E blanks \in [1..Len(chunks) -> 0..2] :
          /\ \A i \in 1..Len(chunks) : blanks[i] <= Blanks(chunks[i])
          /\ saved' = {i \in 1..Len(chunks) : LongEnough(chunks[i], blanks[i])}
    /\ pc' = "done"
    /\ UNCHANGED <<length, start, chunks>>

Done == pc = "done" /\ UNCHANGED vars

Next == Cut \/ Empty \/ Save \/ Done

Spec == Init /\ [][Next]_vars

-----------------------------------------------------------------------------
Interval == [from : Nat, to : Nat]

TypeOK ==
    /\ length \in Lengths
    /\ start \in Nat
    /\ chunks \in Seq(Interval)
    /\ saved \subseteq Nat
    /\ pc \in {"cut", "save", "done"}

\* No chunk is longer than size, none is empty, and neighbours overlap by
\* exactly overlap characters, so that a sentence of at most that length that
\* straddles a cut is whole in one of them.
WindowsOverlap ==
    \A i \in 1..Len(chunks) :
        /\ chunks[i].from < chunks[i].to /\ chunks[i].to - chunks[i].from <= Size
        /\ i > 1 => chunks[i].from = chunks[i - 1].to - Overlap

\* A text that is long enough to be stored at all is stored without a gap: every
\* character is in a stored chunk (or is a blank stripped from its edge).  The cut leaves no tail under the 80
\* characters that save_chunks drops, because the overlap is longer than that.
EveryCharacterIsStored ==
    pc = "done" /\ length >= MinLength =>
        \A x \in 0..(length - 1) :
            \E i \in saved : chunks[i].from <= x /\ x < chunks[i].to

\* The loop ends: a turn that is not the last moves start forward, and start
\* stays below the length (chunk_text, the while loop).
EveryTurnAdvances == [][pc = "cut" /\ pc' = "cut" => start < start' /\ start' < length]_vars
=============================================================================
