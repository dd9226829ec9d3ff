------------------------------- MODULE Dedupe -------------------------------
(***************************************************************************)
(* PaperService._dedupe (app/services/paper_service.py) as search uses it:  *)
(* the hits of all sources are merged, what comes out is saved, and merged  *)
(* once more before it is shown.  One step is one turn of a loop.           *)
(*                                                                          *)
(* Papers are objects that the merge changes in place, and the list may     *)
(* hold one object several times, once per query variant.  abstract stands  *)
(* for the fields that are filled if empty (journal, authors, ... and the   *)
(* maximum of cited_by_count); the citation count as last tie-breaker of    *)
(* _preferred is left out.  A dictionary is the sequence of its values in   *)
(* insertion order: the key of a value is its own.                          *)
(***************************************************************************)
EXTENDS Integers, Sequences

CONSTANTS
    Dois, Titles,   \* lower-cased DOIs, normalized titles
    Empty,          \* no DOI, and a title of which normalize leaves nothing
    Sources,        \* the sources used, of the three there are
    MaxPapers       \* bound: the length of the list

ASSUME EmptyAssumption == Empty \notin Dois \cup Titles /\ Dois \cap Titles = {}
ASSUME SourcesAssumption == Sources \subseteq {"arxiv", "openalex", "crossref"}
ASSUME MaxPapersAssumption == MaxPapers \in Nat

Objects == 1..MaxPapers

\* The client of arXiv makes a DOI of the paper's id.
Paper == {p \in [source : Sources, doi : Dois \cup {Empty}, title : Titles \cup {Empty},
                 abstract : BOOLEAN] : p.source = "arxiv" => p.doi # Empty}

VARIABLES
    hits, given,    \* the list and its papers, as the sources returned them
    paper,          \* the objects now
    input, at,      \* the list a loop runs over, and its position
    loop,           \* "key" (seen), "title" (by_title) or "done"
    values,         \* the dictionary the loop fills
    saved           \* the rows given to save_papers; <<>> until then

vars == <<hits, given, paper, input, at, loop, values, saved>>

\* Objects are numbered as they first appear.
Numbered(list) ==
    \A i \in DOMAIN list : list[i] = 1 \/ \E j \in 1..(i - 1) : list[j] >= list[i] - 1

Init ==
    /\ hits \in UNION {[1..n -> Objects] : n \in 1..MaxPapers}
    /\ Numbered(hits)
    /\ given \in [{hits[i] : i \in DOMAIN hits} -> Paper]
    /\ paper = given
    /\ input = hits /\ at = 1
    /\ loop = "key"
    /\ values = <<>> /\ saved = <<>>

-----------------------------------------------------------------------------
\* (paper.doi or normalize(paper.title)).lower()
Key(p) == IF p.doi # Empty THEN p.doi ELSE p.title

KeyNow(o) == IF loop = "key" THEN Key(paper[o]) ELSE paper[o].title

Priority(p) == CASE p.source = "arxiv" -> 3 [] p.source = "openalex" -> 2 [] OTHER -> 1

\* right_key > left_key, by _source_priority, then abstract, then DOI.
Better(q, p) ==
    \/ Priority(q) > Priority(p)
    \/ /\ Priority(q) = Priority(p)
       /\ \/ q.abstract /\ ~ p.abstract
          \/ q.abstract = p.abstract /\ q.doi # Empty /\ p.doi = Empty

Preferred_Last(o, q) == q     \* mutant: the later one replaces the earlier
Preferred(o, q) == IF Better(paper[q], paper[o]) THEN q ELSE o

\* The winner with its empty fields filled from the other.
Merged(w, q) == [paper[w] EXCEPT !.abstract = @ \/ paper[q].abstract]

Known(k) == {i \in DOMAIN values : KeyNow(values[i]) = k}

Skip ==
    /\ loop # "done" /\ at <= Len(input)
    /\ KeyNow(input[at]) = Empty
    /\ UNCHANGED <<paper, values>>

Insert ==
    /\ loop # "done" /\ at <= Len(input)
    /\ KeyNow(input[at]) # Empty /\ Known(KeyNow(input[at])) = {}
    /\ values' = Append(values, input[at])
    /\ UNCHANGED paper

Merge ==
    /\ loop # "done" /\ at <= Len(input)
    /\ KeyNow(input[at]) # Empty
    /\ \E i \in Known(KeyNow(input[at])) :
          LET winner == Preferred(values[i], input[at])
              other == IF winner = values[i] THEN input[at] ELSE values[i] IN
          /\ paper' = [paper EXCEPT ![winner] = Merged(winner, other)]
          /\ values' = [values EXCEPT ![i] = winner]

Turn ==
    /\ Skip \/ Insert \/ Merge
    /\ at' = at + 1
    /\ UNCHANGED <<hits, given, input, loop, saved>>

Rows == [i \in DOMAIN values |-> paper[values[i]]]

\* From seen to by_title; after the first call the result is saved and _dedupe is
\* called on it again; a result with no papers is not saved.
LoopEnds_SavesEarly ==     \* mutant: saved before the titles are merged
    /\ loop # "done" /\ at > Len(input)
    /\ IF loop = "key"
         THEN saved' = Rows /\ loop' = "title" /\ input' = values /\ values' = <<>> /\ at' = 1
         ELSE loop' = "done" /\ UNCHANGED <<saved, input, values, at>>
    /\ UNCHANGED <<hits, given, paper>>
LoopEnds ==
    /\ loop # "done" /\ at > Len(input)
    /\ \/ /\ loop = "key"
          /\ loop' = "title" /\ input' = values /\ values' = <<>> /\ at' = 1
          /\ UNCHANGED saved
       \/ /\ loop = "title" /\ saved = <<>> /\ values # <<>>
          /\ saved' = Rows
          /\ loop' = "key" /\ input' = values /\ values' = <<>> /\ at' = 1
       \/ /\ loop = "title" /\ (saved # <<>> \/ values = <<>>)
          /\ loop' = "done"
          /\ UNCHANGED <<saved, input, values, at>>
    /\ UNCHANGED <<hits, given, paper>>

Next == Turn \/ LoopEnds

Spec == Init /\ [][Next]_vars

-----------------------------------------------------------------------------
\* What is shown is what was saved, field by field: the second merge finds nothing
\* left to merge, so no two rows have a key or a title in common, and changes no
\* paper behind the back of the table (search calls _dedupe before and after
\* save_papers).
ShownIsSaved == loop = "done" => Rows = saved

\* The papers of the list with p's key: the first loop makes one of them.
SameKey(p) == {given[hits[i]] : i \in {j \in DOMAIN hits : Key(given[hits[j]]) = Key(p)}}

\* Every paper of the list is represented in the result by one of its key, or of a
\* title that its key has: one of no lesser source, and with an abstract if it had
\* one.  Only an untitled record of the same DOI and no lesser source can make it
\* disappear, when that one is preferred, perhaps for an abstract it was filled with
\* before, and then dropped by the second loop.
EveryHitIsRepresented ==
    loop = "done" => \A o \in DOMAIN given : LET p == given[o] IN
       \/ \E i \in DOMAIN values : LET r == paper[values[i]] IN
             /\ \E q \in SameKey(p) : q.title = r.title
             /\ Priority(r) >= Priority(p)
             /\ p.abstract => r.abstract
       \/ \E q \in SameKey(p) : q.title = Empty /\ Priority(q) >= Priority(p)
=============================================================================
