---------------------------- MODULE DedupeProofs ----------------------------
(***************************************************************************)
(* Proofs about Dedupe: what is shown is what was saved, and every hit is   *)
(* represented in the result.                                               *)
(***************************************************************************)
EXTENDS Dedupe, TLAPS

\* The objects of the list.
Obj == DOMAIN given

\* The key of an object in a loop: merging never changes it.
KeyIn(l, o) == IF l = "key" THEN Key(given[o]) ELSE given[o].title

\* Types, and what merging leaves alone: it only fills empty fields.
ObjInv ==
    /\ given \in [Obj -> Paper] /\ paper \in [Obj -> Paper]
    /\ hits \in Seq(Obj) /\ \A o \in Obj : \E i \in DOMAIN hits : hits[i] = o
    /\ input \in Seq(Obj) /\ values \in Seq(Obj)
    /\ at \in Nat \ {0} /\ at <= Len(input) + 1
    /\ loop \in {"key", "title", "done"}
    /\ \A o \in Obj : /\ paper[o].source = given[o].source
                      /\ paper[o].doi = given[o].doi
                      /\ paper[o].title = given[o].title
                      /\ given[o].abstract => paper[o].abstract

\* What the merge makes of the winner.
LEMMA MergedFacts ==
    ASSUME NEW S, paper \in [S -> Paper], NEW w \in S, NEW q \in S
    PROVE  /\ Merged(w, q) \in Paper
           /\ Merged(w, q).source = paper[w].source
           /\ Merged(w, q).doi = paper[w].doi
           /\ Merged(w, q).title = paper[w].title
           /\ Merged(w, q).abstract <=> (paper[w].abstract \/ paper[q].abstract)
<1>1. paper[w] \in Paper /\ paper[q] \in Paper
  OBVIOUS
<1>2. PICK p, r : p = paper[w] /\ r = paper[q]
  OBVIOUS
<1>3. p.abstract \in BOOLEAN /\ r.abstract \in BOOLEAN
  BY <1>1, <1>2 DEF Paper
<1>4. PICK b \in BOOLEAN : b <=> (p.abstract \/ r.abstract)
  BY <1>3
<1>5. Merged(w, q) = [p EXCEPT !.abstract = b]
  BY <1>2, <1>3, <1>4 DEF Merged
<1>6. p \in [source : Sources, doi : Dois \cup {Empty}, title : Titles \cup {Empty}, abstract : BOOLEAN]
      /\ (p.source = "arxiv" => p.doi # Empty)
  BY <1>1, <1>2 DEF Paper
<1>7. PICK m : m = [p EXCEPT !.abstract = b]
  OBVIOUS
<1>8. /\ m \in [source : Sources, doi : Dois \cup {Empty}, title : Titles \cup {Empty}, abstract : BOOLEAN]
      /\ m.source = p.source /\ m.doi = p.doi /\ m.title = p.title /\ m.abstract = b
  BY <1>6, <1>7
<1>9. m \in Paper
  BY <1>6, <1>8 DEF Paper
<1> QED BY <1>2, <1>4, <1>5, <1>7, <1>8, <1>9

\* The keys of the loops depend on fields that never change.
LEMMA KeysFixed ==
    ASSUME ObjInv, NEW o \in Obj
    PROVE  /\ KeyNow(o) = KeyIn(loop, o)
           /\ Priority(paper[o]) = Priority(given[o])
BY DEF ObjInv, KeyNow, KeyIn, Key, Priority

\* The preferred one of two is one of them, and of no lesser source than either.
LEMMA PreferredFacts ==
    ASSUME ObjInv, NEW o \in Obj, NEW q \in Obj
    PROVE  /\ Preferred(o, q) \in {o, q}
           /\ Priority(given[Preferred(o, q)]) >= Priority(given[o])
           /\ Priority(given[Preferred(o, q)]) >= Priority(given[q])
<1>1. /\ Priority(paper[o]) = Priority(given[o]) /\ Priority(paper[q]) = Priority(given[q])
  BY KeysFixed
<1>2. Priority(given[o]) \in Int /\ Priority(given[q]) \in Int
  BY DEF Priority
<1>3. CASE Better(paper[q], paper[o])
  <2>1. Priority(given[q]) >= Priority(given[o])
    BY <1>1, <1>2, <1>3 DEF Better
  <2> QED BY <1>2, <1>3, <2>1 DEF Preferred
<1>4. CASE ~ Better(paper[q], paper[o])
  <2>1. Priority(given[o]) >= Priority(given[q])
    BY <1>1, <1>2, <1>4 DEF Better
  <2> QED BY <1>2, <1>4, <2>1 DEF Preferred
<1> QED BY <1>3, <1>4

\* What a turn does with the element at hand: it is skipped, appended, or merged
\* with the value of its key.
Appended(o) ==
    /\ KeyIn(loop, o) # Empty /\ \A i \in DOMAIN values : KeyIn(loop, values[i]) # KeyIn(loop, o)
    /\ values' = Append(values, o) /\ UNCHANGED paper

MergedAt(o, i) ==
    /\ i \in DOMAIN values /\ KeyIn(loop, values[i]) = KeyIn(loop, o) /\ KeyIn(loop, o) # Empty
    /\ DOMAIN values' = DOMAIN values
    /\ \A j \in DOMAIN values : j # i => values'[j] = values[j]
    /\ values'[i] \in {o, values[i]}
    /\ Priority(given[values'[i]]) >= Priority(given[o])
    /\ Priority(given[values'[i]]) >= Priority(given[values[i]])
    /\ paper[o].abstract => paper'[values'[i]].abstract
    /\ paper[values[i]].abstract => paper'[values'[i]].abstract

\* A turn takes the next element and deals with it in one of three ways.
LEMMA TurnFacts ==
    ASSUME ObjInv, Turn
    PROVE  /\ ObjInv' /\ at \in 1..Len(input) /\ at' = at + 1 /\ loop # "done"
           /\ UNCHANGED <<hits, given, input, loop, saved>>
           /\ \A o \in Obj : paper[o].abstract => paper'[o].abstract
           /\ input[at] \in Obj
           /\ \/ KeyIn(loop, input[at]) = Empty /\ UNCHANGED <<paper, values>>
              \/ Appended(input[at])
              \/ \E i : MergedAt(input[at], i)
<1>t. /\ given \in [Obj -> Paper] /\ paper \in [Obj -> Paper]
      /\ input \in Seq(Obj) /\ values \in Seq(Obj)
      /\ at \in Nat \ {0} /\ at <= Len(input) + 1
  BY DEF ObjInv
<1>1. /\ loop # "done" /\ at <= Len(input) /\ at' = at + 1
      /\ UNCHANGED <<hits, given, input, loop, saved>> /\ Obj' = Obj
  BY DEF Turn, Skip, Insert, Merge, Obj
<1>2. at \in 1..Len(input) /\ Len(input) \in Nat /\ at' \in Nat \ {0} /\ at' <= Len(input) + 1
  BY <1>t, <1>1
<1>3. input[at] \in Obj
  BY <1>t, <1>2
<1>4. PICK o \in Obj : o = input[at]
  BY <1>3
<1>5. KeyNow(o) = KeyIn(loop, o) /\ \A i \in DOMAIN values : values[i] \in Obj /\ KeyNow(values[i]) = KeyIn(loop, values[i])
  <2>1. \A i \in DOMAIN values : values[i] \in Obj
    BY <1>t
  <2> QED BY <2>1, KeysFixed
<1>6. ASSUME values' \in Seq(Obj), paper' \in [Obj -> Paper],
             \A w \in Obj : /\ paper'[w].source = paper[w].source
                            /\ paper'[w].doi = paper[w].doi
                            /\ paper'[w].title = paper[w].title
                            /\ paper[w].abstract => paper'[w].abstract
      PROVE  ObjInv'
  BY <1>1, <1>2, <1>6 DEF ObjInv
<1>7. CASE Skip
  <2>1. KeyIn(loop, o) = Empty /\ UNCHANGED <<paper, values>>
    BY <1>4, <1>5, <1>7 DEF Skip
  <2>2. ObjInv'
    BY <1>t, <1>6, <2>1
  <2> QED BY <1>1, <1>2, <1>3, <1>4, <2>1, <2>2
<1>8. CASE Insert
  <2>1. Appended(o)
    BY <1>4, <1>5, <1>8 DEF Insert, Known, Appended
  <2>2. values' \in Seq(Obj) /\ paper' = paper
    BY <1>t, <2>1 DEF Appended
  <2>3. ObjInv'
    BY <1>t, <1>6, <2>2
  <2> QED BY <1>1, <1>2, <1>3, <1>4, <2>1, <2>2, <2>3
<1>9. CASE Merge
  <2>1. PICK i, w, q :
           /\ i \in Known(KeyNow(o))
           /\ w = Preferred(values[i], o)
           /\ q = IF w = values[i] THEN o ELSE values[i]
           /\ paper' = [paper EXCEPT ![w] = Merged(w, q)]
           /\ values' = [values EXCEPT ![i] = w]
    BY <1>4, <1>9 DEF Merge
  <2>2. /\ i \in DOMAIN values /\ values[i] \in Obj /\ KeyIn(loop, values[i]) = KeyIn(loop, o)
        /\ KeyIn(loop, o) # Empty
    BY <1>4, <1>5, <1>9, <2>1 DEF Known, Merge
  <2>3. /\ w \in {values[i], o} /\ w \in Obj /\ q \in {values[i], o} /\ q \in Obj
        /\ Priority(given[w]) >= Priority(given[o])
        /\ Priority(given[w]) >= Priority(given[values[i]])
        /\ {w, q} = {values[i], o}
    BY <2>1, <2>2, PreferredFacts
  <2>4. /\ paper' \in [Obj -> Paper]
        /\ \A v \in Obj : v # w => paper'[v] = paper[v]
        /\ paper'[w] = Merged(w, q)
    BY <1>t, <2>1, <2>3, MergedFacts
  <2>5. \A v \in Obj : /\ paper'[v].source = paper[v].source
                       /\ paper'[v].doi = paper[v].doi
                       /\ paper'[v].title = paper[v].title
                       /\ paper[v].abstract => paper'[v].abstract
    <3> SUFFICES ASSUME NEW v \in Obj
                 PROVE  /\ paper'[v].source = paper[v].source
                        /\ paper'[v].doi = paper[v].doi
                        /\ paper'[v].title = paper[v].title
                        /\ paper[v].abstract => paper'[v].abstract
      OBVIOUS
    <3>1. CASE v # w
      BY <2>4, <3>1
    <3>2. CASE v = w
      BY <1>t, <2>3, <2>4, <3>2, MergedFacts
    <3> QED BY <3>1, <3>2
  <2>6. paper'[w].abstract <=> (paper[w].abstract \/ paper[q].abstract)
    BY <1>t, <2>3, <2>4, MergedFacts
  <2>7. /\ values' \in Seq(Obj) /\ DOMAIN values' = DOMAIN values
        /\ values'[i] = w /\ \A j \in DOMAIN values : j # i => values'[j] = values[j]
    BY <1>t, <2>1, <2>2, <2>3
  <2>8. /\ paper[o].abstract => paper'[w].abstract
        /\ paper[values[i]].abstract => paper'[w].abstract
    BY <2>3, <2>6
  <2>9. MergedAt(o, i)
    BY <2>2, <2>3, <2>7, <2>8 DEF MergedAt
  <2>10. ObjInv'
    BY <1>6, <2>4, <2>5, <2>7
  <2> QED BY <1>1, <1>2, <1>3, <1>4, <2>5, <2>9, <2>10
<1> QED BY <1>7, <1>8, <1>9 DEF Turn

\* The initial list is well formed.
LEMMA ObjInit == Init => ObjInv
<1> SUFFICES ASSUME Init PROVE ObjInv
  OBVIOUS
<1>1. PICK n \in 1..MaxPapers : hits \in [1..n -> Objects]
  BY DEF Init
<1>2. given \in [{hits[i] : i \in DOMAIN hits} -> Paper]
  BY DEF Init
<1>3. Obj = {hits[i] : i \in DOMAIN hits} /\ given \in [Obj -> Paper]
  BY <1>2 DEF Obj
<1>4. hits \in [1..n -> Obj] /\ DOMAIN hits = 1..n /\ n \in Nat
  BY <1>1, <1>3, MaxPapersAssumption
<1>5. hits \in Seq(Obj) /\ Len(hits) = n
  BY <1>4
<1>6. \A o \in Obj : \E i \in DOMAIN hits : hits[i] = o
  BY <1>3
<1>7. input = hits /\ at = 1 /\ loop = "key" /\ values = <<>> /\ paper = given
  BY DEF Init
<1> QED BY <1>3, <1>4, <1>5, <1>6, <1>7 DEF ObjInv

\* A loop ends: its values are the next loop's input, or the result.
LEMMA LoopEndsFacts ==
    ASSUME ObjInv, LoopEnds
    PROVE  /\ ObjInv' /\ UNCHANGED <<hits, given, paper>> /\ Obj' = Obj
           /\ at = Len(input) + 1 /\ loop # "done"
           /\ \/ /\ loop = "key" /\ loop' = "title" /\ UNCHANGED saved
                 /\ input' = values /\ values' = <<>> /\ at' = 1
              \/ /\ loop = "title" /\ saved = <<>> /\ values # <<>> /\ saved' = Rows
                 /\ loop' = "key" /\ input' = values /\ values' = <<>> /\ at' = 1
              \/ /\ loop = "title" /\ (saved # <<>> \/ values = <<>>) /\ loop' = "done"
                 /\ UNCHANGED <<saved, input, values, at>>
<1>1. /\ UNCHANGED <<hits, given, paper>> /\ Obj' = Obj /\ loop # "done" /\ at > Len(input)
  BY DEF LoopEnds, Obj
<1>2. at \in Nat /\ Len(input) \in Nat /\ at <= Len(input) + 1 /\ Len(values) \in Nat
  BY DEF ObjInv
<1>3. at = Len(input) + 1
  BY <1>1, <1>2
<1>4. \/ /\ loop = "key" /\ loop' = "title" /\ UNCHANGED saved
         /\ input' = values /\ values' = <<>> /\ at' = 1
      \/ /\ loop = "title" /\ saved = <<>> /\ values # <<>> /\ saved' = Rows
         /\ loop' = "key" /\ input' = values /\ values' = <<>> /\ at' = 1
      \/ /\ loop = "title" /\ (saved # <<>> \/ values = <<>>) /\ loop' = "done"
         /\ UNCHANGED <<saved, input, values, at>>
  BY DEF LoopEnds
<1>5. /\ input' \in Seq(Obj) /\ values' \in Seq(Obj) /\ at' \in Nat \ {0}
      /\ at' <= Len(input') + 1 /\ loop' \in {"key", "title", "done"}
  <2>1. <<>> \in Seq(Obj)
    OBVIOUS
  <2>2. input \in Seq(Obj) /\ values \in Seq(Obj) /\ at \in Nat \ {0}
    BY DEF ObjInv
  <2>3. loop' \in {"key", "title", "done"}
    BY <1>4
  <2>4. CASE input' = values /\ values' = <<>> /\ at' = 1
    BY <1>2, <2>1, <2>2, <2>3, <2>4
  <2>5. CASE UNCHANGED <<input, values, at>>
    BY <1>2, <2>2, <2>3, <2>5
  <2> QED BY <1>4, <2>4, <2>5
<1>6. ObjInv'
  BY <1>1, <1>5 DEF ObjInv
<1> QED BY <1>1, <1>3, <1>4, <1>6

-----------------------------------------------------------------------------
(* What is shown is what was saved.  The values of a loop differ in its key; the
   values of the second loop come from a list that differs in the first key; so the
   result differs in both, and the second pass copies it. *)

Distinct(l, s) == \A i, j \in DOMAIN s : KeyIn(l, s[i]) = KeyIn(l, s[j]) => i = j
Keyed(l, s) == \A i \in DOMAIN s : KeyIn(l, s[i]) # Empty

SecondPass ==
    /\ saved = [i \in DOMAIN input |-> paper[input[i]]]
    /\ Distinct("key", input) /\ Distinct("title", input) /\ Keyed("title", input)
    /\ Len(values) = at - 1 /\ \A i \in 1..(at - 1) : values[i] = input[i]

MergeInv ==
    /\ loop # "done" => Distinct(loop, values) /\ Keyed(loop, values)
    /\ loop = "title" => /\ Distinct("key", input)
                         /\ \A i \in DOMAIN values : \E j \in DOMAIN input : values[i] = input[j]
    /\ saved # <<>> => SecondPass
    /\ loop = "done" => Rows = saved

\* The element of the second pass is always new.
LEMMA SecondPassAppends ==
    ASSUME ObjInv, MergeInv, Turn, saved # <<>>
    PROVE  Appended(input[at])
<1>1. /\ at \in 1..Len(input) /\ loop # "done" /\ input[at] \in Obj
      /\ \/ KeyIn(loop, input[at]) = Empty
         \/ Appended(input[at])
         \/ \E i : MergedAt(input[at], i)
  BY TurnFacts
<1>2. SecondPass
  BY DEF MergeInv
<1>3. input \in Seq(Obj) /\ values \in Seq(Obj) /\ Len(input) \in Nat /\ at \in Nat
      /\ loop \in {"key", "title", "done"} /\ DOMAIN input = 1..Len(input)
  BY DEF ObjInv
<1>4. given[input[at]].title # Empty
  BY <1>1, <1>2, <1>3 DEF SecondPass, Keyed, KeyIn
<1>5. KeyIn(loop, input[at]) # Empty
  BY <1>4, EmptyAssumption DEF KeyIn, Key
<1>6. ASSUME NEW i, MergedAt(input[at], i) PROVE FALSE
  <2>1. i \in DOMAIN values /\ KeyIn(loop, values[i]) = KeyIn(loop, input[at])
    BY <1>6 DEF MergedAt
  <2>2. i \in 1..(at - 1) /\ values[i] = input[i]
    <3>1. DOMAIN values = 1..(at - 1)
      BY <1>2, <1>3 DEF SecondPass
    <3> QED BY <1>2, <2>1, <3>1 DEF SecondPass
  <2>3. i \in DOMAIN input /\ i # at /\ at \in DOMAIN input
    BY <1>1, <1>3, <2>2
  <2>4. Distinct(loop, input)
    BY <1>1, <1>2, <1>3 DEF SecondPass
  <2> QED BY <2>1, <2>2, <2>3, <2>4 DEF Distinct
<1> QED BY <1>1, <1>5, <1>6

\* A turn keeps the values apart.
LEMMA MergeTurn ==
    ASSUME ObjInv, MergeInv, Turn
    PROVE  MergeInv'
<1>1. /\ ObjInv' /\ at \in 1..Len(input) /\ at' = at + 1 /\ loop # "done"
      /\ UNCHANGED <<hits, given, input, loop, saved>> /\ input[at] \in Obj
      /\ \/ KeyIn(loop, input[at]) = Empty /\ UNCHANGED <<paper, values>>
         \/ Appended(input[at])
         \/ \E i : MergedAt(input[at], i)
  BY TurnFacts
<1>2. /\ input \in Seq(Obj) /\ values \in Seq(Obj) /\ Len(input) \in Nat /\ at \in Nat
      /\ DOMAIN input = 1..Len(input)
  BY DEF ObjInv
<1>3. Distinct(loop, values) /\ Keyed(loop, values)
  BY <1>1 DEF MergeInv
<1>4. \A l, o : KeyIn(l, o)' = KeyIn(l, o)
  BY <1>1 DEF KeyIn
<1>5. ASSUME Appended(input[at])
      PROVE  /\ Distinct(loop, values') /\ Keyed(loop, values')
             /\ Len(values') = Len(values) + 1 /\ values'[Len(values) + 1] = input[at]
             /\ \A i \in 1..Len(values) : values'[i] = values[i]
             /\ \A i \in DOMAIN values' : values'[i] = input[at] \/ \E j \in DOMAIN values : values'[i] = values[j]
             /\ paper' = paper
  <2>1. PICK k \in Nat : k = Len(values) /\ DOMAIN values = 1..k
    BY <1>2
  <2>2. /\ KeyIn(loop, input[at]) # Empty /\ values' = Append(values, input[at]) /\ paper' = paper
        /\ \A i \in DOMAIN values : KeyIn(loop, values[i]) # KeyIn(loop, input[at])
    BY <1>5 DEF Appended
  <2>3. /\ Len(values') = k + 1 /\ values'[k + 1] = input[at] /\ DOMAIN values' = 1..(k + 1)
        /\ \A i \in 1..k : values'[i] = values[i]
    BY <1>1, <1>2, <2>1, <2>2
  <2>4. \A i \in 1..(k + 1) : i = k + 1 \/ i \in 1..k
    OBVIOUS
  <2>5. Keyed(loop, values')
    BY <1>3, <2>1, <2>2, <2>3, <2>4 DEF Keyed
  <2>6. Distinct(loop, values')
    <3> SUFFICES ASSUME NEW i \in 1..(k + 1), NEW j \in 1..(k + 1),
                        KeyIn(loop, values'[i]) = KeyIn(loop, values'[j])
                 PROVE  i = j
      BY <2>3 DEF Distinct
    <3>1. CASE i = k + 1 \/ j = k + 1
      BY <2>1, <2>2, <2>3, <2>4, <3>1
    <3>2. CASE i \in 1..k /\ j \in 1..k
      BY <1>3, <2>1, <2>3, <3>2 DEF Distinct
    <3> QED BY <2>4, <3>1, <3>2
  <2> QED BY <2>1, <2>2, <2>3, <2>4, <2>5, <2>6
<1>6. ASSUME NEW i, MergedAt(input[at], i)
      PROVE  /\ Distinct(loop, values') /\ Keyed(loop, values')
             /\ \A j \in DOMAIN values' : values'[j] = input[at] \/ \E h \in DOMAIN values : values'[j] = values[h]
  <2>1. /\ DOMAIN values' = DOMAIN values /\ i \in DOMAIN values
        /\ \A j \in DOMAIN values : j # i => values'[j] = values[j]
        /\ values'[i] \in {input[at], values[i]}
    BY <1>6 DEF MergedAt
  <2>2. \A j \in DOMAIN values : KeyIn(loop, values'[j]) = KeyIn(loop, values[j])
    BY <1>6, <2>1 DEF MergedAt
  <2>3. Distinct(loop, values') /\ Keyed(loop, values')
    BY <1>3, <2>1, <2>2 DEF Distinct, Keyed
  <2> QED BY <2>1, <2>3
<1>7. /\ Distinct(loop, values') /\ Keyed(loop, values')
      /\ \A j \in DOMAIN values' : values'[j] = input[at] \/ \E h \in DOMAIN values : values'[j] = values[h]
  <2>1. CASE values' = values
    BY <1>3, <2>1
  <2> QED BY <1>1, <1>5, <1>6, <2>1
<1>8. (Distinct(loop, values) /\ Keyed(loop, values))'
  BY <1>1, <1>4, <1>7 DEF Distinct, Keyed
<1>9. loop = "title" => /\ Distinct("key", input)'
                        /\ \A i \in DOMAIN values' : \E j \in DOMAIN input : values'[i] = input[j]
  <2> SUFFICES ASSUME loop = "title"
               PROVE  /\ Distinct("key", input)'
                      /\ \A i \in DOMAIN values' : \E j \in DOMAIN input : values'[i] = input[j]
    OBVIOUS
  <2>1. /\ Distinct("key", input)
        /\ \A i \in DOMAIN values : \E j \in DOMAIN input : values[i] = input[j]
    BY DEF MergeInv
  <2>2. Distinct("key", input)'
    BY <1>1, <1>4, <2>1 DEF Distinct
  <2>3. at \in DOMAIN input
    BY <1>1, <1>2
  <2> QED BY <1>7, <2>1, <2>2, <2>3
<1>10. ASSUME saved # <<>> PROVE SecondPass'
  <2>1. Appended(input[at])
    BY <1>10, SecondPassAppends
  <2>2. SecondPass
    BY <1>10 DEF MergeInv
  <2>3. /\ saved' = [i \in DOMAIN input' |-> paper'[input'[i]]]
        /\ (Distinct("key", input) /\ Distinct("title", input) /\ Keyed("title", input))'
    BY <1>1, <1>4, <1>5, <2>1, <2>2 DEF SecondPass, Distinct, Keyed
  <2>4. /\ Len(values') = (at - 1) + 1 /\ values'[(at - 1) + 1] = input[at]
        /\ \A i \in 1..(at - 1) : values'[i] = input[i]
    BY <1>5, <2>1, <2>2 DEF SecondPass
  <2>5. (at - 1) + 1 = at /\ at' - 1 = at /\ \A i \in 1..at : i = at \/ i \in 1..(at - 1)
    BY <1>1, <1>2
  <2>6. Len(values') = at' - 1 /\ \A i \in 1..(at' - 1) : values'[i] = input'[i]
    BY <1>1, <2>4, <2>5
  <2> QED BY <2>3, <2>6 DEF SecondPass
<1> QED BY <1>1, <1>8, <1>9, <1>10 DEF MergeInv

\* The end of a loop keeps the values apart.
LEMMA MergeEnds ==
    ASSUME ObjInv, MergeInv, LoopEnds
    PROVE  MergeInv'
<1>1. /\ ObjInv' /\ UNCHANGED <<given, paper>> /\ at = Len(input) + 1 /\ loop # "done"
      /\ \/ /\ loop = "key" /\ loop' = "title" /\ UNCHANGED saved
            /\ input' = values /\ values' = <<>> /\ at' = 1
         \/ /\ loop = "title" /\ saved = <<>> /\ values # <<>> /\ saved' = Rows
            /\ loop' = "key" /\ input' = values /\ values' = <<>> /\ at' = 1
         \/ /\ loop = "title" /\ (saved # <<>> \/ values = <<>>) /\ loop' = "done"
            /\ UNCHANGED <<saved, input, values, at>>
  BY LoopEndsFacts
<1>2. /\ input \in Seq(Obj) /\ values \in Seq(Obj) /\ Len(input) \in Nat /\ Len(values) \in Nat
      /\ DOMAIN input = 1..Len(input) /\ DOMAIN values = 1..Len(values)
  BY DEF ObjInv
<1>3. Distinct(loop, values) /\ Keyed(loop, values)
  BY <1>1 DEF MergeInv
<1>4. \A l, o : KeyIn(l, o)' = KeyIn(l, o)
  BY <1>1 DEF KeyIn
\* In the second pass the values of a finished loop are its input.
<1>6. saved # <<>> => values = input
  <2> SUFFICES ASSUME saved # <<>> PROVE values = input
    OBVIOUS
  <2>1. SecondPass
    BY DEF MergeInv
  <2>2. at - 1 = Len(input)
    BY <1>1, <1>2
  <2>3. Len(values) = Len(input) /\ \A i \in 1..Len(input) : values[i] = input[i]
    BY <2>1, <2>2 DEF SecondPass
  <2> QED BY <1>2, <2>3
<1>7. ASSUME values' = <<>>
      PROVE  DOMAIN values' = {} /\ Len(values') = 0 /\ \A l : Distinct(l, values)' /\ Keyed(l, values)'
  <2>1. DOMAIN values' = {} /\ Len(values') = 0
    BY <1>7
  <2> QED BY <2>1 DEF Distinct, Keyed
<1>8. CASE /\ loop = "key" /\ loop' = "title" /\ UNCHANGED saved
           /\ input' = values /\ values' = <<>> /\ at' = 1
  <2>1. Distinct("key", input)'
    BY <1>3, <1>4, <1>8 DEF Distinct
  <2>2. ASSUME saved # <<>> PROVE SecondPass'
    <3>1. SecondPass /\ input' = input
      BY <1>6, <1>8, <2>2 DEF MergeInv
    <3>2. /\ saved' = [i \in DOMAIN input' |-> paper'[input'[i]]]
          /\ (Distinct("key", input) /\ Distinct("title", input) /\ Keyed("title", input))'
      BY <1>1, <1>4, <1>8, <3>1 DEF SecondPass, Distinct, Keyed
    <3>3. Len(values') = at' - 1 /\ \A i \in 1..(at' - 1) : values'[i] = input'[i]
      BY <1>7, <1>8
    <3> QED BY <3>2, <3>3 DEF SecondPass
  <2> QED BY <1>7, <1>8, <2>1, <2>2 DEF MergeInv
<1>9. CASE /\ loop = "title" /\ saved = <<>> /\ values # <<>> /\ saved' = Rows
           /\ loop' = "key" /\ input' = values /\ values' = <<>> /\ at' = 1
  <2>1. /\ Distinct("title", values) /\ Keyed("title", values) /\ Distinct("key", input)
        /\ \A i \in DOMAIN values : \E j \in DOMAIN input : values[i] = input[j]
    BY <1>3, <1>9 DEF MergeInv
  <2>2. Distinct("key", values)
    <3> SUFFICES ASSUME NEW i \in DOMAIN values, NEW j \in DOMAIN values,
                        KeyIn("key", values[i]) = KeyIn("key", values[j])
                 PROVE  i = j
      BY DEF Distinct
    <3>1. PICK a \in DOMAIN input, b \in DOMAIN input : values[i] = input[a] /\ values[j] = input[b]
      BY <2>1
    <3>2. a = b
      BY <2>1, <3>1 DEF Distinct
    <3> QED BY <2>1, <3>1, <3>2 DEF Distinct
  <2>3. (Distinct("key", input) /\ Distinct("title", input) /\ Keyed("title", input))'
    BY <1>4, <1>9, <2>1, <2>2 DEF Distinct, Keyed
  <2>4. saved' = [i \in DOMAIN input' |-> paper'[input'[i]]]
    BY <1>1, <1>9 DEF Rows
  <2>5. Len(values') = at' - 1 /\ \A i \in 1..(at' - 1) : values'[i] = input'[i]
    BY <1>7, <1>9
  <2>6. SecondPass'
    BY <2>3, <2>4, <2>5 DEF SecondPass
  <2> QED BY <1>7, <1>9, <2>6 DEF MergeInv
<1>10. CASE /\ loop = "title" /\ (saved # <<>> \/ values = <<>>) /\ loop' = "done"
            /\ UNCHANGED <<saved, input, values, at>>
  <2>1. Rows' = Rows
    BY <1>1, <1>10 DEF Rows
  <2>2. CASE saved # <<>>
    <3>1. SecondPass /\ values = input
      BY <1>6, <2>2 DEF MergeInv
    <3>2. Rows = saved
      BY <3>1 DEF SecondPass, Rows
    <3>3. SecondPass'
      BY <1>1, <1>4, <1>10, <3>1 DEF SecondPass, Distinct, Keyed
    <3> QED BY <1>10, <2>1, <3>2, <3>3 DEF MergeInv
  <2>3. CASE saved = <<>>
    <3>1. values = <<>> /\ DOMAIN values = {}
      BY <1>10, <2>3
    <3>2. Rows = <<>>
      BY <3>1 DEF Rows
    <3> QED BY <1>10, <2>1, <2>3, <3>2 DEF MergeInv
  <2> QED BY <2>2, <2>3
<1> QED BY <1>1, <1>8, <1>9, <1>10

\* The invariant holds always.
LEMMA MergeInvariant == Spec => [](ObjInv /\ MergeInv)
<1>1. Init => ObjInv /\ MergeInv
  <2>1. Init => DOMAIN values = {} /\ loop = "key" /\ saved = <<>>
    BY DEF Init
  <2> QED BY <2>1, ObjInit DEF MergeInv, Distinct, Keyed
<1>2. ObjInv /\ MergeInv /\ [Next]_vars => (ObjInv /\ MergeInv)'
  <2> SUFFICES ASSUME ObjInv, MergeInv, [Next]_vars PROVE ObjInv' /\ MergeInv'
    OBVIOUS
  <2>1. CASE Turn
    BY <2>1, TurnFacts, MergeTurn
  <2>2. CASE LoopEnds
    BY <2>2, LoopEndsFacts, MergeEnds
  <2>3. CASE UNCHANGED vars
    <3>1. ObjInv'
      BY <2>3 DEF vars, ObjInv, Obj
    <3>2. MergeInv'
      BY <2>3 DEF vars, MergeInv, SecondPass, Distinct, Keyed, KeyIn, Key, Rows
    <3> QED BY <3>1, <3>2
  <2> QED BY <2>1, <2>2, <2>3 DEF Next
<1> QED BY <1>1, <1>2, PTL DEF Spec

\* search shows what it saved, field by field: the second _dedupe finds nothing to
\* merge, whatever the sources returned.
THEOREM ShowsWhatItSaved == Spec => []ShownIsSaved
<1>1. MergeInv => ShownIsSaved
  BY DEF MergeInv, ShownIsSaved
<1> QED BY <1>1, MergeInvariant, PTL

-----------------------------------------------------------------------------
(* Every hit is represented.  In the first loop a paper waits in the list or a value
   of its key covers it; in the second the paper that covers it waits, a value
   represents it, or the one that covers it has no title and is dropped. *)

Covers(v, o) ==
    /\ Key(given[v]) = Key(given[o])
    /\ Priority(given[v]) >= Priority(given[o])
    /\ given[o].abstract => paper[v].abstract

Represents(v, o) ==
    /\ \E q \in SameKey(given[o]) : q.title = given[v].title
    /\ Priority(given[v]) >= Priority(given[o])
    /\ given[o].abstract => paper[v].abstract

Dropped(o) == \E q \in SameKey(given[o]) : q.title = Empty /\ Priority(q) >= Priority(given[o])

Awaited(o) == \E j \in DOMAIN input : j >= at /\ Covers(input[j], o)

CoveredBy(o, s) == \E i \in DOMAIN s : Covers(s[i], o)
ShownBy(o, s) == \E i \in DOMAIN s : Represents(s[i], o)

RepInv ==
    /\ saved = <<>> /\ loop = "key" =>
          \A o \in Obj : Key(given[o]) = Empty \/ Awaited(o) \/ CoveredBy(o, values)
    /\ saved = <<>> /\ loop = "title" =>
          \A o \in Obj : Dropped(o) \/ Awaited(o) \/ ShownBy(o, values)
    /\ saved # <<>> /\ loop # "done" => \A o \in Obj : Dropped(o) \/ ShownBy(o, input)
    /\ loop = "done" => \A o \in Obj : Dropped(o) \/ ShownBy(o, values)

\* The value that takes the place of v in a turn.
Heir(w, v) ==
    /\ w \in Obj /\ KeyIn(loop, w) = KeyIn(loop, v)
    /\ Priority(given[w]) >= Priority(given[v])
    /\ paper[v].abstract => paper'[w].abstract

\* Priorities are numbers.
LEMMA PriorityType == \A p : Priority(p) \in Int
BY DEF Priority

\* A paper's own record is among those of its key.
LEMMA SameKeyFacts ==
    ASSUME ObjInv, NEW o \in Obj, NEW v \in Obj, Key(given[v]) = Key(given[o])
    PROVE  given[v] \in SameKey(given[o])
<1>1. PICK i \in DOMAIN hits : hits[i] = v
  BY DEF ObjInv
<1> QED BY <1>1 DEF SameKey

\* A paper that covers another represents it if it has a title; if it has none the
\* other may be dropped with it.
LEMMA CoversFacts ==
    ASSUME ObjInv, NEW o \in Obj, NEW v \in Obj, Covers(v, o)
    PROVE  /\ given[v].title = Empty => Dropped(o)
           /\ given[v].title # Empty => Represents(v, o)
<1>1. given[v] \in SameKey(given[o])
  BY SameKeyFacts DEF Covers
<1> QED BY <1>1 DEF Covers, Dropped, Represents

\* A paper without a key has no title.
LEMMA Keyless ==
    ASSUME ObjInv, NEW o \in Obj, Key(given[o]) = Empty
    PROVE  Dropped(o)
<1>1. given[o] \in SameKey(given[o])
  BY SameKeyFacts
<1>2. given[o].title = Empty
  BY DEF Key
<1>3. Priority(given[o]) >= Priority(given[o])
  BY PriorityType
<1> QED BY <1>1, <1>2, <1>3 DEF Dropped

\* What has a place among the values, or gets one now, keeps it or leaves it to one
\* of its key that is no worse.
LEMMA TurnKeeps ==
    ASSUME ObjInv, Turn, NEW v \in Obj,
           \/ v = input[at] /\ KeyIn(loop, v) # Empty
           \/ \E i \in DOMAIN values : v = values[i]
    PROVE  \E i \in DOMAIN values' : Heir(values'[i], v)
<1>1. /\ at \in 1..Len(input) /\ input[at] \in Obj
      /\ \A o \in Obj : paper[o].abstract => paper'[o].abstract
      /\ \/ KeyIn(loop, input[at]) = Empty /\ UNCHANGED <<paper, values>>
         \/ Appended(input[at])
         \/ \E i : MergedAt(input[at], i)
  BY TurnFacts
<1>2. values \in Seq(Obj) /\ Len(values) \in Nat /\ DOMAIN values = 1..Len(values)
      /\ \A i \in DOMAIN values : values[i] \in Obj
  BY DEF ObjInv
<1>3. \A w \in Obj : Heir(w, w)
  BY <1>1, PriorityType DEF Heir
<1>4. CASE KeyIn(loop, input[at]) = Empty /\ UNCHANGED <<paper, values>>
  BY <1>3, <1>4
<1>5. CASE Appended(input[at])
  <2>1. PICK k \in Nat : k = Len(values) /\ DOMAIN values = 1..k
    BY <1>2
  <2>2. values' = Append(values, input[at])
    BY <1>5 DEF Appended
  <2>3. PICK o \in Obj : o = input[at]
    BY <1>1
  <2>4. /\ Len(values') = k + 1 /\ values'[k + 1] = o /\ DOMAIN values' = 1..(k + 1)
        /\ \A i \in 1..k : values'[i] = values[i]
    BY ONLY <1>2, <2>1, <2>2, <2>3
  <2>5. k + 1 \in 1..(k + 1) /\ \A i \in 1..k : i \in 1..(k + 1)
    OBVIOUS
  <2>6. \E i \in DOMAIN values' : values'[i] = v
    BY <2>1, <2>3, <2>4, <2>5
  <2> QED BY <1>3, <2>6
<1>6. CASE \E i : MergedAt(input[at], i)
  <2>1. PICK i : MergedAt(input[at], i)
    BY <1>6
  <2>2. /\ i \in DOMAIN values /\ KeyIn(loop, values[i]) = KeyIn(loop, input[at])
        /\ DOMAIN values' = DOMAIN values
        /\ \A j \in DOMAIN values : j # i => values'[j] = values[j]
        /\ values'[i] \in {input[at], values[i]}
    BY <2>1 DEF MergedAt
  <2>3. Heir(values'[i], input[at]) /\ Heir(values'[i], values[i])
    BY <1>1, <1>2, <2>1, <2>2 DEF MergedAt, Heir
  <2>4. CASE v = input[at] \/ v = values[i]
    BY <2>2, <2>3, <2>4
  <2>5. ASSUME NEW j \in DOMAIN values, j # i, v = values[j]
        PROVE  \E h \in DOMAIN values' : Heir(values'[h], v)
    BY <1>3, <2>2, <2>5
  <2> QED BY <2>4, <2>5
<1> QED BY <1>1, <1>4, <1>5, <1>6

\* A turn keeps every paper covered, awaited or dropped.
LEMMA RepTurn ==
    ASSUME ObjInv, MergeInv, RepInv, Turn
    PROVE  RepInv'
<1>1. /\ ObjInv' /\ at \in 1..Len(input) /\ at' = at + 1 /\ loop # "done"
      /\ UNCHANGED <<hits, given, input, loop, saved>> /\ input[at] \in Obj /\ Obj' = Obj
      /\ \A o \in Obj : paper[o].abstract => paper'[o].abstract
  BY TurnFacts DEF Obj
<1>2. /\ \A j \in DOMAIN input : input[j] \in Obj /\ j \in Nat
      /\ \A i \in DOMAIN values : values[i] \in Obj
      /\ at \in Nat /\ loop \in {"key", "title", "done"}
      /\ \A o \in Obj : given[o].abstract => paper[o].abstract
  BY DEF ObjInv
<1>3. \A o : Dropped(o)' <=> Dropped(o)
  BY <1>1 DEF Dropped, SameKey
<1>4. \A v, o \in Obj : /\ Covers(v, o) => Covers(v, o)'
                        /\ Represents(v, o) => Represents(v, o)'
  BY <1>1 DEF Covers, Represents, SameKey
<1>5. ASSUME NEW v \in Obj, NEW w, NEW o \in Obj, Heir(w, v)
      PROVE  /\ loop = "key" /\ Covers(v, o) => Covers(w, o)'
             /\ loop = "title" /\ Represents(v, o) => Represents(w, o)'
  <2>1. ASSUME Priority(given[v]) >= Priority(given[o])
        PROVE  Priority(given[w]) >= Priority(given[o])
    BY <1>5, <2>1, PriorityType DEF Heir
  <2>2. ASSUME loop = "key", Covers(v, o) PROVE Covers(w, o)'
    <3>1. Key(given[w]) = Key(given[o]) /\ (given[o].abstract => paper'[w].abstract)
      BY <1>5, <2>2 DEF Heir, Covers, KeyIn
    <3> QED BY <1>1, <2>1, <2>2, <3>1 DEF Covers
  <2>3. ASSUME loop = "title", Represents(v, o) PROVE Represents(w, o)'
    <3>1. given[w].title = given[v].title /\ (given[o].abstract => paper'[w].abstract)
      BY <1>5, <2>3 DEF Heir, Represents, KeyIn
    <3> QED BY <1>1, <2>1, <2>3, <3>1 DEF Represents, SameKey
  <2> QED BY <2>2, <2>3
\* A paper that waits behind the element at hand goes on waiting.
<1>6. ASSUME NEW o \in Obj, Awaited(o) PROVE Awaited(o)' \/ Covers(input[at], o)
  <2>1. PICK j \in DOMAIN input : j >= at /\ Covers(input[j], o)
    BY <1>6 DEF Awaited
  <2>2. CASE j = at
    BY <2>1, <2>2
  <2>3. CASE j # at
    <3>1. j >= at'
      BY <1>1, <1>2, <2>1, <2>3
    <3>2. Covers(input[j], o)'
      BY <1>1, <1>2, <1>4, <2>1
    <3> QED BY <1>1, <3>1, <3>2 DEF Awaited
  <2> QED BY <2>2, <2>3
<1>7. ASSUME saved = <<>>, loop = "key", NEW o \in Obj
      PROVE  Key(given[o]) = Empty \/ Awaited(o)' \/ CoveredBy(o, values)'
  <2>1. Key(given[o]) = Empty \/ Awaited(o) \/ CoveredBy(o, values)
    BY <1>7 DEF RepInv
  <2>2. ASSUME NEW v \in Obj, Covers(v, o), \E i \in DOMAIN values' : Heir(values'[i], v)
        PROVE  CoveredBy(o, values)'
    BY <1>5, <1>7, <2>2 DEF CoveredBy
  <2>3. CASE CoveredBy(o, values)
    <3>1. PICK i \in DOMAIN values : Covers(values[i], o)
      BY <2>3 DEF CoveredBy
    <3>2. \E h \in DOMAIN values' : Heir(values'[h], values[i])
      BY <1>2, TurnKeeps
    <3> QED BY <1>2, <2>2, <3>1, <3>2
  <2>4. CASE Covers(input[at], o)
    <3>1. CASE KeyIn(loop, input[at]) = Empty
      BY <1>7, <2>4, <3>1 DEF KeyIn, Covers
    <3>2. CASE KeyIn(loop, input[at]) # Empty
      <4>1. \E h \in DOMAIN values' : Heir(values'[h], input[at])
        BY <1>1, <3>2, TurnKeeps
      <4> QED BY <1>1, <2>2, <2>4, <4>1
    <3> QED BY <3>1, <3>2
  <2> QED BY <1>6, <2>1, <2>3, <2>4
<1>8. ASSUME saved = <<>>, loop = "title", NEW o \in Obj
      PROVE  Dropped(o) \/ Awaited(o)' \/ ShownBy(o, values)'
  <2>1. Dropped(o) \/ Awaited(o) \/ ShownBy(o, values)
    BY <1>8 DEF RepInv
  <2>2. ASSUME NEW v \in Obj, Represents(v, o), \E i \in DOMAIN values' : Heir(values'[i], v)
        PROVE  ShownBy(o, values)'
    BY <1>5, <1>8, <2>2 DEF ShownBy
  <2>3. CASE ShownBy(o, values)
    <3>1. PICK i \in DOMAIN values : Represents(values[i], o)
      BY <2>3 DEF ShownBy
    <3>2. \E h \in DOMAIN values' : Heir(values'[h], values[i])
      BY <1>2, TurnKeeps
    <3> QED BY <1>2, <2>2, <3>1, <3>2
  <2>4. CASE Covers(input[at], o)
    <3>1. CASE given[input[at]].title = Empty
      BY <1>1, <2>4, <3>1, CoversFacts
    <3>2. CASE given[input[at]].title # Empty
      <4>1. KeyIn(loop, input[at]) # Empty
        BY <1>8, <3>2 DEF KeyIn
      <4>2. \E h \in DOMAIN values' : Heir(values'[h], input[at])
        BY <1>1, <4>1, TurnKeeps
      <4>3. Represents(input[at], o)
        BY <1>1, <2>4, <3>2, CoversFacts
      <4> QED BY <1>1, <2>2, <4>2, <4>3
    <3> QED BY <3>1, <3>2
  <2> QED BY <1>6, <2>1, <2>3, <2>4
<1>9. ASSUME saved # <<>>, NEW o \in Obj PROVE Dropped(o) \/ ShownBy(o, input)'
  <2>1. Dropped(o) \/ ShownBy(o, input)
    BY <1>1, <1>9 DEF RepInv
  <2> QED BY <1>1, <1>2, <1>4, <2>1 DEF ShownBy
<1>10. \A o \in Obj : Key(given[o])' = Key(given[o])
  BY <1>1
<1> QED BY <1>1, <1>3, <1>7, <1>8, <1>9, <1>10 DEF RepInv

\* The end of a loop hands on what represents every paper.
LEMMA RepEnds ==
    ASSUME ObjInv, MergeInv, RepInv, LoopEnds
    PROVE  RepInv'
<1>1. /\ ObjInv' /\ UNCHANGED <<hits, given, paper>> /\ Obj' = Obj
      /\ at = Len(input) + 1 /\ loop # "done"
      /\ \/ /\ loop = "key" /\ loop' = "title" /\ UNCHANGED saved
            /\ input' = values /\ values' = <<>> /\ at' = 1
         \/ /\ loop = "title" /\ saved = <<>> /\ values # <<>> /\ saved' = Rows
            /\ loop' = "key" /\ input' = values /\ values' = <<>> /\ at' = 1
         \/ /\ loop = "title" /\ (saved # <<>> \/ values = <<>>) /\ loop' = "done"
            /\ UNCHANGED <<saved, input, values, at>>
  BY LoopEndsFacts
<1>2. /\ input \in Seq(Obj) /\ values \in Seq(Obj) /\ Len(input) \in Nat
      /\ DOMAIN input = 1..Len(input) /\ DOMAIN values = 1..Len(values) /\ Len(values) \in Nat
  BY DEF ObjInv
<1>3. /\ \A o : Dropped(o)' <=> Dropped(o)
      /\ \A v, o : /\ Covers(v, o)' <=> Covers(v, o)
                   /\ Represents(v, o)' <=> Represents(v, o)
  BY <1>1 DEF Dropped, Covers, Represents, SameKey
<1>4. \A o : ~ Awaited(o)
  <2>1. \A j \in 1..Len(input) : ~ (j >= Len(input) + 1)
    BY <1>2
  <2> QED BY <1>1, <1>2, <2>1 DEF Awaited
<1>5. saved # <<>> => values = input
  <2> SUFFICES ASSUME saved # <<>> PROVE values = input
    OBVIOUS
  <2>1. SecondPass
    BY DEF MergeInv
  <2>2. at - 1 = Len(input)
    BY <1>1, <1>2
  <2>3. Len(values) = Len(input) /\ \A i \in 1..Len(input) : values[i] = input[i]
    BY <2>1, <2>2 DEF SecondPass
  <2> QED BY <1>2, <2>3
\* At the end of a second loop, and in the second pass, the values represent all.
<1>6. ASSUME loop = "title" \/ saved # <<>>, NEW o \in Obj
      PROVE  Dropped(o) \/ ShownBy(o, values)
  BY <1>1, <1>4, <1>5, <1>6 DEF RepInv, ObjInv
<1>7. CASE /\ loop = "key" /\ loop' = "title" /\ UNCHANGED saved
           /\ input' = values /\ values' = <<>> /\ at' = 1
  <2>1. ASSUME saved = <<>>, NEW o \in Obj PROVE Dropped(o)' \/ Awaited(o)'
    <3>1. Key(given[o]) = Empty \/ CoveredBy(o, values)
      BY <1>4, <1>7, <2>1 DEF RepInv
    <3>2. CASE Key(given[o]) = Empty
      BY <1>3, <3>2, Keyless
    <3>3. CASE CoveredBy(o, values)
      <4>1. PICK i \in DOMAIN values : Covers(values[i], o)
        BY <3>3 DEF CoveredBy
      <4>2. i >= 1
        BY <1>2
      <4>3. PICK v : v = values[i]
        OBVIOUS
      <4>4. Covers(v, o)' /\ i \in DOMAIN input' /\ i >= at' /\ input'[i] = v
        BY <1>3, <1>7, <4>1, <4>2, <4>3
      <4>5. Covers(input[i], o)'
        BY <4>4 DEF Covers
      <4> QED BY <4>4, <4>5 DEF Awaited
    <3> QED BY <3>1, <3>2, <3>3
  <2>2. ASSUME saved # <<>>, NEW o \in Obj PROVE Dropped(o)' \/ ShownBy(o, input)'
    BY <1>3, <1>6, <1>7, <2>2 DEF ShownBy
  <2> QED BY <1>1, <1>7, <2>1, <2>2 DEF RepInv
<1>8. CASE /\ loop = "title" /\ saved = <<>> /\ values # <<>> /\ saved' = Rows
           /\ loop' = "key" /\ input' = values /\ values' = <<>> /\ at' = 1
  <2>1. saved' # <<>>
    <3>1. DOMAIN Rows = DOMAIN values /\ DOMAIN values # {}
      BY <1>2, <1>8 DEF Rows
    <3> QED BY <1>8, <3>1
  <2>2. ASSUME NEW o \in Obj PROVE Dropped(o)' \/ ShownBy(o, input)'
    BY <1>3, <1>6, <1>8, <2>2 DEF ShownBy
  <2> QED BY <1>1, <1>8, <2>1, <2>2 DEF RepInv
<1>9. CASE /\ loop = "title" /\ (saved # <<>> \/ values = <<>>) /\ loop' = "done"
           /\ UNCHANGED <<saved, input, values, at>>
  <2>1. ASSUME NEW o \in Obj PROVE Dropped(o)' \/ ShownBy(o, values)'
    BY <1>3, <1>6, <1>9, <2>1 DEF ShownBy
  <2> QED BY <1>1, <1>9, <2>1 DEF RepInv
<1> QED BY <1>1, <1>7, <1>8, <1>9

\* The invariant of the representation holds always.
LEMMA RepInvariant == Spec => [](ObjInv /\ RepInv)
<1>1. Init => RepInv
  <2> SUFFICES ASSUME Init PROVE RepInv
    OBVIOUS
  <2>1. ObjInv /\ saved = <<>> /\ loop = "key" /\ at = 1 /\ input = hits
    BY ObjInit DEF Init
  <2>2. ASSUME NEW o \in Obj PROVE Awaited(o)
    <3>1. PICK i \in DOMAIN hits : hits[i] = o
      BY <2>1 DEF ObjInv
    <3>2. i >= 1
      BY <2>1 DEF ObjInv
    <3>3. Covers(o, o)
      BY <2>1, PriorityType DEF Covers, ObjInv
    <3> QED BY <2>1, <3>1, <3>2, <3>3 DEF Awaited
  <2> QED BY <2>1, <2>2 DEF RepInv
<1>2. ObjInv /\ MergeInv /\ RepInv /\ [Next]_vars => RepInv'
  <2> SUFFICES ASSUME ObjInv, MergeInv, RepInv, [Next]_vars PROVE RepInv'
    OBVIOUS
  <2>1. CASE UNCHANGED vars
    BY <2>1 DEF vars, RepInv, Obj, Dropped, Awaited, CoveredBy, ShownBy, Covers, Represents, SameKey
  <2> QED BY <2>1, RepTurn, RepEnds DEF Next
<1> QED BY <1>1, <1>2, MergeInvariant, PTL DEF Spec

\* No hit disappears in _dedupe unless an untitled record of its key, of no lesser
\* source, takes its place and is dropped: for every list, of every length.
THEOREM NoHitDisappears == Spec => []EveryHitIsRepresented
<1>1. ObjInv /\ RepInv => EveryHitIsRepresented
  <2> SUFFICES ASSUME ObjInv, RepInv, loop = "done", NEW o \in Obj
               PROVE  \/ \E i \in DOMAIN values : /\ \E q \in SameKey(given[o]) : q.title = paper[values[i]].title
                                                  /\ Priority(paper[values[i]]) >= Priority(given[o])
                                                  /\ given[o].abstract => paper[values[i]].abstract
                      \/ Dropped(o)
    BY DEF EveryHitIsRepresented, Obj, Dropped
  <2>1. CASE Dropped(o)
    BY <2>1
  <2>2. CASE ShownBy(o, values)
    <3>1. PICK i \in DOMAIN values : Represents(values[i], o)
      BY <2>2 DEF ShownBy
    <3>2. values[i] \in Obj
      BY DEF ObjInv
    <3>3. paper[values[i]].title = given[values[i]].title
      BY <3>2 DEF ObjInv
    <3>4. Priority(paper[values[i]]) = Priority(given[values[i]])
      BY <3>2, KeysFixed
    <3> QED BY <3>1, <3>3, <3>4 DEF Represents
  <2> QED BY <2>1, <2>2 DEF RepInv
<1> QED BY <1>1, RepInvariant, PTL

=============================================================================
