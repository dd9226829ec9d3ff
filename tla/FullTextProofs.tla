--------------------------- MODULE FullTextProofs ---------------------------
(***************************************************************************)
(* TLAPS proofs about FullText, for any number of callers, papers and URLs, *)
(* with or without database failures.                                       *)
(***************************************************************************)
EXTENDS FullText, FiniteSetTheorems, TLAPS

\* What the rows of a paper can be.
Rows == {{}, {"pdf"}, {"abstract"}}

\* The effect of a step of caller c on paper p: p's rows, c's control and result.
\* Rows of a PDF appear only if wrote says that the file is there.
Effect(c, p, wrote) ==
    /\ \E rows \in Rows :
          /\ chunks' = [chunks EXCEPT ![p] = rows]
          /\ "pdf" \in rows => "pdf" \in chunks[p] \/ wrote
    /\ \E s \in Statuses, step \in {"done", "raised"} :
          /\ status' = [status EXCEPT ![c] = s]
          /\ pc' = [pc EXCEPT ![c] = step]

\* The file of u is there, or its loss is accounted for.
Traced(u) == files[u] # "absent" \/ u \in torn

TextInv ==
    /\ TypeOK
    /\ \A p \in Papers : chunks[p] \in Rows
    /\ FullTextHasItsFile
    /\ \A c \in Callers : pc[c] = "download" => pdf[target[c]] \in Urls

\* The fall-back to the abstract.
LEMMA AbstractEffect ==
    ASSUME TextInv, NEW c \in Callers, NEW p \in Papers, NEW rows \in {chunks[p], {}},
           NEW caught \in BOOLEAN, UseAbstract(c, p, rows, caught)
    PROVE  Effect(c, p, FALSE)
<1>0. /\ chunks[p] \in Rows /\ {} \in Rows /\ {"abstract"} \in Rows /\ rows \in Rows
      /\ "pdf" \in rows => "pdf" \in chunks[p]
      /\ "failed" \in Statuses /\ "no_open_text" \in Statuses
      /\ "abstract_only" \in Statuses /\ "none" \in Statuses
  BY DEF TextInv, Rows, Statuses
<1>1. CASE /\ abstract[p] = "none"
           /\ chunks' = [chunks EXCEPT ![p] = rows]
           /\ Return(c, IF caught THEN "failed" ELSE "no_open_text")
  BY <1>0, <1>1 DEF Effect, Return
<1>2. CASE /\ abstract[p] # "none"
           /\ chunks' = [chunks EXCEPT ![p] =
                           IF abstract[p] = "tiny" THEN {} ELSE SaveChunks(rows, "abstract")]
           /\ Return(c, "abstract_only")
  BY <1>0, <1>2 DEF Effect, Return, SaveChunks
<1>3. CASE /\ abstract[p] # "none"
           /\ chunks' = [chunks EXCEPT ![p] = rows]
           /\ Raise(c)
  BY <1>0, <1>3 DEF Effect, Raise
<1> QED BY <1>1, <1>2, <1>3 DEF UseAbstract

\* The bytes of the PDF are there.
LEMMA StoreEffect ==
    ASSUME TextInv, NEW c \in Callers, NEW p \in Papers, NEW content,
           StorePdf(c, p, content)
    PROVE  Effect(c, p, TRUE)
<1>1. CASE /\ chunks' = [chunks EXCEPT ![p] = SaveChunks(@, "pdf")]
           /\ Return(c, "downloaded")
  BY <1>1 DEF Effect, Return, SaveChunks, Rows, Statuses
<1>2. CASE \E rows \in {chunks[p], {}}, caught \in BOOLEAN : UseAbstract(c, p, rows, caught)
  <2>1. Effect(c, p, FALSE)
    BY <1>2, AbstractEffect
  <2> QED BY <2>1 DEF Effect
<1> QED BY <1>1, <1>2 DEF StorePdf

\* An effect on p of a call for p keeps the invariant, if the file was there or
\* is written.
LEMMA EffectKeeps ==
    ASSUME TextInv, NEW c \in Callers, NEW p \in Papers, NEW wrote \in BOOLEAN,
           Effect(c, p, wrote), target' = [target EXCEPT ![c] = p],
           UNCHANGED <<pdf, abstract>>,
           files' \in [Urls -> Contents \cup {"absent"}], torn' \subseteq Urls,
           \A u \in Urls : Traced(u) => Traced(u)',
           wrote => pdf[p] # NoUrl /\ Traced(pdf[p])'
    PROVE  TextInv'
<1> USE DEF TextInv
<1>1. PICK rows \in Rows : /\ chunks' = [chunks EXCEPT ![p] = rows]
                           /\ "pdf" \in rows => "pdf" \in chunks[p] \/ wrote
  BY DEF Effect
<1>2. PICK s \in Statuses, step \in {"done", "raised"} :
          /\ status' = [status EXCEPT ![c] = s]
          /\ pc' = [pc EXCEPT ![c] = step]
  BY DEF Effect
<1>3. rows \in SUBSET Texts
  BY DEF Rows, Texts
<1>4. TypeOK'
  BY <1>1, <1>2, <1>3 DEF TypeOK
<1>5. \A q \in Papers : chunks'[q] \in Rows
  BY <1>1 DEF TypeOK
<1>7. FullTextHasItsFile'
  <2> SUFFICES ASSUME NEW q \in Papers, "pdf" \in chunks'[q]
               PROVE  pdf[q] # NoUrl /\ Traced(pdf[q])'
    BY DEF FullTextHasItsFile, Traced
  <2>1. pdf[q] \in Urls \cup {NoUrl}
    BY DEF TypeOK
  <2>2. CASE "pdf" \in chunks[q]
    BY <2>1, <2>2 DEF FullTextHasItsFile, Traced
  <2>3. CASE "pdf" \notin chunks[q]
    <3>1. q = p /\ wrote
      BY <1>1, <2>3 DEF TypeOK
    <3> QED BY <3>1
  <2> QED BY <2>2, <2>3
<1>8. \A d \in Callers : pc'[d] = "download" => pdf'[target'[d]] \in Urls
  BY <1>2 DEF TypeOK
<1> QED BY <1>4, <1>5, <1>7, <1>8

\* One step per action.
LEMMA TextStep == TextInv /\ [Next]_vars => TextInv'
<1> SUFFICES ASSUME TextInv, [Next]_vars PROVE TextInv'
  OBVIOUS
<1>t. TypeOK
  BY DEF TextInv
<1>1. CASE UNCHANGED vars
  BY <1>1 DEF vars, TextInv, TypeOK, FullTextHasItsFile
<1>2. ASSUME NEW c \in Callers, NEW p \in Papers, Call(c, p) PROVE TextInv'
  <2>0. /\ target' = [target EXCEPT ![c] = p]
        /\ UNCHANGED <<pdf, abstract, files, torn>>
        /\ files' \in [Urls -> Contents \cup {"absent"}] /\ torn' \subseteq Urls
        /\ \A u \in Urls : Traced(u) => Traced(u)'
        /\ chunks = [chunks EXCEPT ![p] = chunks[p]]
        /\ chunks[p] \in Rows
    BY <1>2, <1>t DEF Call, TypeOK, TextInv, Traced
  <2>1. CASE Return(c, "cached") /\ UNCHANGED chunks
    <3>1. Effect(c, p, FALSE)
      BY <2>0, <2>1 DEF Effect, Return, Statuses
    <3> QED BY <2>0, <3>1, EffectKeeps
  <2>2. CASE UseAbstract(c, p, chunks[p], FALSE)
    BY <2>0, <2>2, AbstractEffect, EffectKeeps
  <2>3. CASE pdf[p] # NoUrl /\ files[pdf[p]] # "absent" /\ StorePdf(c, p, files[pdf[p]])
    <3>1. Effect(c, p, TRUE)
      BY <2>3, StoreEffect
    <3>2. Traced(pdf[p])'
      BY <2>0, <2>3 DEF Traced
    <3> QED BY <2>0, <2>3, <3>1, <3>2, EffectKeeps
  <2>4. CASE /\ pc' = [pc EXCEPT ![c] = "download"]
             /\ status' = [status EXCEPT ![c] = "none"]
             /\ UNCHANGED chunks /\ pdf[p] # NoUrl
    BY <2>0, <2>4 DEF TextInv, TypeOK, Statuses, FullTextHasItsFile
  <2>5. CASE Raise(c) /\ UNCHANGED chunks
    <3>1. Effect(c, p, FALSE)
      BY <2>0, <2>5 DEF Effect, Raise, Statuses
    <3> QED BY <2>0, <3>1, EffectKeeps
  <2> QED BY <1>2, <2>1, <2>2, <2>3, <2>4, <2>5 DEF Call
<1>3. ASSUME NEW c \in Callers, pc[c] = "download"
      PROVE  /\ target[c] \in Papers /\ pdf[target[c]] \in Urls
             /\ target = [target EXCEPT ![c] = target[c]]
  BY <1>3, <1>t DEF TextInv, TypeOK
<1>4. ASSUME NEW p \in Papers, pdf[p] \in Urls, NEW content \in Contents,
             WriteFile(p, content), UNCHANGED pdf
      PROVE  /\ files' \in [Urls -> Contents \cup {"absent"}]
             /\ torn' \subseteq Urls
             /\ Traced(pdf[p])'
             /\ \A u \in Urls : Traced(u) => Traced(u)'
  BY <1>t, <1>4 DEF TypeOK, WriteFile, Contents, Traced
<1>tear. ASSUME NEW p \in Papers, pdf[p] \in Urls, TearFile(p)
         PROVE  /\ files' \in [Urls -> Contents \cup {"absent"}]
                /\ torn' \subseteq Urls
                /\ \A u \in Urls : Traced(u) => Traced(u)'
  BY <1>t, <1>tear DEF TypeOK, TearFile, Contents, Traced
<1>5. ASSUME NEW c \in Callers, Downloaded(c) PROVE TextInv'
  <2> DEFINE p == target[c]
  <2>1. p \in Papers /\ pdf[p] \in Urls /\ target' = [target EXCEPT ![c] = p]
    BY <1>3, <1>5 DEF Downloaded
  <2>2. PICK content \in Contents : WriteFile(p, content) /\ StorePdf(c, p, content)
    BY <1>5 DEF Downloaded
  <2>3. Effect(c, p, TRUE)
    BY <2>1, <2>2, StoreEffect
  <2>4. UNCHANGED <<pdf, abstract>>
    BY <1>5 DEF Downloaded
  <2> HIDE DEF p
  <2> QED BY <1>4, <2>1, <2>2, <2>3, <2>4, EffectKeeps, NoUrlAssumption
<1>6. ASSUME NEW c \in Callers, DownloadFails(c) PROVE TextInv'
  <2> DEFINE p == target[c]
  <2>1. p \in Papers /\ pdf[p] \in Urls /\ target' = [target EXCEPT ![c] = p]
    BY <1>3, <1>6 DEF DownloadFails
  <2>2. Effect(c, p, FALSE)
    BY <1>6, <2>1, AbstractEffect DEF DownloadFails
  <2>3. UNCHANGED <<pdf, abstract>> /\ (TearFile(p) \/ UNCHANGED <<files, torn>>)
    BY <1>6 DEF DownloadFails
  <2> HIDE DEF p
  <2>4. /\ files' \in [Urls -> Contents \cup {"absent"}] /\ torn' \subseteq Urls
        /\ \A u \in Urls : Traced(u) => Traced(u)'
    <3>1. CASE TearFile(p)
      BY <1>tear, <2>1, <3>1
    <3>2. CASE UNCHANGED <<files, torn>>
      BY <1>t, <3>2 DEF TypeOK, Traced
    <3> QED BY <2>3, <3>1, <3>2
  <2> QED BY <2>1, <2>2, <2>3, <2>4, EffectKeeps
<1>7. CASE Crash
  <2>1. /\ UNCHANGED <<pdf, abstract, target, status>>
        /\ \A c \in Callers : pc'[c] # "download"
        /\ pc' \in [Callers -> {"idle", "download", "done", "raised"}]
    BY <1>7, <1>t DEF Crash, TypeOK
  <2>2. ASSUME files' \in [Urls -> Contents \cup {"absent"}], torn' \subseteq Urls,
               \A u \in Urls : Traced(u) => Traced(u)',
               chunks' \in [Papers -> SUBSET Texts],
               \A p \in Papers : chunks'[p] = chunks[p] \/ chunks'[p] = {}
        PROVE  TextInv'
    <3>1. TypeOK' /\ (\A p \in Papers : chunks'[p] \in Rows)
      BY <2>1, <2>2 DEF TextInv, TypeOK, Rows
    <3>2. FullTextHasItsFile'
      BY <2>1, <2>2 DEF TextInv, TypeOK, FullTextHasItsFile, Traced
    <3> QED BY <2>1, <3>1, <3>2 DEF TextInv
  <2>3. CASE UNCHANGED <<files, torn, chunks>>
    BY <1>t, <2>2, <2>3 DEF TypeOK, Traced
  <2>4. ASSUME NEW c \in Callers, NEW content \in Contents, pc[c] = "download",
               WriteFile(target[c], content),
               \/ UNCHANGED chunks
               \/ chunks' = [chunks EXCEPT ![target[c]] = {}]
        PROVE  TextInv'
    <3>1. target[c] \in Papers /\ pdf[target[c]] \in Urls
      BY <1>3, <2>4
    <3>2. /\ chunks' \in [Papers -> SUBSET Texts]
          /\ \A p \in Papers : chunks'[p] = chunks[p] \/ chunks'[p] = {}
      BY <1>t, <2>4, <3>1 DEF TypeOK
    <3> QED BY <1>4, <2>1, <2>2, <2>4, <3>1, <3>2
  <2>5. ASSUME NEW c \in Callers, pc[c] = "download", TearFile(target[c]), UNCHANGED chunks
        PROVE  TextInv'
    <3>1. target[c] \in Papers /\ pdf[target[c]] \in Urls
      BY <1>3, <2>5
    <3> QED BY <1>t, <1>tear, <2>2, <2>5, <3>1 DEF TypeOK
  <2> QED BY <1>7, <2>3, <2>4, <2>5 DEF Crash
<1> QED BY <1>1, <1>2, <1>5, <1>6, <1>7 DEF Next

\* The invariant holds, whatever calls overlap and wherever the process is killed.
THEOREM TextInvariant == Spec => []TextInv
<1>1. Init => TextInv
  BY DEF Init, TextInv, TypeOK, Rows, Texts, Contents, Statuses,
         FullTextHasItsFile
<1> QED BY <1>1, TextStep, PTL DEF Spec

\* ensure_chunks returns only the statuses its callers know.
THEOREM TypeCorrect == Spec => []TypeOK
<1>1. TextInv => TypeOK
  BY DEF TextInv
<1> QED BY <1>1, TextInvariant, PTL

\* paper_chunks never holds rows of two texts for one paper.
THEOREM RowsAreOfOneText == Spec => []OneText
<1>1. TextInv => OneText
  <2> SUFFICES ASSUME TextInv, NEW p \in Papers PROVE Cardinality(chunks[p]) <= 1
    BY DEF OneText
  <2>1. chunks[p] \in Rows
    BY DEF TextInv
  <2>2. Cardinality({"pdf"}) = 1 /\ Cardinality({"abstract"}) = 1
    BY FS_Singleton
  <2>3. Cardinality({}) = 0
    BY FS_EmptySet
  <2> QED BY <2>1, <2>2, <2>3 DEF Rows
<1> QED BY <1>1, TextInvariant, PTL

\* Full-text rows have their PDF on disk, but for a second write that was cut short.
THEOREM FileComesFirst == Spec => []FullTextHasItsFile
<1>1. TextInv => FullTextHasItsFile
  BY DEF TextInv
<1> QED BY <1>1, TextInvariant, PTL

\* A call that starts leaves rows alone.
LEMMA CallKeepsRows ==
    ASSUME TextInv, NEW c \in Callers, NEW q \in Papers, Call(c, q),
           NEW p \in Papers, chunks[p] # {}
    PROVE  chunks'[p] = chunks[p]
<1>0. chunks \in [Papers -> SUBSET Texts]
  BY DEF TextInv, TypeOK
<1>1. CASE chunks[q] # {}
  BY <1>1 DEF Call, HasRows
<1>2. CASE chunks[q] = {}
  <2>1. \E rows : chunks' = [chunks EXCEPT ![q] = rows]
    <3>1. chunks = [chunks EXCEPT ![q] = chunks[q]]
      BY <1>0
    <3> QED BY <3>1 DEF Call, UseAbstract, StorePdf
  <2> QED BY <1>0, <1>2, <2>1
<1> QED BY <1>1, <1>2

\* What StoredTextIsStable says of a step.
Overlap == \A p \in Papers : chunks[p] # {} /\ chunks'[p] # chunks[p] =>
              \E c \in Callers : pc[c] = "download" /\ target[c] = p

\* Only the end of a download changes rows that are there.
LEMMA OverlapStep == TextInv /\ Next => Overlap
<1> SUFFICES ASSUME TextInv, Next, NEW p \in Papers, chunks[p] # {}, chunks'[p] # chunks[p]
             PROVE  \E c \in Callers : pc[c] = "download" /\ target[c] = p
  BY DEF Overlap
<1>0. chunks \in [Papers -> SUBSET Texts]
  BY DEF TextInv, TypeOK
<1>1. ASSUME NEW c \in Callers, NEW q \in Papers, Call(c, q) PROVE FALSE
  BY <1>1, CallKeepsRows
<1>2. ASSUME NEW c \in Callers, Downloaded(c) \/ DownloadFails(c)
      PROVE  pc[c] = "download" /\ target[c] = p
  <2>1. pc[c] = "download" /\ \E rows : chunks' = [chunks EXCEPT ![target[c]] = rows]
    BY <1>2 DEF Downloaded, DownloadFails, StorePdf, UseAbstract
  <2> QED BY <1>0, <2>1
<1>3. CASE Crash
  BY <1>0, <1>3 DEF Crash
<1> QED BY <1>1, <1>2, <1>3 DEF Next

\* Stored text changes only under a call for the same paper that was waiting for
\* its download.
THEOREM OnlyOverlapReplaces == Spec => StoredTextIsStable
<1>1. TextInv /\ [Next]_vars => [Overlap]_vars
  BY OverlapStep
<1> QED BY <1>1, TextInvariant, PTL DEF Spec, Overlap, StoredTextIsStable

\* Rows vanish only under a call for the same paper that was waiting for its download,
\* and that has no abstract of 80 characters to fall back on, raises or is killed.
THEOREM RowsStay == Spec => RowsVanishOnlyInFailures
<1> DEFINE Gone(c, p) == /\ pc[c] = "download" /\ target[c] = p
                         /\ abstract[p] # "long" \/ pc'[c] = "raised"
           Stay == \A p \in Papers : chunks[p] # {} /\ chunks'[p] = {} =>
                      \E c \in Callers : Gone(c, p)
<1>1. TextInv /\ [Next]_vars => [Stay]_vars
  <2> SUFFICES ASSUME TextInv, Next, NEW p \in Papers, chunks[p] # {}, chunks'[p] = {}
               PROVE  \E c \in Callers : Gone(c, p)
    OBVIOUS
  <2>0. /\ chunks \in [Papers -> SUBSET Texts] /\ target \in [Callers -> Papers]
        /\ pc \in [Callers -> {"idle", "download", "done", "raised"}]
    BY DEF TextInv, TypeOK
  <2>1. PICK c \in Callers : pc[c] = "download" /\ target[c] = p
    BY OverlapStep DEF Overlap
  <2>2. SUFFICES ASSUME abstract[p] = "long" PROVE \E d \in Callers : Gone(d, p)
    BY <2>1
  <2>a. ASSUME NEW d \in Callers, NEW rows, NEW caught, UseAbstract(d, p, rows, caught)
        PROVE  pc'[d] = "raised"
    <3>1. chunks' # [chunks EXCEPT ![p] = SaveChunks(rows, "abstract")]
      BY <2>0 DEF SaveChunks
    <3>2. Raise(d)
      BY <2>2, <2>a, <3>1 DEF UseAbstract
    <3> QED BY <2>0, <3>2 DEF Raise
  <2>3. ASSUME NEW d \in Callers, NEW q \in Papers, Call(d, q) PROVE FALSE
    BY <2>3, CallKeepsRows
  <2>4. ASSUME NEW d \in Callers, Downloaded(d) \/ DownloadFails(d)
        PROVE  Gone(d, p)
    <3>1. pc[d] = "download" /\ target[d] = p
      <4>1. pc[d] = "download" /\ \E rows : chunks' = [chunks EXCEPT ![target[d]] = rows]
        BY <2>4 DEF Downloaded, DownloadFails, StorePdf, UseAbstract
      <4> QED BY <2>0, <4>1
    <3>2. chunks' # [chunks EXCEPT ![p] = SaveChunks(@, "pdf")]
      BY <2>0 DEF SaveChunks
    <3>3. \E rows, caught : UseAbstract(d, p, rows, caught)
      BY <2>4, <3>1, <3>2 DEF Downloaded, DownloadFails, StorePdf
    <3> QED BY <2>a, <3>1, <3>3
  <2>5. CASE Crash
    BY <2>0, <2>1, <2>5 DEF Crash
  <2> QED BY <2>3, <2>4, <2>5 DEF Next
<1> QED BY <1>1, TextInvariant, PTL DEF Spec, RowsVanishOnlyInFailures
=============================================================================
