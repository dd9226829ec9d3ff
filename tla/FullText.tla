------------------------------ MODULE FullText ------------------------------
(***************************************************************************)
(* FullTextService.ensure_chunks (app/services/fulltext_service.py) over    *)
(* the table paper_chunks (app/db/database.py) and the directory of         *)
(* downloaded PDFs.                                                         *)
(*                                                                          *)
(* The only await that waits is the download; everything before and after   *)
(* it runs without interruption by another coroutine, so a call is one      *)
(* action or, when it has to download, two.  A text is abstracted to what   *)
(* becomes of it: chunks of at least 80 characters, only shorter ones,     *)
(* none at all, or an exception of the PDF parser.                          *)
(***************************************************************************)
EXTENDS Integers, FiniteSets

CONSTANTS
    Callers,    \* coroutines that call ensure_chunks: chats, POST /api/fulltext
    Papers,
    Urls,       \* pdf_url values; two papers may share one
    NoUrl,      \* a paper without pdf_url
    DbFails     \* whether database operations may raise

ASSUME NoUrlAssumption == NoUrl \notin Urls
ASSUME DbFailsAssumption == DbFails \in BOOLEAN

VARIABLES
    pdf,        \* pdf_url of each paper
    abstract,   \* abstract of each paper: missing, under 80 characters, longer
    chunks,     \* paper_chunks: the texts a paper's rows were cut from
    files,      \* data/pdfs: what the file of a URL will yield when parsed;
                \* "absent" is no file, or one of no bytes
    torn,       \* history: the URLs whose last write was cut short
    pc,         \* of each caller
    target,     \* the paper of its current or last call
    status      \* what the last call returned

vars == <<pdf, abstract, chunks, files, torn, pc, target, status>>

Texts == {"pdf", "abstract"}
Contents == {"text", "tiny", "scan", "broken"}
Abstracts == {"none", "tiny", "long"}
Statuses == {"none", "cached", "downloaded", "abstract_only", "failed", "no_open_text"}

Init ==
    /\ pdf \in [Papers -> Urls \cup {NoUrl}]
    /\ abstract \in [Papers -> Abstracts]
    /\ chunks = [p \in Papers |-> {}]
    /\ files = [u \in Urls |-> "absent"]
    /\ torn = {}
    /\ pc = [c \in Callers |-> "idle"]
    /\ target \in [Callers -> Papers]
    /\ status = [c \in Callers |-> "none"]

-----------------------------------------------------------------------------
\* save_chunks with replace=True: delete and insert in one transaction.
SaveChunks_Appends(rows, text) == rows \cup {text}     \* mutant: replace=False
SaveChunks(rows, text) == {text}

Return(c, result) ==
    /\ pc' = [pc EXCEPT ![c] = "done"]
    /\ status' = [status EXCEPT ![c] = result]

\* An exception that ensure_chunks does not catch.
Raise(c) ==
    /\ pc' = [pc EXCEPT ![c] = "raised"]
    /\ status' = [status EXCEPT ![c] = "none"]

(***************************************************************************)
(* The end of ensure_chunks, when the PDF gave no chunk.  rows is what the  *)
(* paper has in the table by now; caught says that an exception led here.   *)
(* An abstract that is too short deletes the rows and adds none.            *)
(***************************************************************************)
UseAbstract(c, p, rows, caught) ==
    \/ /\ abstract[p] = "none"
       /\ chunks' = [chunks EXCEPT ![p] = rows]
       /\ Return(c, IF caught THEN "failed" ELSE "no_open_text")
    \/ /\ abstract[p] # "none"
       /\ chunks' = [chunks EXCEPT ![p] =
                       IF abstract[p] = "tiny" THEN {} ELSE SaveChunks(rows, "abstract")]
       /\ Return(c, "abstract_only")
    \/ /\ abstract[p] # "none" /\ DbFails
       /\ chunks' = [chunks EXCEPT ![p] = rows]
       /\ Raise(c)

\* The bytes are there: parse, cut, save.  Chunks under 80 characters are
\* dropped after the old rows were deleted; no chunk at all deletes nothing.
StorePdf_Uncounted(c, p, content) ==     \* mutant: without `if saved`
    \/ /\ content \in {"text", "tiny"}
       /\ chunks' = [chunks EXCEPT ![p] = IF content = "tiny" THEN {} ELSE SaveChunks(@, "pdf")]
       /\ Return(c, "downloaded")
    \/ content = "scan" /\ Return(c, "downloaded") /\ UNCHANGED chunks
    \/ content = "broken" /\ UseAbstract(c, p, chunks[p], TRUE)
StorePdf(c, p, content) ==
    \/ /\ content = "text"
       /\ chunks' = [chunks EXCEPT ![p] = SaveChunks(@, "pdf")]
       /\ Return(c, "downloaded")
    \/ content = "tiny" /\ UseAbstract(c, p, {}, FALSE)
    \/ content = "scan" /\ UseAbstract(c, p, chunks[p], FALSE)
    \/ content = "broken" /\ UseAbstract(c, p, chunks[p], TRUE)
    \/ content \in {"text", "tiny"} /\ DbFails /\ UseAbstract(c, p, chunks[p], TRUE)

-----------------------------------------------------------------------------
\* The test for existing rows.
HasRows_Never(p) == FALSE     \* mutant: the test is missing
HasRows(p) == chunks[p] # {}

\* ensure_chunks, up to its end or to the download.  A file left by an earlier
\* call is used as it is.
Call(c, p) ==
    /\ pc[c] # "download"
    /\ target' = [target EXCEPT ![c] = p]
    /\ \/ /\ HasRows(p)
          /\ Return(c, "cached")
          /\ UNCHANGED chunks
       \/ /\ ~ HasRows(p) /\ pdf[p] = NoUrl
          /\ UseAbstract(c, p, chunks[p], FALSE)
       \/ /\ ~ HasRows(p) /\ pdf[p] # NoUrl /\ files[pdf[p]] # "absent"
          /\ StorePdf(c, p, files[pdf[p]])
       \/ /\ ~ HasRows(p) /\ pdf[p] # NoUrl /\ files[pdf[p]] = "absent"
          /\ pc' = [pc EXCEPT ![c] = "download"]
          /\ status' = [status EXCEPT ![c] = "none"]
          /\ UNCHANGED chunks
       \/ /\ DbFails
          /\ Raise(c)
          /\ UNCHANGED chunks
    /\ UNCHANGED <<pdf, abstract, files, torn>>

\* The response is a PDF: the file is written before it is parsed.
WriteFile_Skipped(p, content) == UNCHANGED <<files, torn>>     \* mutant: not kept on disk
WriteFile(p, content) ==
    /\ files' = [files EXCEPT ![pdf[p]] = content]
    /\ torn' = torn \ {pdf[p]}

\* write_bytes truncates the file that another call may have written meanwhile, and
\* is cut short: what is left is a part of the PDF, perhaps of no bytes.
TearFile(p) ==
    /\ \E rest \in Contents \cup {"absent"} : files' = [files EXCEPT ![pdf[p]] = rest]
    /\ torn' = torn \cup {pdf[p]}

Downloaded(c) ==
    /\ pc[c] = "download"
    /\ \E content \in Contents :
          /\ WriteFile(target[c], content)
          /\ StorePdf(c, target[c], content)
    /\ UNCHANGED <<pdf, abstract, target>>

\* Timeout, HTTP error, a body that is not a PDF, or a file that cannot be opened;
\* or the disk fails while the file is written.
DownloadFails(c) ==
    /\ pc[c] = "download"
    /\ TearFile(target[c]) \/ UNCHANGED <<files, torn>>
    /\ UseAbstract(c, target[c], chunks[target[c]], TRUE)
    /\ UNCHANGED <<pdf, abstract, target>>

\* The process is killed: calls are lost.  It may be killed while a download
\* is being stored: in the middle of the file, or when that is written and a
\* save_chunks that kept no chunk may have deleted the rows.
Crash ==
    /\ pc' = [c \in Callers |-> IF pc[c] = "download" THEN "raised" ELSE pc[c]]
    /\ \/ UNCHANGED <<files, torn, chunks>>
       \/ \E c \in Callers :
             /\ pc[c] = "download" /\ TearFile(target[c])
             /\ UNCHANGED chunks
       \/ \E c \in Callers, content \in Contents :
             /\ pc[c] = "download" /\ WriteFile(target[c], content)
             /\ \/ UNCHANGED chunks
                \/ content = "tiny" /\ chunks' = [chunks EXCEPT ![target[c]] = {}]
    /\ UNCHANGED <<pdf, abstract, target, status>>

Next ==
    \/ \E c \in Callers, p \in Papers : Call(c, p)
    \/ \E c \in Callers : Downloaded(c) \/ DownloadFails(c)
    \/ Crash

Spec == Init /\ [][Next]_vars

-----------------------------------------------------------------------------
TypeOK ==
    /\ pdf \in [Papers -> Urls \cup {NoUrl}]
    /\ abstract \in [Papers -> Abstracts]
    /\ chunks \in [Papers -> SUBSET Texts]
    /\ files \in [Urls -> Contents \cup {"absent"}]
    /\ torn \subseteq Urls
    /\ pc \in [Callers -> {"idle", "download", "done", "raised"}]
    /\ target \in [Callers -> Papers]
    /\ status \in [Callers -> Statuses]

\* The rows of a paper are all cut from one text: however calls for the paper
\* overlap, retrieve never ranks chunks of the abstract and of the PDF together
\* (database.py, save_chunks; fulltext_service.py, ensure_chunks).
OneText == \A p \in Papers : Cardinality(chunks[p]) <= 1

\* Rows cut from a PDF can be traced to a file on disk that is not empty, over races
\* and crashes, with one exception: a second download of the same URL truncates the
\* file, and if that write is cut short, by the disk or by a kill, nothing may be left
\* of it (fulltext_service.py, _download_and_extract writes in place before it parses,
\* and takes an empty file for none).
FullTextHasItsFile ==
    \A p \in Papers : "pdf" \in chunks[p] =>
        pdf[p] # NoUrl /\ (files[pdf[p]] # "absent" \/ pdf[p] \in torn)

\* Rows that exist are replaced or deleted only by a call that had looked at the
\* table before they were stored and was still waiting for its download: without
\* overlapping calls stored text is final (fulltext_service.py, the test of
\* existing before the await).
StoredTextIsStable ==
    [][\A p \in Papers : chunks[p] # {} /\ chunks'[p] # chunks[p] =>
          \E c \in Callers : pc[c] = "download" /\ target[c] = p]_vars

\* An overlapping call whose PDF gives only chunks under 80 characters deletes the rows
\* before it knows that it has none to put in their place; yet a paper with an abstract
\* of 80 characters ends without any rows only if that call raises or is killed before
\* it has saved the abstract (database.py, save_chunks deletes first and returns what it
\* kept; fulltext_service.py, `if saved` and the fallback).
RowsVanishOnlyInFailures ==
    [][\A p \in Papers : chunks[p] # {} /\ chunks'[p] = {} =>
          \E c \in Callers :
             /\ pc[c] = "download" /\ target[c] = p
             /\ abstract[p] # "long" \/ pc'[c] = "raised"]_vars
=============================================================================
