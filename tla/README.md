# Verification of KnowledgePilot, the visitor counter and parts of the TensorFlow runtime

The repository holds several projects side by side. Two of its own are systems whose
correctness depends on the order of events: **KnowledgePilot** (`src/KnowledgePilot`), a
research assistant with a Worker-Judge agent, a paper search with a two-level cache and a
full-text store, and **k8s_learnProject** (`src/k8s_learnProject`), a visitor counter that
several pods share over Redis. By far most of its C++ is the copy of TensorFlow that
`src/vulnerability_detection` studies; the parts of that runtime in which threads meet, the
**FIFO queue**, the **local rendezvous** and the **cancellation manager** both rest on, are
modelled as well. This directory holds the models in TLA+, checks them with TLC on small
instances and proves the most important properties with TLAPS for every instance.

## 1. Inventory

### KnowledgePilot

One asyncio process (`app/api/main.py`, FastAPI) holds one `KnowledgePilotAgent`. Coroutines
of different requests interleave at every `await` that really waits: the LLM server, the
paper sources, the download of a PDF. Database (SQLAlchemy, synchronous) and cache are
called between awaits and are never interrupted by another coroutine, only by an
exception or by the end of the process.

| Part | State | Operations | Interacts with |
|---|---|---|---|
| Agent loop (`agent/engine.py`) | per request: draft, verdict, feedback, round; shared: `_session_memory` | `run`, `_run_worker_llm`, `ensure_fulltext` | Worker, Judge, registry, `agent_runs` |
| Worker (`agent/worker.py`) | none of its own | plan and answer by LLM; six rule handlers | registry, LLM |
| Judge (`agent/judge.py`) | none | LLM verdict, or four rules | LLM |
| Tool registry (`tools/registry.py`) | tools; table `tool_calls` | `call` | search, full text |
| LLM service (`services/llm_service.py`) | none | `available`, `generate`; both turn an outage into "none" | Ollama |
| Paper service (`services/paper_service.py`) | table `papers` | `search`, `get`, `sync` | cache, three sources |
| Cache (`services/cache.py`) | a dictionary and, if there was Redis at the start, Redis | `get`, `set` | Redis |
| API handlers (`api/main.py`) | none | fall back from online to offline search, from sync to a count | paper service |
| Full text (`services/fulltext_service.py`) | table `paper_chunks`, directory `data/pdfs` | `ensure_chunks`, `chunk_text`, `retrieve` | HTTP, PDF parser |
| Database (`db/database.py`) | the tables | one transaction per function | |
| Clients, ranking, MCP endpoint, UI, harness | none that matters here | conversions, scores, pages | |

What makes it hard: state read before an await and used after it (`existing` in
`ensure_chunks`, the cache miss in `search`, `llm_ready` in `run`); steps that fail half way
(an audit row that cannot be written after a tool has succeeded); kills between two commits;
fallbacks inside fallbacks; a retry loop whose state survives a round.

What makes it correct: an answer carries the verdict that was given on it, its evidence is
on record, tables and session memory agree, what a search shows is stored, the chunks of a
paper are of one text, and every request ends.

### k8s_learnProject

`app/server.js` is one Node.js process per pod: event handlers run to their end, and
requests interleave at `await redis.cmd(...)`. `TinyRedis` matches replies to commands by
their position in `queue`. State: `connected`, `queue`, `redisReady`, `memCounter` per pod;
the key `visits` in Redis. Operations: connect, command, reply, timer, socket error, the
routes `/`, `/metrics`, `/readyz`, shutdown. A Job sets `visits` to 0; `deploy.sh` applies it
together with the pods. What makes it hard: timers that fire before a late reply, TCP segments
that split a reply, error replies of a Redis that is loading, connections that break, pods that
end, a reset under traffic. What makes it correct: no reply reaches another command, a number
is shown twice only after a reset, no visit is lost, nobody waits forever, the probe tells the
truth (it does not, section 4).

### The TensorFlow runtime (`src/vulnerability_detection/code/tensorflow`)

| Part | State | Operations | Interacts with |
|---|---|---|---|
| Cancellation manager (`tsl/framework/cancellation.cc`) | three states, registered callbacks | `StartCancel`, `RegisterCallback`, `DeregisterCallback`, `TryDeregisterCallback` | one per step; runs the callbacks of the two below |
| FIFO queue (`core/kernels/queue_base.cc`, `fifo_queue.cc`) | elements, `closed_`, two deques of attempts, all under `mu_` | enqueue and dequeue, single and in batches, close, cancel, flush | cancellation managers of its callers |
| Local rendezvous (`core/framework/local_rendezvous.cc`) | table of buckets, a mutex each; a status; the count of its owner | `Send`, `RecvAsync`, `StartAbort`, the destructor | cancellation managers; `ExecutorBarrier` (`executor.h`), which aborts it; `DirectSession`, which owns it |

What makes it hard: any thread carries out the attempts of any other; callbacks run outside
the mutexes, from threads that hold something else; a cancellation, an abort, a close and a
completion compete for one call; the count of references decides when a destructor runs that
waits for callbacks. What makes it correct: every call is called back, once, unless it
waits for something that is really missing; elements and messages keep their order and none
is lost, a call that took many steps looks like one, nothing is used after it was freed.

### The rest

`adaptive_rag_agent` (a sequential retrieval loop) and `k8s-SKILL` (report scripts run one
after the other) are smaller and sequential; the first is in the plan. The remaining
TensorFlow code and the sandbox projects are other projects' code, most of it numerical,
compilers or generated; notes, exercises and contest solutions have no state that outlives a
run.

## 2. Modules

| Module | Models | Lines of code it stands for |
|---|---|---|
| `WorkerJudge` | the agent loop, Worker, Judge, registry and their two tables | `engine.py`, `worker.py`, `judge.py`, `registry.py`, parts of `database.py`, `llm_service.py` |
| `PaperService` | search, get, sync, cache, papers table, API fallbacks | `paper_service.py`, `cache.py`, `main.py`, `save_papers` |
| `FullText` | `ensure_chunks` over the chunk table and the PDF files | `fulltext_service.py`, `save_chunks` |
| `ChunkText` | `chunk_text` and the filter of `save_chunks`, by positions | `fulltext_service.py:83`, `database.py:166` |
| `Dedupe` | `_dedupe` and `_preferred`, twice, as `search` calls them | `paper_service.py:43`, `:145` |
| `VisitCounter` | pods, `TinyRedis`, Redis and the connections | `server.js` |
| `CounterSpec` | abstract: one number per request, no connections | implemented by `VisitCounter` |
| `Cancellation` | the cancellation manager, without threads | `cancellation.cc` |
| `FIFOQueue` | extends `Cancellation`: the queue, its callers and cancellers | `queue_base.cc`, `fifo_queue.cc` |
| `QueueSpec` | abstract: every call takes effect in one step | `queue_interface.h`; implemented by `FIFOQueue` |
| `Rendezvous` | extends `Cancellation`: the rendezvous, its users, aborts, cancellers and owner | `local_rendezvous.cc`, parts of `executor.h`, `direct_session.cc` |
| `MCWorkerJudge`, `MCPaperService`, `MCFullText`, `MCChunkText`, `MCDedupe`, `MCFIFOQueue`, `MCRendezvous` | instances for TLC: symmetry sets, lengths | |
| `WorkerJudgeProofs`, `PaperServiceProofs`, `DedupeProofs`, `FullTextProofs`, `ChunkTextProofs`, `VisitCounterProofs`, `FIFOQueueProofs`, `RendezvousProofs` | theorems and proofs | |

Definitions whose name ends in `_Something` next to a definition of the same stem are
mutants: a plausible bug of that piece of code, used to show that a property can fail.

### WorkerJudge

One action is the code between two awaits. `Ask` and `Probe` are the head of `run` up to and
after `llm_service.available()`; `LoopHead` is the choice at the head of the loop (the LLM
worker always replaces `draft`, the rule worker runs only while it is `None`). `Plan`,
`CallTool`, `ItemRaises`, `Observe`, `Generate` are `_run_worker_llm`; `FallBack` is its
`return None`. The `Rule...` actions are the six handlers of `run_rule`, each cut at its
tool calls and at `generate`. `Judge` and `Decide` are `evaluate` and what `run` does with
the verdict, `Finish` is `save_run`, the session memory and the response. `CallSucceeds` and
`CallRaises` are `ToolRegistry.call` with its audit row. `Crash` kills the process, possibly
right after a commit.

A draft is reduced to what the Judge tests: long enough or not, refusal marker or not, on
topic or not, evidence, citations. `round`, `path`, `verdict.of` and `retrieved` are ghosts
that no action reads. `broadened` says that `run_rule` rewrote the search words.
Which of the hits are "the first five" is a choice of a subset of that size (`Slices`).

### PaperService

`Search` is `search` up to the await of the sources (or, offline, to its end), `Gathered` the
rest after `asyncio.gather(..., return_exceptions=True)`, whose result is any set of papers,
the empty one in an outage. `Return` and `Raise` are what the caller makes of it: the handler
of `POST /api/search` repeats an empty online search offline, and searches offline once more
after an exception; a tool call does neither. Since no await waits between those searches, no
other coroutine runs in between (`MayRun`). `Get`, `Fetched`, `FetchedLast` are `get`; `Page`
and `SyncRaises` are `sync` and its handler. `CacheRaises`, `Cached`, `CacheSet`,
`ExpireMemory`, `ExpireRedis` are the cache: Redis before the dictionary, an unguarded `get`
and a guarded `set`. `Warmup` is `scripts/warmup_demo.py`, another process on the same
database. `RedisStops` and `RedisStarts` are external. `Restart` ends the process, possibly
after `save_papers` and before the cache is set, and starts it again.

`relevant` says which papers pass the threshold for a query, `Quality` which ones
`_is_quality_candidate` keeps. `LocalHits` is the cut of `search_local` to `2 * top_k` over all
rows of the index, `Payloads` the filter for quality that comes after it. A paper stands for a
work: that several records of one work take several of those places and are merged afterwards
is a matter of `Dedupe` and not visible here.

### Dedupe

One action is one turn of a loop (`Skip`, `Insert`, `Merge`) or the step from one loop to the
next (`LoopEnds`): first by DOI or title, then by title, then save, then both once more.
Papers are mutable objects in the code, and one of them may be in the list twice; so the list
holds object numbers, and `paper` what the objects are now. `abstract` stands for all fields
that are filled when empty.

### FullText and ChunkText

In `FullText` a call is one action (`Call`), or two when it downloads (`Downloaded`,
`DownloadFails`); the text of a paper is `"pdf"` or `"abstract"`, a file is described by what
parsing it will give (text, only chunks under 80 characters, nothing, an exception).
`write_bytes` truncates the file before it writes: `TearFile` is a write that a kill (`Crash`)
or the disk (`DownloadFails`) cuts short, and leaves a part of the file, perhaps of no bytes,
which counts as absent. `torn` is a ghost: the files whose last write was cut short. `ChunkText` is the loop itself, one `Cut` per turn, over
positions in a text of any length; `Save` is the filter of `save_chunks`, which strips at most
one blank at each inner edge of a chunk before it measures it.

### VisitCounter

`Start` is the connect attempt of the process with its 1500 ms limit, `Arrive` a request up
to its await, `Receive` one reply taken from the buffer, `ReceiveHeaderOnly` the same when the
segment ends after `$len`, `Timeout` the timer of `cmd` followed by the fallback to
`memCounter`, `Error` the socket's event, `Exit` the end of the process. `Reset` is the Job.
`Execute`, `Refuse` (an error reply such as `-LOADING`, which resolves the promise like a
number), `Break`, `RedisStops` and `RedisStarts` (perhaps without the last second of the
append-only file) are external. An answer remembers, as a ghost, whose reply it shows; `cut`
says that the pod has read a bulk reply before all of it had come, `setbacks` how often the
counter was set back, and `issued` at which count a command was executed. A restarted pod is
another element of `Pods`.

`Pieces` are what a cut bulk reply becomes: the waiter gets nothing, or some or all of the
digits; the rest is read as a reply of its own and takes the next waiter from the queue, so
that the pod has lost the position of its replies from then on.

`CounterSpec` keeps the two counters and, per request, whether its command is still to be
executed and the number on its way to it; commands and numbers may be forgotten, the counter
may be set back. `Cut` and `Misread` are what a reply in pieces can do, and all it can do: once
a pod has cut a reply, a request may be shown what was drawn for another request of that pod. The mapping
reads them off the connections: `commanded` is what is in `sent`, `drawn[r]` the reply to
`r`'s command on a `wire`. That the replies carry no names and are matched by the queue is
what the refinement is about.

### Cancellation, FIFOQueue and QueueSpec

`Cancellation` gives the effects of the manager's methods as action fragments; the modules
that extend it add the threads. `DeregisterWaits` is the wait of `DeregisterCallback` for a
running `StartCancel`, and a conjunct of the action of the thread that waits.

In `FIFOQueue` every call has a thread, which registers and stashes its attempt (`Try`,
`Close`, `CloseAndCancel`) and then flushes. A flush is `Lock`, one `TryAttempt` per turn of
`TryAttemptLocked`'s loop (`SkipCancelled`, `RunEnqueue`, `RunDequeue`, `NoAttempt`),
`RoundEnds` for the do-while, then, without `mu_`, `CleanUp` once per completed call, and
`Return`. A thread in `StartCancel` does the same inside `Cancel`. The single operations are
batches of one: the code of their `run_callback` is the case of the batched one with one
element. An element is named by its call and its index in the batch. `arrived` and `left` are
ghosts.

`QueueSpec` is the users' view. Elements that a blocked `DequeueMany` has taken are still in
`contents`, in front of the queue, so that taking them and putting them back are stutters and
the dequeue happens when the batch is complete. The elements of an enqueued batch may come in
parts, and a cancelled batch may take some elements with it: this the code really does, and
users see it.

### Rendezvous

A section under a bucket's mutex is one action (`SendLocked`, `RecvLocked`, `SwapTable`,
`CancelLocked`); reading the status (`Check`), the callbacks (`SendCalls`, `RecvCalls`,
`AbortItem`, `CancelCalls`) and giving back what they needed (`Leave`, `CancelLeaves`) are
others. `WhenDone` is a failing executor at the `ExecutorBarrier`, which takes a reference and
aborts later, `Release` the end of `DirectSession::RunInternal`'s scope, `Destroy` the
destructor. `turn` and `raced` are ghosts. `Registered` are the cancellation callbacks that
still hold a reference. A cancellation that does not find its waiter leaves the queue as it is
(`NotFound`). It looks for the waiter by its token, and tokens are unique in one manager only:
`OneManagerPerKey` says that the Recvs of a key belong to one step, as they do in a session.

## 3. Runs

| Run | Checks | Instance | Result |
|---|---|---|---|
| solo | AnswerCarriesItsVerdict, NothingUngroundedPassesRules, LLMRetryRedrafts, RuleRetryBroadens, EveryRequestIsAnswered | one request of any intent, 2 papers, slice 1, 3 rounds, plans of 2 calls, tools fail, the LLM comes and goes, fair | holds |
| overlap | MemoryIsLatestRun, OneRowPerAnswer, EvidenceIsAudited | 2 requests, 2 sessions, one round, failing writes, malformed LLM answers, one kill | holds |
| stored | ShownPapersAreStored | 2 callers (search by tool, detail by arXiv DOI and by source id, sync), 2 papers, answers of 1, index of 1 row, 2 pages, failing writes | holds |
| search_outage | OnlyLostRedisFailsASearch, LiveEntryIsStable, EmptyAnswerHasAReason, EveryCallEnds | 2 callers of the API, 3 papers of which 1 has quality, answers of 1 (2 local hits), working database, fair | holds |
| dedupe | ShownIsSaved, EveryHitIsRepresented | every list of up to 3 papers, 2 DOIs, 2 titles or none, 3 sources | holds |
| fulltext | OneText, FullTextHasItsFile, StoredTextIsStable, RowsVanishOnlyInFailures | 3 callers, 2 papers, 2 URLs, failing and torn writes | holds |
| chunks | WindowsOverlap, EveryCharacterIsStored | 1200/180/80 and 30 lengths around every boundary up to 3 chunks and one more | holds |
| counting | RepliesMatchCommands, DistinctNumbers, ImplementsCounterSpec, NobodyWaitsForever | 2 pods, 2 requests, both routes, counter set back once, timers fair | holds |
| readiness | ReadyOnlyWithRedis | 1 pod, 1 request | violated |
| queue | TypeOK, FirstInFirstOut, CalledBackOnce, NobodyWaitsWithoutReason, NeverYields, StandstillNeedsACanceller, ImplementsQueueSpec | 3 calls, batches of 0, 1 and 3, both ways to close, 1 manager, capacity 2 | holds |
| queue_guarantee | CallbackIsGuaranteed | 2 single calls, 1 manager, fair | violated |
| rendezvous | TypeOK, NoOvertaking, NoMessageIsLost, CalledBackOnce, ReferencesAreExact, FreedIsUnused, OnlyRacersSurviveAnAbort, NobodyIsForgotten | 2 Sends, 2 Recvs with or without manager, 1 abort, 1 manager, 2 keys in one or two of 2 buckets | holds |

Type correctness of the first five modules, and EveryTurnAdvances of `ChunkText`, are
theorems (section 5) and not repeated by a run. `TypeOK` of `FIFOQueue` contains the bound of
an open queue, that of `Rendezvous` the invariant of `ItemQueue` (all messages or all
waiters).

**Why the bounds are enough.** In `solo` three rounds are the code's own number, a slice of 1
of 2 papers makes "more hits than are cited" happen, and a plan of two calls has one that
fails after one that succeeded. `overlap` needs two requests for every race on the memory, in
one session or in two, and one of them can fail or be killed while the other does not; one
round is enough there, because its properties are about calls and about the end of a request.
In `stored` and `search_outage` two callers are every pair of overlapping calls, and answers of
one paper of two make the cut of the ranking visible. In `search_outage` the online search of
the API contains all steps of the other two ways of searching (the offline search is its
repetition, a tool call its first search), and two rows of no quality fill the two local hits;
its index holds all rows, so that the third reason for an empty answer is left to the theorem.
In `fulltext` two calls race and a third comes after them, and two papers
may share a URL. In `counting` a late reply and the next command of the pod, the two parts of a
cut reply and the next waiter, or two visits before and after a reset are two requests, and the
pods share nothing but `visits`; longer queues are left to the theorems. `ChunkText` has the code's numbers. In
`queue` a batch of 3 does not fit into a capacity of 2, so batches are filled and taken in
parts; three calls are an enqueue, a dequeue behind another one, or a close between the two,
and the cancellation can come between any two steps of any of them. In `rendezvous` two calls
on each side are what the order under a key needs, and two buckets make an abort that is half
way; a receiver cancelled between two others takes three Recvs, and is covered by the theorems
only. In `dedupe` three papers are two that merge and one that meets the
result. Where an
argument of this kind is not enough, the theorems of section 5 hold for every instance: for
any number of requests, rounds, papers, callers and pods.

Bounds that exist only for TLC: `MaxPlan` (calls in a plan), `MaxCrashes` (kills), `MaxSetbacks`
(how often the visit counter is set back); all other constants are the code's limits or the
sets of actors (`MaxPapers` of `Dedupe` bounds the list). Symmetry is used only in passing runs
without liveness properties; the abstract specifications state no fairness. Liveness of the queue and of the rendezvous without
symmetry is beyond these instances; NobodyWaitsWithoutReason, StandstillNeedsACanceller and
NobodyIsForgotten say as invariants what keeps a call from ending.

Deadlock checking is off where the system comes to rest by itself: when every request of
`WorkerJudge` is answered and the kills are used up, and when every pod of `VisitCounter` is
gone, when the calls of `FIFOQueue` and `Rendezvous` are over or wait for ones that never
come (the properties above say when that is right), and when `Dedupe` has its result.
`ChunkText` has an explicit `Done`; the other two never stop.

**Fairness.** `WorkerJudge!FairSpec`: weak fairness of the steps of each request; its awaits
are HTTP calls with timeouts (`httpx`, 5 s for the probe, `ollama_timeout`,
`request_timeout`), the rest is local code, and a request's step stays enabled until it is
taken. Clients are not obliged to ask. `PaperService!FairSpec`: strong fairness of a caller's
steps; a step is disabled while another handler runs between its two searches, again and
again if other requests keep coming, and asyncio runs ready coroutines in the order they
became ready. `VisitCounter!FairSpec`: only the timers are fair. Redis may hang, a dead peer
may go unnoticed, and the property holds without either. `FIFOQueue!FairSpec`: strong
fairness of the threads inside the queue, since a mutex is given to a thread that keeps
asking; calls and cancellations are up to the clients. It is used for the violation only,
which therefore does not rest on a thread that is never scheduled.

## 4. Disagreements found

`queue_guarantee` states what `queue_interface.h:41` says of `TryEnqueue`, "The function
object is guaranteed to call 'callback'". The counterexample: a step has two calls at a
queue, one of them stashed by its thread and not yet flushed. The step is cancelled;
`StartCancel` runs `QueueBase::Cancel` for the other call, which flushes the queue and in doing
so completes the first one. `FlushUnlocked` (`queue_base.cc:331`) then deregisters it, and
`DeregisterCallback` waits until `StartCancel` has run all callbacks: the thread waits for
itself, the completed call is never called back. `cancellation.h:126` forbids this use: "`callback`
does not invoke any method on this cancellation manager". StandstillNeedsACanceller shows that
this is the only way to a standstill in the instance checked.

`readiness` states what `server.js:180` says of `/readyz`, "就绪探针 (readiness)：Redis 连通才接流量"
(a pod takes traffic only while Redis is connected; also `05-web-deployment.yaml:112` and
`README.md:146` of the project). The counterexample has three steps: the pod connects, the
connection breaks, the socket's error is handled. `connected` is false, nobody connects again,
and the probe still reports `redisReady`, which is set once (`server.js:98`).

Met while modelling, and visible in the models without a run of their own:

- without the LLM a rejected draft is judged three times unchanged (`engine.py:108`), while the
  head of the file and `ARCHITECTURE.md:49` promise a changed strategy; the rewriting in
  `run_rule` is reached only when the LLM worker fails in a later round, which is what
  RuleRetryBroadens is about;
- a stored paper that matches is not found when an empty result is still cached
  (`paper_service.py:58`, against `scripts/warmup_demo.py:40`), when the table has more rows than
  the index reads, or when rows that the filter for quality drops afterwards fill all places of
  the local hits (`hybrid.py:78` before `paper_service.py:46`); EmptyAnswerHasAReason says that
  nothing else hides it;
- a second download of a URL truncates the file of the first (`fulltext_service.py:73`); if it
  is cut short, rows of the PDF may be left without a file, and the next call for another paper
  with that URL downloads again; FullTextHasItsFile says that nothing else leads there;
- a call whose PDF gives only short chunks deletes the rows an overlapping call has stored
  (`database.py:171`); RowsVanishOnlyInFailures says when nothing takes their place;
- an untitled record (one whose title normalizes to nothing) that wins over a titled one of the
  same DOI makes the paper disappear in the second loop of `_dedupe`
  (`paper_service.py:171`); EveryHitIsRepresented says that nothing else does;
- a bulk reply cut after its first line shifts later replies of its pod (`server.js:67`,
  `ReceiveHeaderOnly`); RepliesMatchCommands and `CounterSpec` say how far this goes;
- an error reply of Redis is shown as if it were the number (`server.js:70`), and nothing is
  counted (`Refuse`);
- the Job resets the counter under pods that already serve (`deploy.sh:17`, `10-job.yaml:32`),
  so that numbers are shown again; DistinctNumbers says that this, a restart of Redis that lost
  its last second and a pod that lost its position are the only ways;
- `get_paper` and `ensure_fulltext` never give evidence to the LLM worker (`engine.py:244`);
- a Redis lost after the start makes searches fail, in spite of "no Redis: memory cache"
  (`cache.py:30`); OnlyLostRedisFailsASearch says exactly when;
- `learn_visits_total` can fall, because a scrape that times out shows `memCounter`
  (`server.js:191`);
- a `Recv` that has read the status before an abort can enter the table after its bucket was
  swept, and stays there (`local_rendezvous.cc:205`), although `rendezvous.h:113` says "Aborts
  all pending and future Send/Recv"; OnlyRacersSurviveAnAbort says that no other call does. If it
  has no cancellation manager, no Send, abort or cancellation will ever reach it:
  NobodyIsForgotten names this receiver as its one exception;
- a closed queue can hold more than `capacity_` elements (`fifo_queue.cc:282`).

## 5. Proofs

All theorems are for arbitrary constants under the named assumptions of the modules: the
limits are natural numbers, sets of names are subsets of what the code knows, the null values
are not elements of the sets they extend.

`TypeCorrect` (`Spec => []TypeOK`) is a theorem of every module below.

- **WorkerJudgeProofs** proves it for `WorkerJudge`, action by action; its substance is that the
  round never passes `MaxIterations`. It then shows that every step of a worker is one of three
  shapes (it hands in a draft, works on, or gives up), so that the invariants are proved over
  seven kinds of steps instead of twenty actions. `RoundInv` (a draft belongs to a round already
  counted; at the Judge there is a draft, with the LLM one of this round) gives
  VerdictIsOfTheAnswer and RejectedDraftIsReplaced. `TableInv` (a row's request is beyond its
  verdict, at its end it has a row, the memory is the last row of its session) gives
  MemoryFollowsTable and TableIsExact; neither property is inductive alone, because whether a
  second row can appear depends on where its request is. `EvidenceInv` adds the papers gathered
  but not yet in a draft. `GroundedInv` ties the verdict to the rules' decision on the draft
  that is sent, and `BroadensInv` says that the feedback of a rejection by the rules is still
  there when the rule worker runs.
- **PaperServiceProofs**: `TypeInv` adds to `TypeOK` that a search has a query as its
  argument and a detail call a paper; from it SavedBeforeShown is inductive. `RedisInv` says who
  can be in the fallback or have failed in a process without Redis; OutagesAreSurvived needs it
  and `DbFails = FALSE`. EntriesAreStable and EmptyAnswersHaveAReason are action properties
  from `TypeInv`; the second rests on SomethingIsFound: if the index holds all rows and fewer
  than `2 * TopK` matching ones are of no quality, the local hits contain one of quality, since a
  set of `2 * TopK` hits cannot consist of the others. So an empty answer was read from the
  cache, or one of the other two reasons applies.
- **DedupeProofs**: `ObjInv` says that merging changes no field but fills an empty one, so the
  keys of both loops are those of the papers as they came. `MergeInv` says that the values of a
  loop differ in its key; the second loop picks from a list that differs in the first key, so
  its result differs in both, and `SecondPass` says that the second `_dedupe` copies it: that is
  ShowsWhatItSaved. `RepInv` follows each hit: in the first loop it waits or a value of its key
  covers it (`Covers`), in the second its cover waits, represents it (`Represents`), or has no
  title and is dropped (`Dropped`); TurnKeeps says that a value leaves its place only to one of
  its key that is no worse. NoHitDisappears follows. MaxPapers is any number.
- **FullTextProofs**: `TextInv` says that rows are of at most one text, those of a PDF have
  their file or a torn one, and that who downloads has a URL. OnlyOverlapReplaces and RowsStay
  are action properties from it: a step of `ensure_chunks` leaves the rows as they were, or puts
  the PDF or the abstract in their place, or fails, or the abstract is short
  (AbstractEffect, StoreEffect).
- **ChunkTextProofs**: `IInv` describes the windows cut so far, that they cover the text from
  its beginning to `start + Overlap`, and that every window but the last is full; with
  `MinLength <= Overlap` the last one is longer than what is dropped, so no character is lost.
- **VisitCounterProofs**: nothing is assumed about how replies arrive or when the counter is
  set back. `MatchInv` says that, in a pod that has not cut a reply, the queue is the requests
  of the replies on the wire followed by the commands on their way, in order (or, on a broken
  link, begins with the former), which is what makes matching by position right. `OnceInv` (a
  request has at most one command or reply on its way, on its own pod's connection), `QueueInv`
  (the waiters of a queue are requests of the pod) and `ShapeInv` (a waiting request has no
  number yet) hold in every pod; with RepliesMatchCommands they are `PlaceInv`. RepliesAreMatched
  needs all of them: its second half, that a reply never leaves its pod, is not inductive
  without `OnceInv` and `QueueInv`.
  `NumberInv` is about commands instead of replies: two visits that were executed at the same
  count of `setbacks` drew different numbers (`Unique`), none above `visits` if it is the present
  count (`Bounded`), and whatever is on a wire or shown for a visit's command is the number it
  drew, or none (`UnderWay`, `InAnswers`). NumbersAreDistinct follows with RepliesAreMatched.
  `Implements` is the refinement of `CounterSpec`: `Arrive` is `Ask`; `Execute` is `Draw`, or
  `Refuse` for nil; `Refuse` is `Refuse`; `Receive` is `Show`, `Misread` in a pod that has cut a
  reply, or `Forget` for an answer nobody waits for; `ReceiveHeaderOnly` is `Cut`; `Timeout` is
  `GiveUp`; `Break`, `Error` and `RedisStops` are `Forget`; `Reset`, and `RedisStarts` when it
  loses something, are `SetBack`; `Exit` is `Lose`; the start of a pod is stuttering.
- **FIFOQueueProofs**: `CoreInv` says at which stage each call is, in which deque it stands if
  it waits, who holds the mutex, and what the managers have registered: OneCallback, and with
  the two kinds of waiting threads Standstill. `FlowInv` is the order: `arrived = left \o Taken
  \o queue`, where no call but the first dequeue in line holds elements (`HeldInv`);
  FirstInFirstOut says so of the calls in the deque only and is not inductive. `WaitInv` carries NobodyWaits through a flush: once a side was tried and nothing changed,
  nobody on it can go on; NoYield is part of it. `BatchInv` says that what a batch has and what
  it still asks for add up to its size.
  `Implements` is the refinement of `QueueSpec`: the abstract contents are `Taken \o queue`, the
  elements a call has given are counted in `arrived`. A dequeue takes effect when its attempt is
  completed: elements that a batch stashes or puts back are a stutter. `CloserInv` (a
  CloseAndCancel that is under way has closed the queue) is what its success needs. An attempt of an enqueue
  is `Enqueue` of as many elements as there was room for, the elements of a cancelled batch that
  are not given back are `Lose`.
- **RendezvousProofs**: an item is in the table (`InTable`) or in the hands of one thread
  (`HeldBy`), and the invariant is stated with these two predicates. `CoreInv` says where items
  and threads are: an item is in one place, its call has returned, a waiter is not called back
  and can be found by its manager, a queue is ordered by turns. From it OneCallback, and, with
  `AbortedBy` (the status was set by an abort that sweeps or is over, or after the end of the
  step) and what CountInv says of the buckets already passed, NobodyForgotten. `CountInv` says that the reference count and each bucket's counter are
  cardinalities of sets of threads and calls, and which buckets an abort has passed:
  ExactReferences, NoUseAfterFree, RacersOnly. `FlowInv` says that a message that came is in the
  table or has its receiver, and that matched pairs are in the same order on both sides, before
  everything that is still in the table: MessagesKept, OrderPreserved. The assumption is that
  threads are finitely many and each is a Send, a Recv, an abort or a manager
  (`ThreadsAssumption`): the counts are finite.

**Only model-checked.** EveryRequestIsAnswered, EveryCallEnds, NobodyWaitsForever and the
violated CallbackIsGuaranteed are liveness properties, which this prover does not reach (nor
`ENABLED`, nor induction over recursive definitions). Every other property of the passing runs
is a theorem.

## 6. Not modelled, and why

Prompts, answers and HTML as text; scores and ranking formulas; the columns of rows, and with
them the lost update between two searches that read and write back the same rows
(`paper_service.py:28`: the code promises nothing there); the year filter (it only makes other cache keys); hit and
miss counters; abstracts that are blank but not empty; the `/healthz` route; timestamps. The
clients, the MCP endpoint, the UI and the evaluation change no state of their own. Of a reply
that TCP cuts before the end of its first line nothing is lost (the buffer waits for the
`\r\n`), so that only the cut of a bulk reply after `$len` is an action.

In the TensorFlow parts: tensors, shapes and failing allocations; child managers of a
cancellation manager and its error log; the other queues (random shuffle, priority, padding),
which share `QueueBase`; owners that are not reference-counted; the count of
`ExecutorBarrier` and how it merges statuses; the aborts an executor makes itself
(`executor.cc:1198`, `:1396`), which take no reference of their own and come before the executor
reports to the barrier. A bucket's list and its tail pointer are a sequence: that a removal
from the middle updates the pointer (`local_rendezvous.cc:259`) is not checked. The rest of that tree is more than two million
lines of kernels, compilers, delegates, generated schemas and, in the sandbox projects,
generated kernel headers: most of it computes and shares no state, and no set of modules of a
readable size covers a large share of it. What was chosen are the places where threads
coordinate.

## 7. Plan

1. *Proofs*: every safety property of the runs is a theorem. What is left is to state the
   properties of the abstract specifications themselves (`QueueSpec`, `CounterSpec`) as theorems,
   so that they carry over by refinement.
2. *Composition*: a module in which the tools of `WorkerJudge` are the actions of
   `PaperService` and `FullText` (deep questions: search, then full text of the hit), with
   properties across the parts: a cited paper can be opened, chunks belong to stored papers.
3. *Abstract specifications*: a store of papers that only grows, implemented by
   `PaperService`; a bounded judge loop (draft, judge, end), implemented by `WorkerJudge`.
4. *Shutdown*: draining with keep-alive connections against the 3 s limit, rolling updates
   with the readiness probe.
5. *AdaptiveRAG*: the bounded reflective loop of `adaptive_rag_agent/src/agent.py` with
   `_merge`.
6. *TensorFlow*: child managers in `Cancellation`; the executor's barrier with its count.
