---------------------------- MODULE PaperService ----------------------------
(***************************************************************************)
(* PaperService (app/services/paper_service.py): search, get and sync, with *)
(* the Cache they use (app/services/cache.py), the papers table             *)
(* (app/db/database.py) and the fallbacks of the API handlers               *)
(* (app/api/main.py).                                                       *)
(*                                                                          *)
(* A paper is a row of the table, and no two have a DOI or a title in       *)
(* common: what _dedupe makes of those that have is the subject of Dedupe.  *)
(* A coroutine waits only for the data sources; cache and database are      *)
(* called synchronously, so a handler that starts a second search keeps the *)
(* CPU (pc "retry" or "fallback", see MayRun).                              *)
(***************************************************************************)
EXTENDS Integers, FiniteSets

CONSTANTS
    Callers,        \* coroutines: API handlers and tool calls of chats
    Queries,
    Papers,
    Quality,        \* the papers that _is_quality_candidate keeps
    TopK,           \* length of an answer
    IndexLimit,     \* rows list_local_papers reads, 500 in the code
    MaxPages,       \* pages of POST /api/sync
    Uses,           \* the operations clients call, a subset of Ops
    RedisConfigured,\* KP_REDIS_URL is set
    DbFails         \* database operations may raise

SearchOps == {"api_online", "api_offline", "tool"}
GetOps == {"source_id", "doi", "arxiv_doi"}   \* by the form of the identifier
Ops == SearchOps \cup GetOps \cup {"sync"}

ASSUME PapersAssumption == Quality \subseteq Papers /\ IsFiniteSet(Papers)
ASSUME LimitsAssumption ==
    TopK \in Nat \ {0} /\ IndexLimit \in Nat /\ MaxPages \in Nat \ {0}
ASSUME SwitchesAssumption == RedisConfigured \in BOOLEAN /\ DbFails \in BOOLEAN
ASSUME UsesAssumption == Uses \subseteq Ops

VARIABLES
    relevant,   \* per query, the papers that score at least 0.28, of quality or not
    table,      \* papers table
    memory,     \* Cache.memory: per key no live entry, {}, or one, {payload}
    redis,      \* the same for the entries in Redis
    redisUp,
    useRedis,   \* Cache.redis is not None: decided once, when the process starts
    pc, op, arg,\* per caller: where it is, its request
    found,      \* per caller: papers collected before an await
    left,       \* per caller: pages sync has still to fetch
    answer      \* per caller: the papers it was answered with

vars == <<relevant, table, memory, redis, redisUp, useRedis, pc, op, arg, found,
          left, answer>>

Keys == ({"online", "offline"} \X Queries) \cup ({"detail"} \X Papers)

Steps == {"idle", "first", "waiting", "retry", "fallback", "detail", "arxiv",
          "crossref", "openalex", "pages", "answered", "failed"}

Init ==
    /\ relevant \in [Queries -> SUBSET Papers]
    /\ table = {}
    /\ memory = [k \in Keys |-> {}]
    /\ redis = [k \in Keys |-> {}]
    /\ redisUp \in BOOLEAN
    /\ useRedis = (RedisConfigured /\ redisUp)
    /\ pc = [c \in Callers |-> "idle"]
    /\ op = [c \in Callers |-> "tool"]
    /\ arg \in [Callers -> Queries]
    /\ found = [c \in Callers |-> {}]
    /\ left = [c \in Callers |-> 0]
    /\ answer = [c \in Callers |-> {}]

-----------------------------------------------------------------------------
(* Cache *)

\* Cache.get: Redis first, then the dictionary.  Only the call to Redis can
\* raise, and it is not guarded.
CacheRaises_NotReset == RedisConfigured /\ ~ redisUp     \* mutant: a client is kept though ping failed
CacheRaises == useRedis /\ ~ redisUp

Cached_RedisOnly(k) == IF useRedis THEN redis[k] ELSE memory[k]     \* mutant: no dictionary
Cached(k) == IF useRedis /\ redis[k] # {} THEN redis[k] ELSE memory[k]

\* Cache.set: an error of Redis is swallowed.
CacheSet(k, payload) ==
    /\ memory' = [memory EXCEPT ![k] = {payload}]
    /\ redis' = IF useRedis /\ redisUp THEN [redis EXCEPT ![k] = {payload}] ELSE redis

\* 900 seconds are over.
ExpireMemory(k) ==
    /\ memory[k] # {}
    /\ memory' = [memory EXCEPT ![k] = {}]
    /\ UNCHANGED <<relevant, table, redis, redisUp, useRedis, pc, op, arg, found,
                   left, answer>>

ExpireRedis(k) ==
    /\ redisUp /\ redis[k] # {}
    /\ redis' = [redis EXCEPT ![k] = {}]
    /\ UNCHANGED <<relevant, table, memory, redisUp, useRedis, pc, op, arg, found,
                   left, answer>>

-----------------------------------------------------------------------------
(* search *)

\* While a handler is between two searches no other coroutine runs.
MayRun(c) == \A d \in Callers \ {c} : pc[d] \notin {"retry", "fallback"}

\* The n first of S by some ranking.
Top(S, n) ==
    {T \in SUBSET S : IF Cardinality(S) <= n THEN T = S ELSE Cardinality(T) = n}

\* search_local over at most IndexLimit rows, for one or two variants of the
\* query and 2 * top_k hits each, whatever their quality.
LocalHits(q) ==
    {H \in SUBSET (relevant[q] \cap table) :
        \E rows \in Top(table, IndexLimit) :
           /\ H \subseteq rows
           /\ \/ H = relevant[q] \cap rows
              \/ Cardinality(H) >= 2 * TopK}

\* The filter for quality comes after that cut; then rank and cut once more.
Payloads(q, candidates) == Top(relevant[q] \cap Quality \cap candidates, TopK)

\* Whether this search asks the sources: the handler's second one never does.
Online(c) == pc[c] = "first" /\ op[c] # "api_offline"
SearchKey(c) == <<IF Online(c) \/ pc[c] = "waiting" THEN "online" ELSE "offline", arg[c]>>

\* search returns: the handler of POST /api/search repeats an online search that
\* found nothing offline, and does not accept an empty result as a last resort.
Return_Forever(c, payload) ==     \* mutant: searches again while nothing is found
    /\ pc' = [pc EXCEPT ![c] = IF payload = {} THEN "retry" ELSE "answered"]
    /\ answer' = [answer EXCEPT ![c] = payload]
Return_AtOnce(c, payload) ==     \* mutant: no second search
    /\ answer' = [answer EXCEPT ![c] = payload]
    /\ pc' = [pc EXCEPT ![c] = IF payload = {} /\ pc[c] = "fallback" THEN "failed" ELSE "answered"]
Return(c, payload) ==
    /\ answer' = [answer EXCEPT ![c] = payload]
    /\ pc' = [pc EXCEPT ![c] =
                CASE payload = {} /\ pc[c] \in {"first", "waiting"} /\ op[c] = "api_online"
                         -> "retry"
                  [] payload = {} /\ pc[c] = "fallback" -> "failed"
                  [] OTHER -> "answered"]

\* search raises: the API handler falls back to an offline search, once; a tool
\* call passes the exception on.
Raise(c) ==
    /\ pc' = [pc EXCEPT ![c] =
                IF op[c] # "tool" /\ pc[c] # "fallback" THEN "fallback" ELSE "failed"]
    /\ UNCHANGED answer

\* search, up to the await of the sources or, offline, to its end.
Search(c) ==
    /\ pc[c] \in {"first", "retry", "fallback"} /\ MayRun(c)
    /\ \/ /\ CacheRaises \/ (DbFails /\ Cached(SearchKey(c)) = {})
          /\ Raise(c)
          /\ UNCHANGED <<memory, redis, found>>
       \/ /\ ~ CacheRaises
          /\ \E payload \in Cached(SearchKey(c)) : Return(c, payload)
          /\ UNCHANGED <<memory, redis, found>>
       \/ /\ ~ CacheRaises /\ Cached(SearchKey(c)) = {} /\ Online(c)
          /\ \E hits \in LocalHits(arg[c]) : found' = [found EXCEPT ![c] = hits]
          /\ pc' = [pc EXCEPT ![c] = "waiting"]
          /\ UNCHANGED <<memory, redis, answer>>
       \/ /\ ~ CacheRaises /\ Cached(SearchKey(c)) = {} /\ ~ Online(c)
          /\ \E hits \in LocalHits(arg[c]) : \E payload \in Payloads(arg[c], hits) :
                CacheSet(SearchKey(c), payload) /\ Return(c, payload)
          /\ UNCHANGED found
    /\ UNCHANGED <<relevant, table, redisUp, useRedis, op, arg, left>>

\* save_papers, one transaction: the rows are there before anyone is told.
SavePapers_Late(papers) == UNCHANGED table     \* mutant: the answer is not stored
SavePapers(papers) == table' = table \cup papers

\* gather returns.  A source that fails contributes nothing: result is what the
\* others sent, {} in a complete outage.
Gathered(c) ==
    /\ pc[c] = "waiting" /\ MayRun(c)
    /\ \E result \in SUBSET Papers :
          LET candidates == found[c] \cup result IN
          \/ /\ SavePapers(candidates)
             /\ \E payload \in Payloads(arg[c], candidates) :
                   CacheSet(SearchKey(c), payload) /\ Return(c, payload)
          \/ /\ DbFails /\ candidates # {}
             /\ Raise(c)
             /\ UNCHANGED <<table, memory, redis>>
    /\ found' = [found EXCEPT ![c] = {}]
    /\ UNCHANGED <<relevant, redisUp, useRedis, op, arg, left>>

-----------------------------------------------------------------------------
(* get: the table, the cache, then arXiv, Crossref and OpenAlex in turn.  The
   rows of papers are keyed by source_id, so a DOI is never found there. *)

Get(c) ==
    /\ pc[c] = "detail" /\ MayRun(c)
    /\ LET key == <<"detail", arg[c]>> IN
          \/ /\ DbFails \/ (op[c] # "source_id" /\ CacheRaises)
             /\ pc' = [pc EXCEPT ![c] = "failed"]
             /\ UNCHANGED answer
          \/ /\ op[c] = "source_id" /\ arg[c] \in table
             /\ pc' = [pc EXCEPT ![c] = "answered"]
             /\ answer' = [answer EXCEPT ![c] = {arg[c]}]
          \/ /\ op[c] = "source_id" /\ arg[c] \notin table
             /\ pc' = [pc EXCEPT ![c] = "openalex"]
             /\ UNCHANGED answer
          \/ /\ op[c] # "source_id" /\ ~ CacheRaises
             /\ \E payload \in Cached(key) : answer' = [answer EXCEPT ![c] = payload]
             /\ pc' = [pc EXCEPT ![c] = "answered"]
          \/ /\ op[c] # "source_id" /\ ~ CacheRaises /\ Cached(key) = {}
             /\ pc' = [pc EXCEPT ![c] = IF op[c] = "arxiv_doi" THEN "arxiv" ELSE "crossref"]
             /\ UNCHANGED answer
    /\ UNCHANGED <<relevant, table, memory, redis, redisUp, useRedis, op, arg, found, left>>

\* arXiv or Crossref has the paper: it is saved and cached.  Without it, or with
\* any exception, that of save_papers included, the next source is asked.
Fetched(c) ==
    /\ pc[c] \in {"arxiv", "crossref"} /\ MayRun(c)
    /\ \/ /\ SavePapers({arg[c]})
          /\ CacheSet(<<"detail", arg[c]>>, {arg[c]})
          /\ answer' = [answer EXCEPT ![c] = {arg[c]}]
          /\ pc' = [pc EXCEPT ![c] = "answered"]
       \/ /\ pc' = [pc EXCEPT ![c] = IF pc[c] = "arxiv" THEN "crossref" ELSE "openalex"]
          /\ UNCHANGED <<table, memory, redis, answer>>
    /\ UNCHANGED <<relevant, redisUp, useRedis, op, arg, found, left>>

\* OpenAlex is the last: what it sends is neither saved nor cached.
FetchedLast(c) ==
    /\ pc[c] = "openalex" /\ MayRun(c)
    /\ \E result \in {{}, {arg[c]}} : answer' = [answer EXCEPT ![c] = result]
    /\ pc' = [pc EXCEPT ![c] = "answered"]
    /\ UNCHANGED <<relevant, table, memory, redis, redisUp, useRedis, op, arg, found, left>>

-----------------------------------------------------------------------------
(* sync: pages one after the other, saved together after the last *)

\* An exception of a page or of save_papers: the API answers with a count of the
\* local papers, if there are any and they can be read.
SyncRaises(c) ==
    /\ \/ table # {} /\ pc' = [pc EXCEPT ![c] = "answered"]
       \/ (table = {} \/ DbFails) /\ pc' = [pc EXCEPT ![c] = "failed"]
    /\ found' = [found EXCEPT ![c] = {}]
    /\ left' = [left EXCEPT ![c] = 0]
    /\ UNCHANGED table

Page(c) ==
    /\ pc[c] = "pages" /\ MayRun(c)
    /\ \/ /\ left[c] > 1
          /\ \E result \in SUBSET Papers : found' = [found EXCEPT ![c] = @ \cup result]
          /\ left' = [left EXCEPT ![c] = @ - 1]
          /\ UNCHANGED <<table, pc>>
       \/ /\ left[c] = 1
          /\ \E result \in SUBSET Papers : SavePapers(found[c] \cup result)
          /\ pc' = [pc EXCEPT ![c] = "answered"]
          /\ found' = [found EXCEPT ![c] = {}]
          /\ left' = [left EXCEPT ![c] = 0]
       \/ SyncRaises(c)
    /\ UNCHANGED <<relevant, memory, redis, redisUp, useRedis, op, arg, answer>>

-----------------------------------------------------------------------------
\* A request of a client or of a chat.
Request(c) ==
    /\ pc[c] \in {"idle", "answered", "failed"} /\ MayRun(c)
    /\ \/ \E o \in Uses \cap SearchOps, q \in Queries :
             /\ op' = [op EXCEPT ![c] = o]
             /\ arg' = [arg EXCEPT ![c] = q]
             /\ pc' = [pc EXCEPT ![c] = "first"]
             /\ UNCHANGED left
       \/ \E o \in Uses \cap GetOps, p \in Papers :
             /\ op' = [op EXCEPT ![c] = o]
             /\ arg' = [arg EXCEPT ![c] = p]
             /\ pc' = [pc EXCEPT ![c] = "detail"]
             /\ UNCHANGED left
       \/ \E q \in Queries, n \in 1..MaxPages :
             /\ "sync" \in Uses
             /\ op' = [op EXCEPT ![c] = "sync"]
             /\ arg' = [arg EXCEPT ![c] = q]
             /\ pc' = [pc EXCEPT ![c] = "pages"]
             /\ left' = [left EXCEPT ![c] = n]
    /\ answer' = [answer EXCEPT ![c] = {}]
    /\ UNCHANGED <<relevant, table, memory, redis, redisUp, useRedis, found>>

\* scripts/warmup_demo.py, a process of its own, fills the same database.
Warmup ==
    /\ \E papers \in SUBSET Papers : table' = table \cup papers
    /\ UNCHANGED <<relevant, memory, redis, redisUp, useRedis, pc, op, arg, found,
                   left, answer>>

\* External: Redis stops, and comes back with or without its entries.
RedisStops ==
    /\ redisUp /\ redisUp' = FALSE
    /\ UNCHANGED <<relevant, table, memory, redis, useRedis, pc, op, arg, found,
                   left, answer>>

RedisStarts ==
    /\ ~ redisUp /\ redisUp' = TRUE
    /\ redis' \in {redis, [k \in Keys |-> {}]}
    /\ UNCHANGED <<relevant, table, memory, useRedis, pc, op, arg, found, left, answer>>

\* The process is killed, perhaps after a commit and before the cache is set, and
\* started again: Cache.__init__ decides once more about Redis.
Restart ==
    /\ \/ UNCHANGED table
       \/ \E c \in Callers, result \in SUBSET Papers :
             pc[c] = "waiting" /\ SavePapers(found[c] \cup result)
    /\ memory' = [k \in Keys |-> {}]
    /\ useRedis' = (RedisConfigured /\ redisUp)
    /\ pc' = [c \in Callers |-> "idle"]
    /\ found' = [c \in Callers |-> {}]
    /\ left' = [c \in Callers |-> 0]
    /\ answer' = [c \in Callers |-> {}]
    /\ UNCHANGED <<relevant, redis, redisUp, op, arg>>

Step(c) ==
    Search(c) \/ Gathered(c) \/ Get(c) \/ Fetched(c) \/ FetchedLast(c) \/ Page(c)

Next ==
    \/ \E c \in Callers : Request(c) \/ Step(c)
    \/ \E k \in Keys : ExpireMemory(k) \/ ExpireRedis(k)
    \/ Warmup \/ RedisStops \/ RedisStarts \/ Restart

Spec == Init /\ [][Next]_vars

\* Every await of a source ends, httpx has a timeout of 20 seconds; and asyncio runs
\* ready coroutines in the order they became ready, so none is passed over forever.
FairSpec == Spec /\ \A c \in Callers : SF_vars(Step(c))

-----------------------------------------------------------------------------
TypeOK ==
    /\ relevant \in [Queries -> SUBSET Papers]
    /\ table \subseteq Papers
    /\ memory \in [Keys -> SUBSET SUBSET Papers]
    /\ redis \in [Keys -> SUBSET SUBSET Papers]
    /\ redisUp \in BOOLEAN /\ useRedis \in BOOLEAN
    /\ pc \in [Callers -> Steps]
    /\ op \in [Callers -> Ops]
    /\ arg \in [Callers -> Queries \cup Papers]
    /\ found \in [Callers -> SUBSET Papers]
    /\ left \in [Callers -> 0..MaxPages]
    /\ answer \in [Callers -> SUBSET Papers]

\* A paper that a search shows, now or later from either cache, is a row of the
\* papers table, so that its details can be opened without the sources: over
\* failing writes, kills and entries of Redis that outlive the process
\* (paper_service.py, search saves before it caches and answers).
ShownPapersAreStored ==
    /\ \A k \in Keys : \A payload \in memory[k] \cup redis[k] : payload \subseteq table
    /\ \A c \in Callers : op[c] \in SearchOps => answer[c] \subseteq table

\* While the database works, no outage of the sources makes a search fail, and an
\* outage of Redis does so only in a process that had Redis when it started
\* (paper_service.py, return_exceptions; cache.py, __init__ and get).
OnlyLostRedisFailsASearch ==
    \A c \in Callers : op[c] \in SearchOps /\ pc[c] = "failed" => useRedis

\* The payload of a live entry is exchanged only by a call that missed the cache
\* before the entry was made and is still waiting: two overlapping searches
\* (cache.py, get asks both levels; paper_service.py, the await in search).
LiveEntryIsStable ==
    [][\A k \in Keys : memory[k] # {} /\ memory'[k] # memory[k] =>
          \/ memory'[k] = {}
          \/ \E c \in Callers : pc[c] \in {"waiting", "arxiv", "crossref"} /\ arg[c] = k[2]]_vars

\* Every call ends, whatever cache and sources do, unless the process
\* does (main.py: each fallback is tried once).
EveryCallEnds ==
    \A c \in Callers : pc[c] = "first" ~> pc[c] \in {"answered", "failed", "idle"}

\* The matching rows that the filter for quality will drop.
Junk(q) == (relevant[q] \cap table) \ Quality

\* POST /api/search answers with nothing, while a matching paper of quality is stored,
\* for one of three reasons and no other: an empty offline result is still cached, the
\* table has more rows than the index reads, or rows that the filter for quality drops
\* afterwards fill all the 2 * top_k places of the local hits (main.py, the repeated
\* search; paper_service.py, an empty payload is cached too, and the order of cut and
\* filter; hybrid.py, search_local).
EmptyAnswerHasAReason ==
    [][\A c \in Callers :
          /\ pc[c] # "answered" /\ pc'[c] = "answered"
          /\ op[c] = "api_online" /\ answer'[c] = {}
          /\ relevant[arg[c]] \cap Quality \cap table # {}
          => \/ {} \in Cached(<<"offline", arg[c]>>)
             \/ Cardinality(table) > IndexLimit
             \/ Cardinality(Junk(arg[c])) >= 2 * TopK]_vars
=============================================================================
