------------------------- MODULE PaperServiceProofs -------------------------
(***************************************************************************)
(* Proofs about PaperService: types, the order of saving and showing, what  *)
(* a search can fail of, the stability of cache entries, and empty answers. *)
(***************************************************************************)
EXTENDS PaperService, FiniteSetTheorems, TLAPS

\* What a caller is doing agrees with what it was asked for.
AskedFor ==
    \A c \in Callers :
        /\ pc[c] \in {"first", "waiting", "retry", "fallback"} =>
              op[c] \in SearchOps /\ arg[c] \in Queries
        /\ pc[c] \in {"detail", "arxiv", "crossref", "openalex"} =>
              op[c] \in GetOps /\ arg[c] \in Papers
        /\ pc[c] = "pages" => op[c] = "sync"

TypeInv == TypeOK /\ AskedFor

\* A search key is a key of the cache.
LEMMA SearchKeyType ==
    ASSUME TypeInv, NEW c \in Callers, pc[c] \in {"first", "waiting", "retry", "fallback"}
    PROVE  SearchKey(c) \in Keys
  BY DEF TypeInv, AskedFor, SearchKey, Keys

\* CacheSet stores one payload under one key and keeps the types.
LEMMA CacheSetType ==
    ASSUME TypeOK, NEW k \in Keys, NEW payload \in SUBSET Papers, CacheSet(k, payload)
    PROVE  /\ memory' \in [Keys -> SUBSET SUBSET Papers]
           /\ redis' \in [Keys -> SUBSET SUBSET Papers]
  BY DEF TypeOK, CacheSet

\* What is read from the cache is a set of papers.
LEMMA CachedType ==
    ASSUME TypeOK, NEW k \in Keys, NEW payload \in Cached(k)
    PROVE  payload \in SUBSET Papers
  BY DEF TypeOK, Cached

\* Return ends the search or starts the offline one of the API handler.
LEMMA ReturnType ==
    ASSUME TypeInv, NEW c \in Callers, NEW payload \in SUBSET Papers, Return(c, payload),
           pc[c] \in {"first", "waiting", "retry", "fallback"}
    PROVE  /\ answer' \in [Callers -> SUBSET Papers]
           /\ pc' \in [Callers -> Steps]
           /\ \A d \in Callers : d # c => pc'[d] = pc[d] /\ answer'[d] = answer[d]
           /\ answer'[c] = payload
           /\ pc'[c] \in {"retry", "failed", "answered"}
           /\ pc'[c] = "failed" => pc[c] = "fallback"
  <1> DEFINE s == CASE payload = {} /\ pc[c] \in {"first", "waiting"} /\ op[c] = "api_online"
                           -> "retry"
                    [] payload = {} /\ pc[c] = "fallback" -> "failed"
                    [] OTHER -> "answered"
  <1>1. s \in {"retry", "failed", "answered"} /\ (s = "failed" => pc[c] = "fallback")
    OBVIOUS
  <1>2. pc' = [pc EXCEPT ![c] = s] /\ answer' = [answer EXCEPT ![c] = payload]
    BY DEF Return
  <1>3. s \in Steps
    BY <1>1 DEF Steps
  <1> HIDE DEF s
  <1> QED
    BY <1>1, <1>2, <1>3 DEF TypeInv, TypeOK

\* Raise ends the search or starts the fallback of the API handler.
LEMMA RaiseType ==
    ASSUME TypeInv, NEW c \in Callers, Raise(c)
    PROVE  /\ answer' = answer
           /\ pc' \in [Callers -> Steps]
           /\ \A d \in Callers : d # c => pc'[d] = pc[d]
           /\ pc'[c] \in {"fallback", "failed"}
  BY DEF TypeInv, TypeOK, Raise, Steps

\* A payload is cut from the candidates.
LEMMA PayloadsType ==
    ASSUME NEW q, NEW candidates, NEW payload \in Payloads(q, candidates)
    PROVE  payload \subseteq candidates
  BY DEF Payloads, Top

\* The hits of the local search are rows of the table.
LEMMA LocalHitsType ==
    ASSUME NEW q, NEW hits \in LocalHits(q)
    PROVE  hits \subseteq table
  BY DEF LocalHits

\* The initial states have the types.
LEMMA TypeInit == Init => TypeInv
  BY LimitsAssumption, SwitchesAssumption
     DEF Init, TypeInv, TypeOK, AskedFor, Steps, Ops, SearchOps

\* A search keeps the types.
LEMMA SearchTyped ==
    ASSUME TypeInv, NEW c \in Callers, Search(c)
    PROVE  TypeInv'
  <1> USE DEF TypeInv
  <1>0. pc[c] \in {"first", "retry", "fallback"}
    BY DEF Search
  <1>k. SearchKey(c) \in Keys
    BY <1>0, SearchKeyType
  <1>u. UNCHANGED <<relevant, table, redisUp, useRedis, op, arg, left>>
    BY DEF Search
  <1>1. CASE Raise(c) /\ UNCHANGED <<memory, redis, found>>
    BY <1>0, <1>1, <1>u, RaiseType DEF TypeOK, AskedFor
  <1>2. CASE /\ \E payload \in Cached(SearchKey(c)) : Return(c, payload)
             /\ UNCHANGED <<memory, redis, found>>
    <2> PICK payload \in Cached(SearchKey(c)) : Return(c, payload)
      BY <1>2
    <2>1. payload \in SUBSET Papers
      BY <1>k, CachedType
    <2> QED
      BY <1>0, <1>2, <1>u, <2>1, ReturnType DEF TypeOK, AskedFor
  <1>3. CASE /\ \E hits \in LocalHits(arg[c]) : found' = [found EXCEPT ![c] = hits]
             /\ pc' = [pc EXCEPT ![c] = "waiting"]
             /\ UNCHANGED <<memory, redis, answer>>
    <2> PICK hits \in LocalHits(arg[c]) : found' = [found EXCEPT ![c] = hits]
      BY <1>3
    <2>1. hits \in SUBSET Papers
      BY LocalHitsType DEF TypeOK
    <2> QED
      BY <1>0, <1>3, <1>u, <2>1 DEF TypeOK, AskedFor, Steps
  <1>4. CASE /\ \E hits \in LocalHits(arg[c]) : \E payload \in Payloads(arg[c], hits) :
                   CacheSet(SearchKey(c), payload) /\ Return(c, payload)
             /\ UNCHANGED found
    <2> PICK hits \in LocalHits(arg[c]) : \E payload \in Payloads(arg[c], hits) :
             CacheSet(SearchKey(c), payload) /\ Return(c, payload)
      BY <1>4
    <2> PICK payload \in Payloads(arg[c], hits) :
             CacheSet(SearchKey(c), payload) /\ Return(c, payload)
      OBVIOUS
    <2>1. payload \in SUBSET Papers
      BY LocalHitsType, PayloadsType DEF TypeOK
    <2>2. memory' \in [Keys -> SUBSET SUBSET Papers] /\ redis' \in [Keys -> SUBSET SUBSET Papers]
      BY <1>k, <2>1, CacheSetType
    <2> QED
      BY <1>0, <1>4, <1>u, <2>1, <2>2, ReturnType DEF TypeOK, AskedFor
  <1> QED
    BY <1>1, <1>2, <1>3, <1>4 DEF Search

\* The end of an online search keeps the types.
LEMMA GatheredTyped ==
    ASSUME TypeInv, NEW c \in Callers, Gathered(c)
    PROVE  TypeInv'
  <1> USE DEF TypeInv
  <1>0. pc[c] = "waiting"
    BY DEF Gathered
  <1>k. SearchKey(c) \in Keys
    BY <1>0, SearchKeyType
  <1>u. /\ UNCHANGED <<relevant, redisUp, useRedis, op, arg, left>>
        /\ found' = [found EXCEPT ![c] = {}]
    BY DEF Gathered
  <1> PICK result \in SUBSET Papers :
        \/ /\ SavePapers(found[c] \cup result)
           /\ \E payload \in Payloads(arg[c], found[c] \cup result) :
                 CacheSet(SearchKey(c), payload) /\ Return(c, payload)
        \/ Raise(c) /\ UNCHANGED <<table, memory, redis>>
    BY DEF Gathered
  <1>c. found[c] \cup result \in SUBSET Papers
    BY DEF TypeOK
  <1>1. CASE Raise(c) /\ UNCHANGED <<table, memory, redis>>
    BY <1>0, <1>1, <1>u, RaiseType DEF TypeOK, AskedFor
  <1>2. CASE /\ SavePapers(found[c] \cup result)
             /\ \E payload \in Payloads(arg[c], found[c] \cup result) :
                   CacheSet(SearchKey(c), payload) /\ Return(c, payload)
    <2> PICK payload \in Payloads(arg[c], found[c] \cup result) :
             CacheSet(SearchKey(c), payload) /\ Return(c, payload)
      BY <1>2
    <2>1. payload \in SUBSET Papers
      BY <1>c, PayloadsType
    <2>2. memory' \in [Keys -> SUBSET SUBSET Papers] /\ redis' \in [Keys -> SUBSET SUBSET Papers]
      BY <1>k, <2>1, CacheSetType
    <2>3. table' \subseteq Papers
      BY <1>2, <1>c DEF SavePapers, TypeOK
    <2> QED
      BY <1>0, <1>u, <2>1, <2>2, <2>3, ReturnType DEF TypeOK, AskedFor
  <1> QED
    BY <1>1, <1>2

\* Every step keeps the types.
LEMMA TypeStep == TypeInv /\ [Next]_vars => TypeInv'
  <1> SUFFICES ASSUME TypeInv, [Next]_vars PROVE TypeInv'
    OBVIOUS
  <1> USE DEF TypeInv
  <1>1. ASSUME NEW c \in Callers, Request(c) PROVE TypeInv'
    BY <1>1, LimitsAssumption, UsesAssumption
       DEF Request, TypeOK, AskedFor, Steps, Ops, SearchOps, GetOps
  <1>2. ASSUME NEW c \in Callers, Search(c) PROVE TypeInv'
    BY <1>2, SearchTyped
  <1>3. ASSUME NEW c \in Callers, Gathered(c) PROVE TypeInv'
    BY <1>3, GatheredTyped
  <1>4. ASSUME NEW c \in Callers, Get(c) PROVE TypeInv'
    <2>0. arg[c] \in Papers /\ op[c] \in GetOps /\ <<"detail", arg[c]>> \in Keys
      BY <1>4 DEF Get, AskedFor, Keys
    <2>1. answer' \in [Callers -> SUBSET Papers]
      BY <1>4, <2>0, CachedType DEF Get, TypeOK
    <2>2. /\ pc' \in [Callers -> Steps]
          /\ \A d \in Callers : d # c => pc'[d] = pc[d]
          /\ pc'[c] \in {"failed", "answered", "openalex", "arxiv", "crossref"}
      BY <1>4 DEF Get, TypeOK, Steps
    <2> QED
      BY <1>4, <2>0, <2>1, <2>2 DEF Get, TypeOK, AskedFor
  <1>5. ASSUME NEW c \in Callers, Fetched(c) PROVE TypeInv'
    <2>0. arg[c] \in Papers /\ op[c] \in GetOps /\ <<"detail", arg[c]>> \in Keys
      BY <1>5 DEF Fetched, AskedFor, Keys
    <2>1. memory' \in [Keys -> SUBSET SUBSET Papers] /\ redis' \in [Keys -> SUBSET SUBSET Papers]
      BY <1>5, <2>0, CacheSetType DEF Fetched, TypeOK
    <2> QED
      BY <1>5, <2>0, <2>1 DEF Fetched, SavePapers, TypeOK, AskedFor, Steps
  <1>6. ASSUME NEW c \in Callers, FetchedLast(c) PROVE TypeInv'
    BY <1>6 DEF FetchedLast, TypeOK, AskedFor, Steps
  <1>7. ASSUME NEW c \in Callers, Page(c) PROVE TypeInv'
    BY <1>7, LimitsAssumption DEF Page, SyncRaises, SavePapers, TypeOK, AskedFor, Steps
  <1>8. ASSUME NEW k \in Keys, ExpireMemory(k) \/ ExpireRedis(k) PROVE TypeInv'
    BY <1>8 DEF ExpireMemory, ExpireRedis, TypeOK, AskedFor
  <1>9. CASE Warmup
    BY <1>9 DEF Warmup, TypeOK, AskedFor
  <1>10. CASE RedisStops \/ RedisStarts
    BY <1>10 DEF RedisStops, RedisStarts, TypeOK, AskedFor
  <1>11. CASE Restart
    BY <1>11, SwitchesAssumption, LimitsAssumption
       DEF Restart, SavePapers, TypeOK, AskedFor, Steps
  <1>12. CASE UNCHANGED vars
    BY <1>12 DEF vars, TypeOK, AskedFor
  <1> QED
    BY <1>1, <1>2, <1>3, <1>4, <1>5, <1>6, <1>7, <1>8, <1>9, <1>10, <1>11, <1>12
       DEF Next, Step

\* The type invariant, with what each caller was asked for.
LEMMA TypeInvariant == Spec => []TypeInv
  BY TypeInit, TypeStep, PTL DEF Spec

\* All variables of PaperService stay in their types.
THEOREM TypeCorrect == Spec => []TypeOK
  <1>1. TypeInv => TypeOK
    BY DEF TypeInv
  <1> QED
    BY <1>1, TypeInvariant, PTL

-----------------------------------------------------------------------------
(* Shown papers are stored *)

\* The table only grows and the caches and answers hold nothing new: what was
\* stored stays so.
LEMMA StoredFrame ==
    ASSUME TypeInv, ShownPapersAreStored, table \subseteq table',
           \A k \in Keys : memory'[k] \subseteq memory[k] /\ redis'[k] \subseteq redis[k],
           \A c \in Callers : op'[c] \in SearchOps =>
               answer'[c] \subseteq table' \/ (op[c] \in SearchOps /\ answer'[c] = answer[c])
    PROVE  ShownPapersAreStored'
  BY DEF ShownPapersAreStored

\* What is read from the cache is stored.
LEMMA CachedIsStored ==
    ASSUME ShownPapersAreStored, NEW k \in Keys, NEW payload \in Cached(k)
    PROVE  payload \subseteq table
  BY DEF ShownPapersAreStored, Cached

\* A payload that is stored may be put in the cache.
LEMMA CacheStored ==
    ASSUME TypeInv, ShownPapersAreStored, table \subseteq table',
           NEW k \in Keys, NEW payload, payload \subseteq table', CacheSet(k, payload)
    PROVE  \A j \in Keys : \A q \in memory'[j] \cup redis'[j] : q \subseteq table'
  <1> TAKE j \in Keys
  <1>1. CASE j = k
    BY <1>1 DEF TypeInv, TypeOK, CacheSet, ShownPapersAreStored
  <1>2. CASE j # k
    BY <1>2 DEF TypeInv, TypeOK, CacheSet, ShownPapersAreStored
  <1> QED
    BY <1>1, <1>2

\* A search, up to its await or its end, shows stored papers.
LEMMA SearchStored ==
    ASSUME TypeInv, ShownPapersAreStored, NEW c \in Callers, Search(c)
    PROVE  ShownPapersAreStored'
  <1>0. pc[c] \in {"first", "retry", "fallback"}
    BY DEF Search
  <1>k. SearchKey(c) \in Keys
    BY <1>0, SearchKeyType
  <1>u. UNCHANGED <<table, op>>
    BY DEF Search
  <1>1. CASE UNCHANGED <<memory, redis, answer>>
    BY <1>1, <1>u, StoredFrame
  <1>2. CASE /\ \E payload \in Cached(SearchKey(c)) : Return(c, payload)
             /\ UNCHANGED <<memory, redis>>
    <2> PICK payload \in Cached(SearchKey(c)) : Return(c, payload)
      BY <1>2
    <2>1. payload \in SUBSET Papers /\ payload \subseteq table
      BY <1>k, CachedType, CachedIsStored DEF TypeInv
    <2> QED
      BY <1>0, <1>2, <1>u, <2>1, ReturnType, StoredFrame
  <1>3. CASE \E hits \in LocalHits(arg[c]) : \E payload \in Payloads(arg[c], hits) :
                CacheSet(SearchKey(c), payload) /\ Return(c, payload)
    <2> PICK hits \in LocalHits(arg[c]) : \E payload \in Payloads(arg[c], hits) :
             CacheSet(SearchKey(c), payload) /\ Return(c, payload)
      BY <1>3
    <2> PICK payload \in Payloads(arg[c], hits) :
             CacheSet(SearchKey(c), payload) /\ Return(c, payload)
      OBVIOUS
    <2>1. payload \subseteq table /\ payload \in SUBSET Papers
      BY LocalHitsType, PayloadsType DEF TypeInv, TypeOK
    <2>2. \A j \in Keys : \A q \in memory'[j] \cup redis'[j] : q \subseteq table'
      BY <1>k, <1>u, <2>1, CacheStored
    <2>3. \A d \in Callers : op'[d] \in SearchOps => answer'[d] \subseteq table'
      BY <1>0, <1>u, <2>1, ReturnType DEF ShownPapersAreStored
    <2> QED
      BY <2>2, <2>3 DEF ShownPapersAreStored
  <1> QED
    BY <1>1, <1>2, <1>3, RaiseType DEF Search

\* The end of an online search saves before it shows.
LEMMA GatheredStored ==
    ASSUME TypeInv, ShownPapersAreStored, NEW c \in Callers, Gathered(c)
    PROVE  ShownPapersAreStored'
  <1>0. pc[c] = "waiting"
    BY DEF Gathered
  <1>k. SearchKey(c) \in Keys
    BY <1>0, SearchKeyType
  <1>u. UNCHANGED op
    BY DEF Gathered
  <1> PICK result \in SUBSET Papers :
        \/ /\ SavePapers(found[c] \cup result)
           /\ \E payload \in Payloads(arg[c], found[c] \cup result) :
                 CacheSet(SearchKey(c), payload) /\ Return(c, payload)
        \/ Raise(c) /\ UNCHANGED <<table, memory, redis>>
    BY DEF Gathered
  <1>1. CASE Raise(c) /\ UNCHANGED <<table, memory, redis>>
    BY <1>1, <1>u, RaiseType, StoredFrame
  <1>2. CASE /\ SavePapers(found[c] \cup result)
             /\ \E payload \in Payloads(arg[c], found[c] \cup result) :
                   CacheSet(SearchKey(c), payload) /\ Return(c, payload)
    <2> PICK payload \in Payloads(arg[c], found[c] \cup result) :
             CacheSet(SearchKey(c), payload) /\ Return(c, payload)
      BY <1>2
    <2>1. table \subseteq table' /\ found[c] \cup result \subseteq table'
      BY <1>2 DEF SavePapers
    <2>2. payload \subseteq table' /\ payload \in SUBSET Papers
      BY <2>1, PayloadsType DEF TypeInv, TypeOK
    <2>3. \A j \in Keys : \A q \in memory'[j] \cup redis'[j] : q \subseteq table'
      BY <1>k, <2>1, <2>2, CacheStored
    <2>4. \A d \in Callers : op'[d] \in SearchOps => answer'[d] \subseteq table'
      BY <1>0, <1>u, <2>1, <2>2, ReturnType DEF ShownPapersAreStored
    <2> QED
      BY <2>3, <2>4 DEF ShownPapersAreStored
  <1> QED
    BY <1>1, <1>2

\* Every step keeps ShownPapersAreStored.
LEMMA StoredStep ==
    TypeInv /\ ShownPapersAreStored /\ [Next]_vars => ShownPapersAreStored'
  <1> SUFFICES ASSUME TypeInv, ShownPapersAreStored, [Next]_vars
               PROVE  ShownPapersAreStored'
    OBVIOUS
  <1>1. ASSUME NEW c \in Callers, Request(c) PROVE ShownPapersAreStored'
    <2>1. UNCHANGED <<table, memory, redis>> /\ answer' = [answer EXCEPT ![c] = {}]
      BY <1>1 DEF Request
    <2>2. \A d \in Callers : d # c => op'[d] = op[d]
      BY <1>1 DEF Request, TypeInv, TypeOK
    <2> QED
      BY <2>1, <2>2, StoredFrame DEF TypeInv, TypeOK
  <1>2. ASSUME NEW c \in Callers, Search(c) PROVE ShownPapersAreStored'
    BY <1>2, SearchStored
  <1>3. ASSUME NEW c \in Callers, Gathered(c) PROVE ShownPapersAreStored'
    BY <1>3, GatheredStored
  <1>4. ASSUME NEW c \in Callers, Get(c) PROVE ShownPapersAreStored'
    <2>1. op[c] \notin SearchOps /\ UNCHANGED <<table, memory, redis, op>>
      BY <1>4 DEF Get, TypeInv, AskedFor, GetOps, SearchOps
    <2>2. \A d \in Callers : d # c => answer'[d] = answer[d]
      BY <1>4 DEF Get, TypeInv, TypeOK
    <2> QED
      BY <2>1, <2>2, StoredFrame
  <1>5. ASSUME NEW c \in Callers, Fetched(c) PROVE ShownPapersAreStored'
    <2>0. op[c] \notin SearchOps /\ arg[c] \in Papers /\ UNCHANGED op
      BY <1>5 DEF Fetched, TypeInv, AskedFor, GetOps, SearchOps
    <2>1. \A d \in Callers : d # c => answer'[d] = answer[d]
      BY <1>5 DEF Fetched, TypeInv, TypeOK
    <2>2. CASE SavePapers({arg[c]}) /\ CacheSet(<<"detail", arg[c]>>, {arg[c]})
      <3>1. <<"detail", arg[c]>> \in Keys
        BY <2>0 DEF Keys
      <3>2. table \subseteq table' /\ {arg[c]} \subseteq table'
        BY <2>2 DEF SavePapers
      <3>3. \A j \in Keys : \A q \in memory'[j] \cup redis'[j] : q \subseteq table'
        BY <2>2, <3>1, <3>2, CacheStored
      <3> QED
        BY <2>0, <2>1, <3>2, <3>3 DEF ShownPapersAreStored
    <2>3. CASE UNCHANGED <<table, memory, redis, answer>>
      BY <2>0, <2>3, StoredFrame
    <2> QED
      BY <1>5, <2>2, <2>3 DEF Fetched
  <1>6. ASSUME NEW c \in Callers, FetchedLast(c) PROVE ShownPapersAreStored'
    <2>1. op[c] \notin SearchOps /\ UNCHANGED <<table, memory, redis, op>>
      BY <1>6 DEF FetchedLast, TypeInv, AskedFor, GetOps, SearchOps
    <2>2. \A d \in Callers : d # c => answer'[d] = answer[d]
      BY <1>6 DEF FetchedLast, TypeInv, TypeOK
    <2> QED
      BY <2>1, <2>2, StoredFrame
  <1>7. ASSUME NEW c \in Callers, Page(c) PROVE ShownPapersAreStored'
    <2>1. table \subseteq table' /\ UNCHANGED <<memory, redis, op, answer>>
      BY <1>7 DEF Page, SyncRaises, SavePapers
    <2> QED
      BY <2>1, StoredFrame
  <1>8. ASSUME NEW k \in Keys, ExpireMemory(k) \/ ExpireRedis(k) PROVE ShownPapersAreStored'
    <2>1. UNCHANGED <<table, op, answer>>
      BY <1>8 DEF ExpireMemory, ExpireRedis
    <2>2. \A j \in Keys : memory'[j] \subseteq memory[j] /\ redis'[j] \subseteq redis[j]
      BY <1>8 DEF ExpireMemory, ExpireRedis, TypeInv, TypeOK
    <2> QED
      BY <2>1, <2>2, StoredFrame
  <1>9. CASE Warmup
    BY <1>9, StoredFrame DEF Warmup
  <1>10. CASE RedisStops \/ RedisStarts
    <2>1. UNCHANGED <<table, memory, op, answer>>
      BY <1>10 DEF RedisStops, RedisStarts
    <2>2. \A j \in Keys : redis'[j] \subseteq redis[j]
      BY <1>10 DEF RedisStops, RedisStarts
    <2> QED
      BY <2>1, <2>2, StoredFrame
  <1>11. CASE Restart
    <2>1. table \subseteq table' /\ UNCHANGED <<redis, op>>
      BY <1>11 DEF Restart, SavePapers
    <2>2. \A j \in Keys : memory'[j] = {}
      BY <1>11 DEF Restart
    <2>3. \A d \in Callers : answer'[d] = {}
      BY <1>11 DEF Restart
    <2> QED
      BY <2>1, <2>2, <2>3, StoredFrame
  <1>12. CASE UNCHANGED vars
    BY <1>12, StoredFrame DEF vars
  <1> QED
    BY <1>1, <1>2, <1>3, <1>4, <1>5, <1>6, <1>7, <1>8, <1>9, <1>10, <1>11, <1>12
       DEF Next, Step

\* Whatever papers, callers and limits there are, a search never shows a paper
\* that is not in the table, nor does a cache entry hold one: save_papers comes
\* before Cache.set and before the answer, in search and in get.
THEOREM SavedBeforeShown == Spec => []ShownPapersAreStored
  <1>1. Init => ShownPapersAreStored
    BY DEF Init, ShownPapersAreStored
  <1> QED
    BY <1>1, StoredStep, TypeInvariant, PTL DEF Spec

-----------------------------------------------------------------------------
(* What a search can fail of *)

\* Strengthening: with a working database the fallback, too, is only entered in a
\* process that uses Redis.
RedisInv ==
    \A c \in Callers :
        op[c] \in SearchOps /\ pc[c] \in {"fallback", "failed"} => useRedis

\* Every step keeps RedisInv while the database works.
LEMMA RedisStep ==
    ASSUME DbFails = FALSE
    PROVE  TypeInv /\ RedisInv /\ [Next]_vars => RedisInv'
  <1> SUFFICES ASSUME TypeInv, RedisInv, [Next]_vars PROVE RedisInv'
    OBVIOUS
  <1>1. ASSUME NEW c \in Callers, Request(c) PROVE RedisInv'
    BY <1>1 DEF Request, TypeInv, TypeOK, RedisInv
  <1>2. ASSUME NEW c \in Callers, Search(c) PROVE RedisInv'
    <2>0. pc[c] \in {"first", "retry", "fallback"} /\ op[c] \in SearchOps /\ UNCHANGED <<op, useRedis>>
      BY <1>2 DEF Search, TypeInv, AskedFor
    <2>k. SearchKey(c) \in Keys
      BY <2>0, SearchKeyType
    <2>1. CASE CacheRaises /\ Raise(c)
      BY <2>0, <2>1, RaiseType DEF CacheRaises, RedisInv
    <2>2. CASE \E payload \in Cached(SearchKey(c)) : Return(c, payload)
      BY <2>0, <2>k, <2>2, CachedType, ReturnType DEF RedisInv, TypeInv
    <2>3. CASE pc' = [pc EXCEPT ![c] = "waiting"]
      BY <2>0, <2>3 DEF RedisInv, TypeInv, TypeOK
    <2>4. CASE \E hits \in LocalHits(arg[c]) : \E payload \in Payloads(arg[c], hits) :
                  Return(c, payload)
      <3>1. PICK hits \in LocalHits(arg[c]) : \E payload \in Payloads(arg[c], hits) :
                  Return(c, payload)
        BY <2>4
      <3>2. PICK payload \in Payloads(arg[c], hits) : Return(c, payload)
        BY <3>1
      <3>3. payload \in SUBSET Papers
        BY LocalHitsType, PayloadsType DEF TypeInv, TypeOK
      <3> QED
        BY <2>0, <3>2, <3>3, ReturnType DEF RedisInv
    <2> QED
      BY <1>2, <2>1, <2>2, <2>3, <2>4 DEF Search
  <1>3. ASSUME NEW c \in Callers, Gathered(c) PROVE RedisInv'
    <2>0. pc[c] = "waiting" /\ UNCHANGED <<op, useRedis>>
      BY <1>3 DEF Gathered
    <2>1. PICK result \in SUBSET Papers :
             \E payload \in Payloads(arg[c], found[c] \cup result) : Return(c, payload)
      BY <1>3 DEF Gathered
    <2>2. PICK payload \in Payloads(arg[c], found[c] \cup result) : Return(c, payload)
      BY <2>1
    <2>3. payload \in SUBSET Papers
      BY PayloadsType DEF TypeInv, TypeOK
    <2> QED
      BY <2>0, <2>2, <2>3, ReturnType DEF RedisInv
  <1>4. ASSUME NEW c \in Callers, Get(c) \/ Fetched(c) \/ FetchedLast(c) PROVE RedisInv'
    <2>1. op[c] \notin SearchOps /\ UNCHANGED <<op, useRedis>>
      BY <1>4 DEF Get, Fetched, FetchedLast, TypeInv, AskedFor, GetOps, SearchOps
    <2>2. \A d \in Callers : d # c => pc'[d] = pc[d]
      BY <1>4 DEF Get, Fetched, FetchedLast, TypeInv, TypeOK
    <2> QED
      BY <2>1, <2>2 DEF RedisInv
  <1>5. ASSUME NEW c \in Callers, Page(c) PROVE RedisInv'
    <2>1. op[c] \notin SearchOps /\ UNCHANGED <<op, useRedis>>
      BY <1>5 DEF Page, TypeInv, AskedFor, SearchOps
    <2>2. \A d \in Callers : d # c => pc'[d] = pc[d]
      BY <1>5 DEF Page, SyncRaises, TypeInv, TypeOK
    <2> QED
      BY <2>1, <2>2 DEF RedisInv
  <1>6. ASSUME NEW k \in Keys, ExpireMemory(k) \/ ExpireRedis(k) PROVE RedisInv'
    BY <1>6 DEF ExpireMemory, ExpireRedis, RedisInv
  <1>7. CASE Warmup \/ RedisStops \/ RedisStarts
    BY <1>7 DEF Warmup, RedisStops, RedisStarts, RedisInv
  <1>8. CASE Restart
    BY <1>8 DEF Restart, RedisInv
  <1>9. CASE UNCHANGED vars
    BY <1>9 DEF vars, RedisInv
  <1> QED
    BY <1>1, <1>2, <1>3, <1>4, <1>5, <1>6, <1>7, <1>8, <1>9 DEF Next, Step

\* With a working database no outage of the data sources, and no lack of Redis at
\* the start of the process, makes a search fail.
THEOREM OutagesAreSurvived == DbFails = FALSE => (Spec => []OnlyLostRedisFailsASearch)
  <1> SUFFICES ASSUME DbFails = FALSE PROVE Spec => []OnlyLostRedisFailsASearch
    OBVIOUS
  <1>1. Init => RedisInv
    BY DEF Init, RedisInv
  <1>2. RedisInv => OnlyLostRedisFailsASearch
    BY DEF RedisInv, OnlyLostRedisFailsASearch
  <1>3. TypeInv /\ RedisInv /\ [Next]_vars => RedisInv'
    BY RedisStep
  <1> QED
    BY <1>1, <1>2, <1>3, TypeInvariant, PTL DEF Spec

-----------------------------------------------------------------------------
(* Stability of cache entries *)

\* A step that changes a live entry of the dictionary.
LiveStep ==
    \A k \in Keys : memory[k] # {} /\ memory'[k] # memory[k] =>
        \/ memory'[k] = {}
        \/ \E c \in Callers : pc[c] \in {"waiting", "arxiv", "crossref"} /\ arg[c] = k[2]

\* Every step exchanges a live entry only as LiveEntryIsStable allows.
LEMMA LiveEntryStep == TypeInv /\ [Next]_vars => LiveStep
  <1> SUFFICES ASSUME TypeInv, [Next]_vars, NEW k \in Keys,
                      memory[k] # {}, memory'[k] # memory[k]
               PROVE  \/ memory'[k] = {}
                      \/ \E c \in Callers : /\ pc[c] \in {"waiting", "arxiv", "crossref"}
                                            /\ arg[c] = k[2]
    BY DEF LiveStep
  <1>1. ASSUME NEW c \in Callers, Search(c) PROVE FALSE
    <2>1. PICK payload : /\ Cached(SearchKey(c)) = {}
                         /\ CacheSet(SearchKey(c), payload)
      BY <1>1 DEF Search
    <2>2. k = SearchKey(c)
      BY <2>1 DEF CacheSet, TypeInv, TypeOK
    <2> QED
      BY <2>1, <2>2 DEF Cached
  <1>2. ASSUME NEW c \in Callers, Gathered(c)
        PROVE  pc[c] \in {"waiting", "arxiv", "crossref"} /\ arg[c] = k[2]
    <2>1. PICK payload : pc[c] = "waiting" /\ CacheSet(SearchKey(c), payload)
      BY <1>2 DEF Gathered
    <2>2. k = SearchKey(c)
      BY <2>1 DEF CacheSet, TypeInv, TypeOK
    <2> QED
      BY <2>1, <2>2 DEF SearchKey
  <1>3. ASSUME NEW c \in Callers, Fetched(c)
        PROVE  pc[c] \in {"waiting", "arxiv", "crossref"} /\ arg[c] = k[2]
    <2>1. pc[c] \in {"arxiv", "crossref"} /\ CacheSet(<<"detail", arg[c]>>, {arg[c]})
      BY <1>3 DEF Fetched
    <2>2. k = <<"detail", arg[c]>>
      BY <2>1 DEF CacheSet, TypeInv, TypeOK
    <2> QED
      BY <2>1, <2>2
  <1>4. ASSUME NEW j \in Keys, ExpireMemory(j) PROVE memory'[k] = {}
    BY <1>4 DEF ExpireMemory, TypeInv, TypeOK
  <1>5. CASE Restart
    BY <1>5 DEF Restart
  <1>6. CASE UNCHANGED memory
    BY <1>6
  <1> QED
    BY <1>1, <1>2, <1>3, <1>4, <1>5, <1>6
       DEF Next, Step, Request, Get, FetchedLast, Page, ExpireRedis, Warmup, RedisStops,
           RedisStarts, vars

\* A live entry is exchanged only by a call that overlapped the one that made it.
THEOREM EntriesAreStable == Spec => LiveEntryIsStable
  <1>1. TypeInv /\ [Next]_vars => [LiveStep]_vars
    BY LiveEntryStep
  <1> QED
    BY <1>1, TypeInvariant, PTL DEF Spec, LiveStep, LiveEntryIsStable

-----------------------------------------------------------------------------
(* Empty answers *)

\* While the index has room for all rows, a search of the table that should find a
\* paper of quality has one among its hits unless the others fill them, and the best
\* TopK of some are not nothing.
LEMMA SomethingIsFound ==
    ASSUME TypeInv, NEW q \in Queries, relevant[q] \cap Quality \cap table # {},
           Cardinality(table) <= IndexLimit, ~ (Cardinality(Junk(q)) >= 2 * TopK),
           NEW H \in LocalHits(q), NEW payload \in Payloads(q, H)
    PROVE  payload # {}
  <1>1. Cardinality({}) = 0 /\ TopK \in Nat /\ TopK > 0
    BY FS_EmptySet, LimitsAssumption
  <1>2. PICK rows \in Top(table, IndexLimit) :
           H \subseteq rows /\ (H = relevant[q] \cap rows \/ Cardinality(H) >= 2 * TopK)
    BY DEF LocalHits
  <1>3. rows = table
    BY <1>2 DEF Top
  <1> DEFINE good == relevant[q] \cap Quality \cap H
  <1>4. good # {}
    <2>1. CASE H = relevant[q] \cap rows
      BY <1>3, <2>1
    <2>2. CASE Cardinality(H) >= 2 * TopK
      <3> SUFFICES ASSUME good = {} PROVE FALSE
        OBVIOUS
      <3>1. H \subseteq Junk(q)
        BY DEF LocalHits, Junk
      <3>2. IsFiniteSet(Junk(q))
        <4>1. Junk(q) \subseteq Papers
          BY DEF Junk, TypeInv, TypeOK
        <4> QED
          BY <4>1, FS_Subset, PapersAssumption
      <3>3. Cardinality(H) <= Cardinality(Junk(q)) /\ Cardinality(H) \in Nat
            /\ Cardinality(Junk(q)) \in Nat
        BY <3>1, <3>2, FS_Subset, FS_CardinalityType
      <3> QED
        BY <1>1, <2>2, <3>3
    <2> QED
      BY <1>2, <2>1, <2>2
  <1>6. payload = good \/ Cardinality(payload) = TopK
    BY DEF Payloads, Top
  <1> QED
    BY <1>1, <1>4, <1>6

\* Why an online search of the API for q may be answered with nothing.
Reason(q) ==
    \/ {} \in Cached(<<"offline", q>>)
    \/ Cardinality(table) > IndexLimit
    \/ Cardinality(Junk(q)) >= 2 * TopK

\* A step that answers an online search of the API with nothing.
EmptyStep ==
    \A c \in Callers :
       /\ pc[c] # "answered" /\ pc'[c] = "answered"
       /\ op[c] = "api_online" /\ answer'[c] = {}
       /\ relevant[arg[c]] \cap Quality \cap table # {}
       => Reason(arg[c])

\* A search that has found nothing is answered only after the second, offline one.
LEMMA NothingReturned ==
    ASSUME TypeInv, NEW c \in Callers, NEW payload, Return(c, payload),
           op[c] = "api_online", answer'[c] = {}, pc'[c] = "answered",
           pc[c] \in {"first", "waiting", "retry", "fallback"}
    PROVE  payload = {} /\ pc[c] = "retry"
  <1>1. payload = {}
    BY DEF Return, TypeInv, TypeOK
  <1>2. pc[c] \in {"first", "waiting"} => pc'[c] = "retry"
    BY <1>1 DEF Return, TypeInv, TypeOK
  <1>3. pc[c] = "fallback" => pc'[c] = "failed"
    BY <1>1 DEF Return, TypeInv, TypeOK
  <1> QED
    BY <1>1, <1>2, <1>3

\* Every step answers with nothing only as EmptyAnswerHasAReason allows.
LEMMA EmptyHolds == TypeInv /\ [Next]_vars => EmptyStep
  <1> SUFFICES ASSUME TypeInv, [Next]_vars, NEW c \in Callers,
                      pc[c] # "answered", pc'[c] = "answered",
                      op[c] = "api_online", answer'[c] = {},
                      relevant[arg[c]] \cap Quality \cap table # {}
               PROVE  Reason(arg[c])
    BY DEF EmptyStep
  <1>a. pc[c] \notin {"detail", "arxiv", "crossref", "openalex", "pages"}
    BY DEF TypeInv, AskedFor, GetOps
  <1>1. ASSUME NEW d \in Callers, Request(d) PROVE FALSE
    BY <1>1 DEF Request, TypeInv, TypeOK
  <1>2. ASSUME NEW d \in Callers, Get(d) \/ Fetched(d) \/ FetchedLast(d) \/ Page(d) PROVE FALSE
    <2>1. d # c
      BY <1>a, <1>2 DEF Get, Fetched, FetchedLast, Page
    <2>2. \E s : pc' = [pc EXCEPT ![d] = s] \/ pc' = pc
      BY <1>2 DEF Get, Fetched, FetchedLast, Page, SyncRaises
    <2> QED
      BY <2>1, <2>2 DEF TypeInv, TypeOK
  <1>3. ASSUME NEW d \in Callers, Gathered(d) PROVE FALSE
    <2>0. pc[d] = "waiting"
      BY <1>3 DEF Gathered
    <2>1. (\E payload : Return(d, payload)) \/ Raise(d)
      BY <1>3 DEF Gathered
    <2>2. d = c
      BY <2>1 DEF Return, Raise, TypeInv, TypeOK
    <2>3. CASE Raise(d)
      BY <2>2, <2>3, RaiseType
    <2>4. CASE \E payload : Return(d, payload)
      BY <2>0, <2>2, <2>4, NothingReturned
    <2> QED
      BY <2>1, <2>3, <2>4
  <1>4. ASSUME NEW d \in Callers, Search(d) PROVE Reason(arg[c])
    <2>0. pc[d] \in {"first", "retry", "fallback"}
      BY <1>4 DEF Search
    <2>1. d = c
      <3>1. (\E payload : Return(d, payload)) \/ Raise(d) \/ pc' = [pc EXCEPT ![d] = "waiting"]
        BY <1>4 DEF Search
      <3> QED
        BY <3>1 DEF Return, Raise, TypeInv, TypeOK
    <2>2. arg[c] \in Queries
      BY <2>0, <2>1 DEF TypeInv, AskedFor
    <2>3. CASE Raise(d)
      BY <2>1, <2>3, RaiseType
    <2>4. CASE pc' = [pc EXCEPT ![d] = "waiting"]
      BY <2>1, <2>4 DEF TypeInv, TypeOK
    <2>5. ASSUME NEW payload, Return(d, payload),
                 payload \in Cached(SearchKey(d))
          PROVE  Reason(arg[c])
      <3>1. payload = {} /\ pc[c] = "retry"
        BY <2>0, <2>1, <2>5, NothingReturned
      <3>2. SearchKey(c) = <<"offline", arg[c]>>
        BY <3>1 DEF SearchKey, Online
      <3> QED
        BY <2>1, <2>5, <3>1, <3>2 DEF Reason
    <2>6. ASSUME NEW hits \in LocalHits(arg[d]), NEW payload \in Payloads(arg[d], hits),
                 Return(d, payload)
          PROVE  Reason(arg[c])
      <3> SUFFICES ASSUME ~ Reason(arg[c]) PROVE FALSE
        OBVIOUS
      <3>0. Cardinality(table) <= IndexLimit /\ ~ (Cardinality(Junk(arg[c])) >= 2 * TopK)
        <4>1. Cardinality(table) \in Nat
          <5>1. table \subseteq Papers
            BY DEF TypeInv, TypeOK
          <5> QED
            BY <5>1, FS_Subset, FS_CardinalityType, PapersAssumption
        <4> QED
          BY <4>1, LimitsAssumption DEF Reason
      <3>1. payload = {}
        BY <2>0, <2>1, <2>6, NothingReturned
      <3>2. payload # {}
        BY <2>1, <2>2, <2>6, <3>0, SomethingIsFound
      <3> QED
        BY <3>1, <3>2
    <2> QED
      BY <1>4, <2>3, <2>4, <2>5, <2>6 DEF Search
  <1>5. ASSUME NEW k \in Keys, ExpireMemory(k) \/ ExpireRedis(k) PROVE FALSE
    BY <1>5 DEF ExpireMemory, ExpireRedis
  <1>6. CASE Warmup \/ RedisStops \/ RedisStarts \/ UNCHANGED vars
    BY <1>6 DEF Warmup, RedisStops, RedisStarts, vars
  <1>7. CASE Restart
    BY <1>7 DEF Restart
  <1> QED
    BY <1>1, <1>2, <1>3, <1>4, <1>5, <1>6, <1>7 DEF Next, Step

\* POST /api/search answers with nothing, while a matching paper of quality is stored,
\* only if an empty offline result is cached, the index does not hold all rows, or rows
\* of no quality fill the local hits.
THEOREM EmptyAnswersHaveAReason == Spec => EmptyAnswerHasAReason
  <1>1. TypeInv /\ [Next]_vars => [EmptyStep]_vars
    BY EmptyHolds
  <1> QED
    BY <1>1, TypeInvariant, PTL DEF Spec, EmptyStep, Reason, EmptyAnswerHasAReason
=============================================================================
