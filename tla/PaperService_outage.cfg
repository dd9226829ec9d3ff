\* Overlapping searches of one query; sources and Redis come and go, the database works.
\* The rows of no quality are enough to fill the local hits.
CONSTANTS
    c1 = c1  c2 = c2  q1 = q1  p1 = p1  p2 = p2  p3 = p3
    Callers = {c1, c2}
    Queries = {q1}
    Papers = {p1, p2, p3}
    Quality = {p1}
    TopK = 1
    IndexLimit = 3
    MaxPages = 1
    Uses = {"api_online"}
    RedisConfigured = TRUE
    DbFails = FALSE
SPECIFICATION FairSpec
INVARIANTS OnlyLostRedisFailsASearch
PROPERTIES LiveEntryIsStable EveryCallEnds EmptyAnswerHasAReason
