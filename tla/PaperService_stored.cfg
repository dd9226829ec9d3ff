CONSTANTS
    c1 = c1  c2 = c2  q1 = q1  p1 = p1  p2 = p2
    Callers = {c1, c2}
    Queries = {q1}
    Papers = {p1, p2}
    Quality = {p1}
    TopK = 1
    IndexLimit = 1
    MaxPages = 2
    Uses = {"tool", "arxiv_doi", "source_id", "sync"}
    RedisConfigured = TRUE
    DbFails = TRUE
SPECIFICATION Spec
SYMMETRY Symmetric
INVARIANTS ShownPapersAreStored
