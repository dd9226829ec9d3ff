CONSTANTS
    d1 = d1  d2 = d2  t1 = t1  t2 = t2  empty = empty
    Dois = {d1, d2}
    Titles = {t1, t2}
    Empty = empty
    Sources = {"arxiv", "openalex", "crossref"}
    MaxPapers = 3
SPECIFICATION Spec
SYMMETRY Symmetric
CHECK_DEADLOCK FALSE
INVARIANTS
    ShownIsSaved
    EveryHitIsRepresented
