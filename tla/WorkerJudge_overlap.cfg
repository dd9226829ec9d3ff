\* Requests that overlap, in one session or in two; writes fail, the LLM sends
\* malformed answers, the process is killed.
CONSTANTS
    r1 = r1  r2 = r2  s1 = s1  s2 = s2  p1 = p1  none = none
    Requests = {r1, r2}
    Sessions = {s1, s2}
    Papers = {p1}
    Intents = {"paper_search", "evidence_qa"}
    MaxIterations = 1
    CiteLimit = 1
    MaxPlan = 1
    MaxCrashes = 1
    Faults = {"db", "llm"}
    NoTrace = none
SPECIFICATION Spec
SYMMETRY Symmetric
CHECK_DEADLOCK FALSE
INVARIANTS MemoryIsLatestRun OneRowPerAnswer EvidenceIsAudited
