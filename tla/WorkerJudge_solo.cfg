\* One request through all rounds; tools fail, the LLM comes and goes.
CONSTANTS
    r1 = r1  s1 = s1  p1 = p1  p2 = p2  none = none
    Requests = {r1}
    Sessions = {s1}
    Papers = {p1, p2}
    Intents = {"paper_search", "paper_detail", "evidence_qa", "concept_qa", "compare", "trend"}
    MaxIterations = 3
    CiteLimit = 1
    MaxPlan = 2
    MaxCrashes = 0
    Faults = {"tool"}
    NoTrace = none
SPECIFICATION FairSpec
CHECK_DEADLOCK FALSE
INVARIANTS AnswerCarriesItsVerdict NothingUngroundedPassesRules LLMRetryRedrafts RuleRetryBroadens
PROPERTIES EveryRequestIsAnswered
