---------------------------- MODULE WorkerJudge ----------------------------
(***************************************************************************)
(* The Worker-Judge loop of KnowledgePilot: KnowledgePilotAgent.run and     *)
(* _run_worker_llm (app/agent/engine.py), the rule handlers of WorkerAgent  *)
(* (app/agent/worker.py), JudgeAgent (app/agent/judge.py), ToolRegistry.call*)
(* (app/tools/registry.py), and the two audit tables and the session memory *)
(* they write.                                                              *)
(*                                                                          *)
(* One asyncio process serves several requests.  A coroutine gives up the   *)
(* CPU only at an await that really waits (the LLM server, a tool), so one   *)
(* action is the code between two such awaits; the answer of the awaited    *)
(* service is chosen by the action.  Texts are abstracted: a paper stands   *)
(* for its DOI, an answer for the features JudgeAgent looks at.             *)
(***************************************************************************)
EXTENDS Integers, Sequences, FiniteSets

CONSTANTS
    Requests,       \* POST /api/chat calls; a request is named by its trace_id
    Sessions,       \* session_id values
    Papers,         \* papers a search can return
    Intents,        \* intents of the questions asked, a subset of AllIntents
    MaxIterations,  \* KnowledgePilotAgent.MAX_ITERATIONS
    CiteLimit,      \* the slice [:5] taken of a result for evidence or citations
    MaxPlan,        \* bound: tool calls in one LLM plan
    MaxCrashes,     \* bound: kills of the process
    Faults,         \* what may go wrong, a subset of AllFaults
    NoTrace         \* "no previous run" in the session memory

AllIntents == {"paper_search", "paper_detail", "evidence_qa",
               "concept_qa", "compare", "trend"}
LLM_INTENTS == {"concept_qa", "evidence_qa", "compare"}

\* "tool": a tool raises; "db": a write of an audit row raises;
\* "llm": the LLM sends JSON of a shape the code does not guard against.
AllFaults == {"tool", "db", "llm"}

ASSUME IntentsAssumption == Intents \subseteq AllIntents
ASSUME MaxIterationsAssumption == MaxIterations \in Nat \ {0}
ASSUME LimitsAssumption == CiteLimit \in Nat /\ MaxPlan \in Nat /\ MaxCrashes \in Nat
ASSUME FaultsAssumption == Faults \subseteq AllFaults
ASSUME NoTraceAssumption == NoTrace \notin Requests

VARIABLES
    \* locals of the coroutine run(), by request
    pc, session, intent, ready, iteration, feedback, todo, gathered, draft, verdict,
    retrieved,      \* ghost: papers the request's recorded tool calls returned
    \* shared
    memory,         \* KnowledgePilotAgent._session_memory: the run remembered
    runs,           \* table agent_runs
    toolRows,       \* table tool_calls
    crashes

vars == <<pc, session, intent, ready, iteration, feedback, todo, gathered, draft,
          verdict, retrieved, memory, runs, toolRows, crashes>>

Tools == {"search_papers", "get_paper", "ensure_fulltext"}
PlanItems == Tools \cup {"unknown"}
Kinds == {"text", "short", "refusal"}
Steps == {"idle", "probe", "plan", "tool", "gen", "rule", "rule2", "rulegen",
          "judge", "finish", "done", "failed"}

(***************************************************************************)
(* A WorkerDraft as the Judge sees it: whether the answer has at least ten  *)
(* characters, whether it carries a refusal marker, whether it mentions a   *)
(* word of the question, its evidence and its citations.  The marker counts *)
(* only without evidence, so one that a title or a "DOI: not found" brings  *)
(* into the lists of _search, _detail and _trend is left out.  round and    *)
(* path are ghosts: the iteration that wrote the draft, and which worker.   *)
(* broadened says that the search words were rewritten for the retry.       *)
(***************************************************************************)
Draft == [round : 0..MaxIterations, path : {"none", "llm", "rule"},
          kind : Kinds, onTopic : BOOLEAN, broadened : BOOLEAN,
          evidence : SUBSET Papers, cited : SUBSET Papers]
NoDraft == [round |-> 0, path |-> "none", kind |-> "short", onTopic |-> FALSE,
            broadened |-> FALSE, evidence |-> {}, cited |-> {}]

\* A JudgeVerdict; "of" is a ghost: the round of the draft it is about.
Verdict == [result : {"none", "pass", "reject"}, by : {"none", "llm", "rules"},
            of : 0..MaxIterations]
NoVerdict == [result |-> "none", by |-> "none", of |-> 0]

RunRow == [trace : Requests, session : Sessions]
ToolRow == [trace : Requests, tool : Tools, status : {"success", "error"}]

Init ==
    /\ pc = [r \in Requests |-> "idle"]
    /\ session \in [Requests -> Sessions]
    /\ intent \in [Requests -> Intents]
    /\ ready = [r \in Requests |-> FALSE]
    /\ iteration = [r \in Requests |-> 0]
    /\ feedback = [r \in Requests |-> FALSE]
    /\ todo = [r \in Requests |-> <<>>]
    /\ gathered = [r \in Requests |-> {}]
    /\ draft = [r \in Requests |-> NoDraft]
    /\ verdict = [r \in Requests |-> NoVerdict]
    /\ retrieved = [r \in Requests |-> {}]
    /\ memory = [s \in Sessions |-> NoTrace]
    /\ runs = <<>>
    /\ toolRows = {}
    /\ crashes = 0

-----------------------------------------------------------------------------
asked == <<session, intent>>

UseLLM(r) == intent[r] \in LLM_INTENTS /\ ready[r]

\* The top n entries of a ranked result: which ones they are is the ranking's.
Slices(S, n) ==
    {T \in SUBSET S : IF Cardinality(S) <= n THEN T = S ELSE Cardinality(T) = n}

\* save_tool_call: the rows a call that came back (or raised) leaves behind.
Recorded(r, tool, status) ==
    toolRows' = toolRows \cup {[trace |-> r, tool |-> tool, status |-> status]}

(***************************************************************************)
(* ToolRegistry.call.  The "success" row is written inside the try: if that *)
(* write raises, the result is dropped and an "error" row is tried, and the *)
(* caller sees an exception as if the tool itself had failed.               *)
(***************************************************************************)
CallSucceeds_Unrecorded(r, tool, result) ==     \* mutant: the row is not written
    /\ UNCHANGED toolRows
    /\ retrieved' = [retrieved EXCEPT ![r] = @ \cup result]

CallSucceeds(r, tool, result) ==
    /\ Recorded(r, tool, "success")
    /\ retrieved' = [retrieved EXCEPT ![r] = @ \cup result]

CallRaises(r, tool) ==
    /\ \/ "tool" \in Faults /\ Recorded(r, tool, "error")
       \/ "db" \in Faults /\ Recorded(r, tool, "error")
       \/ "db" \in Faults /\ UNCHANGED toolRows
    /\ UNCHANGED retrieved

\* What a tool can return, as the papers in it: search_papers a ranked list,
\* get_paper one paper or None, ensure_fulltext a status dictionary.
AtMostOne == {{}} \cup {{p} : p \in Papers}
Results(tool) ==
    CASE tool = "search_papers" -> SUBSET Papers
      [] tool = "get_paper" -> AtMostOne
      [] tool = "ensure_fulltext" -> {{}}

\* _normalize_evidence: only a list, or a (list, cache_hit) pair, is evidence.
NormalizeEvidence(tool, result) == IF tool = "search_papers" THEN result ELSE {}

\* A draft that this iteration of r writes.
NewDraft(r, path, kind, onTopic, evidence, cited) ==
    [round |-> iteration[r], path |-> path, kind |-> kind, onTopic |-> onTopic,
     broadened |-> path = "rule" /\ iteration[r] > 1 /\ feedback[r],
     evidence |-> evidence, cited |-> cited]

\* The worker returns a draft d and run() hands it to the Judge.
Submit(r, d) ==
    /\ draft' = [draft EXCEPT ![r] = d]
    /\ pc' = [pc EXCEPT ![r] = "judge"]

\* The exception leaves run(): the API answers 500 and nothing is saved.
Fail(r) == pc' = [pc EXCEPT ![r] = "failed"]

-----------------------------------------------------------------------------
\* run(), up to the await of llm_service.available().  The previous run of the
\* session is read here too, but only the trace shows it.
Ask(r) ==
    /\ pc[r] = "idle"
    /\ pc' = [pc EXCEPT ![r] = "probe"]
    /\ UNCHANGED <<asked, ready, iteration, feedback, todo, gathered, draft, verdict,
                   retrieved, memory, runs, toolRows, crashes>>

LoopHead_KeepsDraft(r, isReady) ==     \* mutant: no worker runs once a draft exists
    IF draft[r] # NoDraft THEN "judge"
    ELSE IF intent[r] \in LLM_INTENTS /\ isReady THEN "plan" ELSE "rule"

\* The head of the loop.  The LLM worker, when it is used, always overwrites
\* draft; the rule worker runs only while draft is None.
LoopHead(r, isReady) ==
    IF intent[r] \in LLM_INTENTS /\ isReady THEN "plan"
    ELSE IF draft[r] = NoDraft THEN "rule" ELSE "judge"

\* llm_service.available() answers, once for the whole request.
Probe(r) ==
    /\ pc[r] = "probe"
    /\ \E b \in BOOLEAN :
          /\ ready' = [ready EXCEPT ![r] = b]
          /\ pc' = [pc EXCEPT ![r] = LoopHead(r, b)]
    /\ iteration' = [iteration EXCEPT ![r] = 1]
    /\ UNCHANGED <<asked, feedback, todo, gathered, draft, verdict,
                   retrieved, memory, runs, toolRows, crashes>>

-----------------------------------------------------------------------------
(* The LLM worker, _run_worker_llm *)

FallBack_Raises(r) ==     \* mutant: None is not handled
    UNCHANGED draft /\ Fail(r)

\* It returns None, and run() falls back to the rule worker.
FallBack(r) ==
    /\ draft' = [draft EXCEPT ![r] = NoDraft]
    /\ pc' = [pc EXCEPT ![r] = "rule"]

Plan(r) ==
    /\ pc[r] = "plan"
    /\ \/ /\ FallBack(r)              \* LLM down, no JSON, or no tool call in it
          /\ UNCHANGED <<todo, gathered>>
       \/ /\ \E n \in 1..MaxPlan : \E plan \in [1..n -> PlanItems] :
                todo' = [todo EXCEPT ![r] = plan]
          /\ gathered' = [gathered EXCEPT ![r] = {}]
          /\ pc' = [pc EXCEPT ![r] = "tool"]
          /\ UNCHANGED draft
       \/ /\ "llm" \in Faults         \* the plan is no object, or its tool_calls no list
          /\ Fail(r)
          /\ UNCHANGED <<todo, gathered, draft>>
    /\ UNCHANGED <<asked, ready, iteration, feedback, verdict,
                   retrieved, memory, runs, toolRows, crashes>>

\* One turn of the loop over tool_calls; an exception is logged and skipped.
CallTool(r) ==
    /\ pc[r] = "tool" /\ todo[r] # <<>>
    /\ LET tool == Head(todo[r]) IN
          \/ /\ tool \notin Tools
             /\ UNCHANGED <<gathered, retrieved, toolRows>>
          \/ /\ tool \in Tools
             /\ \E result \in Results(tool) :
                   /\ CallSucceeds(r, tool, result)
                   /\ gathered' = [gathered EXCEPT
                                     ![r] = @ \cup NormalizeEvidence(tool, result)]
          \/ /\ tool \in Tools
             /\ CallRaises(r, tool)
             /\ UNCHANGED gathered
    /\ todo' = [todo EXCEPT ![r] = Tail(@)]
    /\ UNCHANGED <<pc, asked, ready, iteration, feedback, draft, verdict,
                   memory, runs, crashes>>

\* The next item is not an object: this is raised outside the try, after the
\* items before it were called.
ItemRaises(r) ==
    /\ pc[r] = "tool" /\ todo[r] # <<>> /\ "llm" \in Faults
    /\ Fail(r)
    /\ UNCHANGED <<asked, ready, iteration, feedback, todo, gathered, draft, verdict,
                   retrieved, memory, runs, toolRows, crashes>>

\* No evidence: a refusal, without asking the LLM.
Observe(r) ==
    /\ pc[r] = "tool" /\ todo[r] = <<>>
    /\ IF gathered[r] = {}
         THEN \E onTopic \in BOOLEAN :
                 Submit(r, NewDraft(r, "llm", "refusal", onTopic, {}, {}))
         ELSE pc' = [pc EXCEPT ![r] = "gen"] /\ UNCHANGED draft
    /\ UNCHANGED <<asked, ready, iteration, feedback, todo, gathered, verdict,
                   retrieved, memory, runs, toolRows, crashes>>

Generate(r) ==
    /\ pc[r] = "gen"
    /\ \/ FallBack(r)
       \/ \E kind \in Kinds, onTopic \in BOOLEAN,
             cited \in Slices(gathered[r], CiteLimit) :
             Submit(r, NewDraft(r, "llm", kind, onTopic, gathered[r], cited))
    /\ UNCHANGED <<asked, ready, iteration, feedback, todo, gathered, verdict,
                   retrieved, memory, runs, toolRows, crashes>>

-----------------------------------------------------------------------------
(* The rule worker, run_rule: one handler per intent.  Here an exception of a
   tool is not caught.  When an LLM answers during a handler its text is used. *)

\* _search and _trend: list what was found, or refuse.
RuleList(r) ==
    /\ pc[r] = "rule" /\ intent[r] \in {"paper_search", "trend"}
    /\ \E result \in Results("search_papers"), onTopic \in BOOLEAN :
          /\ CallSucceeds(r, "search_papers", result)
          /\ IF result = {}
               THEN Submit(r, NewDraft(r, "rule", "refusal", onTopic, {}, {}))
               ELSE \E top \in Slices(result, CiteLimit) :
                       Submit(r, NewDraft(r, "rule", "text", onTopic, top, top))
    /\ UNCHANGED <<asked, ready, iteration, feedback, todo, gathered, verdict,
                   memory, runs, crashes>>

\* _detail: by identifier if the question has one, else the best hit.
RuleDetail(r) ==
    /\ pc[r] = "rule" /\ intent[r] = "paper_detail"
    /\ \E tool \in {"search_papers", "get_paper"}, onTopic \in BOOLEAN :
       \E result \in Results(tool) :
          /\ CallSucceeds(r, tool, result)
          /\ IF result = {}
               THEN Submit(r, NewDraft(r, "rule", "refusal", onTopic, {}, {}))
               ELSE \E best \in result :
                       Submit(r, NewDraft(r, "rule", "text", onTopic, {best}, {best}))
    /\ UNCHANGED <<asked, ready, iteration, feedback, todo, gathered, verdict,
                   memory, runs, crashes>>

\* _qa: refuse without a hit; a deep question fetches the full text first.
RuleQA(r) ==
    /\ pc[r] = "rule" /\ intent[r] = "evidence_qa"
    /\ \E result \in Results("search_papers") :
          /\ CallSucceeds(r, "search_papers", result)
          /\ IF result = {}
               THEN /\ \E onTopic \in BOOLEAN :
                          Submit(r, NewDraft(r, "rule", "refusal", onTopic, {}, {}))
                    /\ UNCHANGED gathered
               ELSE /\ \E best \in result :
                          gathered' = [gathered EXCEPT ![r] = {best}]
                    /\ \E next \in {"rule2", "rulegen"} :
                          pc' = [pc EXCEPT ![r] = next]
                    /\ UNCHANGED draft
    /\ UNCHANGED <<asked, ready, iteration, feedback, todo, verdict,
                   memory, runs, crashes>>

\* _concept_qa: the papers found only support the explanation.
RuleConcept(r) ==
    /\ pc[r] = "rule" /\ intent[r] = "concept_qa"
    /\ \E result \in Results("search_papers") :
          /\ CallSucceeds(r, "search_papers", result)
          /\ \E top \in Slices(result, CiteLimit) :
                gathered' = [gathered EXCEPT ![r] = top]
    /\ pc' = [pc EXCEPT ![r] = "rulegen"]
    /\ UNCHANGED <<asked, ready, iteration, feedback, todo, draft, verdict,
                   memory, runs, crashes>>

\* _compare: ask for two titles, or search the first one (top_k is 1).
RuleCompare(r) ==
    /\ pc[r] = "rule" /\ intent[r] = "compare"
    /\ \/ /\ \E onTopic \in BOOLEAN :
                Submit(r, NewDraft(r, "rule", "text", onTopic, {}, {}))
          /\ UNCHANGED <<gathered, retrieved, toolRows>>
       \/ /\ \E result \in AtMostOne :
                /\ CallSucceeds(r, "search_papers", result)
                /\ gathered' = [gathered EXCEPT ![r] = result]
          /\ pc' = [pc EXCEPT ![r] = "rule2"]
          /\ UNCHANGED draft
    /\ UNCHANGED <<asked, ready, iteration, feedback, todo, verdict,
                   memory, runs, crashes>>

\* The second search of _compare; the same paper may be found twice.
RuleCompareSecond(r) ==
    /\ pc[r] = "rule2" /\ intent[r] = "compare"
    /\ \E result \in AtMostOne :
          /\ CallSucceeds(r, "search_papers", result)
          /\ gathered' = [gathered EXCEPT ![r] = @ \cup result]
          /\ IF gathered[r] = {} \/ result = {}
               THEN \E onTopic \in BOOLEAN :
                       Submit(r, NewDraft(r, "rule", "refusal", onTopic,
                                          gathered[r] \cup result, {}))
               ELSE pc' = [pc EXCEPT ![r] = "rulegen"] /\ UNCHANGED draft
    /\ UNCHANGED <<asked, ready, iteration, feedback, todo, verdict,
                   memory, runs, crashes>>

\* _qa on a deep question: ensure_fulltext, then chunks of the same paper.
RuleFullText(r) ==
    /\ pc[r] = "rule2" /\ intent[r] = "evidence_qa"
    /\ CallSucceeds(r, "ensure_fulltext", {})
    /\ pc' = [pc EXCEPT ![r] = "rulegen"]
    /\ UNCHANGED <<asked, ready, iteration, feedback, todo, gathered, draft, verdict,
                   memory, runs, crashes>>

\* The answers generate() or the built-in summary can give.  _qa wraps the text
\* in a long frame; _concept_qa appends its references, if it has any.
RuleKinds(r) ==
    IF intent[r] # "compare" /\ gathered[r] # {} THEN {"text", "refusal"} ELSE Kinds

RuleGenerate(r) ==
    /\ pc[r] = "rulegen"
    /\ \E kind \in RuleKinds(r), onTopic \in BOOLEAN :
          Submit(r, NewDraft(r, "rule", kind, onTopic, gathered[r], gathered[r]))
    /\ UNCHANGED <<asked, ready, iteration, feedback, todo, gathered, verdict,
                   retrieved, memory, runs, toolRows, crashes>>

RuleRaises(r) ==
    /\ pc[r] \in {"rule", "rule2"}
    /\ \E tool \in Tools : CallRaises(r, tool)
    /\ Fail(r)
    /\ UNCHANGED <<asked, ready, iteration, feedback, todo, gathered, draft, verdict,
                   memory, runs, crashes>>

-----------------------------------------------------------------------------
(* The Judge *)

\* _evaluate_with_rules, in the order of its four checks.
Fabricated(d) == ~ (d.cited \subseteq d.evidence)
HasEvidence(d) == d.cited # {} \/ d.evidence # {}
RulesAccept_NoRefusalCheck(d) ==     \* mutant: check 3 is missing
    d.kind # "short" /\ ~ Fabricated(d) /\ (HasEvidence(d) => d.onTopic)

RulesAccept(d) ==
    /\ d.kind # "short"
    /\ ~ Fabricated(d)
    /\ HasEvidence(d) \/ d.kind = "refusal"
    /\ HasEvidence(d) => d.onTopic

\* The rounds are range(1, MAX_ITERATIONS + 1).
LastRound_Early(r) == iteration[r] + 1 = MaxIterations     \* mutant: off by one
LastRound(r) == iteration[r] = MaxIterations

NextRound(r) == iteration[r] + 1

\* The feedback handed to the next round: is there any?
NextFeedback_Old(r, hasFeedback) == feedback[r]     \* mutant: not assigned
NextFeedback(r, hasFeedback) == hasFeedback

\* The verdict's effect on run(): leave the loop, or go round once more.
Decide(r, result, by, hasFeedback) ==
    /\ verdict' = [verdict EXCEPT ![r] =
                     [result |-> result, by |-> by, of |-> draft[r].round]]
    /\ IF result = "pass"
         THEN UNCHANGED feedback
         ELSE feedback' = [feedback EXCEPT ![r] = NextFeedback(r, hasFeedback)]
    /\ IF result = "pass" \/ LastRound(r)
         THEN pc' = [pc EXCEPT ![r] = "finish"] /\ UNCHANGED iteration
         ELSE /\ iteration' = [iteration EXCEPT ![r] = NextRound(r)]
              /\ pc' = [pc EXCEPT ![r] = LoopHead(r, ready[r])]

\* A rejection by the rules always says why; one by the LLM may not.
Judge(r) ==
    /\ pc[r] = "judge"
    /\ \/ /\ intent[r] \in LLM_INTENTS
          /\ \E result \in {"pass", "reject"}, hasFeedback \in BOOLEAN :
                Decide(r, result, "llm", hasFeedback)
       \/ IF RulesAccept(draft[r])
            THEN Decide(r, "pass", "rules", FALSE)
            ELSE Decide(r, "reject", "rules", TRUE)
    /\ UNCHANGED <<asked, ready, todo, gathered, draft, retrieved,
                   memory, runs, toolRows, crashes>>

\* JSON that is not an object, or a confidence that is not a number.
JudgeRaises(r) ==
    /\ pc[r] = "judge" /\ intent[r] \in LLM_INTENTS /\ "llm" \in Faults
    /\ Fail(r)
    /\ UNCHANGED <<asked, ready, iteration, feedback, todo, gathered, draft, verdict,
                   retrieved, memory, runs, toolRows, crashes>>

-----------------------------------------------------------------------------
SaveRun(r) == runs' = Append(runs, [trace |-> r, session |-> session[r]])

\* save_run raises: neither row nor memory.
SaveFails_MemoryKept(r) ==     \* mutant: the memory is set before save_run
    /\ "db" \in Faults
    /\ Fail(r)
    /\ memory' = [memory EXCEPT ![session[r]] = r]
    /\ UNCHANGED runs
SaveFails_Swallowed(r) ==     \* mutant: the exception is swallowed
    /\ "db" \in Faults
    /\ pc' = [pc EXCEPT ![r] = "done"]
    /\ memory' = [memory EXCEPT ![session[r]] = r]
    /\ UNCHANGED runs
SaveFails(r) == "db" \in Faults /\ Fail(r) /\ UNCHANGED <<runs, memory>>

\* save_run, then the session memory, then the response: no await in between.
Finish(r) ==
    /\ pc[r] = "finish"
    /\ \/ /\ SaveRun(r)
          /\ memory' = [memory EXCEPT ![session[r]] = r]
          /\ pc' = [pc EXCEPT ![r] = "done"]
       \/ SaveFails(r)
    /\ UNCHANGED <<asked, ready, iteration, feedback, todo, gathered, draft, verdict,
                   retrieved, toolRows, crashes>>

\* The process is killed and started again: the tables survive, the session
\* memory and the coroutines do not.  A kill can fall right after a commit.
Crash ==
    /\ crashes < MaxCrashes
    /\ crashes' = crashes + 1
    /\ \/ UNCHANGED runs
       \/ \E r \in Requests : pc[r] = "finish" /\ SaveRun(r)
    /\ memory' = [s \in Sessions |-> NoTrace]
    /\ pc' = [r \in Requests |-> IF pc[r] \in {"idle", "done"} THEN pc[r] ELSE "failed"]
    /\ UNCHANGED <<asked, ready, iteration, feedback, todo, gathered, draft, verdict,
                   retrieved, toolRows>>

RuleStep(r) ==
    \/ RuleList(r) \/ RuleDetail(r) \/ RuleQA(r) \/ RuleConcept(r) \/ RuleCompare(r)
    \/ RuleCompareSecond(r) \/ RuleFullText(r) \/ RuleGenerate(r) \/ RuleRaises(r)

Step(r) ==
    \/ Probe(r) \/ Plan(r) \/ CallTool(r) \/ ItemRaises(r) \/ Observe(r) \/ Generate(r)
    \/ RuleStep(r) \/ Judge(r) \/ JudgeRaises(r) \/ Finish(r)

Next == (\E r \in Requests : Ask(r) \/ Step(r)) \/ Crash

Spec == Init /\ [][Next]_vars

\* Every await ends: httpx and the tools have timeouts, the rest is local.
FairSpec == Spec /\ \A r \in Requests : WF_vars(Step(r))

-----------------------------------------------------------------------------
(* Correctness *)

TypeOK ==
    /\ pc \in [Requests -> Steps]
    /\ session \in [Requests -> Sessions]
    /\ intent \in [Requests -> Intents]
    /\ ready \in [Requests -> BOOLEAN]
    /\ iteration \in [Requests -> 0..MaxIterations]
    /\ feedback \in [Requests -> BOOLEAN]
    /\ todo \in [Requests -> Seq(PlanItems)]
    /\ gathered \in [Requests -> SUBSET Papers]
    /\ draft \in [Requests -> Draft]
    /\ verdict \in [Requests -> Verdict]
    /\ retrieved \in [Requests -> SUBSET Papers]
    /\ memory \in [Sessions -> Requests \cup {NoTrace}]
    /\ runs \in Seq(RunRow)
    /\ toolRows \subseteq ToolRow
    /\ crashes \in 0..MaxCrashes

\* The judge_verdict sent to the user was given on the very draft that is sent,
\* by the last iteration counted in the response; and a request gives up with a
\* rejection only when all MAX_ITERATIONS rounds are used (engine.py, run).
AnswerCarriesItsVerdict ==
    \A r \in Requests : pc[r] \in {"finish", "done"} =>
        /\ draft[r].round \in 1..iteration[r]
        /\ verdict[r].of = draft[r].round
        /\ verdict[r].result = "pass" \/ iteration[r] = MaxIterations

\* A paper used as evidence or cited was returned to this very request by a tool
\* call that the audit table records as a success, even when tools or audit
\* writes fail half way (registry.py, call; engine.py and worker.py handlers).
EvidenceIsAudited ==
    \A r \in Requests :
        /\ draft[r].cited \subseteq draft[r].evidence
        /\ draft[r].evidence \subseteq retrieved[r]
        /\ draft[r].evidence # {} =>
              \E row \in toolRows : row.trace = r /\ row.status = "success"

\* An answer the rules let through is backed by evidence or refuses openly, and
\* questions outside LLM_INTENTS are never let through by anything else
\* (judge.py, evaluate and _evaluate_with_rules).
NothingUngroundedPassesRules ==
    \A r \in Requests : pc[r] = "done" /\ verdict[r].result = "pass" =>
        /\ verdict[r].by = "rules" =>
              draft[r].kind = "refusal" \/ draft[r].evidence # {}
        /\ intent[r] \notin LLM_INTENTS => verdict[r].by = "rules"

\* What the session memory says is the newest row agent_runs has for that
\* session, whatever requests of the session overlap, fail to be saved, or are
\* lost with the process (engine.py, save_run before _session_memory).
MemoryIsLatestRun ==
    \A s \in Sessions : memory[s] # NoTrace =>
        \E i \in 1..Len(runs) :
            /\ runs[i] = [trace |-> memory[s], session |-> s]
            /\ \A j \in (i + 1)..Len(runs) : runs[j].session # s

\* agent_runs has one row for each answered request and none for a request that
\* was not judged to the end; no request has two (engine.py, save_run).
OneRowPerAnswer ==
    /\ \A r \in Requests : pc[r] = "done" =>
          \E i \in 1..Len(runs) : runs[i] = [trace |-> r, session |-> session[r]]
    /\ \A i, j \in 1..Len(runs) : runs[i].trace = runs[j].trace => i = j
    /\ \A i \in 1..Len(runs) : verdict[runs[i].trace].result # "none"

\* With the LLM worker every rejected draft is replaced: the n-th verdict is on
\* a draft of round n (engine.py, the loop of run).
LLMRetryRedrafts ==
    \A r \in Requests : pc[r] = "judge" /\ UseLLM(r) => draft[r].round = iteration[r]

\* A rule draft written after the rules rejected its predecessor searched with
\* broadened words: the feedback survives the failed LLM attempt in between
\* (engine.py, feedback; worker.py, run_rule).
RuleRetryBroadens ==
    \A r \in Requests :
        pc[r] = "judge" /\ draft[r].path = "rule" /\ draft[r].round > 1
            /\ verdict[r].by = "rules" /\ draft[r].round = iteration[r]
        => draft[r].broadened

\* An LLM that is down, comes and goes, sends no JSON or rejects every draft never
\* costs the user an answer: with working audit writes every request is answered,
\* or a tool has raised and tool_calls says so (engine.py, the fallback on None and
\* the bounded loop; registry.py, the error row).
EveryRequestIsAnswered ==
    \A r \in Requests : pc[r] = "probe" ~>
        \/ pc[r] = "done"
        \/ pc[r] = "failed" /\ \E row \in toolRows : row.trace = r /\ row.status = "error"
=============================================================================
