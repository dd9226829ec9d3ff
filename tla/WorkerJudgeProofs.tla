------------------------- MODULE WorkerJudgeProofs -------------------------
(***************************************************************************)
(* TLAPS proofs about WorkerJudge, for every number of requests, sessions,  *)
(* papers and rounds, every set of faults and every number of crashes.      *)
(***************************************************************************)
EXTENDS WorkerJudge, TLAPS

-----------------------------------------------------------------------------
(* Facts about the operators the actions are built from *)

\* What a tool returns is a set of papers.
LEMMA ResultsType ==
    ASSUME NEW tool \in Tools, NEW result \in Results(tool)
    PROVE  result \in SUBSET Papers
BY DEF Tools, Results, AtMostOne

\* A slice of a result is a part of it.
LEMMA SlicesType ==
    ASSUME NEW S, NEW n, NEW T \in Slices(S, n)
    PROVE  T \subseteq S
BY DEF Slices

\* A draft built from well-typed parts is a WorkerDraft of this round.
LEMMA NewDraftType ==
    ASSUME TypeOK, NEW r \in Requests, NEW path \in {"llm", "rule"},
           NEW kind \in Kinds, NEW onTopic \in BOOLEAN,
           NEW evidence \in SUBSET Papers, NEW cited \in SUBSET Papers
    PROVE  /\ NewDraft(r, path, kind, onTopic, evidence, cited) \in Draft
           /\ NewDraft(r, path, kind, onTopic, evidence, cited).round = iteration[r]
           /\ NewDraft(r, path, kind, onTopic, evidence, cited).evidence = evidence
           /\ NewDraft(r, path, kind, onTopic, evidence, cited).cited = cited
BY DEF TypeOK, NewDraft, Draft

\* The empty draft is a draft.
LEMMA NoDraftType == NoDraft \in Draft /\ NoDraft.round = 0
                     /\ NoDraft.evidence = {} /\ NoDraft.cited = {}
BY MaxIterationsAssumption DEF NoDraft, Draft, Kinds

\* The head of the loop is a step of run().
LEMMA LoopHeadType ==
    ASSUME NEW r, NEW b
    PROVE  /\ LoopHead(r, b) \in {"plan", "rule", "judge"}
           /\ LoopHead(r, b) \in Steps
BY DEF LoopHead, Steps

\* A verdict closes the request or opens the next round.
LEMMA DecideType ==
    ASSUME TypeOK, NEW r \in Requests, NEW result \in {"pass", "reject"},
           NEW by \in {"llm", "rules"}, NEW f \in BOOLEAN, Decide(r, result, by, f)
    PROVE  /\ verdict' \in [Requests -> Verdict]
           /\ feedback' \in [Requests -> BOOLEAN]
           /\ iteration' \in [Requests -> 0..MaxIterations]
           /\ pc' \in [Requests -> Steps]
<1> USE MaxIterationsAssumption DEF TypeOK
<1>1. draft[r].round \in 0..MaxIterations
  BY DEF Draft
<1>2. verdict' \in [Requests -> Verdict]
  BY <1>1 DEF Decide, Verdict
<1>3. feedback' \in [Requests -> BOOLEAN]
  BY DEF Decide, NextFeedback
<1>4. iteration' \in [Requests -> 0..MaxIterations]
  <2>1. CASE result = "pass" \/ LastRound(r)
    BY <2>1 DEF Decide
  <2>2. CASE ~ (result = "pass" \/ LastRound(r))
    <3>1. iteration[r] + 1 \in 0..MaxIterations
      BY <2>2 DEF LastRound
    <3> QED BY <2>2, <3>1 DEF Decide, NextRound
  <2> QED BY <2>1, <2>2
<1>5. pc' \in [Requests -> Steps]
  <2>1. LoopHead(r, ready[r]) \in Steps /\ "finish" \in Steps
    BY LoopHeadType DEF Steps
  <2> QED BY <2>1 DEF Decide
<1> QED BY <1>2, <1>3, <1>4, <1>5

\* Handing over a draft keeps drafts and control points well typed.
LEMMA SubmitType ==
    ASSUME TypeOK, NEW r \in Requests, NEW d \in Draft, Submit(r, d)
    PROVE  draft' \in [Requests -> Draft] /\ pc' \in [Requests -> Steps]
BY DEF TypeOK, Submit, Steps

\* A successful tool call keeps the types of the audit table and the ghost.
LEMMA CallSucceedsType ==
    ASSUME TypeOK, NEW r \in Requests, NEW tool \in Tools,
           NEW result \in SUBSET Papers, CallSucceeds(r, tool, result)
    PROVE  retrieved' \in [Requests -> SUBSET Papers] /\ toolRows' \subseteq ToolRow
BY DEF TypeOK, CallSucceeds, Recorded, ToolRow

\* So does a tool call that raises.
LEMMA CallRaisesType ==
    ASSUME TypeOK, NEW r \in Requests, NEW tool \in Tools, CallRaises(r, tool)
    PROVE  retrieved' \in [Requests -> SUBSET Papers] /\ toolRows' \subseteq ToolRow
BY DEF TypeOK, CallRaises, Recorded, ToolRow

-----------------------------------------------------------------------------
(* Type correctness *)

\* The initial states have the types.
LEMMA TypeInit == Init => TypeOK
BY NoDraftType, MaxIterationsAssumption, LimitsAssumption
   DEF Init, TypeOK, Steps, Verdict, NoVerdict

\* One step per action of Next.
LEMMA TypeStep == TypeOK /\ [Next]_vars => TypeOK'
<1> SUFFICES ASSUME TypeOK, [Next]_vars PROVE TypeOK'
  OBVIOUS
<1> USE DEF TypeOK, asked
<1>1. CASE UNCHANGED vars
  BY <1>1 DEF vars
<1>2. ASSUME NEW r \in Requests, Ask(r) PROVE TypeOK'
  BY <1>2 DEF Ask, Steps
<1>3. ASSUME NEW r \in Requests, Probe(r) PROVE TypeOK'
  <2>1. PICK b \in BOOLEAN : /\ ready' = [ready EXCEPT ![r] = b]
                             /\ pc' = [pc EXCEPT ![r] = LoopHead(r, b)]
    BY <1>3 DEF Probe
  <2>2. LoopHead(r, b) \in Steps /\ 1 \in 0..MaxIterations
    BY LoopHeadType, MaxIterationsAssumption
  <2> QED BY <1>3, <2>1, <2>2 DEF Probe
<1>4. ASSUME NEW r \in Requests, Plan(r) PROVE TypeOK'
  <2>1. CASE FallBack(r) /\ UNCHANGED <<todo, gathered>>
    BY <1>4, <2>1, NoDraftType DEF Plan, FallBack, Steps
  <2>2. CASE /\ \E n \in 1..MaxPlan : \E plan \in [1..n -> PlanItems] :
                    todo' = [todo EXCEPT ![r] = plan]
             /\ gathered' = [gathered EXCEPT ![r] = {}]
             /\ pc' = [pc EXCEPT ![r] = "tool"]
             /\ UNCHANGED draft
    <3>1. PICK n \in 1..MaxPlan : \E plan \in [1..n -> PlanItems] :
                    todo' = [todo EXCEPT ![r] = plan]
      BY <2>2
    <3>2. PICK plan \in [1..n -> PlanItems] : todo' = [todo EXCEPT ![r] = plan]
      BY <3>1
    <3>3. plan \in Seq(PlanItems)
      BY LimitsAssumption
    <3> QED BY <1>4, <2>2, <3>2, <3>3 DEF Plan, Steps
  <2>3. CASE Fail(r) /\ UNCHANGED <<todo, gathered, draft>>
    BY <1>4, <2>3 DEF Plan, Fail, Steps
  <2> QED BY <1>4, <2>1, <2>2, <2>3 DEF Plan
<1>5. ASSUME NEW r \in Requests, CallTool(r) PROVE TypeOK'
  <2>1. todo' \in [Requests -> Seq(PlanItems)]
    BY <1>5 DEF CallTool
  <2>2. /\ gathered' \in [Requests -> SUBSET Papers]
        /\ retrieved' \in [Requests -> SUBSET Papers]
        /\ toolRows' \subseteq ToolRow
    <3> DEFINE tool == Head(todo[r])
               Goal == /\ gathered' \in [Requests -> SUBSET Papers]
                       /\ retrieved' \in [Requests -> SUBSET Papers]
                       /\ toolRows' \subseteq ToolRow
    <3>1. CASE tool \notin Tools
      BY <1>5, <3>1 DEF CallTool
    <3>2. CASE tool \in Tools /\ UNCHANGED gathered /\ CallRaises(r, tool)
      BY <3>2, CallRaisesType
    <3>3. ASSUME tool \in Tools, NEW result \in Results(tool),
                 CallSucceeds(r, tool, result),
                 gathered' = [gathered EXCEPT ![r] = @ \cup NormalizeEvidence(tool, result)]
          PROVE  Goal
      BY <3>3, ResultsType, CallSucceedsType DEF NormalizeEvidence
    <3> QED BY <1>5, <3>1, <3>2, <3>3 DEF CallTool
  <2> QED BY <1>5, <2>1, <2>2 DEF CallTool
<1>6. ASSUME NEW r \in Requests, Observe(r) PROVE TypeOK'
  <2>1. CASE gathered[r] = {}
    <3>1. PICK onTopic \in BOOLEAN :
             Submit(r, NewDraft(r, "llm", "refusal", onTopic, {}, {}))
      BY <1>6, <2>1 DEF Observe
    <3>2. NewDraft(r, "llm", "refusal", onTopic, {}, {}) \in Draft
      BY NewDraftType DEF Kinds
    <3> QED BY <1>6, <3>1, <3>2, SubmitType DEF Observe
  <2>2. CASE gathered[r] # {}
    BY <1>6, <2>2 DEF Observe, Steps
  <2> QED BY <2>1, <2>2
<1>7. ASSUME NEW r \in Requests, Generate(r) PROVE TypeOK'
  <2>1. CASE FallBack(r)
    BY <1>7, <2>1, NoDraftType DEF Generate, FallBack, Steps
  <2>2. ASSUME NEW kind \in Kinds, NEW onTopic \in BOOLEAN,
               NEW cited \in Slices(gathered[r], CiteLimit),
               Submit(r, NewDraft(r, "llm", kind, onTopic, gathered[r], cited))
        PROVE  TypeOK'
    <3>0. gathered[r] \in SUBSET Papers /\ cited \in SUBSET Papers
      BY SlicesType DEF TypeOK
    <3>1. NewDraft(r, "llm", kind, onTopic, gathered[r], cited) \in Draft
      BY <3>0, NewDraftType
    <3> QED BY <1>7, <2>2, <3>1, SubmitType DEF Generate
  <2> QED BY <1>7, <2>1, <2>2 DEF Generate
<1>8. ASSUME NEW r \in Requests, RuleStep(r) PROVE TypeOK'
  <2> "search_papers" \in Tools /\ "get_paper" \in Tools /\ "ensure_fulltext" \in Tools
    BY DEF Tools
  <2> "refusal" \in Kinds /\ "text" \in Kinds
    BY DEF Kinds
  <2>1. CASE RuleList(r)
    <3>1. PICK result \in Results("search_papers"), onTopic \in BOOLEAN :
             /\ CallSucceeds(r, "search_papers", result)
             /\ IF result = {}
                  THEN Submit(r, NewDraft(r, "rule", "refusal", onTopic, {}, {}))
                  ELSE \E top \in Slices(result, CiteLimit) :
                          Submit(r, NewDraft(r, "rule", "text", onTopic, top, top))
      BY <2>1 DEF RuleList
    <3>2. \E d \in Draft : Submit(r, d)
      BY <3>1, NewDraftType, SlicesType, ResultsType
    <3> QED BY <2>1, <3>1, <3>2, SubmitType, CallSucceedsType, ResultsType DEF RuleList
  <2>2. CASE RuleDetail(r)
    <3>1. PICK tool \in {"search_papers", "get_paper"}, onTopic \in BOOLEAN :
             \E result \in Results(tool) :
                /\ CallSucceeds(r, tool, result)
                /\ IF result = {}
                     THEN Submit(r, NewDraft(r, "rule", "refusal", onTopic, {}, {}))
                     ELSE \E best \in result :
                          Submit(r, NewDraft(r, "rule", "text", onTopic, {best}, {best}))
      BY <2>2 DEF RuleDetail
    <3>2. PICK result \in Results(tool) :
                /\ CallSucceeds(r, tool, result)
                /\ IF result = {}
                     THEN Submit(r, NewDraft(r, "rule", "refusal", onTopic, {}, {}))
                     ELSE \E best \in result :
                          Submit(r, NewDraft(r, "rule", "text", onTopic, {best}, {best}))
      BY <3>1
    <3>3. tool \in Tools /\ result \in SUBSET Papers
      BY ResultsType
    <3>4. \E d \in Draft : Submit(r, d)
      <4>1. CASE result = {}
        BY <3>2, <4>1, NewDraftType
      <4>2. CASE result # {}
        <5>1. PICK best \in result :
                 Submit(r, NewDraft(r, "rule", "text", onTopic, {best}, {best}))
          BY <3>2, <4>2
        <5>2. {best} \in SUBSET Papers
          BY <3>3
        <5> QED BY <5>1, <5>2, NewDraftType
      <4> QED BY <4>1, <4>2
    <3> QED BY <2>2, <3>2, <3>3, <3>4, SubmitType, CallSucceedsType DEF RuleDetail
  <2>3. CASE RuleQA(r)
    <3>1. PICK result \in Results("search_papers") :
             /\ CallSucceeds(r, "search_papers", result)
             /\ IF result = {}
                  THEN /\ \E onTopic \in BOOLEAN :
                             Submit(r, NewDraft(r, "rule", "refusal", onTopic, {}, {}))
                       /\ UNCHANGED gathered
                  ELSE /\ \E best \in result :
                             gathered' = [gathered EXCEPT ![r] = {best}]
                       /\ \E next \in {"rule2", "rulegen"} :
                             pc' = [pc EXCEPT ![r] = next]
                       /\ UNCHANGED draft
      BY <2>3 DEF RuleQA
    <3>2. result \in SUBSET Papers
      BY ResultsType
    <3>3. retrieved' \in [Requests -> SUBSET Papers] /\ toolRows' \subseteq ToolRow
      BY <3>1, <3>2, CallSucceedsType
    <3>4. CASE result = {}
      <4>1. \E d \in Draft : Submit(r, d)
        BY <3>1, <3>4, NewDraftType
      <4> QED BY <2>3, <3>1, <3>3, <3>4, <4>1, SubmitType DEF RuleQA
    <3>5. CASE result # {}
      <4>1. PICK best \in result : gathered' = [gathered EXCEPT ![r] = {best}]
        BY <3>1, <3>5
      <4>2. gathered' \in [Requests -> SUBSET Papers]
        BY <3>2, <4>1
      <4>3. pc' \in [Requests -> Steps] /\ UNCHANGED draft
        BY <3>1, <3>5 DEF Steps
      <4> QED BY <2>3, <3>3, <4>2, <4>3 DEF RuleQA
    <3> QED BY <3>4, <3>5
  <2>4. CASE RuleConcept(r)
    <3>1. PICK result \in Results("search_papers") :
             /\ CallSucceeds(r, "search_papers", result)
             /\ \E top \in Slices(result, CiteLimit) :
                   gathered' = [gathered EXCEPT ![r] = top]
      BY <2>4 DEF RuleConcept
    <3>2. result \in SUBSET Papers
      BY ResultsType
    <3>3. retrieved' \in [Requests -> SUBSET Papers] /\ toolRows' \subseteq ToolRow
      BY <3>1, <3>2, CallSucceedsType
    <3>4. PICK top \in Slices(result, CiteLimit) : gathered' = [gathered EXCEPT ![r] = top]
      BY <3>1
    <3>5. gathered' \in [Requests -> SUBSET Papers]
      BY <3>2, <3>4, SlicesType
    <3>6. pc' \in [Requests -> Steps]
      BY <2>4 DEF RuleConcept, Steps
    <3> QED BY <2>4, <3>3, <3>5, <3>6 DEF RuleConcept
  <2>5. CASE RuleCompare(r)
    <3>1. CASE /\ \E onTopic \in BOOLEAN :
                      Submit(r, NewDraft(r, "rule", "text", onTopic, {}, {}))
               /\ UNCHANGED <<gathered, retrieved, toolRows>>
      <4>1. \E d \in Draft : Submit(r, d)
        BY <3>1, NewDraftType
      <4> QED BY <2>5, <3>1, <4>1, SubmitType DEF RuleCompare
    <3>2. ASSUME NEW result \in AtMostOne, CallSucceeds(r, "search_papers", result),
                 gathered' = [gathered EXCEPT ![r] = result],
                 pc' = [pc EXCEPT ![r] = "rule2"], UNCHANGED draft
          PROVE  TypeOK'
      <4>1. result \in SUBSET Papers
        BY DEF AtMostOne
      <4>2. retrieved' \in [Requests -> SUBSET Papers] /\ toolRows' \subseteq ToolRow
        BY <3>2, <4>1, CallSucceedsType
      <4> QED BY <2>5, <3>2, <4>1, <4>2 DEF RuleCompare, Steps
    <3> QED BY <2>5, <3>1, <3>2 DEF RuleCompare
  <2>6. CASE RuleCompareSecond(r)
    <3>1. PICK result \in AtMostOne :
             /\ CallSucceeds(r, "search_papers", result)
             /\ gathered' = [gathered EXCEPT ![r] = @ \cup result]
             /\ IF gathered[r] = {} \/ result = {}
                  THEN \E onTopic \in BOOLEAN :
                          Submit(r, NewDraft(r, "rule", "refusal", onTopic,
                                             gathered[r] \cup result, {}))
                  ELSE pc' = [pc EXCEPT ![r] = "rulegen"] /\ UNCHANGED draft
      BY <2>6 DEF RuleCompareSecond
    <3>2. result \in SUBSET Papers /\ gathered[r] \cup result \in SUBSET Papers
      BY DEF AtMostOne
    <3>3. retrieved' \in [Requests -> SUBSET Papers] /\ toolRows' \subseteq ToolRow
      BY <3>1, <3>2, CallSucceedsType
    <3>4. gathered' \in [Requests -> SUBSET Papers]
      BY <3>1, <3>2
    <3>5. draft' \in [Requests -> Draft] /\ pc' \in [Requests -> Steps]
      <4>1. CASE gathered[r] = {} \/ result = {}
        <5>1. \E d \in Draft : Submit(r, d)
          BY <3>1, <3>2, <4>1, NewDraftType
        <5> QED BY <5>1, SubmitType
      <4>2. CASE ~ (gathered[r] = {} \/ result = {})
        BY <3>1, <4>2 DEF Steps
      <4> QED BY <4>1, <4>2
    <3> QED BY <2>6, <3>3, <3>4, <3>5 DEF RuleCompareSecond
  <2>7. CASE RuleFullText(r)
    <3>1. retrieved' \in [Requests -> SUBSET Papers] /\ toolRows' \subseteq ToolRow
      BY <2>7, CallSucceedsType DEF RuleFullText
    <3> QED BY <2>7, <3>1 DEF RuleFullText, Steps
  <2>8. CASE RuleGenerate(r)
    <3>1. RuleKinds(r) \subseteq Kinds
      BY DEF RuleKinds, Kinds
    <3>2. \E d \in Draft : Submit(r, d)
      BY <2>8, <3>1, NewDraftType DEF RuleGenerate
    <3> QED BY <2>8, <3>2, SubmitType DEF RuleGenerate
  <2>9. CASE RuleRaises(r)
    <3>1. retrieved' \in [Requests -> SUBSET Papers] /\ toolRows' \subseteq ToolRow
      BY <2>9, CallRaisesType DEF RuleRaises
    <3> QED BY <2>9, <3>1 DEF RuleRaises, Fail, Steps
  <2> QED BY <1>8, <2>1, <2>2, <2>3, <2>4, <2>5, <2>6, <2>7, <2>8, <2>9 DEF RuleStep
<1>9. ASSUME NEW r \in Requests, Judge(r) PROVE TypeOK'
  <2>1. \E result \in {"pass", "reject"}, by \in {"llm", "rules"}, f \in BOOLEAN :
           Decide(r, result, by, f)
    BY <1>9 DEF Judge
  <2> QED BY <1>9, <2>1, DecideType DEF Judge
<1>10. ASSUME NEW r \in Requests, JudgeRaises(r) \/ ItemRaises(r) PROVE TypeOK'
  BY <1>10 DEF JudgeRaises, ItemRaises, Fail, Steps
<1>11. ASSUME NEW r \in Requests, Finish(r) PROVE TypeOK'
  <2>1. [trace |-> r, session |-> session[r]] \in RunRow
    BY DEF RunRow
  <2>2. Append(runs, [trace |-> r, session |-> session[r]]) \in Seq(RunRow)
    BY <2>1
  <2>3. runs' \in Seq(RunRow)
    BY <1>11, <2>2 DEF Finish, SaveRun, SaveFails
  <2>5. memory' \in [Sessions -> Requests \cup {NoTrace}]
    BY <1>11 DEF Finish, SaveFails
  <2>4. pc' \in [Requests -> Steps]
    BY <1>11 DEF Finish, SaveFails, Fail, Steps
  <2> QED BY <1>11, <2>3, <2>4, <2>5 DEF Finish
<1>12. CASE Crash
  <2>1. \A r \in Requests : [trace |-> r, session |-> session[r]] \in RunRow
    BY DEF RunRow
  <2>2. runs' \in Seq(RunRow)
    <3>1. CASE UNCHANGED runs
      BY <3>1
    <3>2. ASSUME NEW r \in Requests, SaveRun(r) PROVE runs' \in Seq(RunRow)
      BY <2>1, <3>2 DEF SaveRun
    <3> QED BY <1>12, <3>1, <3>2 DEF Crash
  <2>3. crashes' \in 0..MaxCrashes
    BY <1>12, LimitsAssumption DEF Crash
  <2> QED BY <1>12, <2>2, <2>3 DEF Crash, Steps
<1> QED BY <1>1, <1>2, <1>3, <1>4, <1>5, <1>6, <1>7, <1>8, <1>9, <1>10, <1>11, <1>12
        DEF Next, Step

\* Type correctness of the loop, its tables and its session memory: in
\* particular no request goes beyond MAX_ITERATIONS rounds.
THEOREM TypeCorrect == Spec => []TypeOK
BY TypeInit, TypeStep, PTL DEF Spec

-----------------------------------------------------------------------------
(* The safety invariants.  Each is proved over shapes of steps rather than over the
   actions themselves: lemma WorkerShape says that each action of a worker either
   hands a draft of the current round to the Judge, or works on, or gives up. *)

Working == {"plan", "tool", "gen", "rule", "rule2", "rulegen"}

\* What no worker touches.
kept == <<session, intent, ready, iteration, feedback, verdict, memory, runs, crashes>>

DraftsWith(r, path, kind, onTopic, evidence, cited) ==
    /\ pc[r] \in Working
    /\ Submit(r, NewDraft(r, path, kind, onTopic, evidence, cited))
    /\ UNCHANGED kept

Drafts(r) ==
    \E path \in {"llm", "rule"}, kind \in Kinds, onTopic \in BOOLEAN,
       evidence \in SUBSET Papers, cited \in SUBSET Papers :
          DraftsWith(r, path, kind, onTopic, evidence, cited)

WorksOn(r) ==
    /\ pc[r] \in Working
    /\ \E step \in Working : pc' = [pc EXCEPT ![r] = step]
    /\ draft' = draft \/ draft' = [draft EXCEPT ![r] = NoDraft]
    /\ UNCHANGED kept

GivesUp(r) ==
    /\ pc[r] \in Working \cup {"judge"}
    /\ Fail(r)
    /\ UNCHANGED draft
    /\ UNCHANGED kept

\* The worker actions, ItemRaises and JudgeRaises have one of the three shapes.
LEMMA WorkerShape ==
    ASSUME TypeOK, NEW r \in Requests,
           \/ Plan(r) \/ CallTool(r) \/ Observe(r) \/ Generate(r) \/ RuleStep(r)
           \/ ItemRaises(r) \/ JudgeRaises(r)
    PROVE  Drafts(r) \/ WorksOn(r) \/ GivesUp(r)
<1> USE DEF Working, kept, asked
<1> /\ "search_papers" \in Tools /\ "get_paper" \in Tools
    /\ "refusal" \in Kinds /\ "text" \in Kinds /\ {} \in SUBSET Papers
    /\ gathered[r] \in SUBSET Papers
  BY DEF Tools, Kinds, TypeOK
<1>1. CASE Plan(r)
  <2>1. CASE FallBack(r)
    BY <1>1, <2>1 DEF Plan, FallBack, WorksOn
  <2>2. CASE pc' = [pc EXCEPT ![r] = "tool"] /\ UNCHANGED draft
    BY <1>1, <2>2 DEF Plan, WorksOn
  <2>3. CASE Fail(r) /\ UNCHANGED draft
    BY <1>1, <2>3 DEF Plan, GivesUp
  <2> QED BY <1>1, <2>1, <2>2, <2>3 DEF Plan
<1>2. CASE CallTool(r)
  <2>1. pc' = [pc EXCEPT ![r] = "tool"]
    BY <1>2 DEF CallTool, TypeOK
  <2> QED BY <1>2, <2>1 DEF CallTool, WorksOn
<1>3. CASE Observe(r)
  <2>1. CASE gathered[r] = {}
    <3>1. PICK onTopic \in BOOLEAN :
             Submit(r, NewDraft(r, "llm", "refusal", onTopic, {}, {}))
      BY <1>3, <2>1 DEF Observe
    <3>2. DraftsWith(r, "llm", "refusal", onTopic, {}, {})
      BY <1>3, <3>1 DEF Observe, DraftsWith
    <3> QED BY <3>2 DEF Drafts
  <2>2. CASE gathered[r] # {}
    BY <1>3, <2>2 DEF Observe, WorksOn
  <2> QED BY <2>1, <2>2
<1>4. CASE Generate(r)
  <2>1. CASE FallBack(r)
    BY <1>4, <2>1 DEF Generate, FallBack, WorksOn
  <2>2. ASSUME NEW kind \in Kinds, NEW onTopic \in BOOLEAN,
               NEW cited \in Slices(gathered[r], CiteLimit),
               Submit(r, NewDraft(r, "llm", kind, onTopic, gathered[r], cited))
        PROVE  Drafts(r)
    <3>1. cited \in SUBSET Papers
      BY SlicesType
    <3>2. DraftsWith(r, "llm", kind, onTopic, gathered[r], cited)
      BY <1>4, <2>2 DEF Generate, DraftsWith
    <3> QED BY <3>1, <3>2 DEF Drafts
  <2> QED BY <1>4, <2>1, <2>2 DEF Generate
<1>5. CASE RuleList(r)
  <2>1. PICK result \in Results("search_papers"), onTopic \in BOOLEAN :
           IF result = {}
             THEN Submit(r, NewDraft(r, "rule", "refusal", onTopic, {}, {}))
             ELSE \E top \in Slices(result, CiteLimit) :
                     Submit(r, NewDraft(r, "rule", "text", onTopic, top, top))
    BY <1>5 DEF RuleList
  <2>2. CASE result = {}
    <3>1. DraftsWith(r, "rule", "refusal", onTopic, {}, {})
      BY <1>5, <2>1, <2>2 DEF RuleList, DraftsWith
    <3> QED BY <3>1 DEF Drafts
  <2>3. CASE result # {}
    <3>1. PICK top \in Slices(result, CiteLimit) :
             Submit(r, NewDraft(r, "rule", "text", onTopic, top, top))
      BY <2>1, <2>3
    <3>2. top \in SUBSET Papers
      BY SlicesType, ResultsType
    <3>3. DraftsWith(r, "rule", "text", onTopic, top, top)
      BY <1>5, <3>1 DEF RuleList, DraftsWith
    <3> QED BY <3>2, <3>3 DEF Drafts
  <2> QED BY <2>2, <2>3
<1>6. CASE RuleDetail(r)
  <2>1. PICK tool \in {"search_papers", "get_paper"}, onTopic \in BOOLEAN :
           \E result \in Results(tool) :
              IF result = {}
                THEN Submit(r, NewDraft(r, "rule", "refusal", onTopic, {}, {}))
                ELSE \E best \in result :
                        Submit(r, NewDraft(r, "rule", "text", onTopic, {best}, {best}))
    BY <1>6 DEF RuleDetail
  <2>2. PICK result \in Results(tool) :
              IF result = {}
                THEN Submit(r, NewDraft(r, "rule", "refusal", onTopic, {}, {}))
                ELSE \E best \in result :
                        Submit(r, NewDraft(r, "rule", "text", onTopic, {best}, {best}))
    BY <2>1
  <2>3. CASE result = {}
    <3>1. DraftsWith(r, "rule", "refusal", onTopic, {}, {})
      BY <1>6, <2>2, <2>3 DEF RuleDetail, DraftsWith
    <3> QED BY <3>1 DEF Drafts
  <2>4. CASE result # {}
    <3>1. PICK best \in result :
             Submit(r, NewDraft(r, "rule", "text", onTopic, {best}, {best}))
      BY <2>2, <2>4
    <3>2. {best} \in SUBSET Papers
      BY ResultsType
    <3>3. DraftsWith(r, "rule", "text", onTopic, {best}, {best})
      BY <1>6, <3>1 DEF RuleDetail, DraftsWith
    <3> QED BY <3>2, <3>3 DEF Drafts
  <2> QED BY <2>3, <2>4
<1>7. CASE RuleQA(r)
  <2>1. CASE \E onTopic \in BOOLEAN :
                Submit(r, NewDraft(r, "rule", "refusal", onTopic, {}, {}))
    <3>1. PICK onTopic \in BOOLEAN :
             Submit(r, NewDraft(r, "rule", "refusal", onTopic, {}, {}))
      BY <2>1
    <3>2. DraftsWith(r, "rule", "refusal", onTopic, {}, {})
      BY <1>7, <3>1 DEF RuleQA, DraftsWith
    <3> QED BY <3>2 DEF Drafts
  <2>2. CASE /\ \E next \in {"rule2", "rulegen"} : pc' = [pc EXCEPT ![r] = next]
             /\ UNCHANGED draft
    BY <1>7, <2>2 DEF RuleQA, WorksOn
  <2> QED BY <1>7, <2>1, <2>2 DEF RuleQA
<1>8. CASE RuleConcept(r)
  BY <1>8 DEF RuleConcept, WorksOn
<1>9. CASE RuleCompare(r)
  <2>1. CASE \E onTopic \in BOOLEAN :
                Submit(r, NewDraft(r, "rule", "text", onTopic, {}, {}))
    <3>1. PICK onTopic \in BOOLEAN :
             Submit(r, NewDraft(r, "rule", "text", onTopic, {}, {}))
      BY <2>1
    <3>2. DraftsWith(r, "rule", "text", onTopic, {}, {})
      BY <1>9, <3>1 DEF RuleCompare, DraftsWith
    <3> QED BY <3>2 DEF Drafts
  <2>2. CASE pc' = [pc EXCEPT ![r] = "rule2"] /\ UNCHANGED draft
    BY <1>9, <2>2 DEF RuleCompare, WorksOn
  <2> QED BY <1>9, <2>1, <2>2 DEF RuleCompare
<1>10. CASE RuleCompareSecond(r)
  <2>1. PICK result \in AtMostOne :
           IF gathered[r] = {} \/ result = {}
             THEN \E onTopic \in BOOLEAN :
                     Submit(r, NewDraft(r, "rule", "refusal", onTopic,
                                        gathered[r] \cup result, {}))
             ELSE pc' = [pc EXCEPT ![r] = "rulegen"] /\ UNCHANGED draft
    BY <1>10 DEF RuleCompareSecond
  <2>2. CASE gathered[r] = {} \/ result = {}
    <3>1. PICK onTopic \in BOOLEAN :
             Submit(r, NewDraft(r, "rule", "refusal", onTopic,
                                gathered[r] \cup result, {}))
      BY <2>1, <2>2
    <3>2. gathered[r] \cup result \in SUBSET Papers
      BY DEF AtMostOne
    <3>3. DraftsWith(r, "rule", "refusal", onTopic, gathered[r] \cup result, {})
      BY <1>10, <3>1 DEF RuleCompareSecond, DraftsWith
    <3> QED BY <3>2, <3>3 DEF Drafts
  <2>3. CASE ~ (gathered[r] = {} \/ result = {})
    BY <1>10, <2>1, <2>3 DEF RuleCompareSecond, WorksOn
  <2> QED BY <2>2, <2>3
<1>11. CASE RuleFullText(r)
  BY <1>11 DEF RuleFullText, WorksOn
<1>12. CASE RuleGenerate(r)
  <2>1. PICK kind \in RuleKinds(r), onTopic \in BOOLEAN :
           Submit(r, NewDraft(r, "rule", kind, onTopic, gathered[r], gathered[r]))
    BY <1>12 DEF RuleGenerate
  <2>2. kind \in Kinds
    BY DEF RuleKinds, Kinds
  <2>3. DraftsWith(r, "rule", kind, onTopic, gathered[r], gathered[r])
    BY <1>12, <2>1 DEF RuleGenerate, DraftsWith
  <2> QED BY <2>2, <2>3 DEF Drafts
<1>13. CASE RuleRaises(r)
  BY <1>13 DEF RuleRaises, GivesUp
<1>14. CASE JudgeRaises(r) \/ ItemRaises(r)
  BY <1>14 DEF JudgeRaises, ItemRaises, GivesUp
<1> QED BY <1>1, <1>2, <1>3, <1>4, <1>5, <1>6, <1>7, <1>8, <1>9, <1>10, <1>11,
           <1>12, <1>13, <1>14 DEF RuleStep

\* Every step is of one of these shapes; Ask, Probe, Judge, Finish and Crash
\* stand for themselves.
LEMMA StepShape ==
    ASSUME TypeOK, [Next]_vars
    PROVE  \/ UNCHANGED vars
           \/ Crash
           \/ \E r \in Requests :
                 \/ Ask(r) \/ Probe(r) \/ Judge(r) \/ Finish(r)
                 \/ Drafts(r) \/ WorksOn(r) \/ GivesUp(r)
<1>1. ASSUME NEW r \in Requests, Step(r)
      PROVE  \/ Probe(r) \/ Judge(r) \/ Finish(r)
             \/ Drafts(r) \/ WorksOn(r) \/ GivesUp(r)
  BY <1>1, WorkerShape DEF Step
<1> QED BY <1>1 DEF Next

\* The Judge's step is a verdict on the draft of r, and nothing else.
LEMMA JudgeShape ==
    ASSUME NEW r \in Requests, Judge(r)
    PROVE  /\ pc[r] = "judge"
           /\ UNCHANGED <<session, intent, ready, draft, retrieved, toolRows, memory, runs>>
           /\ \E result \in {"pass", "reject"}, by \in {"llm", "rules"}, f \in BOOLEAN :
                 /\ Decide(r, result, by, f)
                 /\ by = "rules" => /\ result = "pass" => RulesAccept(draft[r])
                                    /\ result = "reject" => f
                 /\ by = "llm" => intent[r] \in LLM_INTENTS
BY DEF Judge, asked

-----------------------------------------------------------------------------
(* Rounds: which draft a verdict is about *)

RoundOf(r) ==
    /\ draft[r].round <= iteration[r]
    /\ draft[r] # NoDraft => draft[r].round >= 1
    /\ pc[r] \in {"idle", "probe"} => iteration[r] = 0 /\ draft[r] = NoDraft
    /\ pc[r] \in Working \cup {"judge"} => iteration[r] >= 1
    /\ pc[r] = "judge" => draft[r] # NoDraft
    /\ pc[r] = "judge" /\ UseLLM(r) => draft[r].round = iteration[r]
    /\ pc[r] \in {"finish", "done"} =>
          /\ draft[r].round >= 1
          /\ verdict[r].of = draft[r].round
          /\ verdict[r].result = "pass" \/ iteration[r] = MaxIterations

RoundInv == \A r \in Requests : RoundOf(r)

\* A step that leaves the locals of q alone leaves its rounds alone.
LEMMA RoundFrame ==
    ASSUME RoundInv, NEW q \in Requests,
           /\ pc'[q] = pc[q] /\ intent'[q] = intent[q] /\ ready'[q] = ready[q]
           /\ iteration'[q] = iteration[q] /\ draft'[q] = draft[q]
           /\ verdict'[q] = verdict[q]
    PROVE  RoundOf(q)'
BY DEF RoundInv, RoundOf, UseLLM

\* Every step keeps RoundInv.
LEMMA RoundStep == TypeOK /\ RoundInv /\ [Next]_vars => RoundInv'
<1> SUFFICES ASSUME TypeOK, RoundInv, [Next]_vars, NEW q \in Requests
             PROVE  RoundOf(q)'
  BY DEF RoundInv
<1> USE MaxIterationsAssumption
<1>0. /\ RoundOf(q) /\ iteration[q] \in 0..MaxIterations /\ draft[q] \in Draft
      /\ draft[q].round \in 0..MaxIterations
  BY DEF RoundInv, TypeOK, Draft
<1>1. CASE UNCHANGED vars
  BY <1>1, RoundFrame DEF vars
<1>2. CASE Crash
  <2>1. pc'[q] \in {pc[q], "failed"} /\ (pc'[q] # pc[q] => pc'[q] = "failed")
    BY <1>2 DEF Crash
  <2>2. CASE pc'[q] = pc[q]
    BY <1>2, <2>2, RoundFrame DEF Crash, asked
  <2>3. CASE pc'[q] = "failed"
    BY <1>2, <2>3, <1>0 DEF Crash, asked, RoundOf, Working
  <2> QED BY <2>1, <2>2, <2>3
<1>3. ASSUME NEW r \in Requests, Ask(r) PROVE RoundOf(q)'
  <2>1. CASE q # r
    BY <1>3, <2>1, RoundFrame DEF Ask, asked, TypeOK
  <2>2. CASE q = r
    BY <1>3, <2>2, <1>0 DEF Ask, asked, TypeOK, RoundOf, Working
  <2> QED BY <2>1, <2>2
<1>4. ASSUME NEW r \in Requests, Probe(r) PROVE RoundOf(q)'
  <2>0. PICK b \in BOOLEAN : /\ ready' = [ready EXCEPT ![r] = b]
                             /\ pc' = [pc EXCEPT ![r] = LoopHead(r, b)]
    BY <1>4 DEF Probe
  <2>1. CASE q # r
    BY <1>4, <2>0, <2>1, RoundFrame DEF Probe, asked, TypeOK
  <2>2. CASE q = r
    <3>1. draft[r] = NoDraft /\ draft'[r] = NoDraft
      BY <1>4, <2>2, <1>0 DEF Probe, RoundOf
    <3>2. LoopHead(r, b) \in {"plan", "rule"}
      BY <3>1 DEF LoopHead
    <3>3. pc'[r] \in {"plan", "rule"} /\ iteration'[r] = 1
      BY <1>4, <2>0, <3>2 DEF Probe, TypeOK
    <3> QED BY <2>2, <3>1, <3>3, NoDraftType DEF RoundOf, Working
  <2> QED BY <2>1, <2>2
<1>5. ASSUME NEW r \in Requests, Drafts(r) PROVE RoundOf(q)'
  <2>0. PICK path \in {"llm", "rule"}, kind \in Kinds, onTopic \in BOOLEAN,
             evidence \in SUBSET Papers, cited \in SUBSET Papers :
                DraftsWith(r, path, kind, onTopic, evidence, cited)
    BY <1>5 DEF Drafts
  <2> DEFINE d == NewDraft(r, path, kind, onTopic, evidence, cited)
  <2>1. CASE q # r
    BY <2>0, <2>1, RoundFrame DEF DraftsWith, Submit, kept, TypeOK
  <2>2. CASE q = r
    <3>1. d \in Draft /\ d.round = iteration[r]
      BY NewDraftType
    <3>2. pc'[r] = "judge" /\ draft'[r] = d /\ iteration'[r] = iteration[r]
      BY <2>0 DEF DraftsWith, Submit, kept, TypeOK
    <3>3. iteration[r] >= 1
      BY <2>0, <2>2, <1>0 DEF DraftsWith, RoundOf
    <3>4. d # NoDraft
      BY <3>1, <3>3, NoDraftType
    <3> HIDE DEF d
    <3> QED BY <2>2, <1>0, <3>1, <3>2, <3>3, <3>4 DEF RoundOf, Working
  <2> QED BY <2>1, <2>2
<1>6. ASSUME NEW r \in Requests, WorksOn(r) PROVE RoundOf(q)'
  <2>1. CASE q # r
    BY <1>6, <2>1, RoundFrame DEF WorksOn, kept, TypeOK
  <2>2. CASE q = r
    <3>1. pc'[r] \in Working /\ iteration'[r] = iteration[r] /\ iteration[r] >= 1
      BY <1>6, <2>2, <1>0 DEF WorksOn, kept, TypeOK, RoundOf
    <3>2. draft'[r] = draft[r] \/ draft'[r] = NoDraft
      BY <1>6 DEF WorksOn, TypeOK
    <3> QED BY <2>2, <1>0, <3>1, <3>2, NoDraftType DEF RoundOf, Working
  <2> QED BY <2>1, <2>2
<1>7. ASSUME NEW r \in Requests, GivesUp(r) PROVE RoundOf(q)'
  <2>1. CASE q # r
    BY <1>7, <2>1, RoundFrame DEF GivesUp, Fail, kept, TypeOK
  <2>2. CASE q = r
    BY <1>7, <2>2, <1>0 DEF GivesUp, Fail, kept, TypeOK, RoundOf, Working
  <2> QED BY <2>1, <2>2
<1>8. ASSUME NEW r \in Requests, Judge(r) PROVE RoundOf(q)'
  <2>0. PICK result \in {"pass", "reject"}, by \in {"llm", "rules"}, f \in BOOLEAN :
           Decide(r, result, by, f)
    BY <1>8, JudgeShape
  <2>1. pc[r] = "judge" /\ UNCHANGED <<intent, ready, draft>>
    BY <1>8, JudgeShape
  <2>2. CASE q # r
    BY <2>0, <2>1, <2>2, RoundFrame DEF Decide, TypeOK
  <2>3. CASE q = r
    <3>1. verdict'[r].of = draft[r].round /\ verdict'[r].result = result
      BY <2>0 DEF Decide, TypeOK
    <3>2. draft[r].round >= 1 /\ draft'[r] = draft[r] /\ iteration[r] >= 1
      BY <2>1, <2>3, <1>0 DEF RoundOf
    <3>3. CASE result = "pass" \/ LastRound(r)
      <4>1. pc'[r] = "finish" /\ iteration'[r] = iteration[r]
        BY <2>0, <3>3 DEF Decide, TypeOK
      <4> QED BY <2>3, <1>0, <3>1, <3>2, <3>3, <4>1 DEF RoundOf, Working, LastRound
    <3>4. CASE ~ (result = "pass" \/ LastRound(r))
      <4>1. pc'[r] = LoopHead(r, ready[r]) /\ iteration'[r] = iteration[r] + 1
        BY <2>0, <3>4 DEF Decide, TypeOK, NextRound
      <4>2. CASE UseLLM(r)
        <5>1. pc'[r] = "plan"
          BY <4>1, <4>2 DEF LoopHead, UseLLM
        <5> QED BY <2>3, <1>0, <3>2, <4>1, <5>1 DEF RoundOf, Working
      <4>3. CASE ~ UseLLM(r)
        <5>1. pc'[r] = "judge" /\ ~ UseLLM(r)'
          BY <2>1, <2>3, <1>0, <4>1, <4>3 DEF LoopHead, UseLLM, RoundOf
        <5> QED BY <2>1, <2>3, <1>0, <3>2, <4>1, <5>1 DEF RoundOf, Working
      <4> QED BY <4>2, <4>3
    <3> QED BY <3>3, <3>4
  <2> QED BY <2>2, <2>3
<1>9. ASSUME NEW r \in Requests, Finish(r) PROVE RoundOf(q)'
  <2>1. CASE q # r
    BY <1>9, <2>1, RoundFrame DEF Finish, SaveFails, Fail, asked, TypeOK
  <2>2. CASE q = r
    <3>1. pc'[r] \in {"done", "failed"}
      BY <1>9 DEF Finish, SaveFails, Fail, TypeOK
    <3> QED BY <1>9, <2>2, <1>0, <3>1 DEF Finish, asked, RoundOf, Working
  <2> QED BY <2>1, <2>2
<1> QED BY StepShape, <1>1, <1>2, <1>3, <1>4, <1>5, <1>6, <1>7, <1>8, <1>9

\* RoundInv holds at the start.
LEMMA RoundInit == Init => RoundInv
BY NoDraftType DEF Init, RoundInv, RoundOf, Working

\* RoundInv is an invariant.
LEMMA RoundCorrect == Spec => []RoundInv
<1>1. TypeOK /\ RoundInv /\ [Next]_vars => RoundInv'
  BY RoundStep
<1> QED BY <1>1, RoundInit, TypeCorrect, PTL DEF Spec

\* The verdict sent with an answer is the verdict on that very draft, and an
\* answer is given in spite of a rejection only after MAX_ITERATIONS rounds.
THEOREM VerdictIsOfTheAnswer == Spec => []AnswerCarriesItsVerdict
<1>1. TypeOK /\ RoundInv => AnswerCarriesItsVerdict
  <2> SUFFICES ASSUME TypeOK, RoundInv, NEW r \in Requests, pc[r] \in {"finish", "done"}
               PROVE  /\ draft[r].round \in 1..iteration[r]
                      /\ verdict[r].of = draft[r].round
                      /\ verdict[r].result = "pass" \/ iteration[r] = MaxIterations
    BY DEF AnswerCarriesItsVerdict
  <2>1. RoundOf(r) /\ draft[r].round \in Int /\ iteration[r] \in Int
    BY DEF RoundInv, TypeOK, Draft
  <2> QED BY <2>1 DEF RoundOf
<1> QED BY <1>1, RoundCorrect, TypeCorrect, PTL

\* With the LLM worker the n-th verdict is on a draft of round n: a rejected
\* draft is never judged again.
THEOREM RejectedDraftIsReplaced == Spec => []LLMRetryRedrafts
<1>1. RoundInv => LLMRetryRedrafts
  BY DEF RoundInv, RoundOf, LLMRetryRedrafts
<1> QED BY <1>1, RoundCorrect, PTL

-----------------------------------------------------------------------------
(* The table agent_runs and the session memory *)

\* MemoryIsLatestRun is inductive: only Finish and Crash touch memory and runs.
LEMMA MemoryStep == TypeOK /\ MemoryIsLatestRun /\ [Next]_vars => MemoryIsLatestRun'
<1> SUFFICES ASSUME TypeOK, MemoryIsLatestRun, [Next]_vars PROVE MemoryIsLatestRun'
  OBVIOUS
<1>1. CASE UNCHANGED <<memory, runs>>
  BY <1>1 DEF MemoryIsLatestRun
<1>2. CASE Crash
  BY <1>2 DEF Crash, MemoryIsLatestRun
<1>3. ASSUME NEW r \in Requests, SaveRun(r), memory' = [memory EXCEPT ![session[r]] = r]
      PROVE  MemoryIsLatestRun'
  <2> DEFINE row == [trace |-> r, session |-> session[r]]
  <2>1. /\ runs \in Seq(RunRow) /\ row \in RunRow
        /\ memory \in [Sessions -> Requests \cup {NoTrace}] /\ session[r] \in Sessions
    BY DEF TypeOK, RunRow
  <2>2. /\ Len(runs') = Len(runs) + 1 /\ Len(runs) \in Nat
        /\ runs'[Len(runs) + 1] = row
        /\ \A i \in 1..Len(runs) : runs'[i] = runs[i]
    BY <1>3, <2>1 DEF SaveRun
  <2> SUFFICES ASSUME NEW s \in Sessions, memory'[s] # NoTrace
               PROVE  \E i \in 1..Len(runs') :
                         /\ runs'[i] = [trace |-> memory'[s], session |-> s]
                         /\ \A j \in (i + 1)..Len(runs') : runs'[j].session # s
    BY DEF MemoryIsLatestRun
  <2>3. CASE s = session[r]
    <3>1. runs'[Len(runs) + 1] = [trace |-> memory'[s], session |-> s]
      BY <1>3, <2>1, <2>2, <2>3
    <3>2. (Len(runs) + 1) \in 1..Len(runs')
      BY <2>2
    <3>3. \A j \in (Len(runs) + 1 + 1)..Len(runs') : runs'[j].session # s
      BY <2>2
    <3> QED BY <3>1, <3>2, <3>3
  <2>4. CASE s # session[r]
    <3>1. memory'[s] = memory[s]
      BY <1>3, <2>1, <2>4
    <3>2. PICK i \in 1..Len(runs) :
             /\ runs[i] = [trace |-> memory[s], session |-> s]
             /\ \A j \in (i + 1)..Len(runs) : runs[j].session # s
      BY <3>1 DEF MemoryIsLatestRun
    <3>3. i \in 1..Len(runs') /\ runs'[i] = [trace |-> memory'[s], session |-> s]
      BY <2>2, <3>1, <3>2
    <3>4. ASSUME NEW j \in (i + 1)..Len(runs') PROVE runs'[j].session # s
      <4>1. CASE j = Len(runs) + 1
        BY <2>2, <2>4, <4>1
      <4>2. CASE j # Len(runs) + 1
        BY <2>2, <3>2, <4>2
      <4> QED BY <4>1, <4>2
    <3> QED BY <3>3, <3>4
  <2> QED BY <2>3, <2>4
<1>4. ASSUME NEW r \in Requests, Finish(r) PROVE MemoryIsLatestRun'
  BY <1>1, <1>3, <1>4 DEF Finish, SaveFails
<1>5. ASSUME NEW r \in Requests,
             Ask(r) \/ Probe(r) \/ Judge(r) \/ Drafts(r) \/ WorksOn(r) \/ GivesUp(r)
      PROVE  UNCHANGED <<memory, runs>>
  <2>1. CASE Drafts(r)
    BY <2>1 DEF Drafts, DraftsWith, kept
  <2> QED BY <1>5, <2>1, JudgeShape DEF Ask, Probe, WorksOn, GivesUp, kept
<1> QED BY StepShape, <1>1, <1>2, <1>4, <1>5 DEF vars

\* The remembered run of a session is the newest row of that session, under
\* every interleaving of its requests, failed saves and restarts.
THEOREM MemoryFollowsTable == Spec => []MemoryIsLatestRun
<1>1. Init => MemoryIsLatestRun
  BY DEF Init, MemoryIsLatestRun
<1>2. TypeOK /\ MemoryIsLatestRun /\ [Next]_vars => MemoryIsLatestRun'
  BY MemoryStep
<1> QED BY <1>1, <1>2, TypeCorrect, PTL DEF Spec

\* OneRowPerAnswer is not inductive: a second save of r is excluded because a
\* request with a row is over, and a request to be saved has a verdict.
TableInv ==
    /\ OneRowPerAnswer
    /\ \A i \in 1..Len(runs) : pc[runs[i].trace] \in {"done", "failed"}
    /\ \A r \in Requests : pc[r] = "finish" => verdict[r].result # "none"

\* Every step keeps TableInv.
LEMMA TableStep == TypeOK /\ TableInv /\ [Next]_vars => TableInv'
<1> SUFFICES ASSUME TypeOK, TableInv, [Next]_vars PROVE TableInv'
  OBVIOUS
<1> DEFINE Over == {"done", "failed"}
<1>0. /\ runs \in Seq(RunRow) /\ Len(runs) \in Nat
      /\ \A i \in 1..Len(runs) : runs[i].trace \in Requests
      /\ pc \in [Requests -> Steps] /\ verdict \in [Requests -> Verdict]
  <2>1. runs \in Seq(RunRow) /\ pc \in [Requests -> Steps]
        /\ verdict \in [Requests -> Verdict]
    BY DEF TypeOK
  <2>2. Len(runs) \in Nat /\ \A i \in 1..Len(runs) : runs[i] \in RunRow
    BY <2>1
  <2> QED BY <2>1, <2>2 DEF RunRow
\* Steps that write no row: what is over stays over, and verdicts stay given.
<1>1. ASSUME UNCHANGED <<runs, session>>,
             \A q \in Requests :
                /\ pc[q] \in Over => pc'[q] = pc[q]
                /\ pc'[q] = "done" => pc[q] = "done"
                /\ verdict[q].result # "none" => verdict'[q].result # "none"
                /\ pc'[q] = "finish" => verdict'[q].result # "none"
      PROVE  TableInv'
  BY <1>0, <1>1 DEF TableInv, OneRowPerAnswer
\* Steps that write the row of r.
<1>2. ASSUME NEW r \in Requests, pc[r] = "finish", SaveRun(r),
             UNCHANGED <<session, verdict>>, pc'[r] \in Over,
             \A q \in Requests :
                /\ pc[q] \in Over => pc'[q] = pc[q]
                /\ pc'[q] = "done" => pc[q] = "done" \/ q = r
                /\ pc'[q] = "finish" => pc[q] = "finish"
      PROVE  TableInv'
  <2> DEFINE row == [trace |-> r, session |-> session[r]]
  <2>1. row \in RunRow
    BY DEF TypeOK, RunRow
  <2>2. /\ Len(runs') = Len(runs) + 1 /\ runs'[Len(runs) + 1] = row
        /\ \A i \in 1..Len(runs) : runs'[i] = runs[i]
    BY <1>0, <1>2, <2>1 DEF SaveRun
  <2>3. \A i \in 1..Len(runs) : runs[i].trace # r
    BY <1>2 DEF TableInv
  <2>4. \A i \in 1..Len(runs') : i \in 1..Len(runs) \/ i = Len(runs) + 1
    BY <1>0, <2>2
  <2>5. \A i, j \in 1..Len(runs') : runs'[i].trace = runs'[j].trace => i = j
    BY <2>2, <2>3, <2>4 DEF TableInv, OneRowPerAnswer
  <2>6. \A i \in 1..Len(runs') : /\ verdict'[runs'[i].trace].result # "none"
                                 /\ pc'[runs'[i].trace] \in Over
    BY <1>0, <1>2, <2>2, <2>4 DEF TableInv, OneRowPerAnswer
  <2>7. ASSUME NEW q \in Requests, pc'[q] = "done"
        PROVE  \E i \in 1..Len(runs') : runs'[i] = [trace |-> q, session |-> session'[q]]
    <3>1. CASE q = r
      <4>1. Len(runs) + 1 \in 1..Len(runs')
        BY <1>0, <2>2
      <4> QED BY <1>2, <2>2, <3>1, <4>1
    <3>2. CASE q # r
      <4>1. PICK i \in 1..Len(runs) : runs[i] = [trace |-> q, session |-> session[q]]
        BY <1>2, <2>7, <3>2 DEF TableInv, OneRowPerAnswer
      <4>2. i \in 1..Len(runs')
        BY <1>0, <2>2
      <4> QED BY <1>2, <2>2, <4>1, <4>2
    <3> QED BY <3>1, <3>2
  <2> QED BY <1>2, <2>5, <2>6, <2>7 DEF TableInv, OneRowPerAnswer
<1>3. CASE UNCHANGED vars
  BY <1>1, <1>3 DEF vars, TableInv
<1>4. CASE Crash
  <2>1. CASE UNCHANGED runs
    BY <1>0, <1>1, <1>4, <2>1 DEF Crash, asked
  <2>2. ASSUME NEW r \in Requests, pc[r] = "finish", SaveRun(r) PROVE TableInv'
    BY <1>0, <1>2, <1>4, <2>2 DEF Crash, asked
  <2> QED BY <1>4, <2>1, <2>2 DEF Crash
<1>5. ASSUME NEW r \in Requests, Ask(r) PROVE TableInv'
  BY <1>0, <1>1, <1>5 DEF Ask, asked, TableInv
<1>6. ASSUME NEW r \in Requests, Probe(r) PROVE TableInv'
  <2>1. PICK b \in BOOLEAN : pc' = [pc EXCEPT ![r] = LoopHead(r, b)]
    BY <1>6 DEF Probe
  <2>2. pc[r] = "probe" /\ pc'[r] \in {"plan", "rule", "judge"}
    BY <1>0, <1>6, <2>1, LoopHeadType DEF Probe
  <2> QED BY <1>0, <1>1, <1>6, <2>1, <2>2 DEF Probe, asked, TableInv
<1>7. ASSUME NEW r \in Requests, Drafts(r) PROVE TableInv'
  <2>1. /\ pc[r] \in Working /\ pc' = [pc EXCEPT ![r] = "judge"]
        /\ UNCHANGED <<runs, session, verdict>>
    BY <1>7 DEF Drafts, DraftsWith, Submit, kept
  <2> QED BY <1>0, <1>1, <2>1 DEF Working, TableInv
<1>8. ASSUME NEW r \in Requests, WorksOn(r) PROVE TableInv'
  <2>1. PICK step \in Working : pc' = [pc EXCEPT ![r] = step]
    BY <1>8 DEF WorksOn
  <2> QED BY <1>0, <1>1, <1>8, <2>1 DEF WorksOn, kept, Working, TableInv
<1>9. ASSUME NEW r \in Requests, GivesUp(r) PROVE TableInv'
  BY <1>0, <1>1, <1>9 DEF GivesUp, Fail, kept, Working, TableInv
<1>10. ASSUME NEW r \in Requests, Judge(r) PROVE TableInv'
  <2>1. PICK result \in {"pass", "reject"}, by \in {"llm", "rules"}, f \in BOOLEAN :
           Decide(r, result, by, f)
    BY <1>10, JudgeShape
  <2>2. pc[r] = "judge" /\ UNCHANGED <<runs, session>>
    BY <1>10, JudgeShape
  <2>3. verdict'[r].result # "none" /\ \A q \in Requests \ {r} : verdict'[q] = verdict[q]
    BY <1>0, <2>1 DEF Decide
  <2>4. /\ pc'[r] \in {"finish", "plan", "rule", "judge"}
        /\ \A q \in Requests \ {r} : pc'[q] = pc[q]
    BY <1>0, <2>1, LoopHeadType DEF Decide
  <2> QED BY <1>1, <2>2, <2>3, <2>4 DEF TableInv
<1>11. ASSUME NEW r \in Requests, Finish(r) PROVE TableInv'
  <2>1. CASE SaveRun(r) /\ pc' = [pc EXCEPT ![r] = "done"]
    BY <1>0, <1>2, <1>11, <2>1 DEF Finish, asked
  <2>2. CASE SaveFails(r)
    BY <1>0, <1>1, <1>11, <2>2 DEF Finish, SaveFails, Fail, asked, TableInv
  <2> QED BY <1>11, <2>1, <2>2 DEF Finish
<1> QED BY StepShape, <1>3, <1>4, <1>5, <1>6, <1>7, <1>8, <1>9, <1>10, <1>11

\* agent_runs has exactly one row for an answered request, never two for any
\* request, and none for a request without a verdict, also when the process
\* is killed between the commit and the answer.
THEOREM TableIsExact == Spec => []OneRowPerAnswer
<1>1. Init => TableInv
  BY DEF Init, TableInv, OneRowPerAnswer
<1>2. TypeOK /\ TableInv /\ [Next]_vars => TableInv'
  BY TableStep
<1>3. TableInv => OneRowPerAnswer
  BY DEF TableInv
<1> QED BY <1>1, <1>2, <1>3, TypeCorrect, PTL DEF Spec

-----------------------------------------------------------------------------
(* Evidence and the audit table tool_calls *)

EvidenceOf(r) ==
    /\ gathered[r] \subseteq retrieved[r]
    /\ draft[r].evidence \subseteq retrieved[r]
    /\ draft[r].cited \subseteq draft[r].evidence
    /\ retrieved[r] # {} =>
          \E row \in toolRows : row.trace = r /\ row.status = "success"

EvidenceInv == \A r \in Requests : EvidenceOf(r)

\* Rows are only added, so a step that leaves q's papers alone keeps EvidenceOf(q).
LEMMA EvidenceFrame ==
    ASSUME EvidenceInv, NEW q \in Requests, toolRows \subseteq toolRows',
           /\ gathered'[q] = gathered[q] /\ retrieved'[q] = retrieved[q]
           /\ draft'[q] = draft[q]
    PROVE  EvidenceOf(q)'
BY DEF EvidenceInv, EvidenceOf

\* A recorded call hands its papers to the request together with its row.
LEMMA SuccessIsRecorded ==
    ASSUME TypeOK, EvidenceInv, NEW r \in Requests, NEW tool \in Tools,
           NEW result \in SUBSET Papers, CallSucceeds(r, tool, result)
    PROVE  /\ toolRows \subseteq toolRows'
           /\ retrieved'[r] = retrieved[r] \cup result
           /\ \A q \in Requests \ {r} : retrieved'[q] = retrieved[q]
           /\ \E row \in toolRows' : row.trace = r /\ row.status = "success"
<1>1. /\ retrieved \in [Requests -> SUBSET Papers]
      /\ retrieved' = [retrieved EXCEPT ![r] = @ \cup result]
  BY DEF TypeOK, CallSucceeds
<1>2. toolRows' = toolRows \cup {[trace |-> r, tool |-> tool, status |-> "success"]}
  BY DEF CallSucceeds, Recorded
<1>3. \E row \in toolRows' : row.trace = r /\ row.status = "success"
  <2> DEFINE row == [trace |-> r, tool |-> tool, status |-> "success"]
  <2>1. row \in toolRows'
    BY <1>2
  <2>2. row.trace = r /\ row.status = "success"
    OBVIOUS
  <2> QED BY <2>1, <2>2
<1> QED BY <1>1, <1>2, <1>3

\* A tool call that raises removes no audit row and retrieves nothing.
LEMMA RaiseRecordsNothingNew ==
    ASSUME NEW r \in Requests, NEW tool \in Tools, CallRaises(r, tool)
    PROVE  toolRows \subseteq toolRows' /\ UNCHANGED retrieved
BY DEF CallRaises, Recorded

\* A new draft keeps EvidenceOf when what it shows was retrieved.
LEMMA DraftShows ==
    ASSUME TypeOK, NEW r \in Requests, NEW path \in {"llm", "rule"},
           NEW kind \in Kinds, NEW onTopic \in BOOLEAN,
           NEW evidence \in SUBSET Papers, NEW cited \in SUBSET Papers,
           Submit(r, NewDraft(r, path, kind, onTopic, evidence, cited))
    PROVE  /\ draft'[r].evidence = evidence /\ draft'[r].cited = cited
           /\ \A q \in Requests \ {r} : draft'[q] = draft[q]
<1>1. draft' = [draft EXCEPT ![r] = NewDraft(r, path, kind, onTopic, evidence, cited)]
  BY DEF Submit
<1>2. draft \in [Requests -> Draft]
  BY DEF TypeOK
<1> QED BY <1>1, <1>2, NewDraftType

\* The step of a rule handler that called a tool: what it keeps or shows is of
\* what it had or what the call returned.
LEMMA EvidenceCall ==
    ASSUME TypeOK, EvidenceInv, NEW r \in Requests, NEW tool \in Tools,
           NEW result \in SUBSET Papers, CallSucceeds(r, tool, result),
           /\ \A p \in Requests \ {r} : gathered'[p] = gathered[p] /\ draft'[p] = draft[p]
           /\ gathered'[r] \subseteq gathered[r] \cup result
           /\ \/ draft'[r] = draft[r]
              \/ /\ draft'[r].evidence \subseteq gathered[r] \cup result
                 /\ draft'[r].cited \subseteq draft'[r].evidence,
           NEW q \in Requests
    PROVE  EvidenceOf(q)'
<1>1. /\ toolRows \subseteq toolRows'
      /\ retrieved'[r] = retrieved[r] \cup result
      /\ \A p \in Requests \ {r} : retrieved'[p] = retrieved[p]
      /\ \E row \in toolRows' : row.trace = r /\ row.status = "success"
  BY SuccessIsRecorded
<1>2. EvidenceOf(r)
  BY DEF EvidenceInv
<1>3. CASE q # r
  BY <1>1, <1>3, EvidenceFrame
<1>4. CASE q = r
  BY <1>1, <1>2, <1>4 DEF EvidenceOf
<1> QED BY <1>3, <1>4

\* One step per action that touches papers, drafts or tool_calls.
LEMMA EvidenceStep == TypeOK /\ EvidenceInv /\ [Next]_vars => EvidenceInv'
<1> SUFFICES ASSUME TypeOK, EvidenceInv, [Next]_vars, NEW q \in Requests
             PROVE  EvidenceOf(q)'
  BY DEF EvidenceInv
<1> USE DEF asked
<1>t. /\ "search_papers" \in Tools /\ "get_paper" \in Tools /\ "ensure_fulltext" \in Tools
      /\ "refusal" \in Kinds /\ "text" \in Kinds /\ {} \in SUBSET Papers
      /\ gathered \in [Requests -> SUBSET Papers] /\ draft \in [Requests -> Draft]
      /\ retrieved \in [Requests -> SUBSET Papers]
  BY DEF Tools, Kinds, TypeOK
<1>0. EvidenceOf(q) /\ \A r \in Requests : EvidenceOf(r)
  BY DEF EvidenceInv
\* Steps that touch none of them.
<1>1. CASE UNCHANGED <<gathered, retrieved, draft, toolRows>>
  BY <1>1, EvidenceFrame
<1>2. ASSUME NEW r \in Requests, Plan(r) PROVE EvidenceOf(q)'
  <2>1. UNCHANGED <<retrieved, toolRows>>
    BY <1>2 DEF Plan
  <2>2. /\ \A p \in Requests \ {r} : gathered'[p] = gathered[p] /\ draft'[p] = draft[p]
        /\ gathered'[r] \subseteq gathered[r]
        /\ draft'[r] = draft[r] \/ draft'[r] = NoDraft
    BY <1>t, <1>2 DEF Plan, FallBack
  <2>3. CASE q # r
    BY <2>1, <2>2, <2>3, EvidenceFrame
  <2>4. CASE q = r
    BY <1>0, <2>1, <2>2, <2>4, NoDraftType DEF EvidenceOf
  <2> QED BY <2>3, <2>4
<1>3. ASSUME NEW r \in Requests, CallTool(r) PROVE EvidenceOf(q)'
  <2> DEFINE tool == Head(todo[r])
  <2>1. UNCHANGED draft
    BY <1>3 DEF CallTool
  <2>2. CASE tool \notin Tools
    BY <1>3, <2>1, <2>2, EvidenceFrame DEF CallTool
  <2>3. CASE tool \in Tools /\ CallRaises(r, tool) /\ UNCHANGED gathered
    BY <2>1, <2>3, RaiseRecordsNothingNew, EvidenceFrame
  <2>4. ASSUME tool \in Tools, NEW result \in Results(tool),
               CallSucceeds(r, tool, result),
               gathered' = [gathered EXCEPT ![r] = @ \cup NormalizeEvidence(tool, result)]
        PROVE  EvidenceOf(q)'
    <3>1. result \in SUBSET Papers
      BY <2>4, ResultsType
    <3>2. /\ \A p \in Requests \ {r} : gathered'[p] = gathered[p]
          /\ gathered'[r] \subseteq gathered[r] \cup result
      BY <1>t, <2>4 DEF NormalizeEvidence
    <3> QED BY <2>1, <2>4, <3>1, <3>2, EvidenceCall
  <2> QED BY <1>3, <2>2, <2>3, <2>4 DEF CallTool
<1>4. ASSUME NEW r \in Requests, Observe(r) PROVE EvidenceOf(q)'
  <2>1. UNCHANGED <<gathered, retrieved, toolRows>>
    BY <1>4 DEF Observe
  <2>2. CASE gathered[r] # {}
    BY <1>1, <1>4, <2>1, <2>2 DEF Observe
  <2>3. CASE gathered[r] = {}
    <3>1. PICK onTopic \in BOOLEAN :
             Submit(r, NewDraft(r, "llm", "refusal", onTopic, {}, {}))
      BY <1>4, <2>3 DEF Observe
    <3>2. /\ draft'[r].evidence = {} /\ draft'[r].cited = {}
          /\ \A p \in Requests \ {r} : draft'[p] = draft[p]
      BY <1>t, <3>1, DraftShows
    <3>3. CASE q # r
      BY <2>1, <3>2, <3>3, EvidenceFrame
    <3>4. CASE q = r
      BY <1>0, <2>1, <3>2, <3>4 DEF EvidenceOf
    <3> QED BY <3>3, <3>4
  <2> QED BY <2>2, <2>3
<1>5. ASSUME NEW r \in Requests, Generate(r) PROVE EvidenceOf(q)'
  <2>1. UNCHANGED <<gathered, retrieved, toolRows>>
    BY <1>5 DEF Generate
  <2>2. CASE FallBack(r)
    <3>1. draft'[r] = NoDraft /\ \A p \in Requests \ {r} : draft'[p] = draft[p]
      BY <1>t, <2>2 DEF FallBack
    <3>2. CASE q # r
      BY <2>1, <3>1, <3>2, EvidenceFrame
    <3>3. CASE q = r
      BY <1>0, <2>1, <3>1, <3>3, NoDraftType DEF EvidenceOf
    <3> QED BY <3>2, <3>3
  <2>3. ASSUME NEW kind \in Kinds, NEW onTopic \in BOOLEAN,
               NEW cited \in Slices(gathered[r], CiteLimit),
               Submit(r, NewDraft(r, "llm", kind, onTopic, gathered[r], cited))
        PROVE  EvidenceOf(q)'
    <3>1. cited \subseteq gathered[r] /\ gathered[r] \in SUBSET Papers
      BY <1>t, SlicesType
    <3>2. /\ draft'[r].evidence = gathered[r] /\ draft'[r].cited = cited
          /\ \A p \in Requests \ {r} : draft'[p] = draft[p]
      BY <2>3, <3>1, DraftShows
    <3>3. CASE q # r
      BY <2>1, <3>2, <3>3, EvidenceFrame
    <3>4. CASE q = r
      BY <1>0, <2>1, <3>1, <3>2, <3>4 DEF EvidenceOf
    <3> QED BY <3>3, <3>4
  <2> QED BY <1>5, <2>2, <2>3 DEF Generate
<1>6. ASSUME NEW r \in Requests, RuleList(r) PROVE EvidenceOf(q)'
  <2>1. PICK result \in Results("search_papers"), onTopic \in BOOLEAN :
           /\ CallSucceeds(r, "search_papers", result)
           /\ IF result = {}
                THEN Submit(r, NewDraft(r, "rule", "refusal", onTopic, {}, {}))
                ELSE \E top \in Slices(result, CiteLimit) :
                        Submit(r, NewDraft(r, "rule", "text", onTopic, top, top))
    BY <1>6 DEF RuleList
  <2>2. result \in SUBSET Papers /\ UNCHANGED gathered
    BY <1>t, <1>6, ResultsType DEF RuleList
  <2>3. PICK kind \in Kinds, top \in SUBSET result :
           Submit(r, NewDraft(r, "rule", kind, onTopic, top, top))
    BY <1>t, <2>1, SlicesType
  <2>4. top \in SUBSET Papers
    BY <2>2
  <2>5. /\ draft'[r].evidence = top /\ draft'[r].cited = top
        /\ \A p \in Requests \ {r} : draft'[p] = draft[p]
    BY <2>3, <2>4, DraftShows
  <2> QED BY <1>t, <2>1, <2>2, <2>5, EvidenceCall
<1>7. ASSUME NEW r \in Requests, RuleDetail(r) PROVE EvidenceOf(q)'
  <2>1. PICK tool \in {"search_papers", "get_paper"}, onTopic \in BOOLEAN :
           \E result \in Results(tool) :
              /\ CallSucceeds(r, tool, result)
              /\ IF result = {}
                   THEN Submit(r, NewDraft(r, "rule", "refusal", onTopic, {}, {}))
                   ELSE \E best \in result :
                        Submit(r, NewDraft(r, "rule", "text", onTopic, {best}, {best}))
    BY <1>7 DEF RuleDetail
  <2>2. PICK result \in Results(tool) :
              /\ CallSucceeds(r, tool, result)
              /\ IF result = {}
                   THEN Submit(r, NewDraft(r, "rule", "refusal", onTopic, {}, {}))
                   ELSE \E best \in result :
                        Submit(r, NewDraft(r, "rule", "text", onTopic, {best}, {best}))
    BY <2>1
  <2>3. tool \in Tools /\ result \in SUBSET Papers /\ UNCHANGED gathered
    BY <1>t, <1>7, ResultsType DEF RuleDetail
  <2>4. \E kind \in Kinds, top \in SUBSET result :
           Submit(r, NewDraft(r, "rule", kind, onTopic, top, top))
    <3>1. CASE result = {}
      BY <1>t, <2>2, <3>1
    <3>2. CASE result # {}
      <4>1. PICK best \in result :
               Submit(r, NewDraft(r, "rule", "text", onTopic, {best}, {best}))
        BY <2>2, <3>2
      <4>2. {best} \in SUBSET result
        OBVIOUS
      <4> QED BY <1>t, <4>1, <4>2
    <3> QED BY <3>1, <3>2
  <2>5. PICK kind \in Kinds, top \in SUBSET result :
           Submit(r, NewDraft(r, "rule", kind, onTopic, top, top))
    BY <2>4
  <2>6. top \in SUBSET Papers
    BY <2>3
  <2>7. /\ draft'[r].evidence = top /\ draft'[r].cited = top
        /\ \A p \in Requests \ {r} : draft'[p] = draft[p]
    BY <2>5, <2>6, DraftShows
  <2> QED BY <2>2, <2>3, <2>7, EvidenceCall
<1>8. ASSUME NEW r \in Requests, RuleQA(r) PROVE EvidenceOf(q)'
  <2>1. PICK result \in Results("search_papers") :
           /\ CallSucceeds(r, "search_papers", result)
           /\ IF result = {}
                THEN /\ \E onTopic \in BOOLEAN :
                           Submit(r, NewDraft(r, "rule", "refusal", onTopic, {}, {}))
                     /\ UNCHANGED gathered
                ELSE /\ \E best \in result :
                           gathered' = [gathered EXCEPT ![r] = {best}]
                     /\ UNCHANGED draft
    BY <1>8 DEF RuleQA
  <2>2. result \in SUBSET Papers
    BY <1>t, ResultsType
  <2>3. CASE result = {}
    <3>1. PICK onTopic \in BOOLEAN :
             Submit(r, NewDraft(r, "rule", "refusal", onTopic, {}, {}))
      BY <2>1, <2>3
    <3>2. /\ draft'[r].evidence = {} /\ draft'[r].cited = {}
          /\ \A p \in Requests \ {r} : draft'[p] = draft[p]
      BY <1>t, <3>1, DraftShows
    <3> QED BY <1>t, <2>1, <2>2, <2>3, <3>2, EvidenceCall
  <2>4. CASE result # {}
    <3>1. PICK best \in result : gathered' = [gathered EXCEPT ![r] = {best}]
      BY <2>1, <2>4
    <3>2. /\ \A p \in Requests \ {r} : gathered'[p] = gathered[p]
          /\ gathered'[r] \subseteq gathered[r] \cup result
      BY <1>t, <3>1
    <3> QED BY <1>t, <2>1, <2>2, <2>4, <3>2, EvidenceCall
  <2> QED BY <2>3, <2>4
<1>9. ASSUME NEW r \in Requests, RuleConcept(r) PROVE EvidenceOf(q)'
  <2>1. PICK result \in Results("search_papers") :
           /\ CallSucceeds(r, "search_papers", result)
           /\ \E top \in Slices(result, CiteLimit) :
                 gathered' = [gathered EXCEPT ![r] = top]
    BY <1>9 DEF RuleConcept
  <2>2. result \in SUBSET Papers /\ UNCHANGED draft
    BY <1>t, <1>9, ResultsType DEF RuleConcept
  <2>3. /\ \A p \in Requests \ {r} : gathered'[p] = gathered[p]
        /\ gathered'[r] \subseteq gathered[r] \cup result
    BY <1>t, <2>1, SlicesType
  <2> QED BY <1>t, <2>1, <2>2, <2>3, EvidenceCall
<1>10. ASSUME NEW r \in Requests, RuleCompare(r) PROVE EvidenceOf(q)'
  <2>1. ASSUME NEW onTopic \in BOOLEAN,
               Submit(r, NewDraft(r, "rule", "text", onTopic, {}, {})),
               UNCHANGED <<gathered, retrieved, toolRows>>
        PROVE  EvidenceOf(q)'
    <3>1. /\ draft'[r].evidence = {} /\ draft'[r].cited = {}
          /\ \A p \in Requests \ {r} : draft'[p] = draft[p]
      BY <1>t, <2>1, DraftShows
    <3>2. CASE q # r
      BY <2>1, <3>1, <3>2, EvidenceFrame
    <3>3. CASE q = r
      BY <1>0, <2>1, <3>1, <3>3 DEF EvidenceOf
    <3> QED BY <3>2, <3>3
  <2>2. ASSUME NEW result \in AtMostOne, CallSucceeds(r, "search_papers", result),
               gathered' = [gathered EXCEPT ![r] = result], UNCHANGED draft
        PROVE  EvidenceOf(q)'
    <3>1. result \in SUBSET Papers
      BY DEF AtMostOne
    <3>2. /\ \A p \in Requests \ {r} : gathered'[p] = gathered[p]
          /\ gathered'[r] \subseteq gathered[r] \cup result
      BY <1>t, <2>2
    <3> QED BY <1>t, <2>2, <3>1, <3>2, EvidenceCall
  <2> QED BY <1>10, <2>1, <2>2 DEF RuleCompare
<1>11. ASSUME NEW r \in Requests, RuleCompareSecond(r) PROVE EvidenceOf(q)'
  <2>1. PICK result \in AtMostOne :
           /\ CallSucceeds(r, "search_papers", result)
           /\ gathered' = [gathered EXCEPT ![r] = @ \cup result]
           /\ \/ \E onTopic \in BOOLEAN :
                    Submit(r, NewDraft(r, "rule", "refusal", onTopic,
                                       gathered[r] \cup result, {}))
              \/ UNCHANGED draft
    BY <1>11 DEF RuleCompareSecond
  <2>2. result \in SUBSET Papers /\ gathered[r] \cup result \in SUBSET Papers
    BY <1>t DEF AtMostOne
  <2>3. /\ \A p \in Requests \ {r} : gathered'[p] = gathered[p]
        /\ gathered'[r] \subseteq gathered[r] \cup result
    BY <1>t, <2>1
  <2>4. CASE UNCHANGED draft
    BY <1>t, <2>1, <2>2, <2>3, <2>4, EvidenceCall
  <2>5. ASSUME NEW onTopic \in BOOLEAN,
               Submit(r, NewDraft(r, "rule", "refusal", onTopic,
                                  gathered[r] \cup result, {}))
        PROVE  EvidenceOf(q)'
    <3>1. /\ draft'[r].evidence = gathered[r] \cup result /\ draft'[r].cited = {}
          /\ \A p \in Requests \ {r} : draft'[p] = draft[p]
      BY <1>t, <2>2, <2>5, DraftShows
    <3> QED BY <1>t, <2>1, <2>2, <2>3, <3>1, EvidenceCall
  <2> QED BY <2>1, <2>4, <2>5
<1>12. ASSUME NEW r \in Requests, RuleFullText(r) PROVE EvidenceOf(q)'
  BY <1>t, <1>12, EvidenceCall DEF RuleFullText
<1>13. ASSUME NEW r \in Requests, RuleGenerate(r) PROVE EvidenceOf(q)'
  <2>1. PICK kind \in RuleKinds(r), onTopic \in BOOLEAN :
           Submit(r, NewDraft(r, "rule", kind, onTopic, gathered[r], gathered[r]))
    BY <1>13 DEF RuleGenerate
  <2>2. kind \in Kinds /\ gathered[r] \in SUBSET Papers
    BY <1>t DEF RuleKinds, Kinds
  <2>3. UNCHANGED <<gathered, retrieved, toolRows>>
    BY <1>13 DEF RuleGenerate
  <2>4. /\ draft'[r].evidence = gathered[r] /\ draft'[r].cited = gathered[r]
        /\ \A p \in Requests \ {r} : draft'[p] = draft[p]
    BY <2>1, <2>2, DraftShows
  <2>5. CASE q # r
    BY <2>3, <2>4, <2>5, EvidenceFrame
  <2>6. CASE q = r
    BY <1>0, <2>3, <2>4, <2>6 DEF EvidenceOf
  <2> QED BY <2>5, <2>6
<1>14. ASSUME NEW r \in Requests, RuleRaises(r) PROVE EvidenceOf(q)'
  <2>1. PICK tool \in Tools : CallRaises(r, tool)
    BY <1>14 DEF RuleRaises
  <2> QED BY <1>14, <2>1, RaiseRecordsNothingNew, EvidenceFrame DEF RuleRaises
<1>15. ASSUME NEW r \in Requests,
              \/ Ask(r) \/ Probe(r) \/ ItemRaises(r)
              \/ Judge(r) \/ JudgeRaises(r) \/ Finish(r)
       PROVE  UNCHANGED <<gathered, retrieved, draft, toolRows>>
  BY <1>15 DEF Ask, Probe, ItemRaises, Judge, JudgeRaises, Finish
<1>16. CASE Crash
  BY <1>1, <1>16 DEF Crash
<1> QED BY <1>1, <1>2, <1>3, <1>4, <1>5, <1>6, <1>7, <1>8, <1>9, <1>10, <1>11, <1>12,
           <1>13, <1>14, <1>15, <1>16 DEF Next, Step, RuleStep, vars

\* EvidenceInv is an invariant.
LEMMA EvidenceCorrect == Spec => []EvidenceInv
<1>1. Init => EvidenceInv
  BY NoDraftType DEF Init, EvidenceInv, EvidenceOf
<1>2. TypeOK /\ EvidenceInv /\ [Next]_vars => EvidenceInv'
  BY EvidenceStep
<1> QED BY <1>1, <1>2, TypeCorrect, PTL DEF Spec

\* Everything an answer cites is among its evidence, and its evidence was
\* returned to this request by a call that tool_calls records as a success,
\* whichever tools or audit writes fail.
THEOREM EvidenceHasARecord == Spec => []EvidenceIsAudited
<1>1. EvidenceInv => EvidenceIsAudited
  BY DEF EvidenceInv, EvidenceOf, EvidenceIsAudited
<1> QED BY <1>1, EvidenceCorrect, PTL

-----------------------------------------------------------------------------
(* What the Judge lets through, and what a retry does *)

GroundedOf(r) ==
    pc[r] \in {"finish", "done"} /\ verdict[r].result = "pass" =>
        /\ verdict[r].by = "rules" => RulesAccept(draft[r])
        /\ intent[r] \notin LLM_INTENTS => verdict[r].by = "rules"

GroundedInv == \A r \in Requests : GroundedOf(r)

\* Every step keeps GroundedInv.
LEMMA GroundedStep == TypeOK /\ GroundedInv /\ [Next]_vars => GroundedInv'
<1> SUFFICES ASSUME TypeOK, GroundedInv, [Next]_vars, NEW q \in Requests
             PROVE  GroundedOf(q)'
  BY DEF GroundedInv
<1>0. GroundedOf(q)
  BY DEF GroundedInv
<1>t. /\ pc \in [Requests -> Steps] /\ draft \in [Requests -> Draft]
      /\ verdict \in [Requests -> Verdict]
  BY DEF TypeOK
\* Steps of others, and steps that do not bring q to its end.
<1>1. CASE /\ pc'[q] \in {"finish", "done"} => pc[q] \in {"finish", "done"}
           /\ UNCHANGED <<intent, verdict>>
           /\ pc[q] \in {"finish", "done"} => draft'[q] = draft[q]
  BY <1>0, <1>1 DEF GroundedOf, RulesAccept, Fabricated, HasEvidence
<1>2. CASE UNCHANGED vars
  BY <1>1, <1>2 DEF vars
<1>3. CASE Crash
  BY <1>1, <1>3 DEF Crash, asked
<1>4. ASSUME NEW r \in Requests, Ask(r) PROVE GroundedOf(q)'
  BY <1>t, <1>1, <1>4 DEF Ask, asked
<1>5. ASSUME NEW r \in Requests, Probe(r) PROVE GroundedOf(q)'
  <2>1. PICK b \in BOOLEAN : pc' = [pc EXCEPT ![r] = LoopHead(r, b)]
    BY <1>5 DEF Probe
  <2> QED BY <1>t, <1>1, <1>5, <2>1, LoopHeadType DEF Probe, asked
<1>6. ASSUME NEW r \in Requests, Drafts(r) PROVE GroundedOf(q)'
  <2>1. /\ pc[r] \in Working /\ pc' = [pc EXCEPT ![r] = "judge"]
        /\ UNCHANGED <<intent, verdict>>
        /\ \A p \in Requests \ {r} : draft'[p] = draft[p]
    BY <1>t, <1>6 DEF Drafts, DraftsWith, Submit, kept
  <2> QED BY <1>t, <1>1, <2>1 DEF Working
<1>7. ASSUME NEW r \in Requests, WorksOn(r) PROVE GroundedOf(q)'
  <2>1. PICK step \in Working : pc' = [pc EXCEPT ![r] = step]
    BY <1>7 DEF WorksOn
  <2> QED BY <1>t, <1>1, <1>7, <2>1 DEF WorksOn, kept, Working
<1>8. ASSUME NEW r \in Requests, GivesUp(r) PROVE GroundedOf(q)'
  BY <1>t, <1>1, <1>8 DEF GivesUp, Fail, kept
<1>9. ASSUME NEW r \in Requests, Judge(r) PROVE GroundedOf(q)'
  <2>1. PICK result \in {"pass", "reject"}, by \in {"llm", "rules"}, f \in BOOLEAN :
           /\ Decide(r, result, by, f)
           /\ by = "rules" => (result = "pass" => RulesAccept(draft[r]))
           /\ by = "llm" => intent[r] \in LLM_INTENTS
    BY <1>9, JudgeShape
  <2>2. UNCHANGED <<intent, draft>>
    BY <1>9, JudgeShape
  <2>3. /\ verdict'[r].result = result /\ verdict'[r].by = by
        /\ \A p \in Requests \ {r} : verdict'[p] = verdict[p] /\ pc'[p] = pc[p]
    BY <1>t, <2>1 DEF Decide
  <2>4. CASE q # r
    BY <1>0, <2>2, <2>3, <2>4 DEF GroundedOf, RulesAccept, Fabricated, HasEvidence
  <2>5. CASE q = r
    BY <2>1, <2>2, <2>3, <2>5 DEF GroundedOf, RulesAccept, Fabricated, HasEvidence
  <2> QED BY <2>4, <2>5
<1>10. ASSUME NEW r \in Requests, Finish(r) PROVE GroundedOf(q)'
  BY <1>t, <1>1, <1>10 DEF Finish, SaveFails, Fail, asked
<1> QED BY StepShape, <1>2, <1>3, <1>4, <1>5, <1>6, <1>7, <1>8, <1>9, <1>10

\* An answer accepted by the rules shows evidence or is an open refusal, and no
\* question outside LLM_INTENTS is accepted by anything but the rules.
THEOREM RulesAreTheFloor == Spec => []NothingUngroundedPassesRules
<1>1. Init => GroundedInv
  BY DEF Init, GroundedInv, GroundedOf
<1>2. TypeOK /\ GroundedInv /\ [Next]_vars => GroundedInv'
  BY GroundedStep
<1>3. GroundedInv => NothingUngroundedPassesRules
  BY DEF GroundedInv, GroundedOf, NothingUngroundedPassesRules, RulesAccept,
         HasEvidence, Fabricated
<1> QED BY <1>1, <1>2, <1>3, TypeCorrect, PTL DEF Spec

\* RuleRetryBroadens needs to know that the feedback of a rejection by the rules
\* is still there when the worker of the next round runs.
BroadensOf(r) ==
    /\ pc[r] \in {"idle", "probe"} => verdict[r].by = "none"
    /\ pc[r] \in Working \cup {"judge"} /\ verdict[r].by = "rules" => feedback[r]
    /\ pc[r] = "judge" /\ draft[r].path = "rule" /\ draft[r].round > 1
          /\ verdict[r].by = "rules" /\ draft[r].round = iteration[r]
       => draft[r].broadened

BroadensInv == \A r \in Requests : BroadensOf(r)

\* A step that leaves the locals of a request alone keeps BroadensInv for it.
LEMMA BroadensFrame ==
    ASSUME BroadensInv, NEW q \in Requests,
           /\ pc'[q] = pc[q] /\ iteration'[q] = iteration[q]
           /\ feedback'[q] = feedback[q] /\ draft'[q] = draft[q]
           /\ verdict'[q] = verdict[q]
    PROVE  BroadensOf(q)'
BY DEF BroadensInv, BroadensOf

\* Every step keeps BroadensInv.
LEMMA BroadensStep == TypeOK /\ RoundInv /\ BroadensInv /\ [Next]_vars => BroadensInv'
<1> SUFFICES ASSUME TypeOK, RoundInv, BroadensInv, [Next]_vars, NEW q \in Requests
             PROVE  BroadensOf(q)'
  BY DEF BroadensInv
<1>0. /\ BroadensOf(q) /\ RoundOf(q)
      /\ draft[q].round \in Int /\ iteration[q] \in Int
  BY DEF BroadensInv, RoundInv, TypeOK, Draft
<1>t. /\ pc \in [Requests -> Steps] /\ draft \in [Requests -> Draft]
      /\ verdict \in [Requests -> Verdict] /\ feedback \in [Requests -> BOOLEAN]
      /\ iteration \in [Requests -> 0..MaxIterations]
  BY DEF TypeOK
<1>1. CASE UNCHANGED vars
  BY <1>1, BroadensFrame DEF vars
<1>2. CASE Crash
  <2>1. CASE pc'[q] = pc[q]
    BY <1>2, <2>1, BroadensFrame DEF Crash
  <2>2. CASE pc'[q] = "failed"
    BY <2>2 DEF BroadensOf, Working
  <2> QED BY <1>2, <2>1, <2>2 DEF Crash
<1>3. ASSUME NEW r \in Requests, Ask(r) PROVE BroadensOf(q)'
  <2>1. CASE q # r
    BY <1>t, <1>3, <2>1, BroadensFrame DEF Ask
  <2>2. CASE q = r
    BY <1>t, <1>0, <1>3, <2>2 DEF Ask, BroadensOf, Working
  <2> QED BY <2>1, <2>2
<1>4. ASSUME NEW r \in Requests, Probe(r) PROVE BroadensOf(q)'
  <2>0. PICK b \in BOOLEAN : pc' = [pc EXCEPT ![r] = LoopHead(r, b)]
    BY <1>4 DEF Probe
  <2>1. CASE q # r
    BY <1>t, <1>4, <2>0, <2>1, BroadensFrame DEF Probe
  <2>2. CASE q = r
    <3>1. verdict'[r].by = "none" /\ pc'[r] \in {"plan", "rule", "judge"}
      BY <1>t, <1>0, <1>4, <2>0, <2>2, LoopHeadType DEF Probe, BroadensOf
    <3> QED BY <2>2, <3>1 DEF BroadensOf
  <2> QED BY <2>1, <2>2
<1>5. ASSUME NEW r \in Requests, Drafts(r) PROVE BroadensOf(q)'
  <2>0. PICK path \in {"llm", "rule"}, kind \in Kinds, onTopic \in BOOLEAN,
             evidence \in SUBSET Papers, cited \in SUBSET Papers :
                DraftsWith(r, path, kind, onTopic, evidence, cited)
    BY <1>5 DEF Drafts
  <2>1. CASE q # r
    BY <1>t, <2>0, <2>1, BroadensFrame DEF DraftsWith, Submit, kept
  <2>2. CASE q = r
    <3>1. /\ draft'[r].path = path /\ draft'[r].round = iteration[r]
          /\ draft'[r].broadened = (path = "rule" /\ iteration[r] > 1 /\ feedback[r])
      BY <1>t, <2>0 DEF DraftsWith, Submit, NewDraft
    <3>2. /\ pc[r] \in Working /\ pc'[r] = "judge"
          /\ UNCHANGED <<verdict, feedback, iteration>>
      BY <1>t, <2>0 DEF DraftsWith, Submit, kept
    <3>3. verdict[r].by = "rules" => feedback[r]
      BY <1>0, <2>2, <3>2 DEF BroadensOf
    <3>4. draft'[r].path = "rule" /\ draft'[r].round > 1 /\ verdict'[r].by = "rules"
          => draft'[r].broadened
      BY <3>1, <3>2, <3>3
    <3> QED BY <2>2, <3>2, <3>3, <3>4 DEF BroadensOf
  <2> QED BY <2>1, <2>2
<1>6. ASSUME NEW r \in Requests, WorksOn(r) PROVE BroadensOf(q)'
  <2>1. CASE q # r
    BY <1>t, <1>6, <2>1, BroadensFrame DEF WorksOn, kept
  <2>2. CASE q = r
    BY <1>t, <1>0, <1>6, <2>2 DEF WorksOn, kept, BroadensOf, Working
  <2> QED BY <2>1, <2>2
<1>7. ASSUME NEW r \in Requests, GivesUp(r) PROVE BroadensOf(q)'
  <2>1. CASE q # r
    BY <1>t, <1>7, <2>1, BroadensFrame DEF GivesUp, Fail, kept
  <2>2. CASE q = r
    BY <1>t, <1>7, <2>2 DEF GivesUp, Fail, BroadensOf, Working
  <2> QED BY <2>1, <2>2
<1>8. ASSUME NEW r \in Requests, Judge(r) PROVE BroadensOf(q)'
  <2>1. PICK result \in {"pass", "reject"}, by \in {"llm", "rules"}, f \in BOOLEAN :
           /\ Decide(r, result, by, f)
           /\ by = "rules" => (result = "reject" => f)
    BY <1>8, JudgeShape
  <2>2. UNCHANGED draft
    BY <1>8, JudgeShape
  <2>3. CASE q # r
    BY <1>t, <2>1, <2>2, <2>3, BroadensFrame DEF Decide
  <2>4. CASE q = r
    <3>1. verdict'[r].by = by
      BY <1>t, <2>1 DEF Decide
    <3>2. CASE result = "pass" \/ LastRound(r)
      <4>1. pc'[r] = "finish"
        BY <1>t, <2>1, <3>2 DEF Decide
      <4> QED BY <2>4, <4>1 DEF BroadensOf, Working
    <3>3. CASE ~ (result = "pass" \/ LastRound(r))
      <4>1. /\ pc'[r] \in {"plan", "rule", "judge"} /\ iteration'[r] = iteration[r] + 1
            /\ feedback'[r] = f /\ (by = "rules" => f)
        BY <1>t, <2>1, <3>3, LoopHeadType DEF Decide, NextRound, NextFeedback
      <4>2. draft'[r].round # iteration'[r]
        BY <1>0, <2>2, <2>4, <4>1 DEF RoundOf
      <4> QED BY <2>4, <3>1, <4>1, <4>2 DEF BroadensOf
    <3> QED BY <3>2, <3>3
  <2> QED BY <2>3, <2>4
<1>9. ASSUME NEW r \in Requests, Finish(r) PROVE BroadensOf(q)'
  <2>1. CASE q # r
    BY <1>t, <1>9, <2>1, BroadensFrame DEF Finish, SaveFails, Fail
  <2>2. CASE q = r
    BY <1>t, <1>9, <2>2 DEF Finish, SaveFails, Fail, BroadensOf, Working
  <2> QED BY <2>1, <2>2
<1> QED BY StepShape, <1>1, <1>2, <1>3, <1>4, <1>5, <1>6, <1>7, <1>8, <1>9

\* A rule draft written after a rejection by the rules was searched for with
\* broadened words, whatever the LLM worker did in between.
THEOREM FeedbackReachesTheRetry == Spec => []RuleRetryBroadens
<1>1. Init => BroadensInv
  BY DEF Init, BroadensInv, BroadensOf, NoVerdict, Working
<1>2. TypeOK /\ RoundInv /\ BroadensInv /\ [Next]_vars => BroadensInv'
  BY BroadensStep
<1>3. BroadensInv => RuleRetryBroadens
  BY DEF BroadensInv, BroadensOf, RuleRetryBroadens
<1> QED BY <1>1, <1>2, <1>3, TypeCorrect, RoundCorrect, PTL DEF Spec
=============================================================================
