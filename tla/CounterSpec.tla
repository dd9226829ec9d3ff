---------------------------- MODULE CounterSpec ----------------------------
(***************************************************************************)
(* What the visitor counter promises: a shared counter that is asked at     *)
(* most once per request and whose number goes to the request it was drawn  *)
(* for, and a spare counter per pod for requests that give up waiting.      *)
(* There are no connections, queues or positions; commands and numbers may  *)
(* get lost.  The exception has a place of its own: once a pod has cut a    *)
(* reply in two, its requests may be shown one another's numbers.           *)
(***************************************************************************)
EXTENDS Integers

CONSTANTS Pods, Requests, NoPod

VARIABLES
    visits,         \* the shared counter
    spare,          \* per pod: its own
    route, pod,     \* per request
    commanded,      \* the requests whose command will perhaps be executed
    drawn,          \* per request: {}, or {n} when n is on its way to it
    answer,         \* per request: where its number is from, and the number
    cut             \* per pod: whether it has cut a reply in two

vars == <<visits, spare, route, pod, commanded, drawn, answer, cut>>

NoNumber == -1      \* an error message, nothing, or a part of a number

Unanswered == <<"none", 0>>
Waiting == <<"waiting", 0>>

Init ==
    /\ visits = 0 /\ spare = [p \in Pods |-> 0]
    /\ pod = [r \in Requests |-> NoPod]
    /\ commanded = {}
    /\ drawn = [r \in Requests |-> {}]
    /\ answer = [r \in Requests |-> Unanswered]
    /\ cut = [p \in Pods |-> FALSE]

One(r) == IF route[r] = "visit" THEN 1 ELSE 0

\* The request asks for a number of the shared counter, or for one of its pod's.
Ask(r, p) ==
    /\ answer[r] = Unanswered
    /\ pod' = [pod EXCEPT ![r] = p]
    /\ \/ /\ answer' = [answer EXCEPT ![r] = Waiting]
          /\ commanded' \in {commanded, commanded \cup {r}}
          /\ UNCHANGED spare
       \/ /\ spare' = [spare EXCEPT ![p] = @ + One(r)]
          /\ answer' = [answer EXCEPT ![r] = <<"memory", spare[p] + One(r)>>]
          /\ UNCHANGED commanded
    /\ UNCHANGED <<visits, route, drawn, cut>>

\* Its command is executed, once, also if it has given up or its pod is gone.
Draw(r) ==
    /\ r \in commanded
    /\ commanded' = commanded \ {r}
    /\ visits' = visits + One(r)
    /\ drawn' = [drawn EXCEPT ![r] = {visits + One(r)}]
    /\ UNCHANGED <<spare, route, pod, answer, cut>>

\* It is not executed, or there is no number yet, and the request is told so.
Refuse(r) ==
    /\ r \in commanded
    /\ commanded' = commanded \ {r}
    /\ drawn' = [drawn EXCEPT ![r] = {NoNumber}]
    /\ UNCHANGED <<visits, spare, route, pod, answer, cut>>

Show(r) ==
    /\ answer[r] = Waiting
    /\ \E n \in drawn[r] : answer' = [answer EXCEPT ![r] = <<"redis", n>>]
    /\ drawn' = [drawn EXCEPT ![r] = {}]
    /\ UNCHANGED <<visits, spare, route, pod, commanded, cut>>

\* A pod that has cut a reply shows r what was drawn for another of its requests.
Misread(r, q) ==
    /\ answer[r] = Waiting /\ cut[pod[r]] /\ pod[q] = pod[r]
    /\ \E n \in drawn[q] : answer' = [answer EXCEPT ![r] = <<"redis", n>>]
    /\ drawn' = [drawn EXCEPT ![q] = {}]
    /\ UNCHANGED <<visits, spare, route, pod, commanded, cut>>

\* The pod cuts q's reply: a waiting request may be shown one part, the other part
\* stays on its way.
Cut(p, q) ==
    /\ pod[q] = p /\ drawn[q] # {}
    /\ cut' = [cut EXCEPT ![p] = TRUE]
    /\ drawn' \in {drawn, [drawn EXCEPT ![q] = {NoNumber}]}
    /\ \/ UNCHANGED answer
       \/ \E r \in Requests, n \in drawn[q] \cup {NoNumber} :
             /\ answer[r] = Waiting /\ pod[r] = p
             /\ answer' = [answer EXCEPT ![r] = <<"redis", n>>]
    /\ UNCHANGED <<visits, spare, route, pod, commanded>>

GiveUp(r) ==
    /\ answer[r] = Waiting
    /\ spare' = [spare EXCEPT ![pod[r]] = @ + One(r)]
    /\ answer' = [answer EXCEPT ![r] = <<"memory", spare[pod[r]] + One(r)>>]
    /\ UNCHANGED <<visits, route, pod, commanded, drawn, cut>>

\* Commands and numbers get lost, or a number comes too late.
Forget ==
    /\ commanded' \in SUBSET commanded
    /\ \A r \in Requests : drawn'[r] \in {drawn[r], {}}
    /\ DOMAIN drawn' = Requests
    /\ UNCHANGED <<visits, spare, route, pod, answer, cut>>

\* A pod ends, and its waiting requests with it.
Lose(p) ==
    /\ answer' = [r \in Requests |->
                    IF answer[r] = Waiting /\ pod[r] = p THEN <<"lost", 0>> ELSE answer[r]]
    /\ UNCHANGED <<visits, spare, route, pod, commanded, drawn, cut>>

\* The shared counter is set back.
SetBack ==
    /\ visits' \in 0..visits
    /\ UNCHANGED <<spare, route, pod, commanded, drawn, answer, cut>>

Next ==
    \/ \E r \in Requests : Draw(r) \/ Refuse(r) \/ Show(r) \/ GiveUp(r)
    \/ \E r, q \in Requests : Misread(r, q)
    \/ \E r \in Requests, p \in Pods : Ask(r, p) \/ Cut(p, r)
    \/ \E p \in Pods : Lose(p)
    \/ Forget \/ SetBack

Spec == Init /\ [][Next]_vars
=============================================================================
