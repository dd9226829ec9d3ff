------------------------- MODULE VisitCounterProofs -------------------------
(***************************************************************************)
(* TLAPS proofs about VisitCounter, for any number of pods and requests,    *)
(* with replies that come in pieces and a counter that is set back.         *)
(***************************************************************************)
EXTENDS VisitCounter, TLAPS

TypeInv ==
    /\ TypeOK
    /\ \A r \in Requests : answer[r] # Unanswered => pod[r] \in Pods

\* The two constant answers are answers, and different ones.
LEMMA AnswerType ==
    /\ Unanswered \in Answer /\ Waiting \in Answer /\ Waiting # Unanswered
    /\ Waiting.from = "waiting" /\ Unanswered.from = "none"
BY DEF Unanswered, Waiting, Answer

\* The fallback answers r from p's memory.
LEMMA FallbackType ==
    ASSUME TypeOK, NEW r \in Requests, NEW p \in Pods, Fallback(r, p)
    PROVE  /\ memCounter' \in [Pods -> Nat]
           /\ answer' \in [Requests -> Answer]
           /\ answer'[r].from = "memory"
           /\ \A q \in Requests \ {r} : answer'[q] = answer[q]
<1> DEFINE n == IF route[r] = "visit" THEN memCounter[p] + 1 ELSE memCounter[p]
<1>1. n \in Nat
  BY DEF TypeOK
<1>2. /\ memCounter' = [memCounter EXCEPT ![p] = n]
      /\ answer' = [answer EXCEPT ![r] = [from |-> "memory", value |-> n, of |-> r]]
  BY DEF Fallback
<1> HIDE DEF n
<1>3. [from |-> "memory", value |-> n, of |-> r] \in Answer
  BY <1>1 DEF Answer
<1> QED BY <1>1, <1>2, <1>3 DEF TypeOK

\* A reply takes the first waiter off the queue and answers it if it still waits.
LEMMA ResolveType ==
    ASSUME TypeOK, NEW p \in Pods, NEW value \in Int, NEW of \in Requests,
           Resolve(p, value, of)
    PROVE  /\ queue' \in [Pods -> Seq(Requests)]
           /\ answer' \in [Requests -> Answer]
           /\ \A r \in Requests : answer'[r] # answer[r] =>
                 /\ queue[p] # <<>> /\ r = Head(queue[p]) /\ answer[r] = Waiting
                 /\ answer'[r] = [from |-> "redis", value |-> value, of |-> of]
<1>1. queue[p] \in Seq(Requests) /\ queue \in [Pods -> Seq(Requests)]
  BY DEF TypeOK
<1>2. queue' \in [Pods -> Seq(Requests)]
  <2>1. CASE queue[p] = <<>>
    BY <1>1, <2>1 DEF Resolve
  <2>2. CASE queue[p] # <<>>
    <3>1. Tail(queue[p]) \in Seq(Requests)
      BY <1>1, <2>2
    <3> QED BY <1>1, <2>2, <3>1 DEF Resolve
  <2> QED BY <2>1, <2>2
<1>3. CASE queue[p] # <<>> /\ answer[Head(queue[p])] = Waiting
  <2>1. Head(queue[p]) \in Requests
    BY <1>1, <1>3
  <2>2. [from |-> "redis", value |-> value, of |-> of] \in Answer
    BY DEF Answer
  <2> QED BY <1>2, <1>3, <2>1, <2>2 DEF Resolve, TypeOK
<1>4. CASE ~ (queue[p] # <<>> /\ answer[Head(queue[p])] = Waiting)
  BY <1>2, <1>4 DEF Resolve, TypeOK
<1> QED BY <1>3, <1>4

\* Redis replies x to h, the next command of p.
Replied(p, h, x) ==
    /\ link[p] /\ sent[p] # <<>> /\ h = Head(sent[p]) /\ h \in Requests
    /\ x \in Reply /\ x.of = h
    /\ sent' = [sent EXCEPT ![p] = Tail(@)]
    /\ wire' = [wire EXCEPT ![p] = Append(@, x)]
    /\ UNCHANGED <<podVars, link, redisUp, setbacks, route, pod, answer>>
    /\ \/ visits' = visits /\ x.value = NoNumber
       \/ /\ visits' = visits + Abstract!One(h) /\ x.value = visits'
          /\ issued' = [issued EXCEPT ![h] = <<setbacks, visits'>>]
    /\ issued' \in {issued, [issued EXCEPT ![h] = <<setbacks, visits'>>]}
    /\ visits' \in Nat /\ visits <= visits'
    /\ issued' # issued /\ route[h] = "visit" => visits' = visits + 1

LEMMA ReplyFacts ==
    ASSUME TypeOK, NEW p \in Pods, Execute(p) \/ Refuse(p)
    PROVE  \E h, x : Replied(p, h, x)
<1>1. sent[p] \in Seq(Requests) /\ sent[p] # <<>> /\ visits \in Nat
  BY DEF Execute, Refuse, SendReply, TypeOK
<1>2. PICK h \in Requests : h = Head(sent[p])
  BY <1>1
<1>3. PICK n : n = IF route[h] = "visit" THEN visits + 1 ELSE visits
  OBVIOUS
<1>4. n = visits + Abstract!One(h) /\ n \in Nat /\ visits <= n
  BY <1>1, <1>3 DEF Abstract!One
<1>5. CASE Execute(p)
  <2>1. PICK form \in Forms(h) : SendReply(p, form, IF form = "nil" THEN NoNumber ELSE n)
    BY <1>2, <1>3, <1>5 DEF Execute
  <2>2. visits' = n /\ issued' = [issued EXCEPT ![h] = <<setbacks, n>>]
    BY <1>2, <1>3, <1>5 DEF Execute
  <2>3. /\ form \in {"integer", "nil", "bulk"}
        /\ form = "nil" => route[h] # "visit"
    BY <2>1 DEF Forms
  <2>4. PICK v : v = IF form = "nil" THEN NoNumber ELSE n
    OBVIOUS
  <2>5. v \in Int /\ (v = n \/ (v = NoNumber /\ n = visits))
    BY <1>1, <1>3, <1>4, <2>3, <2>4 DEF NoNumber
  <2>6. PICK x : x = [form |-> form, value |-> v, of |-> h]
    OBVIOUS
  <2>7. x \in Reply /\ x.of = h /\ x.value = v
    BY <2>3, <2>5, <2>6 DEF Reply
  <2>8. /\ link[p] /\ sent[p] # <<>> /\ sent' = [sent EXCEPT ![p] = Tail(@)]
        /\ wire' = [wire EXCEPT ![p] = Append(@, x)]
        /\ UNCHANGED <<podVars, link, redisUp, setbacks, route, pod, answer>>
    BY <1>2, <2>1, <2>4, <2>6 DEF SendReply
  <2>9. issued' # issued /\ route[h] = "visit" => visits' = visits + 1
    BY <1>3, <2>2
  <2>10. issued' \in {issued, [issued EXCEPT ![h] = <<setbacks, visits'>>]}
    BY <2>2
  <2>11. \/ visits' = visits /\ x.value = NoNumber
         \/ /\ visits' = visits + Abstract!One(h) /\ x.value = visits'
            /\ issued' = [issued EXCEPT ![h] = <<setbacks, visits'>>]
    BY <1>4, <2>2, <2>5, <2>7
  <2>12. Replied(p, h, x)
    BY <1>2, <1>4, <2>2, <2>7, <2>8, <2>9, <2>10, <2>11, Zenon DEF Replied
  <2> QED BY <2>12
<1>6. CASE Refuse(p)
  <2>1. PICK x : x = [form |-> "error", value |-> NoNumber, of |-> h]
    OBVIOUS
  <2>2. x \in Reply /\ x.of = h /\ x.value = NoNumber
    BY <2>1 DEF Reply, NoNumber
  <2>3. /\ link[p] /\ sent[p] # <<>> /\ sent' = [sent EXCEPT ![p] = Tail(@)]
        /\ wire' = [wire EXCEPT ![p] = Append(@, x)]
        /\ UNCHANGED <<podVars, link, redisUp, setbacks, route, pod, answer>>
        /\ UNCHANGED <<visits, issued>>
    BY <1>2, <1>6, <2>1 DEF Refuse, SendReply
  <2>4. visits' \in Nat /\ visits <= visits'
    BY <1>1, <2>3
  <2>5. Replied(p, h, x)
    BY <1>2, <2>2, <2>3, <2>4, Zenon DEF Replied
  <2> QED BY <2>5
<1> QED BY <1>5, <1>6

\* A bulk reply of which only the header has come: v is given to the waiter, w stays.
HeaderRead(p, v, w, x) ==
    /\ wire[p] # <<>> /\ Head(wire[p]) \in Reply
    /\ v \in {NoNumber, Head(wire[p]).value} /\ w \in {NoNumber, Head(wire[p]).value}
    /\ v \in Int /\ w \in Int
    /\ x \in Reply /\ x.value = w /\ x.of = Head(wire[p]).of
    /\ Resolve(p, v, Head(wire[p]).of)
    /\ wire' = [wire EXCEPT ![p] = <<x>> \o Tail(@)]
    /\ cut' = [cut EXCEPT ![p] = TRUE]

LEMMA HeaderFacts ==
    ASSUME TypeOK, NEW p \in Pods, ReceiveHeaderOnly(p)
    PROVE  \E v, w, x : HeaderRead(p, v, w, x)
<1>1. wire[p] \in Seq(Reply) /\ wire[p] # <<>> /\ cut' = [cut EXCEPT ![p] = TRUE]
  BY DEF ReceiveHeaderOnly, TypeOK
<1>2. PICK reply \in Reply : reply = Head(wire[p])
  BY <1>1
<1>3. PICK piece \in Pieces(p, reply.value) :
         /\ Resolve(p, piece[1], reply.of)
         /\ wire' = [wire EXCEPT ![p] =
              <<[form |-> "line", value |-> piece[2], of |-> reply.of]>> \o Tail(@)]
  BY <1>2 DEF ReceiveHeaderOnly
<1>4. reply.value \in Int /\ reply.of \in Requests /\ NoNumber \in Int
  BY DEF Reply, NoNumber
<1>5. piece \in {<<NoNumber, reply.value>>, <<NoNumber, NoNumber>>, <<reply.value, NoNumber>>}
  BY <1>3 DEF Pieces
<1>6. PICK v, w : v = piece[1] /\ w = piece[2]
  OBVIOUS
<1>7. /\ v \in {NoNumber, reply.value} /\ w \in {NoNumber, reply.value}
      /\ v \in Int /\ w \in Int
  BY <1>4, <1>5, <1>6
<1>8. PICK x : x = [form |-> "line", value |-> w, of |-> reply.of]
  OBVIOUS
<1>9. x \in Reply /\ x.value = w /\ x.of = reply.of
  BY <1>4, <1>7, <1>8 DEF Reply
<1>10. Resolve(p, v, reply.of) /\ wire' = [wire EXCEPT ![p] = <<x>> \o Tail(@)]
  BY <1>3, <1>6, <1>8
<1>11. HeaderRead(p, v, w, x)
  BY <1>1, <1>2, <1>7, <1>9, <1>10, Zenon DEF HeaderRead
<1> QED BY <1>11

\* One step per action.
LEMMA TypeStep == TypeInv /\ [Next]_vars => TypeInv'
<1> SUFFICES ASSUME TypeInv, [Next]_vars PROVE TypeInv'
  OBVIOUS
<1>t. TypeOK
  BY DEF TypeInv
<1> USE DEF TypeInv, podVars, redisVars
<1>1. CASE UNCHANGED vars
  BY <1>1 DEF vars, TypeOK
<1>2. ASSUME NEW p \in Pods, Start(p) PROVE TypeInv'
  <2>1. PICK ok \in BOOLEAN : Settle(p, ok)
    BY <1>2 DEF Start
  <2> QED BY <1>2, <2>1 DEF Start, Settle, TypeOK
<1>3. ASSUME NEW r \in Requests, NEW p \in Pods, Arrive(r, p) PROVE TypeInv'
  <2>1. CASE redisReady[p] /\ connected[p]
    <3>1. /\ queue' = [queue EXCEPT ![p] = Append(@, r)]
          /\ sent' = [sent EXCEPT ![p] = IF link[p] THEN Append(@, r) ELSE @]
          /\ answer' = [answer EXCEPT ![r] = Waiting]
          /\ UNCHANGED memCounter
      BY <1>3, <2>1 DEF Arrive
    <3>2. queue' \in [Pods -> Seq(Requests)] /\ sent' \in [Pods -> Seq(Requests)]
      BY <3>1 DEF TypeOK
    <3>3. answer' \in [Requests -> Answer]
      BY <3>1, AnswerType DEF TypeOK
    <3> QED BY <1>3, <3>1, <3>2, <3>3 DEF Arrive, TypeOK
  <2>2. CASE ~ (redisReady[p] /\ connected[p])
    <3>1. Fallback(r, p) /\ UNCHANGED <<queue, sent>>
      BY <1>3, <2>2 DEF Arrive
    <3> QED BY <1>3, <1>t, <3>1, FallbackType DEF Arrive, TypeOK
  <2> QED BY <2>1, <2>2
<1>4. ASSUME NEW p \in Pods, Execute(p) \/ Refuse(p) PROVE TypeInv'
  <2>1. PICK h, x : Replied(p, h, x)
    BY <1>t, <1>4, ReplyFacts
  <2>2. /\ sent[p] \in Seq(Requests) /\ sent[p] # <<>> /\ x \in Reply
        /\ sent' = [sent EXCEPT ![p] = Tail(@)] /\ wire' = [wire EXCEPT ![p] = Append(@, x)]
    BY <2>1 DEF Replied, TypeOK
  <2>3. sent' \in [Pods -> Seq(Requests)] /\ wire' \in [Pods -> Seq(Reply)]
    <3>1. Tail(sent[p]) \in Seq(Requests)
      BY <2>2
    <3> QED BY <2>2, <3>1 DEF TypeOK
  <2>4. visits' \in Nat /\ issued' \in [Requests -> Nat \X Nat]
    <3>1. /\ visits' \in Nat /\ setbacks \in Nat /\ issued \in [Requests -> Nat \X Nat]
          /\ issued' \in {issued, [issued EXCEPT ![h] = <<setbacks, visits'>>]}
      BY <2>1 DEF Replied, TypeOK
    <3>2. PICK n : n = <<setbacks, visits'>>
      OBVIOUS
    <3>3. n \in Nat \X Nat
      BY <3>1, <3>2
    <3> QED BY <3>1, <3>2, <3>3
  <2> QED BY <2>1, <2>3, <2>4 DEF Replied, TypeOK
<1>5. ASSUME NEW p \in Pods, Receive(p) PROVE TypeInv'
  <2>1. wire[p] \in Seq(Reply) /\ wire[p] # <<>>
    BY <1>5 DEF Receive, TypeOK
  <2>2. Head(wire[p]) \in Reply /\ Tail(wire[p]) \in Seq(Reply)
    BY <2>1
  <2>3. Head(wire[p]).value \in Int /\ Head(wire[p]).of \in Requests
    BY <2>2 DEF Reply
  <2>4. wire' \in [Pods -> Seq(Reply)]
    BY <1>5, <2>2 DEF Receive, Consume, TypeOK
  <2>5. Resolve(p, Head(wire[p]).value, Head(wire[p]).of)
    BY <1>5 DEF Receive
  <2>6. /\ queue' \in [Pods -> Seq(Requests)] /\ answer' \in [Requests -> Answer]
        /\ \A r \in Requests : answer'[r] # answer[r] => answer[r] # Unanswered
    BY <1>t, <2>3, <2>5, ResolveType, AnswerType
  <2> QED BY <1>5, <2>4, <2>6 DEF Receive, TypeOK
<1>6. ASSUME NEW p \in Pods, ReceiveHeaderOnly(p) PROVE TypeInv'
  <2>0. PICK v, w, x : HeaderRead(p, v, w, x)
    BY <1>t, <1>6, HeaderFacts
  <2>1. wire[p] \in Seq(Reply) /\ wire[p] # <<>> /\ Head(wire[p]) \in Reply
    BY <2>0 DEF HeaderRead, TypeOK
  <2>2. Tail(wire[p]) \in Seq(Reply) /\ Head(wire[p]).of \in Requests
    BY <2>1 DEF Reply
  <2>3. wire' \in [Pods -> Seq(Reply)] /\ cut' \in [Pods -> BOOLEAN]
    <3>1. x \in Reply /\ <<x>> \o Tail(wire[p]) \in Seq(Reply)
      BY <2>0, <2>2 DEF HeaderRead
    <3> QED BY <2>0, <3>1 DEF HeaderRead, TypeOK
  <2>4. /\ queue' \in [Pods -> Seq(Requests)] /\ answer' \in [Requests -> Answer]
        /\ \A r \in Requests : answer'[r] # answer[r] => answer[r] # Unanswered
    <3>1. v \in Int /\ Resolve(p, v, Head(wire[p]).of)
      BY <2>0 DEF HeaderRead
    <3> QED BY <1>t, <2>2, <3>1, ResolveType, AnswerType
  <2> QED BY <1>6, <2>3, <2>4 DEF ReceiveHeaderOnly, TypeOK
<1>7. ASSUME NEW r \in Requests, Timeout(r) PROVE TypeInv'
  <2>1. pod[r] \in Pods
    BY <1>7, AnswerType DEF Timeout
  <2>2. Fallback(r, pod[r])
    BY <1>7 DEF Timeout
  <2> QED BY <1>t, <1>7, <2>1, <2>2, FallbackType DEF Timeout, LeaveQueue, TypeOK
<1>8. ASSUME NEW p \in Pods, Break(p) PROVE TypeInv'
  <2>1. PICK n \in 0..Len(wire[p]) : wire' = [wire EXCEPT ![p] = SubSeq(@, 1, n)]
    BY <1>8 DEF Break
  <2>2. wire[p] \in Seq(Reply)
    BY DEF TypeOK
  <2>3. SubSeq(wire[p], 1, n) \in Seq(Reply)
    BY <2>2
  <2> QED BY <1>8, <2>1, <2>3 DEF Break, TypeOK
<1>9. ASSUME NEW p \in Pods, Error(p) PROVE TypeInv'
  <2>1. wire' \in [Pods -> Seq(Reply)]
    BY <1>9 DEF Error, TypeOK
  <2> QED BY <1>9, <2>1 DEF Error, TypeOK
<1>10. ASSUME NEW p \in Pods, Exit(p) PROVE TypeInv'
  <2>0. answer \in [Requests -> Answer]
    BY DEF TypeOK
  <2>1. ASSUME NEW r \in Requests PROVE [answer[r] EXCEPT !.from = "lost"] \in Answer
    <3>1. answer[r] \in Answer
      BY <2>0
    <3> QED BY <3>1 DEF Answer
  <2>2. answer' \in [Requests -> Answer]
    BY <1>10, <2>1 DEF Exit, TypeOK
  <2>3. \A r \in Requests : answer'[r] # Unanswered => answer[r] # Unanswered
    BY <1>10, AnswerType DEF Exit
  <2> QED BY <1>10, <2>2, <2>3 DEF Exit, TypeOK
<1>11. CASE RedisStops
  <2>1. link' \in [Pods -> BOOLEAN] /\ sent' \in [Pods -> Seq(Requests)]
    BY <1>11 DEF RedisStops
  <2> QED BY <1>11, <2>1 DEF RedisStops, TypeOK
<1>12. CASE RedisStarts \/ Reset
  <2>1. visits' \in Nat /\ setbacks' \in Nat
    BY <1>12 DEF RedisStarts, Reset, SetBack, TypeOK
  <2> QED BY <1>12, <2>1 DEF RedisStarts, Reset, TypeOK
<1> QED BY <1>1, <1>2, <1>3, <1>4, <1>5, <1>6, <1>7, <1>8, <1>9, <1>10, <1>11, <1>12
        DEF Next

\* The inductive type invariant holds always.
LEMMA TypeInvariant == Spec => []TypeInv
<1>1. Init => TypeInv
  BY AnswerType DEF Init, TypeInv, TypeOK
<1> QED BY <1>1, TypeStep, PTL DEF Spec

\* Type correctness of pods, connections, Redis and answers.
THEOREM TypeCorrect == Spec => []TypeOK
<1>1. TypeInv => TypeOK
  BY DEF TypeInv
<1> QED BY <1>1, TypeInvariant, PTL

-----------------------------------------------------------------------------
(* Replies are matched by position.  The replies on the wire answer the first
   waiters of the queue, in order; while the connection works the commands
   under way are those of the remaining waiters, and nobody is missing.  So it
   is until the pod reads a bulk reply before all of it has come. *)

MatchOf(p) ==
    /\ Len(wire[p]) <= Len(queue[p])
    /\ \A i \in 1..Len(wire[p]) : wire[p][i].of = queue[p][i]
    /\ link[p] => /\ Len(queue[p]) = Len(wire[p]) + Len(sent[p])
                  /\ \A j \in 1..Len(sent[p]) : sent[p][j] = queue[p][Len(wire[p]) + j]
    /\ phase[p] = "down" => queue[p] = <<>> /\ wire[p] = <<>> /\ sent[p] = <<>>

MatchInv == \A p \in Pods : ~ cut[p] => MatchOf(p)

\* A step that leaves the channels of a pod alone keeps MatchOf for it.
LEMMA MatchFrame ==
    ASSUME NEW p \in Pods, MatchOf(p),
           /\ wire'[p] = wire[p] /\ queue'[p] = queue[p] /\ sent'[p] = sent[p]
           /\ link'[p] => link[p]
           /\ phase'[p] = "down" => phase[p] = "down"
    PROVE  MatchOf(p)'
<1>2. /\ Len(wire'[p]) <= Len(queue'[p])
      /\ \A i \in 1..Len(wire'[p]) : wire'[p][i].of = queue'[p][i]
  BY DEF MatchOf
<1>3. link'[p] => /\ Len(queue'[p]) = Len(wire'[p]) + Len(sent'[p])
                  /\ \A j \in 1..Len(sent'[p]) : sent'[p][j] = queue'[p][Len(wire'[p]) + j]
  BY Zenon DEF MatchOf
<1>4. phase'[p] = "down" => queue'[p] = <<>> /\ wire'[p] = <<>> /\ sent'[p] = <<>>
  BY DEF MatchOf
<1> QED BY <1>2, <1>3, <1>4 DEF MatchOf

\* Whoever is answered by a reply was the first waiter.
Heard(p) ==
    /\ wire[p] # <<>> /\ Head(wire[p]) \in Reply
    /\ \A r \in Requests : answer'[r] # answer[r] =>
          /\ queue[p] # <<>> /\ r = Head(queue[p]) /\ answer[r] = Waiting
          /\ answer'[r].from = "redis" /\ answer'[r].of = Head(wire[p]).of
          /\ answer'[r].value \in {NoNumber, Head(wire[p]).value}
    /\ queue' = [queue EXCEPT ![p] = IF @ = <<>> THEN @ ELSE Tail(@)]
    /\ UNCHANGED <<phase, link, sent, visits, setbacks, issued, route, pod>>

LEMMA HearingFacts ==
    ASSUME TypeInv, NEW p \in Pods, Receive(p) \/ ReceiveHeaderOnly(p)
    PROVE  Heard(p)
<1>t. TypeOK
  BY DEF TypeInv
<1>1. wire[p] \in Seq(Reply) /\ wire[p] # <<>>
  BY DEF Receive, ReceiveHeaderOnly, TypeInv, TypeOK
<1>2. Head(wire[p]) \in Reply
  BY <1>1
<1>3. Head(wire[p]).value \in Int /\ Head(wire[p]).of \in Requests /\ NoNumber \in Int
  BY <1>2 DEF Reply, NoNumber
<1>4. PICK v \in {NoNumber, Head(wire[p]).value} : Resolve(p, v, Head(wire[p]).of)
  <2>1. CASE Receive(p)
    BY <2>1 DEF Receive
  <2>2. CASE ReceiveHeaderOnly(p)
    BY <1>t, <2>2, HeaderFacts DEF HeaderRead
  <2> QED BY <2>1, <2>2
<1>5. v \in Int
  BY <1>3, <1>4
<1>6. ASSUME NEW r \in Requests, answer'[r] # answer[r]
      PROVE  /\ queue[p] # <<>> /\ r = Head(queue[p]) /\ answer[r] = Waiting
             /\ answer'[r].from = "redis" /\ answer'[r].of = Head(wire[p]).of
             /\ answer'[r].value \in {NoNumber, Head(wire[p]).value}
  <2>1. /\ queue[p] # <<>> /\ r = Head(queue[p]) /\ answer[r] = Waiting
        /\ answer'[r] = [from |-> "redis", value |-> v, of |-> Head(wire[p]).of]
    BY <1>t, <1>3, <1>4, <1>5, <1>6, ResolveType
  <2>2. /\ answer'[r].from = "redis" /\ answer'[r].of = Head(wire[p]).of
        /\ answer'[r].value = v
    BY <2>1
  <2> QED BY <1>4, <2>1, <2>2
<1>7. queue' = [queue EXCEPT ![p] = IF @ = <<>> THEN @ ELSE Tail(@)]
  BY <1>4 DEF Resolve
<1>8. UNCHANGED <<phase, link, sent, visits, setbacks, issued, route, pod>>
  BY DEF Receive, ReceiveHeaderOnly, redisVars
<1> QED BY <1>1, <1>2, <1>6, <1>7, <1>8 DEF Heard

\* In a pod that has its position a reply finds its own waiter.
LEMMA ReceiveHeads ==
    ASSUME TypeInv, NEW p \in Pods, MatchOf(p), Receive(p)
    PROVE  /\ queue[p] # <<>> /\ wire[p] # <<>> /\ Head(wire[p]) \in Reply
           /\ Head(wire[p]).of = Head(queue[p]) /\ Head(queue[p]) \in Requests
           /\ queue' = [queue EXCEPT ![p] = Tail(@)]
           /\ wire' = [wire EXCEPT ![p] = Tail(@)]
<1>1. wire[p] \in Seq(Reply) /\ wire[p] # <<>> /\ queue[p] \in Seq(Requests)
  BY DEF Receive, TypeInv, TypeOK
<1>2. Len(wire[p]) >= 1 /\ 1 \in 1..Len(wire[p])
  BY <1>1
<1>3. Len(wire[p]) <= Len(queue[p]) /\ wire[p][1].of = queue[p][1]
  BY <1>2 DEF MatchOf
<1>4. queue[p] # <<>>
  BY <1>1, <1>2, <1>3
<1>5. /\ Head(wire[p]) \in Reply /\ Head(wire[p]).of = Head(queue[p])
      /\ Head(queue[p]) \in Requests
  BY <1>1, <1>3, <1>4
<1>6. Resolve(p, Head(wire[p]).value, Head(wire[p]).of) /\ Consume(p)
  BY DEF Receive
<1>7. queue' = [queue EXCEPT ![p] = Tail(@)] /\ wire' = [wire EXCEPT ![p] = Tail(@)]
  BY <1>4, <1>6 DEF Resolve, Consume
<1> QED BY <1>1, <1>4, <1>5, <1>7

\* A pod that has lost its position never finds it again.
LEMMA CutStep ==
    ASSUME TypeInv, [Next]_vars
    PROVE  \A q \in Pods : cut[q] => cut'[q]
<1>1. cut \in [Pods -> BOOLEAN]
  BY DEF TypeInv, TypeOK
<1>2. ASSUME NEW p \in Pods, ReceiveHeaderOnly(p) PROVE \A q \in Pods : cut[q] => cut'[q]
  BY <1>1, <1>2 DEF ReceiveHeaderOnly
<1>3. CASE UNCHANGED cut
  BY <1>3
<1>4. UNCHANGED cut \/ \E p \in Pods : ReceiveHeaderOnly(p)
  BY DEF Next, Start, Arrive, Execute, Refuse, SendReply, Receive, Timeout, Break, Error,
         Exit, RedisStops, RedisStarts, Reset, podVars, vars
<1> QED BY <1>2, <1>3, <1>4

\* Every step keeps MatchInv.
LEMMA MatchStep ==
    ASSUME TypeInv, MatchInv, [Next]_vars
    PROVE  MatchInv'
<1> SUFFICES ASSUME NEW q \in Pods, ~ cut'[q] PROVE MatchOf(q)'
  BY DEF MatchInv
<1> USE DEF podVars, redisVars
<1>q. MatchOf(q)
  BY CutStep DEF MatchInv
<1>t. /\ queue \in [Pods -> Seq(Requests)] /\ sent \in [Pods -> Seq(Requests)]
      /\ wire \in [Pods -> Seq(Reply)] /\ link \in [Pods -> BOOLEAN]
      /\ phase \in [Pods -> {"down", "serving", "gone"}]
  BY DEF TypeInv, TypeOK
\* The lengths as numbers of their own, for the arithmetic.
<1>n. PICK lw \in Nat, lq \in Nat, ls \in Nat :
         lw = Len(wire[q]) /\ lq = Len(queue[q]) /\ ls = Len(sent[q])
  BY <1>t
<1>s. wire[q] \in Seq(Reply) /\ queue[q] \in Seq(Requests) /\ sent[q] \in Seq(Requests)
  BY <1>t
<1>m. /\ lw <= lq
      /\ \A i \in 1..lw : wire[q][i].of = queue[q][i]
      /\ link[q] => /\ lq = lw + ls
                    /\ \A j \in 1..ls : sent[q][j] = queue[q][lw + j]
      /\ phase[q] = "down" => queue[q] = <<>> /\ wire[q] = <<>> /\ sent[q] = <<>>
  BY <1>n, <1>q DEF MatchOf
<1>1. CASE UNCHANGED vars
  BY <1>q, <1>1, MatchFrame DEF vars
<1>2. ASSUME NEW p \in Pods, Start(p) PROVE MatchOf(q)'
  <2>1. PICK ok \in BOOLEAN : Settle(p, ok)
    BY <1>2 DEF Start
  <2>2. CASE q # p
    BY <1>t, <1>q, <1>2, <2>1, <2>2, MatchFrame DEF Start, Settle
  <2>3. CASE q = p
    <3>1. queue'[q] = <<>> /\ wire'[q] = <<>> /\ sent'[q] = <<>>
      BY <1>2, <2>3, <1>m, <1>n, <1>s DEF Start, MatchOf
    <3> QED BY <3>1 DEF MatchOf
  <2> QED BY <2>2, <2>3
<1>3. ASSUME NEW r \in Requests, NEW p \in Pods, Arrive(r, p) PROVE MatchOf(q)'
  <2>0. phase[p] = "serving" /\ UNCHANGED <<phase, link, wire>>
    BY <1>3 DEF Arrive
  <2>1. CASE ~ (redisReady[p] /\ connected[p]) \/ q # p
    BY <1>t, <1>q, <1>3, <2>0, <2>1, MatchFrame DEF Arrive
  <2>2. CASE (redisReady[p] /\ connected[p]) /\ q = p
    <3>1. /\ queue'[q] = Append(queue[q], r)
          /\ sent'[q] = IF link[q] THEN Append(sent[q], r) ELSE sent[q]
      BY <1>t, <1>3, <2>2 DEF Arrive
    <3>2. /\ Len(queue'[q]) = lq + 1 /\ queue'[q][lq + 1] = r
          /\ \A i \in 1..lq : queue'[q][i] = queue[q][i]
      BY <1>m, <1>n, <1>s, <3>1
    <3>3. link[q] => /\ Len(sent'[q]) = ls + 1 /\ sent'[q][ls + 1] = r
                     /\ \A j \in 1..ls : sent'[q][j] = sent[q][j]
      BY <1>m, <1>n, <1>s, <3>1
    <3>4. /\ lw <= Len(queue'[q])
          /\ \A i \in 1..lw : wire[q][i].of = queue'[q][i]
      <4>1. /\ lw <= lq
            /\ \A i \in 1..lw : wire[q][i].of = queue[q][i]
        BY <1>m, <1>n, <1>s DEF MatchOf
      <4> QED BY <1>m, <1>n, <1>s, <3>2, <4>1
    <3>5. ASSUME link[q]
          PROVE  /\ Len(queue'[q]) = lw + Len(sent'[q])
                 /\ \A j \in 1..Len(sent'[q]) : sent'[q][j] = queue'[q][lw + j]
      <4>1. /\ lq = lw + ls
            /\ \A j \in 1..ls : sent[q][j] = queue[q][lw + j]
        BY <1>m, <1>n, <1>s, <3>5 DEF MatchOf
      <4>3. lq = lw + ls
        BY <4>1
      <4>2. ASSUME NEW j \in 1..(ls + 1)
            PROVE  sent'[q][j] = queue'[q][lw + j]
        <5>1. CASE j = ls + 1
          <6>1. lw + j = lq + 1
            BY <4>3, <5>1
          <6>2. queue'[q][lw + j] = r
            BY <3>2, <6>1
          <6>3. sent'[q][j] = r
            BY <3>3, <3>5, <5>1
          <6> QED BY <6>2, <6>3
        <5>2. CASE j # ls + 1
          <6>1. j \in 1..ls /\ lw + j \in 1..lq
            BY <4>3, <5>2
          <6>2. queue'[q][lw + j] = queue[q][lw + j]
            BY <3>2, <6>1
          <6>3. sent'[q][j] = sent[q][j]
            BY <3>3, <3>5, <6>1
          <6>4. sent[q][j] = queue[q][lw + j]
            BY <4>1, <6>1
          <6> QED BY <6>2, <6>3, <6>4
        <5> QED BY <5>1, <5>2
      <4>4. Len(queue'[q]) = lq + 1 /\ Len(sent'[q]) = ls + 1
        BY <3>2, <3>3, <3>5
      <4>5. lq + 1 = lw + (ls + 1)
        BY <4>3
      <4> QED BY <4>2, <4>4, <4>5
    <3> QED BY <1>n, <2>0, <2>2, <3>4, <3>5 DEF MatchOf
  <2> QED BY <2>1, <2>2
<1>4. ASSUME NEW p \in Pods, Execute(p) \/ Refuse(p) PROVE MatchOf(q)'
  <2>a. PICK h, new : Replied(p, h, new)
    BY <1>4, ReplyFacts DEF TypeInv
  <2>0. link[p] /\ sent[p] # <<>> /\ UNCHANGED <<phase, link, queue>>
    BY <2>a DEF Replied
  <2>1. CASE q # p
    BY <1>t, <1>q, <2>a, <2>0, <2>1, MatchFrame DEF Replied
  <2>2. CASE q = p
    <3>1. /\ wire'[q] = Append(wire[q], new) /\ new \in Reply
          /\ sent'[q] = Tail(sent[q])
      BY <1>t, <2>a, <2>2 DEF Replied
    <3>2. new.of = Head(sent[q]) /\ Head(sent[q]) = sent[q][1] /\ 1 \in 1..ls
      BY <1>m, <1>n, <1>s, <2>a, <2>0, <2>2 DEF Replied
    <3>3. /\ Len(wire'[q]) = lw + 1 /\ wire'[q][lw + 1] = new
          /\ \A i \in 1..lw : wire'[q][i] = wire[q][i]
      BY <1>m, <1>n, <1>s, <3>1
    <3>4. /\ Len(sent'[q]) = ls - 1
          /\ \A j \in 1..(ls - 1) : sent'[q][j] = sent[q][j + 1]
      BY <1>m, <1>n, <1>s, <2>0, <2>2, <3>1
    <3>5. /\ lq = lw + ls
          /\ \A j \in 1..ls : sent[q][j] = queue[q][lw + j]
          /\ \A i \in 1..lw : wire[q][i].of = queue[q][i]
      BY <1>m, <1>n, <1>s, <2>0, <2>2 DEF MatchOf
    <3>6. \A i \in 1..(lw + 1) : wire'[q][i].of = queue[q][i]
      <4> SUFFICES ASSUME NEW i \in 1..(lw + 1) PROVE wire'[q][i].of = queue[q][i]
        OBVIOUS
      <4>1. CASE i = lw + 1
        BY <3>2, <3>3, <3>5, <4>1
      <4>2. CASE i # lw + 1
        <5>1. i \in 1..lw
          BY <4>2
        <5> QED BY <3>3, <3>5, <5>1
      <4> QED BY <4>1, <4>2
    <3>7. \A j \in 1..(ls - 1) : sent'[q][j] = queue[q][(lw + 1) + j]
      <4> SUFFICES ASSUME NEW j \in 1..(ls - 1)
                   PROVE  sent'[q][j] = queue[q][(lw + 1) + j]
        OBVIOUS
      <4>1. j + 1 \in 1..ls /\ (lw + 1) + j = lw + (j + 1)
        OBVIOUS
      <4> QED BY <3>4, <3>5, <4>1
    <3>8. /\ lw + 1 <= lq /\ lq = (lw + 1) + (ls - 1)
          /\ phase[q] # "down"
      <4>1. ls >= 1
        BY <3>2
      <4>2. phase[q] # "down"
        BY <1>m, <1>n, <1>s, <2>0, <2>2 DEF MatchOf
      <4>3. lq = lw + ls
        BY <3>5
      <4>4. lw + 1 <= lq /\ lq = (lw + 1) + (ls - 1)
        BY <4>1, <4>3
      <4> QED BY <4>2, <4>4
    <3>9. queue'[q] = queue[q] /\ phase'[q] # "down" /\ lq = Len(queue'[q])
      BY <1>n, <2>0, <3>8
    <3> QED BY <3>3, <3>4, <3>6, <3>7, <3>8, <3>9 DEF MatchOf
  <2> QED BY <2>1, <2>2
<1>5. ASSUME NEW p \in Pods, Receive(p) PROVE MatchOf(q)'
  <2>0. UNCHANGED <<phase, link, sent>> /\ phase[p] = "serving"
    BY <1>5 DEF Receive
  <2>1. CASE q # p
    BY <1>t, <1>q, <1>5, <2>0, <2>1, MatchFrame DEF Receive, Resolve, Consume
  <2>2. CASE q = p
    <3>1. /\ queue'[q] = Tail(queue[q]) /\ wire'[q] = Tail(wire[q])
          /\ queue[q] # <<>> /\ wire[q] # <<>>
      BY <1>t, <1>q, <1>5, <2>2, ReceiveHeads
    <3>2. /\ Len(queue'[q]) = lq - 1 /\ lq >= 1
          /\ \A i \in 1..(lq - 1) : queue'[q][i] = queue[q][i + 1]
      BY <1>m, <1>n, <1>s, <3>1
    <3>3. /\ Len(wire'[q]) = lw - 1 /\ lw >= 1
          /\ \A i \in 1..(lw - 1) : wire'[q][i] = wire[q][i + 1]
      BY <1>m, <1>n, <1>s, <3>1
    <3>4. /\ lw <= lq
          /\ \A i \in 1..lw : wire[q][i].of = queue[q][i]
      BY <1>m, <1>n, <1>s DEF MatchOf
    <3>5. \A i \in 1..(lw - 1) : wire'[q][i].of = queue'[q][i]
      <4> SUFFICES ASSUME NEW i \in 1..(lw - 1)
                   PROVE  wire'[q][i].of = queue'[q][i]
        OBVIOUS
      <4>1. i + 1 \in 1..lw /\ i \in 1..(lq - 1)
        BY <1>m, <1>n, <1>s, <3>4
      <4> QED BY <3>2, <3>3, <3>4, <4>1
    <3>6. ASSUME link[q]
          PROVE  /\ Len(queue'[q]) = Len(wire'[q]) + ls
                 /\ \A j \in 1..ls : sent[q][j] = queue'[q][Len(wire'[q]) + j]
      <4>1. /\ lq = lw + ls
            /\ \A j \in 1..ls : sent[q][j] = queue[q][lw + j]
        BY <1>m, <1>n, <1>s, <3>6 DEF MatchOf
      <4>2. ASSUME NEW j \in 1..ls
            PROVE  sent[q][j] = queue'[q][Len(wire'[q]) + j]
        <5>1. /\ Len(wire'[q]) = lw - 1 /\ lw >= 1
              /\ lq = lw + ls
          BY <3>3, <4>1
        <5>2. /\ Len(wire'[q]) + j \in 1..(lq - 1)
              /\ (Len(wire'[q]) + j) + 1 = lw + j
          BY <5>1
        <5>3. queue'[q][Len(wire'[q]) + j] = queue[q][lw + j]
          BY <3>2, <5>2
        <5> QED BY <4>1, <5>3
      <4> QED BY <1>m, <1>n, <1>s, <3>2, <3>3, <4>1, <4>2
    <3>7. Len(wire'[q]) <= Len(queue'[q])
      BY <1>m, <1>n, <1>s, <3>2, <3>3, <3>4
    <3>8. phase'[q] # "down" /\ sent'[q] = sent[q] /\ link'[q] = link[q] /\ ls = Len(sent'[q])
      BY <1>n, <2>0, <2>2
    <3> QED BY <3>3, <3>5, <3>6, <3>7, <3>8 DEF MatchOf
  <2> QED BY <2>1, <2>2
<1>6. ASSUME NEW p \in Pods, ReceiveHeaderOnly(p) PROVE MatchOf(q)'
  <2>1. PICK v, w, x : HeaderRead(p, v, w, x)
    BY <1>6, HeaderFacts DEF TypeInv
  <2>2. q # p
    BY <2>1 DEF HeaderRead, TypeInv, TypeOK
  <2>3. wire'[q] = wire[q] /\ queue'[q] = queue[q]
    BY <1>t, <2>1, <2>2 DEF HeaderRead, Resolve
  <2> QED BY <1>q, <1>6, <2>3, MatchFrame DEF ReceiveHeaderOnly
<1>7. ASSUME NEW r \in Requests, Timeout(r) PROVE MatchOf(q)'
  BY <1>q, <1>7, MatchFrame DEF Timeout, LeaveQueue
<1>8. ASSUME NEW p \in Pods, Break(p) PROVE MatchOf(q)'
  <2>0. PICK n \in 0..Len(wire[p]) : wire' = [wire EXCEPT ![p] = SubSeq(@, 1, n)]
    BY <1>8 DEF Break
  <2>1. CASE q # p
    BY <1>t, <1>q, <1>8, <2>0, <2>1, MatchFrame DEF Break
  <2>2. CASE q = p
    <3>1. /\ wire'[q] = SubSeq(wire[q], 1, n) /\ ~ link'[q] /\ sent'[q] = <<>>
          /\ queue'[q] = queue[q] /\ phase'[q] = phase[q]
      BY <1>t, <1>8, <2>0, <2>2 DEF Break
    <3>2. /\ Len(wire'[q]) = n /\ n <= lw
          /\ \A i \in 1..n : wire'[q][i] = wire[q][i]
      BY <1>m, <1>n, <1>s, <2>2, <3>1
    <3>3. phase[q] = "down" => wire'[q] = <<>>
      <4>1. phase[q] = "down" => n = 0
        BY <1>m, <1>n, <1>s, <2>2 DEF MatchOf
      <4> QED BY <1>m, <1>n, <1>s, <3>1, <4>1
    <3> QED BY <1>m, <1>n, <1>s, <3>1, <3>2, <3>3 DEF MatchOf
  <2> QED BY <2>1, <2>2
<1>9. ASSUME NEW p \in Pods, Error(p) PROVE MatchOf(q)'
  <2>1. CASE q # p
    BY <1>t, <1>q, <1>9, <2>1, MatchFrame DEF Error
  <2>2. CASE q = p
    <3>1. /\ wire'[q] = <<>> /\ ~ link'[q] /\ phase'[q] = "serving"
          /\ queue'[q] = queue[q]
      BY <1>t, <1>9, <2>2 DEF Error
    <3> QED BY <1>m, <1>n, <1>s, <3>1 DEF MatchOf
  <2> QED BY <2>1, <2>2
<1>10. ASSUME NEW p \in Pods, Exit(p) PROVE MatchOf(q)'
  BY <1>t, <1>q, <1>10, MatchFrame DEF Exit
<1>11. CASE RedisStops
  <2>1. /\ ~ link'[q] /\ sent'[q] = <<>>
        /\ UNCHANGED <<queue, wire, phase>>
    BY <1>11 DEF RedisStops
  <2> QED BY <1>m, <1>n, <1>s, <2>1 DEF MatchOf
<1>12. CASE RedisStarts \/ Reset
  BY <1>q, <1>12, MatchFrame DEF RedisStarts, Reset
<1> QED BY <1>1, <1>2, <1>3, <1>4, <1>5, <1>6, <1>7, <1>8, <1>9, <1>10, <1>11, <1>12
        DEF Next

-----------------------------------------------------------------------------
(* Where commands and replies are.  A request has one command, and one reply, in
   the connection of its own pod: first the one, then the other.  This does not
   depend on who is given the reply. *)

\* Place i of a pod's commands, or of its replies, is r's.
Cmd(s, p, i, r) == i \in 1..Len(s[p]) /\ s[p][i] = r
At(w, p, i, r) == i \in 1..Len(w[p]) /\ w[p][i].of = r

OnceInv ==
    \A p \in Pods, r \in Requests :
       /\ \A i \in Nat : Cmd(sent, p, i, r) \/ At(wire, p, i, r) =>
             pod[r] = p /\ answer[r] # Unanswered
       /\ \A i, j \in Nat : Cmd(sent, p, i, r) /\ Cmd(sent, p, j, r) => i = j
       /\ \A i, j \in Nat : At(wire, p, i, r) /\ At(wire, p, j, r) => i = j
       /\ \A i, j \in Nat : ~ (Cmd(sent, p, i, r) /\ At(wire, p, j, r))

\* All that waits is the constant Waiting.
ShapeInv == \A r \in Requests : answer[r].from = "waiting" => answer[r] = Waiting

\* Nothing new is under way, and no request is forgotten.
LEMMA OnceFrame ==
    ASSUME OnceInv,
           \A p \in Pods, r \in Requests : \A i \in Nat :
              /\ Cmd(sent', p, i, r) => Cmd(sent, p, i, r)
              /\ At(wire', p, i, r) => At(wire, p, i, r),
           \A r \in Requests : answer[r] # Unanswered =>
              answer'[r] # Unanswered /\ pod'[r] = pod[r]
    PROVE  OnceInv'
BY DEF OnceInv

\* A command joins the end of a pod's commands.
LEMMA OnceArrive ==
    ASSUME TypeInv, OnceInv, NEW r \in Requests, NEW p \in Pods, answer[r] = Unanswered,
           sent' = [sent EXCEPT ![p] = Append(@, r)], UNCHANGED wire,
           pod' = [pod EXCEPT ![r] = p], answer' = [answer EXCEPT ![r] = Waiting]
    PROVE  OnceInv'
<1>t. sent \in [Pods -> Seq(Requests)] /\ sent[p] \in Seq(Requests)
      /\ pod \in [Requests -> Pods \cup {NoPod}] /\ answer \in [Requests -> Answer]
  BY DEF TypeInv, TypeOK
<1>1. PICK k \in Nat : k = Len(sent[p])
  BY <1>t
<1>2. /\ Len(sent'[p]) = k + 1 /\ sent'[p][k + 1] = r
      /\ \A i \in 1..k : sent'[p][i] = sent[p][i]
      /\ \A q \in Pods : q # p => sent'[q] = sent[q]
  BY <1>t, <1>1
<1>3. \A q \in Pods : \A i \in Nat : ~ Cmd(sent, q, i, r) /\ ~ At(wire, q, i, r)
  BY DEF OnceInv
<1>4. \A q \in Pods, s \in Requests : \A i \in Nat :
         Cmd(sent', q, i, s) => Cmd(sent, q, i, s) \/ (s = r /\ q = p /\ i = k + 1)
  <2> SUFFICES ASSUME NEW q \in Pods, NEW s \in Requests, NEW i \in Nat, Cmd(sent', q, i, s)
               PROVE  Cmd(sent, q, i, s) \/ (s = r /\ q = p /\ i = k + 1)
    OBVIOUS
  <2>1. CASE q # p
    BY <1>2, <2>1 DEF Cmd
  <2>2. CASE q = p
    <3>1. i \in 1..(k + 1) /\ sent'[p][i] = s
      BY <1>2, <2>2 DEF Cmd
    <3>2. CASE i = k + 1
      BY <1>2, <2>2, <3>1, <3>2
    <3>3. CASE i # k + 1
      <4>1. i \in 1..k
        BY <3>1, <3>3
      <4> QED BY <1>1, <1>2, <2>2, <3>1, <4>1 DEF Cmd
    <3> QED BY <3>2, <3>3
  <2> QED BY <2>1, <2>2
<1>5. /\ pod'[r] = p /\ answer'[r] = Waiting
      /\ \A s \in Requests : s # r => pod'[s] = pod[s] /\ answer'[s] = answer[s]
  BY <1>t
<1> SUFFICES ASSUME NEW q \in Pods, NEW s \in Requests
             PROVE  /\ \A i \in Nat : Cmd(sent', q, i, s) \/ At(wire', q, i, s) =>
                          pod'[s] = q /\ answer'[s] # Unanswered
                    /\ \A i, j \in Nat : Cmd(sent', q, i, s) /\ Cmd(sent', q, j, s) => i = j
                    /\ \A i, j \in Nat : At(wire', q, i, s) /\ At(wire', q, j, s) => i = j
                    /\ \A i, j \in Nat : ~ (Cmd(sent', q, i, s) /\ At(wire', q, j, s))
  BY DEF OnceInv
<1>6. CASE s = r
  BY <1>3, <1>4, <1>5, <1>6, AnswerType
<1>7. CASE s # r
  BY <1>4, <1>5, <1>7 DEF OnceInv
<1> QED BY <1>6, <1>7

\* In pod p the command of h has become the reply x.
Executed(p, h, x) ==
    /\ \A q \in Pods, s \in Requests : \A i \in Nat :
          /\ Cmd(sent', q, i, s) =>
                s # h /\ \E j \in Nat : Cmd(sent, q, j, s)
          /\ Cmd(sent, q, i, s) /\ s # h => \E j \in Nat : Cmd(sent', q, j, s)
          /\ At(wire', q, i, s) => \/ At(wire, q, i, s) /\ wire'[q][i] = wire[q][i] /\ s # h
                                   \/ s = h /\ wire'[q][i] = x
          /\ At(wire, q, i, s) => At(wire', q, i, s) /\ wire'[q][i] = wire[q][i]
    /\ \E i \in Nat : At(wire', p, i, h) /\ wire'[p][i] = x
    /\ \E i \in Nat : Cmd(sent, p, i, h)

\* A command is executed: it becomes a reply.
LEMMA OnceExecute ==
    ASSUME TypeInv, OnceInv, NEW p \in Pods, sent[p] # <<>>, NEW h, h = Head(sent[p]),
           NEW x, x.of = h,
           sent' = [sent EXCEPT ![p] = Tail(@)], wire' = [wire EXCEPT ![p] = Append(@, x)],
           UNCHANGED <<pod, answer>>
    PROVE  OnceInv' /\ h \in Requests /\ Executed(p, h, x)
<1>t. /\ sent \in [Pods -> Seq(Requests)] /\ sent[p] \in Seq(Requests)
      /\ wire \in [Pods -> Seq(Reply)] /\ wire[p] \in Seq(Reply)
  BY DEF TypeInv, TypeOK
<1>1. PICK k \in Nat, l \in Nat : k = Len(sent[p]) /\ l = Len(wire[p])
  BY <1>t
<1>2. /\ k >= 1 /\ h = sent[p][1] /\ Len(sent'[p]) = k - 1
      /\ \A i \in 1..(k - 1) : sent'[p][i] = sent[p][i + 1]
      /\ \A q \in Pods : q # p => sent'[q] = sent[q] /\ wire'[q] = wire[q]
  BY <1>t, <1>1
<1>3. /\ Len(wire'[p]) = l + 1 /\ wire'[p][l + 1] = x
      /\ \A i \in 1..l : wire'[p][i] = wire[p][i]
  BY <1>t, <1>1
<1>4. h \in Requests /\ Cmd(sent, p, 1, h)
  BY <1>t, <1>1, <1>2 DEF Cmd
<1>5. \A q \in Pods : \A i \in Nat : /\ Cmd(sent, q, i, h) => q = p /\ i = 1
                                     /\ ~ At(wire, q, i, h)
  BY <1>4 DEF OnceInv
<1>6. ASSUME NEW q \in Pods, NEW s \in Requests, NEW i \in Nat, Cmd(sent', q, i, s)
      PROVE  /\ s # h /\ i + 1 \in Nat
             /\ q = p => Cmd(sent, q, i + 1, s)
             /\ q # p => Cmd(sent, q, i, s)
  <2>1. CASE q # p
    <3>1. Cmd(sent, q, i, s)
      BY <1>2, <1>6, <2>1 DEF Cmd
    <3> QED BY <1>5, <2>1, <3>1
  <2>2. CASE q = p
    <3>1. i \in 1..(k - 1) /\ sent[p][i + 1] = s
      BY <1>2, <1>6, <2>2 DEF Cmd
    <3>2. i + 1 \in 1..k /\ i + 1 # 1 /\ i + 1 \in Nat
      BY <3>1
    <3>3. Cmd(sent, p, i + 1, s)
      BY <1>1, <3>1, <3>2 DEF Cmd
    <3> QED BY <1>5, <2>2, <3>2, <3>3
  <2> QED BY <2>1, <2>2
<1>7. ASSUME NEW q \in Pods, NEW s \in Requests, NEW i \in Nat, Cmd(sent, q, i, s), s # h
      PROVE  \E j \in Nat : Cmd(sent', q, j, s)
  <2>1. CASE q # p
    BY <1>2, <1>7, <2>1 DEF Cmd
  <2>2. CASE q = p
    <3>1. i \in 1..k /\ sent[p][i] = s /\ i # 1
      BY <1>1, <1>2, <1>7, <2>2 DEF Cmd
    <3>2. i - 1 \in 1..(k - 1) /\ (i - 1) + 1 = i /\ i - 1 \in Nat
      BY <3>1
    <3>3. sent'[p][i - 1] = s
      BY <1>2, <3>1, <3>2
    <3> QED BY <1>2, <2>2, <3>2, <3>3 DEF Cmd
  <2> QED BY <2>1, <2>2
<1>8. ASSUME NEW q \in Pods, NEW s \in Requests, NEW i \in Nat, At(wire', q, i, s)
      PROVE  \/ At(wire, q, i, s) /\ wire'[q][i] = wire[q][i] /\ s # h
             \/ s = h /\ wire'[q][i] = x /\ q = p /\ i = l + 1
  <2>1. CASE q # p
    <3>1. At(wire, q, i, s) /\ wire'[q][i] = wire[q][i]
      BY <1>2, <1>8, <2>1 DEF At
    <3> QED BY <1>5, <3>1
  <2>2. CASE q = p
    <3>1. i \in 1..(l + 1) /\ wire'[p][i].of = s
      BY <1>3, <1>8, <2>2 DEF At
    <3>2. CASE i = l + 1
      BY <1>3, <2>2, <3>1, <3>2
    <3>3. CASE i # l + 1
      <4>1. i \in 1..l
        BY <3>1, <3>3
      <4>2. At(wire, q, i, s) /\ wire'[q][i] = wire[q][i]
        BY <1>1, <1>3, <2>2, <3>1, <4>1 DEF At
      <4> QED BY <1>5, <4>2
    <3> QED BY <3>2, <3>3
  <2> QED BY <2>1, <2>2
<1>9. ASSUME NEW q \in Pods, NEW s \in Requests, NEW i \in Nat, At(wire, q, i, s)
      PROVE  At(wire', q, i, s) /\ wire'[q][i] = wire[q][i]
  <2>1. CASE q # p
    BY <1>2, <1>9, <2>1 DEF At
  <2>2. CASE q = p
    <3>1. i \in 1..l /\ wire[p][i].of = s
      BY <1>1, <1>9, <2>2 DEF At
    <3>2. i \in 1..(l + 1)
      BY <3>1
    <3> QED BY <1>3, <2>2, <3>1, <3>2 DEF At
  <2> QED BY <2>1, <2>2
<1>10. l + 1 \in Nat /\ At(wire', p, l + 1, h) /\ wire'[p][l + 1] = x
  <2>1. l + 1 \in 1..(l + 1)
    OBVIOUS
  <2> QED BY <1>3, <2>1 DEF At
<1>11. OnceInv'
  <2> SUFFICES ASSUME NEW q \in Pods, NEW s \in Requests
               PROVE  /\ \A i \in Nat : Cmd(sent', q, i, s) \/ At(wire', q, i, s) =>
                            pod[s] = q /\ answer[s] # Unanswered
                      /\ \A i, j \in Nat : Cmd(sent', q, i, s) /\ Cmd(sent', q, j, s) => i = j
                      /\ \A i, j \in Nat : At(wire', q, i, s) /\ At(wire', q, j, s) => i = j
                      /\ \A i, j \in Nat : ~ (Cmd(sent', q, i, s) /\ At(wire', q, j, s))
    BY DEF OnceInv
  <2>1. /\ pod[h] = p /\ answer[h] # Unanswered
    BY <1>4 DEF OnceInv
  <2>2. CASE s = h
    <3>1. \A i \in Nat : ~ Cmd(sent', q, i, s)
      BY <1>6, <2>2
    <3>2. \A i \in Nat : At(wire', q, i, s) => q = p /\ i = l + 1
      BY <1>8, <2>2
    <3> QED BY <2>1, <2>2, <3>1, <3>2
  <2>3. CASE s # h
    <3>1. \A i, j \in Nat : Cmd(sent', q, i, s) /\ Cmd(sent', q, j, s) => i = j
      <4> SUFFICES ASSUME NEW i \in Nat, NEW j \in Nat, Cmd(sent', q, i, s), Cmd(sent', q, j, s)
                   PROVE  i = j
        OBVIOUS
      <4>1. CASE q = p
        <5>1. Cmd(sent, q, i + 1, s) /\ Cmd(sent, q, j + 1, s) /\ i + 1 \in Nat /\ j + 1 \in Nat
          BY <1>6, <4>1
        <5>2. i + 1 = j + 1
          BY <5>1 DEF OnceInv
        <5> QED BY <5>2
      <4>2. CASE q # p
        <5>1. Cmd(sent, q, i, s) /\ Cmd(sent, q, j, s)
          BY <1>6, <4>2
        <5> QED BY <5>1 DEF OnceInv
      <4> QED BY <4>1, <4>2
    <3>2. \A i \in Nat : Cmd(sent', q, i, s) => \E j \in Nat : Cmd(sent, q, j, s)
      BY <1>6
    <3>3. \A i \in Nat : At(wire', q, i, s) => At(wire, q, i, s)
      BY <1>8, <2>3
    <3> QED BY <3>1, <3>2, <3>3 DEF OnceInv
  <2> QED BY <2>2, <2>3
<1>12. ASSUME NEW q \in Pods, NEW s \in Requests, NEW i \in Nat
       PROVE  /\ Cmd(sent', q, i, s) => s # h /\ \E j \in Nat : Cmd(sent, q, j, s)
              /\ Cmd(sent, q, i, s) /\ s # h => \E j \in Nat : Cmd(sent', q, j, s)
              /\ At(wire', q, i, s) => \/ At(wire, q, i, s) /\ wire'[q][i] = wire[q][i] /\ s # h
                                       \/ s = h /\ wire'[q][i] = x
              /\ At(wire, q, i, s) => At(wire', q, i, s) /\ wire'[q][i] = wire[q][i]
  <2>1. ASSUME Cmd(sent', q, i, s) PROVE s # h /\ \E j \in Nat : Cmd(sent, q, j, s)
    <3>1. /\ s # h /\ i + 1 \in Nat
          /\ (q = p => Cmd(sent, q, i + 1, s)) /\ (q # p => Cmd(sent, q, i, s))
      BY <1>6, <2>1
    <3> QED BY ONLY <3>1
  <2>2. Cmd(sent, q, i, s) /\ s # h => \E j \in Nat : Cmd(sent', q, j, s)
    BY <1>7
  <2>3. At(wire', q, i, s) => \/ At(wire, q, i, s) /\ wire'[q][i] = wire[q][i] /\ s # h
                              \/ s = h /\ wire'[q][i] = x
    BY <1>8
  <2>4. At(wire, q, i, s) => At(wire', q, i, s) /\ wire'[q][i] = wire[q][i]
    BY <1>9
  <2> QED BY <2>1, <2>2, <2>3, <2>4
<1>13. \E i \in Nat : At(wire', p, i, h) /\ wire'[p][i] = x
  BY <1>10
<1>14. \E i \in Nat : Cmd(sent, p, i, h)
  BY <1>4
<1>15. Executed(p, h, x)
  BY ONLY <1>12, <1>13, <1>14 DEF Executed
<1> QED BY <1>4, <1>11, <1>15

\* The reply to h has left the wire.
Received(h) ==
    \A q \in Pods, s \in Requests : \A i \in Nat :
       /\ At(wire', q, i, s) =>
             s # h /\ \E j \in Nat : At(wire, q, j, s) /\ wire'[q][i] = wire[q][j]
       /\ At(wire, q, i, s) /\ s # h =>
             \E j \in Nat : At(wire', q, j, s) /\ wire'[q][j] = wire[q][i]

\* The first reply is consumed.
LEMMA OnceReceive ==
    ASSUME TypeInv, OnceInv, NEW p \in Pods, wire[p] # <<>>, NEW h, h = Head(wire[p]).of,
           wire' = [wire EXCEPT ![p] = Tail(@)], UNCHANGED <<sent, pod>>,
           \A r \in Requests : answer[r] # Unanswered => answer'[r] # Unanswered
    PROVE  /\ OnceInv' /\ h \in Requests /\ Received(h)
           /\ At(wire, p, 1, h) /\ wire[p][1] = Head(wire[p])
<1>t. /\ wire \in [Pods -> Seq(Reply)] /\ wire[p] \in Seq(Reply)
  BY DEF TypeInv, TypeOK
<1>1. PICK l \in Nat : l = Len(wire[p])
  BY <1>t
<1>2. /\ l >= 1 /\ Head(wire[p]) = wire[p][1] /\ Len(wire'[p]) = l - 1
      /\ \A i \in 1..(l - 1) : wire'[p][i] = wire[p][i + 1]
      /\ \A q \in Pods : q # p => wire'[q] = wire[q]
  BY <1>t, <1>1
<1>4. h \in Requests /\ At(wire, p, 1, h)
  <2>1. 1 \in 1..l /\ wire[p][1] \in Reply
    BY <1>t, <1>1, <1>2
  <2> QED BY <1>1, <1>2, <2>1 DEF At, Reply
<1>5. \A q \in Pods : \A i \in Nat : At(wire, q, i, h) => q = p /\ i = 1
  BY <1>4 DEF OnceInv
<1>6. ASSUME NEW q \in Pods, NEW s \in Requests, NEW i \in Nat, At(wire', q, i, s)
      PROVE  /\ s # h /\ i + 1 \in Nat
             /\ q = p => At(wire, q, i + 1, s) /\ wire'[q][i] = wire[q][i + 1]
             /\ q # p => At(wire, q, i, s) /\ wire'[q][i] = wire[q][i]
  <2>1. CASE q # p
    <3>1. At(wire, q, i, s) /\ wire'[q][i] = wire[q][i]
      BY <1>2, <1>6, <2>1 DEF At
    <3> QED BY <1>5, <2>1, <3>1
  <2>2. CASE q = p
    <3>1. i \in 1..(l - 1) /\ wire[p][i + 1].of = s /\ wire'[p][i] = wire[p][i + 1]
      BY <1>2, <1>6, <2>2 DEF At
    <3>2. i + 1 \in 1..l /\ i + 1 # 1 /\ i + 1 \in Nat
      BY <3>1
    <3>3. At(wire, p, i + 1, s)
      BY <1>1, <3>1, <3>2 DEF At
    <3> QED BY <1>5, <2>2, <3>1, <3>2, <3>3
  <2> QED BY <2>1, <2>2
<1>7. ASSUME NEW q \in Pods, NEW s \in Requests, NEW i \in Nat, At(wire, q, i, s), s # h
      PROVE  \E j \in Nat : At(wire', q, j, s) /\ wire'[q][j] = wire[q][i]
  <2>1. CASE q # p
    BY <1>2, <1>7, <2>1 DEF At
  <2>2. CASE q = p
    <3>1. i \in 1..l /\ wire[p][i].of = s /\ i # 1
      BY <1>1, <1>2, <1>7, <2>2 DEF At
    <3>2. i - 1 \in 1..(l - 1) /\ (i - 1) + 1 = i /\ i - 1 \in Nat
      BY <3>1
    <3>3. wire'[p][i - 1] = wire[p][i]
      BY <1>2, <3>1, <3>2
    <3> QED BY <1>2, <2>2, <3>1, <3>2, <3>3 DEF At
  <2> QED BY <2>1, <2>2
<1>8. OnceInv'
  <2> SUFFICES ASSUME NEW q \in Pods, NEW s \in Requests
               PROVE  /\ \A i \in Nat : Cmd(sent, q, i, s) \/ At(wire', q, i, s) =>
                            pod[s] = q /\ answer'[s] # Unanswered
                      /\ \A i, j \in Nat : Cmd(sent, q, i, s) /\ Cmd(sent, q, j, s) => i = j
                      /\ \A i, j \in Nat : At(wire', q, i, s) /\ At(wire', q, j, s) => i = j
                      /\ \A i, j \in Nat : ~ (Cmd(sent, q, i, s) /\ At(wire', q, j, s))
    BY DEF OnceInv
  <2>1. \A i, j \in Nat : At(wire', q, i, s) /\ At(wire', q, j, s) => i = j
    <3> SUFFICES ASSUME NEW i \in Nat, NEW j \in Nat, At(wire', q, i, s), At(wire', q, j, s)
                 PROVE  i = j
      OBVIOUS
    <3>1. CASE q = p
      <4>1. At(wire, q, i + 1, s) /\ At(wire, q, j + 1, s) /\ i + 1 \in Nat /\ j + 1 \in Nat
        BY <1>6, <3>1
      <4>2. i + 1 = j + 1
        BY <4>1 DEF OnceInv
      <4> QED BY <4>2
    <3>2. CASE q # p
      <4>1. At(wire, q, i, s) /\ At(wire, q, j, s)
        BY <1>6, <3>2
      <4> QED BY <4>1 DEF OnceInv
    <3> QED BY <3>1, <3>2
  <2>2. \A i \in Nat : At(wire', q, i, s) => \E j \in Nat : At(wire, q, j, s)
    BY <1>6
  <2> QED BY <2>1, <2>2 DEF OnceInv
<1>9. ASSUME NEW q \in Pods, NEW s \in Requests, NEW i \in Nat
      PROVE  /\ At(wire', q, i, s) =>
                   s # h /\ \E j \in Nat : At(wire, q, j, s) /\ wire'[q][i] = wire[q][j]
             /\ At(wire, q, i, s) /\ s # h =>
                   \E j \in Nat : At(wire', q, j, s) /\ wire'[q][j] = wire[q][i]
  <2>1. ASSUME At(wire', q, i, s)
        PROVE  s # h /\ \E j \in Nat : At(wire, q, j, s) /\ wire'[q][i] = wire[q][j]
    <3>1. CASE q = p
      <4>1. s # h /\ i + 1 \in Nat /\ At(wire, q, i + 1, s) /\ wire'[q][i] = wire[q][i + 1]
        BY ONLY <1>6, <2>1, <3>1
      <4> QED BY ONLY <4>1
    <3>2. CASE q # p
      BY <1>6, <2>1, <3>2
    <3> QED BY <3>1, <3>2
  <2> QED BY <1>7, <2>1
<1>10. Received(h)
  BY ONLY <1>9 DEF Received
<1> QED BY <1>2, <1>4, <1>8, <1>10

\* A connection breaks: its commands are lost, and of its replies the last ones.
LEMMA CutFacts ==
    ASSUME sent \in [Pods -> Seq(Requests)], wire \in [Pods -> Seq(Reply)],
           NEW p \in Pods, NEW n \in 0..Len(wire[p]),
           sent' = [sent EXCEPT ![p] = <<>>], wire' = [wire EXCEPT ![p] = SubSeq(@, 1, n)]
    PROVE  \A q \in Pods, r \in Requests : \A i \in Nat :
              /\ Cmd(sent', q, i, r) => Cmd(sent, q, i, r)
              /\ At(wire', q, i, r) => At(wire, q, i, r) /\ wire'[q][i] = wire[q][i]
<1>1. /\ wire[p] \in Seq(Reply) /\ wire'[p] = SubSeq(wire[p], 1, n)
      /\ \A q \in Pods : q # p => wire'[q] = wire[q]
  OBVIOUS
<1>2. PICK l \in Nat : l = Len(wire[p])
  BY <1>1
<1>3. Len(wire'[p]) = n /\ \A i \in 1..n : wire'[p][i] = wire[p][i]
  BY <1>1, <1>2
<1>4. \A i \in 1..n : i \in 1..l
  BY <1>2
<1>5. \A q \in Pods, r \in Requests : \A i \in Nat : Cmd(sent', q, i, r) => Cmd(sent, q, i, r)
  BY DEF Cmd
<1>6. ASSUME NEW q \in Pods, NEW r \in Requests, NEW i \in Nat, At(wire', q, i, r)
      PROVE  At(wire, q, i, r) /\ wire'[q][i] = wire[q][i]
  <2>1. CASE q # p
    BY <1>1, <1>6, <2>1 DEF At
  <2>2. CASE q = p
    <3>1. i \in 1..n /\ wire'[p][i].of = r
      BY <1>3, <1>6, <2>2 DEF At
    <3> QED BY <1>2, <1>3, <1>4, <2>2, <3>1 DEF At
  <2> QED BY <2>1, <2>2
<1> QED BY <1>5, <1>6

\* The fallback answers from memory.
LEMMA FallbackFrom ==
    ASSUME NEW r, NEW p, Fallback(r, p)
    PROVE  \E a : answer' = [answer EXCEPT ![r] = a] /\ a.from = "memory"
<1>1. PICK v : answer' = [answer EXCEPT ![r] = [from |-> "memory", value |-> v, of |-> r]]
  BY DEF Fallback
<1>2. PICK a : a = [from |-> "memory", value |-> v, of |-> r]
  OBVIOUS
<1>3. a.from = "memory"
  BY <1>2
<1> QED BY <1>1, <1>2, <1>3

\* The first reply is cut: the places are the same, its number may be lost.
LEMMA HeaderWire ==
    ASSUME TypeInv, NEW p \in Pods, NEW v, NEW w, NEW x, HeaderRead(p, v, w, x)
    PROVE  /\ At(wire, p, 1, x.of) /\ wire[p][1] = Head(wire[p]) /\ wire'[p][1] = x
           /\ \A q \in Pods, s \in Requests : \A i \in Nat :
                 At(wire', q, i, s) <=> At(wire, q, i, s)
           /\ \A q \in Pods : \A i \in Nat : \A s \in Requests :
                 At(wire, q, i, s) => wire'[q][i] = wire[q][i] \/ (q = p /\ i = 1)
<1>t. /\ wire \in [Pods -> Seq(Reply)] /\ wire[p] \in Seq(Reply) /\ wire[p] # <<>>
      /\ x \in Reply
  BY DEF TypeInv, TypeOK, HeaderRead
<1>1. PICK l \in Nat : l = Len(wire[p])
  BY <1>t
<1>2. l >= 1 /\ Head(wire[p]) = wire[p][1] /\ 1 \in 1..l
  BY <1>t, <1>1
<1>3. PICK t \in Seq(Reply) : t = Tail(wire[p])
  <2>1. Tail(wire[p]) \in Seq(Reply)
    BY <1>t
  <2> QED BY <2>1
<1>4. Len(t) = l - 1 /\ \A i \in 1..(l - 1) : t[i] = wire[p][i + 1]
  BY <1>t, <1>1, <1>3
<1>5. wire'[p] = <<x>> \o t /\ \A q \in Pods : q # p => wire'[q] = wire[q]
  BY <1>t, <1>3 DEF HeaderRead
<1>6. <<x>> \in Seq(Reply) /\ Len(<<x>>) = 1 /\ <<x>>[1] = x
  BY <1>t
<1>7. /\ Len(wire'[p]) = l /\ wire'[p][1] = x
      /\ \A i \in 2..l : wire'[p][i] = t[i - 1]
  BY <1>1, <1>2, <1>3, <1>4, <1>5, <1>6
<1>8. \A i \in 2..l : wire'[p][i] = wire[p][i]
  <2> SUFFICES ASSUME NEW i \in 2..l PROVE wire'[p][i] = wire[p][i]
    OBVIOUS
  <2>1. i - 1 \in 1..(l - 1) /\ (i - 1) + 1 = i
    OBVIOUS
  <2> QED BY <1>4, <1>7, <2>1
<1>9. x.of = wire[p][1].of
  BY <1>2 DEF HeaderRead
<1>10. \A i \in 1..l : wire'[p][i].of = wire[p][i].of /\ (i # 1 => wire'[p][i] = wire[p][i])
  <2> SUFFICES ASSUME NEW i \in 1..l
               PROVE  wire'[p][i].of = wire[p][i].of /\ (i # 1 => wire'[p][i] = wire[p][i])
    OBVIOUS
  <2>1. i = 1 \/ i \in 2..l
    OBVIOUS
  <2> QED BY <1>7, <1>8, <1>9, <2>1
<1>11. At(wire, p, 1, x.of)
  BY <1>1, <1>2, <1>9 DEF At
<1>12. ASSUME NEW q \in Pods, NEW s \in Requests, NEW i \in Nat
       PROVE  /\ At(wire', q, i, s) <=> At(wire, q, i, s)
              /\ At(wire, q, i, s) => wire'[q][i] = wire[q][i] \/ (q = p /\ i = 1)
  <2>1. CASE q # p
    BY <1>5, <2>1 DEF At
  <2>2. CASE q = p
    BY <1>1, <1>7, <1>10, <2>2 DEF At
  <2> QED BY <2>1, <2>2
<1> QED BY <1>2, <1>7, <1>11, <1>12

\* An answer is not taken back, and a pod is not exchanged.
LEMMA AnsweredStays ==
    ASSUME TypeInv, [Next]_vars, NEW s \in Requests, answer[s] # Unanswered
    PROVE  answer'[s] # Unanswered /\ pod'[s] = pod[s]
<1> USE DEF podVars, redisVars
<1>t. answer \in [Requests -> Answer] /\ pod \in [Requests -> Pods \cup {NoPod}] /\ TypeOK
  BY DEF TypeInv, TypeOK
<1>1. ASSUME NEW r \in Requests, NEW p \in Pods, Arrive(r, p)
      PROVE  answer'[s] # Unanswered /\ pod'[s] = pod[s]
  <2>1. PICK a : answer' = [answer EXCEPT ![r] = a]
    BY <1>1 DEF Arrive, Fallback
  <2>2. answer[r] = Unanswered /\ pod' = [pod EXCEPT ![r] = p]
    BY <1>1 DEF Arrive
  <2> QED BY <1>t, <2>1, <2>2
<1>2. ASSUME NEW p \in Pods, Receive(p) \/ ReceiveHeaderOnly(p)
      PROVE  answer'[s] # Unanswered /\ pod'[s] = pod[s]
  <2>1. Heard(p)
    BY <1>2, HearingFacts
  <2>2. answer'[s] # answer[s] => answer'[s].from = "redis"
    BY <2>1 DEF Heard
  <2> QED BY <2>1, <2>2, AnswerType DEF Heard
<1>3. ASSUME NEW r \in Requests, Timeout(r)
      PROVE  answer'[s] # Unanswered /\ pod'[s] = pod[s]
  <2>1. PICK a : answer' = [answer EXCEPT ![r] = a] /\ a.from = "memory"
    BY <1>3, FallbackFrom DEF Timeout
  <2>2. answer'[s] # Unanswered
    BY <1>t, <2>1, AnswerType
  <2> QED BY <1>3, <2>2 DEF Timeout
<1>4. ASSUME NEW p \in Pods, Exit(p)
      PROVE  answer'[s] # Unanswered /\ pod'[s] = pod[s]
  <2>1. CASE answer[s] = Waiting /\ pod[s] = p
    <3>1. answer'[s] = [Waiting EXCEPT !.from = "lost"]
      BY <1>4, <2>1 DEF Exit
    <3>2. answer'[s].from = "lost"
      BY <3>1 DEF Waiting
    <3> QED BY <1>4, <3>2, AnswerType DEF Exit
  <2>2. CASE ~ (answer[s] = Waiting /\ pod[s] = p)
    BY <1>4, <2>2 DEF Exit
  <2> QED BY <2>1, <2>2
<1>5. CASE UNCHANGED <<answer, pod>>
  BY <1>5
<1>6. ASSUME NEW p \in Pods, Start(p) \/ Execute(p) \/ Refuse(p) \/ Break(p) \/ Error(p)
      PROVE  UNCHANGED <<answer, pod>>
  BY <1>6 DEF Start, Execute, Refuse, SendReply, Break, Error
<1>7. CASE RedisStops \/ RedisStarts \/ Reset \/ UNCHANGED vars
  BY <1>5, <1>7 DEF RedisStops, RedisStarts, Reset, vars
<1> QED BY <1>1, <1>2, <1>3, <1>4, <1>5, <1>6, <1>7 DEF Next

\* Every step keeps OnceInv.
LEMMA OnceStep ==
    ASSUME TypeInv, OnceInv, [Next]_vars
    PROVE  OnceInv'
<1> USE DEF podVars, redisVars
<1>a. \A r \in Requests : answer[r] # Unanswered => answer'[r] # Unanswered /\ pod'[r] = pod[r]
  BY AnsweredStays
<1>t. /\ sent \in [Pods -> Seq(Requests)] /\ wire \in [Pods -> Seq(Reply)]
      /\ pod \in [Requests -> Pods \cup {NoPod}] /\ answer \in [Requests -> Answer]
  BY DEF TypeInv, TypeOK
<1>f. CASE UNCHANGED <<sent, wire>>
  BY <1>a, <1>f, OnceFrame
<1>1. CASE UNCHANGED vars
  BY <1>1, <1>f DEF vars
<1>2. ASSUME NEW p \in Pods, Start(p) PROVE OnceInv'
  BY <1>2, <1>f DEF Start
<1>3. ASSUME NEW r \in Requests, NEW p \in Pods, Arrive(r, p) PROVE OnceInv'
  <2>0. answer[r] = Unanswered /\ pod' = [pod EXCEPT ![r] = p] /\ UNCHANGED wire
    BY <1>3 DEF Arrive
  <2>1. CASE redisReady[p] /\ connected[p] /\ link[p]
    <3>1. sent' = [sent EXCEPT ![p] = Append(@, r)] /\ answer' = [answer EXCEPT ![r] = Waiting]
      BY <1>3, <2>1 DEF Arrive
    <3> QED BY <2>0, <3>1, OnceArrive
  <2>2. CASE ~ (redisReady[p] /\ connected[p] /\ link[p])
    <3>1. sent' = sent
      BY <1>t, <1>3, <2>2 DEF Arrive
    <3> QED BY <1>f, <2>0, <3>1
  <2> QED BY <2>1, <2>2
<1>4. ASSUME NEW p \in Pods, Execute(p) \/ Refuse(p) PROVE OnceInv'
  <2>1. PICK h, x : Replied(p, h, x)
    BY <1>4, ReplyFacts DEF TypeInv
  <2>2. /\ x.of = h /\ h = Head(sent[p]) /\ wire' = [wire EXCEPT ![p] = Append(@, x)]
        /\ sent[p] # <<>> /\ sent' = [sent EXCEPT ![p] = Tail(@)] /\ UNCHANGED <<pod, answer>>
    BY <2>1 DEF Replied
  <2> QED BY ONLY TypeInv, OnceInv, p \in Pods, <2>2, OnceExecute
<1>5. ASSUME NEW p \in Pods, Receive(p) PROVE OnceInv'
  <2>1. /\ wire[p] # <<>> /\ wire' = [wire EXCEPT ![p] = Tail(@)] /\ UNCHANGED <<sent, pod>>
    BY <1>5 DEF Receive, Consume
  <2>2. \A r \in Requests : answer[r] # Unanswered => answer'[r] # Unanswered
    BY <1>a
  <2>3. PICK h : h = Head(wire[p]).of
    OBVIOUS
  <2> QED BY <2>1, <2>2, <2>3, OnceReceive
<1>6. ASSUME NEW r \in Requests, Timeout(r) PROVE OnceInv'
  BY <1>6, <1>f DEF Timeout
<1>7. ASSUME NEW p \in Pods, Break(p) PROVE OnceInv'
  <2>1. PICK n \in 0..Len(wire[p]) : wire' = [wire EXCEPT ![p] = SubSeq(@, 1, n)]
    BY <1>7 DEF Break
  <2>2. sent' = [sent EXCEPT ![p] = <<>>] /\ UNCHANGED <<pod, answer>>
    BY <1>7 DEF Break
  <2> QED BY <1>a, <1>t, <2>1, <2>2, CutFacts, OnceFrame
<1>8. ASSUME NEW p \in Pods, Error(p) PROVE OnceInv'
  <2>1. wire' = [wire EXCEPT ![p] = <<>>] /\ UNCHANGED <<sent, pod, answer>>
    BY <1>8 DEF Error
  <2>2. \A q \in Pods, r \in Requests : \A i \in Nat : At(wire', q, i, r) => At(wire, q, i, r)
    BY <1>t, <2>1 DEF At
  <2> QED BY <1>a, <2>1, <2>2, OnceFrame
<1>9. ASSUME NEW p \in Pods, Exit(p) PROVE OnceInv'
  BY <1>9, <1>f DEF Exit
<1>10. CASE RedisStops
  <2>1. sent' = [p \in Pods |-> <<>>] /\ UNCHANGED <<wire, pod, answer>>
    BY <1>10 DEF RedisStops
  <2>2. \A q \in Pods, r \in Requests : \A i \in Nat : ~ Cmd(sent', q, i, r)
    BY <2>1 DEF Cmd
  <2> QED BY <1>a, <2>1, <2>2, OnceFrame
<1>11. CASE RedisStarts \/ Reset
  BY <1>11, <1>f DEF RedisStarts, Reset
<1>12. ASSUME NEW p \in Pods, ReceiveHeaderOnly(p) PROVE OnceInv'
  <2>1. PICK v, w, x : HeaderRead(p, v, w, x)
    BY <1>12, HeaderFacts DEF TypeInv
  <2>2. \A q \in Pods, s \in Requests : \A i \in Nat : At(wire', q, i, s) => At(wire, q, i, s)
    BY <2>1, HeaderWire
  <2>3. UNCHANGED sent
    BY <1>12 DEF ReceiveHeaderOnly
  <2> QED BY <1>a, <2>2, <2>3, OnceFrame
<1> QED BY <1>1, <1>2, <1>3, <1>4, <1>5, <1>6, <1>7, <1>8, <1>9, <1>10, <1>11, <1>12 DEF Next

\* What waits is Waiting, and only that.
LEMMA ShapeStep ==
    ASSUME TypeInv, ShapeInv, [Next]_vars
    PROVE  ShapeInv'
<1> USE DEF podVars, redisVars
<1>t. answer \in [Requests -> Answer]
  BY DEF TypeInv, TypeOK
<1> SUFFICES ASSUME NEW s \in Requests, answer'[s].from = "waiting" PROVE answer'[s] = Waiting
  BY DEF ShapeInv
<1>f. CASE answer'[s] = answer[s]
  BY <1>f DEF ShapeInv
<1>2. ASSUME NEW r \in Requests, NEW p \in Pods, Arrive(r, p) PROVE answer'[s] = Waiting
  <2>1. PICK a : answer' = [answer EXCEPT ![r] = a] /\ (a = Waiting \/ a.from = "memory")
    BY <1>2, FallbackFrom DEF Arrive
  <2> QED BY <1>t, <1>f, <2>1
<1>3. ASSUME NEW p \in Pods, Receive(p) \/ ReceiveHeaderOnly(p) PROVE answer'[s] = Waiting
  <2>1. answer'[s] # answer[s] => answer'[s].from = "redis"
    BY <1>3, HearingFacts DEF Heard
  <2> QED BY <1>f, <2>1
<1>4. ASSUME NEW r \in Requests, Timeout(r) PROVE answer'[s] = Waiting
  <2>1. PICK a : answer' = [answer EXCEPT ![r] = a] /\ a.from = "memory"
    BY <1>4, FallbackFrom DEF Timeout
  <2> QED BY <1>t, <1>f, <2>1
<1>5. ASSUME NEW p \in Pods, Exit(p) PROVE answer'[s] = Waiting
  <2>1. CASE answer[s] = Waiting /\ pod[s] = p
    <3>1. answer'[s] = [Waiting EXCEPT !.from = "lost"]
      BY <1>5, <2>1 DEF Exit
    <3>2. answer'[s].from = "lost"
      BY <3>1 DEF Waiting
    <3> QED BY <3>2
  <2>2. CASE ~ (answer[s] = Waiting /\ pod[s] = p)
    BY <1>5, <1>f, <2>2 DEF Exit
  <2> QED BY <2>1, <2>2
<1>6. ASSUME NEW p \in Pods, Start(p) \/ Execute(p) \/ Refuse(p) \/ Break(p) \/ Error(p)
      PROVE  answer' = answer
  BY <1>6 DEF Start, Execute, Refuse, SendReply, Break, Error
<1>7. CASE RedisStops \/ RedisStarts \/ Reset \/ UNCHANGED vars
  BY <1>7, <1>f DEF RedisStops, RedisStarts, Reset, vars
<1> QED BY <1>f, <1>2, <1>3, <1>4, <1>5, <1>6, <1>7 DEF Next

-----------------------------------------------------------------------------
(* Who is given a reply.  The waiters of a queue are requests of the pod, and a
   reply answers a request of the pod that it was sent to. *)

Queued(p, i, r) == i \in 1..Len(queue[p]) /\ queue[p][i] = r

QueueInv ==
    \A p \in Pods, r \in Requests : \A i \in Nat :
       Queued(p, i, r) => pod[r] = p /\ answer[r] # Unanswered

RepliesInv ==
    /\ RepliesMatchCommands
    /\ \A r \in Requests : answer[r].from = "redis" =>
          answer[r].of \in Requests /\ answer[answer[r].of] # Unanswered

\* Nobody new waits.
LEMMA QueueFrame ==
    ASSUME QueueInv,
           \A r \in Requests : answer[r] # Unanswered =>
              answer'[r] # Unanswered /\ pod'[r] = pod[r],
           \A p \in Pods, r \in Requests : \A i \in Nat :
              Queued(p, i, r)' => \E j \in Nat : Queued(p, j, r)
    PROVE  QueueInv'
<1> SUFFICES ASSUME NEW p \in Pods, NEW r \in Requests, NEW i \in Nat, Queued(p, i, r)'
             PROVE  pod'[r] = p /\ answer'[r] # Unanswered
  BY DEF QueueInv
<1>1. PICK j \in Nat : Queued(p, j, r)
  OBVIOUS
<1>2. pod[r] = p /\ answer[r] # Unanswered
  BY <1>1 DEF QueueInv
<1> QED BY <1>2

\* Every step keeps QueueInv.
LEMMA QueueStep ==
    ASSUME TypeInv, QueueInv, [Next]_vars
    PROVE  QueueInv'
<1> USE DEF podVars, redisVars
<1>t. queue \in [Pods -> Seq(Requests)] /\ answer \in [Requests -> Answer]
      /\ pod \in [Requests -> Pods \cup {NoPod}]
  BY DEF TypeInv, TypeOK
<1>a. \A r \in Requests : answer[r] # Unanswered => answer'[r] # Unanswered /\ pod'[r] = pod[r]
  BY AnsweredStays
<1>f. CASE UNCHANGED queue
  BY <1>a, <1>f, QueueFrame DEF Queued
<1>1. ASSUME NEW r \in Requests, NEW p \in Pods, Arrive(r, p) PROVE QueueInv'
  <2>1. CASE ~ (redisReady[p] /\ connected[p])
    BY <1>1, <1>f, <2>1 DEF Arrive
  <2>2. CASE redisReady[p] /\ connected[p]
    <3>1. /\ queue' = [queue EXCEPT ![p] = Append(@, r)] /\ answer' = [answer EXCEPT ![r] = Waiting]
          /\ pod' = [pod EXCEPT ![r] = p]
      BY <1>1, <2>2 DEF Arrive
    <3>2. PICK k \in Nat : k = Len(queue[p])
      BY <1>t
    <3>3. /\ Len(queue'[p]) = k + 1 /\ queue'[p][k + 1] = r
          /\ \A i \in 1..k : queue'[p][i] = queue[p][i]
          /\ \A q \in Pods : q # p => queue'[q] = queue[q]
      BY <1>t, <3>1, <3>2
    <3>4. pod'[r] = p /\ answer'[r] # Unanswered
      BY <1>t, <3>1, AnswerType
    <3> SUFFICES ASSUME NEW q \in Pods, NEW s \in Requests, NEW i \in Nat, Queued(q, i, s)'
                 PROVE  pod'[s] = q /\ answer'[s] # Unanswered
      BY DEF QueueInv
    <3>5. Queued(q, i, s) \/ (q = p /\ s = r)
      <4>1. CASE q # p
        BY <3>3, <4>1 DEF Queued
      <4>2. CASE q = p
        <5>1. i \in 1..(k + 1) /\ queue'[p][i] = s
          BY <3>3, <4>2 DEF Queued
        <5>2. i = k + 1 \/ i \in 1..k
          BY <5>1
        <5> QED BY <3>2, <3>3, <4>2, <5>1, <5>2 DEF Queued
      <4> QED BY <4>1, <4>2
    <3>6. CASE Queued(q, i, s)
      BY <1>a, <3>6 DEF QueueInv
    <3> QED BY <3>4, <3>5, <3>6
  <2> QED BY <2>1, <2>2
<1>2. ASSUME NEW p \in Pods, Receive(p) \/ ReceiveHeaderOnly(p) PROVE QueueInv'
  <2>1. queue' = [queue EXCEPT ![p] = IF @ = <<>> THEN @ ELSE Tail(@)]
    BY <1>2, HearingFacts DEF Heard
  <2>2. CASE queue[p] = <<>>
    BY <1>t, <1>f, <2>1, <2>2
  <2>3. CASE queue[p] # <<>>
    <3>1. PICK k \in Nat : k = Len(queue[p])
      BY <1>t
    <3>2. /\ Len(queue'[p]) = k - 1 /\ \A i \in 1..(k - 1) : queue'[p][i] = queue[p][i + 1]
          /\ \A q \in Pods : q # p => queue'[q] = queue[q]
      <4>1. queue'[p] = Tail(queue[p]) /\ queue[p] \in Seq(Requests)
        BY <1>t, <2>1, <2>3
      <4> QED BY <1>t, <2>1, <2>3, <3>1, <4>1
    <3>3. ASSUME NEW q \in Pods, NEW s \in Requests, NEW i \in Nat, Queued(q, i, s)'
          PROVE  \E j \in Nat : Queued(q, j, s)
      <4>1. CASE q # p
        BY <3>2, <3>3, <4>1 DEF Queued
      <4>2. CASE q = p
        <5>1. i \in 1..(k - 1) /\ queue[p][i + 1] = s
          BY <3>2, <3>3, <4>2 DEF Queued
        <5>2. i + 1 \in 1..k /\ i + 1 \in Nat
          BY <5>1
        <5> QED BY <3>1, <4>2, <5>1, <5>2 DEF Queued
      <4> QED BY <4>1, <4>2
    <3> QED BY <1>a, <3>3, QueueFrame
  <2> QED BY <2>2, <2>3
<1>3. ASSUME NEW p \in Pods, Start(p) \/ Execute(p) \/ Refuse(p) \/ Break(p) \/ Error(p) \/ Exit(p)
      PROVE  UNCHANGED queue
  BY <1>3 DEF Start, Execute, Refuse, SendReply, Break, Error, Exit
<1>4. ASSUME NEW r \in Requests, Timeout(r) PROVE UNCHANGED queue
  BY <1>4 DEF Timeout, LeaveQueue
<1>5. CASE RedisStops \/ RedisStarts \/ Reset \/ UNCHANGED vars
  BY <1>5, <1>f DEF RedisStops, RedisStarts, Reset, vars
<1> QED BY <1>f, <1>1, <1>2, <1>3, <1>4, <1>5 DEF Next

\* What a step other than a reading does to answers: none turns into Redis' answer.
LEMMA OtherAnswers ==
    ASSUME TypeInv, [Next]_vars, \A p \in Pods : ~ Receive(p) /\ ~ ReceiveHeaderOnly(p),
           NEW r \in Requests, answer'[r].from = "redis"
    PROVE  answer'[r] = answer[r]
<1>t. TypeOK /\ answer \in [Requests -> Answer]
  BY DEF TypeInv, TypeOK
<1>1. ASSUME NEW s \in Requests, NEW p \in Pods, Arrive(s, p) PROVE answer'[r] = answer[r]
  <2>1. CASE Fallback(s, p)
    BY <1>t, <2>1, FallbackType
  <2>2. CASE answer' = [answer EXCEPT ![s] = Waiting]
    BY <1>t, <2>2, AnswerType
  <2> QED BY <1>1, <2>1, <2>2 DEF Arrive
<1>2. ASSUME NEW s \in Requests, Timeout(s) PROVE answer'[r] = answer[r]
  <2>1. pod[s] \in Pods /\ Fallback(s, pod[s])
    BY <1>2, AnswerType DEF Timeout, TypeInv
  <2> QED BY <1>t, <2>1, FallbackType
<1>3. ASSUME NEW p \in Pods, Exit(p) PROVE answer'[r] = answer[r]
  <2>1. answer'[r] = IF answer[r] = Waiting /\ pod[r] = p
                       THEN [answer[r] EXCEPT !.from = "lost"] ELSE answer[r]
    BY <1>3 DEF Exit
  <2>2. answer[r] \in Answer
    BY <1>t
  <2>3. [answer[r] EXCEPT !.from = "lost"].from = "lost"
    BY <2>2 DEF Answer
  <2> QED BY <2>1, <2>3
<1>4. ASSUME NEW p \in Pods,
             Start(p) \/ Execute(p) \/ Refuse(p) \/ Break(p) \/ Error(p)
      PROVE  UNCHANGED answer
  BY <1>4 DEF Start, Execute, Refuse, SendReply, Break, Error
<1> QED BY <1>1, <1>2, <1>3, <1>4 DEF Next, RedisStops, RedisStarts, Reset, vars

\* The first reply of p answers a request of p.
LEMMA FirstReply ==
    ASSUME TypeInv, OnceInv, NEW p \in Pods, wire[p] # <<>>, NEW h, h = Head(wire[p]).of
    PROVE  /\ h \in Requests /\ pod[h] = p /\ answer[h] # Unanswered
           /\ At(wire, p, 1, h) /\ wire[p][1] = Head(wire[p])
<1>1. wire[p] \in Seq(Reply)
  BY DEF TypeInv, TypeOK
<1>2. PICK l \in Nat : l = Len(wire[p])
  BY <1>1
<1>3. l >= 1 /\ Head(wire[p]) = wire[p][1] /\ 1 \in 1..l /\ wire[p][1] \in Reply
  BY <1>1, <1>2
<1>4. h \in Requests /\ At(wire, p, 1, h)
  BY <1>2, <1>3 DEF At, Reply
<1> QED BY <1>3, <1>4 DEF OnceInv

\* The first waiter of p is a request of p.
LEMMA FirstWaiter ==
    ASSUME TypeInv, QueueInv, NEW p \in Pods, queue[p] # <<>>
    PROVE  Head(queue[p]) \in Requests /\ pod[Head(queue[p])] = p
<1>1. queue[p] \in Seq(Requests)
  BY DEF TypeInv, TypeOK
<1>2. PICK l \in Nat : l = Len(queue[p])
  BY <1>1
<1>3. Head(queue[p]) \in Requests /\ Head(queue[p]) = queue[p][1] /\ 1 \in 1..l
  BY <1>1, <1>2
<1>4. Queued(p, 1, Head(queue[p]))
  BY <1>2, <1>3 DEF Queued
<1> QED BY <1>3, <1>4 DEF QueueInv

\* Every step keeps RepliesInv.
LEMMA RepliesStep ==
    ASSUME TypeInv, MatchInv, OnceInv, QueueInv, RepliesInv, [Next]_vars
    PROVE  RepliesInv'
<1>a. \A r \in Requests : answer[r] # Unanswered => answer'[r] # Unanswered /\ pod'[r] = pod[r]
  BY AnsweredStays
<1>c. \A p \in Pods : cut[p] => cut'[p]
  BY CutStep
<1> SUFFICES ASSUME NEW r \in Requests, answer'[r].from = "redis"
             PROVE  /\ answer'[r].of \in Requests /\ answer'[answer'[r].of] # Unanswered
                    /\ pod'[answer'[r].of] = pod'[r] /\ (~ cut'[pod'[r]] => answer'[r].of = r)
  BY DEF RepliesInv, RepliesMatchCommands
<1>1. CASE answer'[r] = answer[r]
  <2>1. answer[r].from = "redis" /\ answer[r] # Unanswered
    BY <1>1, AnswerType
  <2>2. pod[r] \in Pods /\ pod'[r] = pod[r]
    BY <1>a, <2>1 DEF TypeInv
  <2>3. PICK o \in Requests : o = answer[r].of
    BY <2>1 DEF RepliesInv
  <2>4. answer[o] # Unanswered /\ pod[o] = pod[r] /\ (~ cut[pod[r]] => o = r)
    BY <2>1, <2>3 DEF RepliesInv, RepliesMatchCommands
  <2>5. answer'[o] # Unanswered /\ pod'[o] = pod[o]
    BY <1>a, <2>4
  <2> QED BY <1>1, <1>c, <2>2, <2>3, <2>4, <2>5
<1>2. ASSUME answer'[r] # answer[r], NEW p \in Pods, Receive(p) \/ ReceiveHeaderOnly(p)
      PROVE  /\ answer'[r].of \in Requests /\ answer'[answer'[r].of] # Unanswered
             /\ pod'[answer'[r].of] = pod'[r] /\ (~ cut'[pod'[r]] => answer'[r].of = r)
  <2>1. PICK o : o = Head(wire[p]).of
    OBVIOUS
  <2>2. /\ wire[p] # <<>> /\ queue[p] # <<>> /\ r = Head(queue[p]) /\ answer'[r].of = o
        /\ answer[r] = Waiting
    BY <1>2, <2>1, HearingFacts DEF Heard
  <2>3. o \in Requests /\ pod[o] = p /\ answer[o] # Unanswered
    BY <2>1, <2>2, FirstReply
  <2>4. pod[r] = p
    BY <2>2, FirstWaiter
  <2>5. answer'[o] # Unanswered /\ pod'[o] = p /\ pod'[r] = p
    BY <1>a, <2>2, <2>3, <2>4, AnswerType
  <2>6. ASSUME ~ cut'[p] PROVE o = r
    <3>1. MatchOf(p)
      BY <1>c, <2>6 DEF MatchInv
    <3>2. CASE Receive(p)
      BY <2>1, <2>2, <3>1, <3>2, ReceiveHeads
    <3>3. CASE ReceiveHeaderOnly(p)
      BY <2>6, <3>3 DEF ReceiveHeaderOnly, TypeInv, TypeOK
    <3> QED BY <1>2, <3>2, <3>3
  <2> QED BY <2>2, <2>3, <2>5, <2>6
<1>3. CASE \A p \in Pods : ~ Receive(p) /\ ~ ReceiveHeaderOnly(p)
  BY <1>1, <1>3, OtherAnswers
<1> QED BY <1>1, <1>2, <1>3

PlaceInv == TypeInv /\ MatchInv /\ OnceInv /\ ShapeInv /\ QueueInv /\ RepliesInv

LEMMA PlaceInit == Init => PlaceInv
<1> SUFFICES ASSUME Init PROVE PlaceInv
  OBVIOUS
<1>1. TypeInv
  BY AnswerType DEF Init, TypeInv, TypeOK
<1>2. MatchInv
  BY DEF Init, MatchInv, MatchOf
<1>3. \A p \in Pods : sent[p] = <<>> /\ wire[p] = <<>> /\ queue[p] = <<>>
  BY DEF Init
<1>4. OnceInv /\ QueueInv
  BY <1>3 DEF OnceInv, Cmd, At, QueueInv, Queued
<1>5. ShapeInv /\ RepliesInv
  BY AnswerType DEF Init, ShapeInv, RepliesInv, RepliesMatchCommands
<1> QED BY <1>1, <1>2, <1>4, <1>5 DEF PlaceInv

LEMMA PlaceStep == PlaceInv /\ [Next]_vars => PlaceInv'
BY TypeStep, MatchStep, OnceStep, ShapeStep, QueueStep, RepliesStep DEF PlaceInv

\* TinyRedis hands every reply to the command it answers, however many commands of
\* the connection have timed out, until a bulk reply is read before all of it has
\* come, and after that to a command of the same pod (server.js, the 'data' handler).
THEOREM RepliesAreMatched == Spec => []RepliesMatchCommands
<1>1. PlaceInv => RepliesMatchCommands
  BY DEF PlaceInv, RepliesInv
<1> QED BY <1>1, PlaceInit, PlaceStep, PTL DEF Spec

-----------------------------------------------------------------------------
(* Visitor numbers.  INCR gives a number once between two set-backs, so the pairs
   in issued differ; what is on the wire or has been shown for a visit is the
   number issued to it, or no number. *)

Pending(r) == answer[r] = Unanswered \/ \E p \in Pods : \E i \in Nat : Cmd(sent, p, i, r)

\* Place i of a pod's replies has number n for r.
Carries(w, p, i, r, n) == At(w, p, i, r) /\ w[p][i].value = n

Numbered(v, r) == route[r] = "visit" /\ v # NoNumber => v = issued[r][2] /\ v # 0

Bounded ==
    \A r \in Requests : /\ issued[r][1] <= setbacks
                        /\ issued[r][1] = setbacks => issued[r][2] <= visits
Untouched == \A r \in Requests : Pending(r) => issued[r] = <<0, 0>>
Unique ==
    \A q, r \in Requests : route[q] = "visit" /\ route[r] = "visit"
       /\ issued[q] = issued[r] /\ issued[q][2] # 0 => q = r
UnderWay ==
    \A p \in Pods, r \in Requests : \A i \in Nat : \A v :
       Carries(wire, p, i, r, v) => Numbered(v, r)
InAnswers ==
    \A r, o \in Requests : \A v :
       answer[r].from = "redis" /\ answer[r].of = o /\ answer[r].value = v => Numbered(v, o)

NumberInv == Bounded /\ Untouched /\ Unique /\ UnderWay /\ InAnswers

\* Steps that issue nothing: what is under way and what is shown was there before.
Moved ==
    /\ issued' = issued /\ route' = route
    /\ UNCHANGED <<visits, setbacks>> \/ setbacks' = setbacks + 1
    /\ \A r \in Requests : Pending(r)' => Pending(r)
    /\ \A p \in Pods, r \in Requests : \A i \in Nat : At(wire', p, i, r) =>
          \E j \in Nat : /\ At(wire, p, j, r)
                         /\ wire'[p][i].value \in {NoNumber, wire[p][j].value}
    /\ \A r \in Requests : answer'[r].from = "redis" =>
          \/ answer'[r] = answer[r]
          \/ \E p \in Pods : \E j \in Nat :
                /\ At(wire, p, j, answer'[r].of)
                /\ answer'[r].value \in {NoNumber, wire[p][j].value}

LEMMA MovedNumbers ==
    ASSUME TypeInv, NumberInv, Moved
    PROVE  NumberInv'
<1>t. setbacks \in Nat /\ visits \in Nat /\ \A r \in Requests : issued[r][1] \in Nat
  BY DEF TypeInv, TypeOK
<1>u. issued' = issued /\ route' = route
  BY DEF Moved
<1>0. \A v : \A r \in Requests : Numbered(v, r)' <=> Numbered(v, r)
  BY <1>u DEF Numbered
<1>n. \A r \in Requests : Numbered(NoNumber, r)
  BY DEF Numbered
<1>1. \A r \in Requests : /\ issued'[r][1] <= setbacks'
                          /\ issued'[r][1] = setbacks' => issued'[r][2] <= visits'
  <2> SUFFICES ASSUME NEW r \in Requests
               PROVE  /\ issued[r][1] <= setbacks'
                      /\ issued[r][1] = setbacks' => issued[r][2] <= visits'
    BY <1>u
  <2>1. /\ issued[r][1] <= setbacks /\ issued[r][1] \in Nat
        /\ issued[r][1] = setbacks => issued[r][2] <= visits
    BY <1>t DEF NumberInv, Bounded
  <2>2. CASE UNCHANGED <<visits, setbacks>>
    BY <2>1, <2>2
  <2>3. CASE setbacks' = setbacks + 1
    <3>1. issued[r][1] <= setbacks + 1 /\ issued[r][1] # setbacks + 1
      BY <1>t, <2>1
    <3> QED BY <2>3, <3>1
  <2> QED BY <2>2, <2>3 DEF Moved
<1>2. \A r \in Requests : Pending(r)' => issued'[r] = <<0, 0>>
  BY <1>u DEF NumberInv, Untouched, Moved
<1>3. \A q, r \in Requests : route'[q] = "visit" /\ route'[r] = "visit"
          /\ issued'[q] = issued'[r] /\ issued'[q][2] # 0 => q = r
  BY <1>u DEF NumberInv, Unique
<1>4. ASSUME NEW p \in Pods, NEW r \in Requests, NEW i \in Nat, At(wire', p, i, r)
      PROVE  Numbered(wire'[p][i].value, r)
  <2>1. PICK j \in Nat : At(wire, p, j, r) /\ wire'[p][i].value \in {NoNumber, wire[p][j].value}
    BY <1>4 DEF Moved
  <2>2. Numbered(wire[p][j].value, r)
    BY <2>1 DEF NumberInv, UnderWay, Carries
  <2> QED BY <1>n, <2>1, <2>2
<1>5. ASSUME NEW r \in Requests, NEW o \in Requests, answer'[r].from = "redis", answer'[r].of = o
      PROVE  Numbered(answer'[r].value, o)
  <2>1. CASE answer'[r] = answer[r]
    BY <1>5, <2>1 DEF NumberInv, InAnswers
  <2>2. ASSUME NEW p \in Pods, NEW j \in Nat, At(wire, p, j, o),
               answer'[r].value \in {NoNumber, wire[p][j].value}
        PROVE  Numbered(answer'[r].value, o)
    <3>1. Numbered(wire[p][j].value, o)
      BY <2>2 DEF NumberInv, UnderWay, Carries
    <3> QED BY <1>n, <2>2, <3>1
  <2> QED BY <1>5, <2>1, <2>2 DEF Moved
<1>6. \A p \in Pods, r \in Requests : \A i \in Nat : \A v :
         Carries(wire', p, i, r, v) => Numbered(v, r)'
  BY <1>0, <1>4 DEF Carries
<1>7. \A r, o \in Requests : \A v :
         answer'[r].from = "redis" /\ answer'[r].of = o /\ answer'[r].value = v => Numbered(v, o)'
  BY <1>0, <1>5
<1> QED BY <1>1, <1>2, <1>3, <1>6, <1>7 DEF NumberInv, Bounded, Untouched, Unique, UnderWay, InAnswers

\* Redis issues a number, or refuses.
LEMMA ReplyNumbers ==
    ASSUME TypeInv, OnceInv, NumberInv, NEW p \in Pods, NEW h, NEW x, Replied(p, h, x)
    PROVE  NumberInv'
<1>t. /\ setbacks \in Nat /\ visits \in Nat /\ visits' \in Nat /\ visits <= visits'
      /\ issued \in [Requests -> Nat \X Nat]
      /\ \A r \in Requests : issued[r][1] \in Nat /\ issued[r][2] \in Nat
  BY DEF TypeInv, TypeOK, Replied
<1>u. setbacks' = setbacks /\ route' = route /\ answer' = answer /\ h \in Requests
  BY DEF Replied
<1>1. OnceInv' /\ Executed(p, h, x)
  <2>1. /\ sent[p] # <<>> /\ h = Head(sent[p]) /\ x.of = h
        /\ sent' = [sent EXCEPT ![p] = Tail(@)] /\ wire' = [wire EXCEPT ![p] = Append(@, x)]
        /\ UNCHANGED <<pod, answer>>
    BY DEF Replied
  <2> QED BY ONLY TypeInv, OnceInv, p \in Pods, <2>1, OnceExecute
<1>2. Pending(h)
  BY <1>1 DEF Executed, Pending
<1>3. issued[h] = <<0, 0>>
  BY <1>u, <1>2 DEF NumberInv, Untouched
<1>4. \A r \in Requests : r # h => issued'[r] = issued[r]
  BY <1>t DEF Replied
<1>5. issued'[h] \in {issued[h], <<setbacks, visits'>>}
  BY <1>t, <1>u DEF Replied
<1>6. \A r \in Requests : r # h => \A v : Numbered(v, r)' <=> Numbered(v, r)
  BY <1>4, <1>u DEF Numbered
\* Nothing that has been said about h needs a number.
<1>7. \A v : Numbered(v, h) => Numbered(v, h)'
  BY <1>3, <1>u DEF Numbered
<1>8. Bounded'
  <2> SUFFICES ASSUME NEW r \in Requests
               PROVE  issued'[r][1] <= setbacks /\ (issued'[r][1] = setbacks => issued'[r][2] <= visits')
    BY <1>u DEF Bounded
  <2>1. CASE issued'[r] = issued[r]
    <3>1. issued[r][1] <= setbacks /\ (issued[r][1] = setbacks => issued[r][2] <= visits)
      BY DEF NumberInv, Bounded
    <3> QED BY <1>t, <2>1, <3>1
  <2>2. CASE issued'[r] = <<setbacks, visits'>>
    <3>1. issued'[r][1] = setbacks /\ issued'[r][2] = visits'
      BY <2>2
    <3> QED BY <1>t, <3>1
  <2> QED BY <1>4, <1>5, <2>1, <2>2
<1>9. \A r \in Requests : Pending(r)' => Pending(r) /\ r # h
  <2> SUFFICES ASSUME NEW r \in Requests, Pending(r)' PROVE Pending(r) /\ r # h
    OBVIOUS
  <2>1. answer[h] # Unanswered
    <3>1. PICK i \in Nat : Cmd(sent, p, i, h)
      BY <1>1 DEF Executed
    <3> QED BY <1>u, <3>1 DEF OnceInv
  <2>2. CASE answer'[r] = Unanswered
    BY <1>u, <2>1, <2>2 DEF Pending
  <2>3. ASSUME NEW q \in Pods, NEW i \in Nat, Cmd(sent', q, i, r) PROVE Pending(r) /\ r # h
    <3>1. r # h /\ \E j \in Nat : Cmd(sent, q, j, r)
      BY <1>1, <2>3 DEF Executed
    <3> QED BY <3>1 DEF Pending
  <2> QED BY <2>2, <2>3 DEF Pending
<1>10. Untouched'
  BY <1>4, <1>9 DEF NumberInv, Untouched
<1>11. Unique'
  <2>1. ASSUME NEW q \in Requests, route[q] = "visit", q # h, route[h] = "visit",
               issued'[q] = issued'[h], issued'[q][2] # 0
        PROVE  FALSE
    <3>1. issued'[h] # issued[h]
      BY <1>3, <2>1
    <3>2. issued'[h] = <<setbacks, visits'>> /\ issued' # issued
      BY <1>5, <3>1
    <3>3. visits' = visits + 1
      BY <2>1, <3>2 DEF Replied
    <3>4. issued[q] = <<setbacks, visits + 1>>
      BY <1>4, <2>1, <3>2, <3>3
    <3>5. issued[q][1] = setbacks /\ issued[q][2] = visits + 1
      BY <3>4
    <3>6. issued[q][1] = setbacks => issued[q][2] <= visits
      BY DEF NumberInv, Bounded
    <3> QED BY <1>t, <3>5, <3>6
  <2> SUFFICES ASSUME NEW q \in Requests, NEW r \in Requests, route[q] = "visit", route[r] = "visit",
                      issued'[q] = issued'[r], issued'[q][2] # 0
               PROVE  q = r
    BY <1>u DEF Unique
  <2>2. CASE q # h /\ r # h
    BY <1>4, <2>2 DEF NumberInv, Unique
  <2> QED BY <2>1, <2>2
<1>12. UnderWay'
  <2> SUFFICES ASSUME NEW q \in Pods, NEW r \in Requests, NEW i \in Nat, NEW v,
                      Carries(wire', q, i, r, v)
               PROVE  Numbered(v, r)'
    BY DEF UnderWay
  <2>1. At(wire', q, i, r) /\ wire'[q][i].value = v
    BY DEF Carries
  <2>2. \/ At(wire, q, i, r) /\ wire'[q][i] = wire[q][i] /\ r # h
        \/ r = h /\ wire'[q][i] = x
    BY <1>1, <2>1 DEF Executed
  <2>3. CASE At(wire, q, i, r) /\ wire'[q][i] = wire[q][i] /\ r # h
    <3>1. Numbered(v, r)
      BY <2>1, <2>3 DEF Carries, NumberInv, UnderWay
    <3> QED BY <1>6, <2>3, <3>1
  <2>4. CASE r = h /\ wire'[q][i] = x
    <3>1. v = x.value
      BY <2>1, <2>4
    <3>2. ASSUME route[h] = "visit", v # NoNumber PROVE v = issued'[h][2] /\ v # 0
      <4>1. /\ visits' = visits + Abstract!One(h) /\ x.value = visits'
            /\ issued' = [issued EXCEPT ![h] = <<setbacks, visits'>>]
        BY <3>1, <3>2 DEF Replied
      <4>2. Abstract!One(h) = 1
        BY <3>2 DEF Abstract!One
      <4>3. issued'[h] = <<setbacks, visits'>>
        BY <1>t, <1>u, <4>1
      <4>4. issued'[h][2] = visits'
        BY <4>3
      <4> QED BY <1>t, <3>1, <4>1, <4>2, <4>4
    <3> QED BY <1>u, <2>4, <3>2 DEF Numbered
  <2> QED BY <2>2, <2>3, <2>4
<1>13. InAnswers'
  <2> SUFFICES ASSUME NEW r \in Requests, NEW o \in Requests, NEW v,
                      answer[r].from = "redis", answer[r].of = o, answer[r].value = v
               PROVE  Numbered(v, o)'
    BY <1>u DEF InAnswers
  <2>1. Numbered(v, o)
    BY DEF NumberInv, InAnswers
  <2> QED BY <1>6, <1>7, <2>1
<1> QED BY <1>8, <1>10, <1>11, <1>12, <1>13 DEF NumberInv

\* A step that issues nothing and refuses nothing moves what there is.
LEMMA OtherSteps ==
    ASSUME TypeInv, OnceInv, [Next]_vars, \A p \in Pods : ~ Execute(p) /\ ~ Refuse(p)
    PROVE  Moved
<1> USE DEF podVars, redisVars
<1>t. /\ sent \in [Pods -> Seq(Requests)] /\ wire \in [Pods -> Seq(Reply)]
      /\ answer \in [Requests -> Answer]
  BY DEF TypeInv, TypeOK
<1>a. \A r \in Requests : answer[r] # Unanswered => answer'[r] # Unanswered /\ pod'[r] = pod[r]
  BY AnsweredStays
<1> DEFINE Sent == \A r \in Requests : Pending(r)' => Pending(r)
           Wire == \A p \in Pods, r \in Requests : \A i \in Nat : At(wire', p, i, r) =>
                      \E j \in Nat : /\ At(wire, p, j, r)
                                     /\ wire'[p][i].value \in {NoNumber, wire[p][j].value}
           Same == issued' = issued /\ route' = route
           Counter == UNCHANGED <<visits, setbacks>> \/ setbacks' = setbacks + 1
           Answers == \A r \in Requests : answer'[r].from = "redis" =>
                         \/ answer'[r] = answer[r]
                         \/ \E p \in Pods : \E j \in Nat :
                               /\ At(wire, p, j, answer'[r].of)
                               /\ answer'[r].value \in {NoNumber, wire[p][j].value}
<1>s. ASSUME \A r \in Requests : \A q \in Pods : \A i \in Nat :
                Cmd(sent', q, i, r) => Pending(r)
      PROVE  Sent
  <2> SUFFICES ASSUME NEW r \in Requests, Pending(r)' PROVE Pending(r)
    OBVIOUS
  <2>1. CASE answer'[r] = Unanswered
    BY <1>a, <2>1 DEF Pending
  <2>2. ASSUME NEW q \in Pods, NEW i \in Nat, Cmd(sent', q, i, r) PROVE Pending(r)
    BY <1>s, <2>2
  <2> QED BY <2>1, <2>2 DEF Pending
<1>k. ASSUME \A r \in Requests : \A q \in Pods : \A i \in Nat :
                Cmd(sent', q, i, r) => Cmd(sent, q, i, r)
      PROVE  Sent
  BY <1>s, <1>k DEF Pending
<1>w. ASSUME \A q \in Pods, r \in Requests : \A i \in Nat :
                At(wire', q, i, r) => At(wire, q, i, r) /\ wire'[q][i] = wire[q][i]
      PROVE  Wire
  BY <1>w
<1>u. UNCHANGED wire => Wire
  <2>1. ASSUME UNCHANGED wire PROVE Wire
    BY <1>w, <2>1
  <2> QED BY <2>1
<1>v. UNCHANGED sent => Sent
  <2>1. ASSUME UNCHANGED sent PROVE Sent
    BY <1>k, <2>1
  <2> QED BY <2>1
<1>1. Answers
  <2> SUFFICES ASSUME NEW r \in Requests, answer'[r].from = "redis", answer'[r] # answer[r]
               PROVE  \E p \in Pods : \E j \in Nat :
                         /\ At(wire, p, j, answer'[r].of)
                         /\ answer'[r].value \in {NoNumber, wire[p][j].value}
    OBVIOUS
  <2>1. PICK p \in Pods : Receive(p) \/ ReceiveHeaderOnly(p)
    BY OtherAnswers
  <2>2. /\ wire[p] # <<>> /\ answer'[r].of = Head(wire[p]).of
        /\ answer'[r].value \in {NoNumber, Head(wire[p]).value}
    BY <2>1, HearingFacts DEF Heard
  <2>3. At(wire, p, 1, answer'[r].of) /\ wire[p][1] = Head(wire[p])
    BY <2>2, FirstReply
  <2>4. 1 \in Nat
    OBVIOUS
  <2> QED BY <2>2, <2>3, <2>4
<1>2. Same /\ Counter
  BY DEF Next, Start, Arrive, Receive, ReceiveHeaderOnly, Break, Error, Exit, Timeout,
         RedisStops, RedisStarts, Reset, SetBack, vars
<1>3. ASSUME NEW r \in Requests, NEW p \in Pods, Arrive(r, p) PROVE Sent /\ Wire
  <2>1. UNCHANGED wire /\ answer[r] = Unanswered
    BY <1>3 DEF Arrive
  <2>2. CASE UNCHANGED sent
    BY <1>u, <1>v, <2>1, <2>2
  <2>3. CASE sent' = [sent EXCEPT ![p] = Append(@, r)]
    <3>1. PICK k \in Nat : k = Len(sent[p])
      BY <1>t
    <3>2. /\ Len(sent'[p]) = k + 1 /\ sent'[p][k + 1] = r
          /\ \A i \in 1..k : sent'[p][i] = sent[p][i]
          /\ \A q \in Pods : q # p => sent'[q] = sent[q]
      BY <1>t, <2>3, <3>1
    <3>3. ASSUME NEW q \in Pods, NEW s \in Requests, NEW i \in Nat, Cmd(sent', q, i, s)
          PROVE  Pending(s)
      <4>1. CASE q # p
        BY <3>2, <3>3, <4>1 DEF Cmd, Pending
      <4>2. CASE q = p
        <5>1. i \in 1..(k + 1) /\ sent'[p][i] = s
          BY <3>2, <3>3, <4>2 DEF Cmd
        <5>2. i = k + 1 \/ i \in 1..k
          BY <5>1
        <5>3. s = r \/ Cmd(sent, p, i, s)
          BY <3>1, <3>2, <5>1, <5>2 DEF Cmd
        <5> QED BY <2>1, <5>3 DEF Pending
      <4> QED BY <4>1, <4>2
    <3> QED BY <1>s, <1>u, <2>1, <3>3
  <2>4. UNCHANGED sent \/ sent' = [sent EXCEPT ![p] = Append(@, r)]
    <3>1. \/ UNCHANGED sent
          \/ sent' = [sent EXCEPT ![p] = IF link[p] THEN Append(@, r) ELSE @]
      BY <1>3 DEF Arrive
    <3> QED BY <1>t, <3>1
  <2> QED BY <2>2, <2>3, <2>4
<1>4. ASSUME NEW p \in Pods, Receive(p) PROVE Sent /\ Wire
  <2>1. PICK h : h = Head(wire[p]).of
    OBVIOUS
  <2>2. /\ wire[p] # <<>> /\ wire' = [wire EXCEPT ![p] = Tail(@)] /\ UNCHANGED <<sent, pod>>
    BY <1>4 DEF Receive, Consume
  <2>3. Received(h)
    BY <1>a, <2>1, <2>2, OnceReceive
  <2>4. ASSUME NEW q \in Pods, NEW r \in Requests, NEW i \in Nat, At(wire', q, i, r)
        PROVE  \E j \in Nat : /\ At(wire, q, j, r)
                              /\ wire'[q][i].value \in {NoNumber, wire[q][j].value}
    <3>1. PICK j \in Nat : At(wire, q, j, r) /\ wire'[q][i] = wire[q][j]
      BY ONLY <2>3, <2>4, q \in Pods, r \in Requests, i \in Nat DEF Received
    <3>2. wire'[q][i].value = wire[q][j].value
      BY <3>1
    <3> QED BY <3>1, <3>2
  <2> QED BY <1>v, <2>2, <2>4
<1>5. ASSUME NEW p \in Pods, ReceiveHeaderOnly(p) PROVE Sent /\ Wire
  <2>1. PICK v, w, x : HeaderRead(p, v, w, x)
    BY <1>5, HeaderFacts DEF TypeInv
  <2>2. ASSUME NEW q \in Pods, NEW r \in Requests, NEW i \in Nat, At(wire', q, i, r)
        PROVE  /\ At(wire, q, i, r)
               /\ wire'[q][i].value \in {NoNumber, wire[q][i].value}
    <3>1. At(wire, q, i, r) /\ (wire'[q][i] = wire[q][i] \/ (q = p /\ i = 1))
      BY <2>1, <2>2, HeaderWire
    <3>2. wire'[p][1] = x /\ wire[p][1] = Head(wire[p])
      BY <2>1, HeaderWire
    <3>3. x.value \in {NoNumber, Head(wire[p]).value}
      BY <2>1 DEF HeaderRead
    <3> QED BY <3>1, <3>2, <3>3
  <2>3. UNCHANGED sent
    BY <1>5 DEF ReceiveHeaderOnly
  <2> QED BY <1>v, <2>2, <2>3
<1>6. ASSUME NEW p \in Pods, Break(p) PROVE Sent /\ Wire
  <2>1. PICK n \in 0..Len(wire[p]) : wire' = [wire EXCEPT ![p] = SubSeq(@, 1, n)]
    BY <1>6 DEF Break
  <2>2. sent' = [sent EXCEPT ![p] = <<>>]
    BY <1>6 DEF Break
  <2>3. \A q \in Pods, r \in Requests : \A i \in Nat :
           /\ Cmd(sent', q, i, r) => Cmd(sent, q, i, r)
           /\ At(wire', q, i, r) => At(wire, q, i, r) /\ wire'[q][i] = wire[q][i]
    BY <1>t, <2>1, <2>2, CutFacts
  <2> QED BY <1>k, <1>w, <2>3
<1>7. ASSUME NEW p \in Pods, Error(p) PROVE Sent /\ Wire
  <2>1. wire' = [wire EXCEPT ![p] = <<>>] /\ UNCHANGED sent
    BY <1>7 DEF Error
  <2>2. \A q \in Pods, r \in Requests : \A i \in Nat :
           At(wire', q, i, r) => At(wire, q, i, r) /\ wire'[q][i] = wire[q][i]
    BY <1>t, <2>1 DEF At
  <2> QED BY <1>v, <1>w, <2>1, <2>2
<1>8. ASSUME RedisStops PROVE Sent /\ Wire
  <2>1. sent' = [p \in Pods |-> <<>>] /\ UNCHANGED wire
    BY <1>8 DEF RedisStops
  <2>2. \A q \in Pods, r \in Requests : \A i \in Nat : ~ Cmd(sent', q, i, r)
    BY <2>1 DEF Cmd
  <2>3. Sent
    <3>1. \A r \in Requests : \A q \in Pods : \A i \in Nat :
             Cmd(sent', q, i, r) => Cmd(sent, q, i, r)
      BY <2>2
    <3> QED BY <1>k, <3>1
  <2>4. Wire
    BY <1>u, <2>1
  <2> QED BY <2>3, <2>4
<1>9. ASSUME UNCHANGED <<sent, wire>> PROVE Sent /\ Wire
  <2>1. Sent
    BY <1>9, <1>v
  <2>2. Wire
    BY <1>9, <1>u
  <2> QED BY <2>1, <2>2
<1>10. ASSUME NEW p \in Pods, Start(p) \/ Exit(p) PROVE Sent /\ Wire
  <2>1. UNCHANGED <<sent, wire>>
    BY <1>10 DEF Start, Exit
  <2> QED BY <1>9, <2>1
<1>11. ASSUME NEW r \in Requests, Timeout(r) PROVE Sent /\ Wire
  <2>1. UNCHANGED <<sent, wire>>
    BY <1>11 DEF Timeout
  <2> QED BY <1>9, <2>1
<1>12. ASSUME RedisStarts \/ Reset \/ UNCHANGED vars PROVE Sent /\ Wire
  <2>1. UNCHANGED <<sent, wire>>
    BY <1>12 DEF RedisStarts, Reset, vars
  <2> QED BY <1>9, <2>1
<1> HIDE DEF Sent, Wire, Same, Counter, Answers
<1>13. Sent /\ Wire
  BY <1>3, <1>4, <1>5, <1>6, <1>7, <1>8, <1>10, <1>11, <1>12 DEF Next
<1> USE DEF Sent, Wire, Same, Counter, Answers
<1> QED BY <1>1, <1>2, <1>13 DEF Moved

\* Every step keeps NumberInv.
LEMMA NumberStep ==
    ASSUME TypeInv, OnceInv, NumberInv, [Next]_vars
    PROVE  NumberInv'
<1>1. ASSUME NEW p \in Pods, Execute(p) \/ Refuse(p) PROVE NumberInv'
  <2>1. PICK h, x : Replied(p, h, x)
    BY <1>1, ReplyFacts DEF TypeInv
  <2> QED BY <2>1, ReplyNumbers
<1>2. CASE \A p \in Pods : ~ Execute(p) /\ ~ Refuse(p)
  BY <1>2, OtherSteps, MovedNumbers
<1> QED BY <1>1, <1>2

\* No two visitors are shown the same number by Redis, over all pods, timeouts and
\* broken connections, but for a counter that was set back between them and for
\* pods that have lost the position of their replies (server.js, incrCounter).
THEOREM NumbersAreDistinct == Spec => []DistinctNumbers
<1>1. Init => NumberInv
  <2> SUFFICES ASSUME Init PROVE NumberInv
    OBVIOUS
  <2>1. /\ \A r \in Requests : issued[r] = <<0, 0>> /\ answer[r].from # "redis"
        /\ \A p \in Pods : wire[p] = <<>>
        /\ setbacks = 0 /\ visits = 0
    BY AnswerType DEF Init
  <2>2. \A r \in Requests : issued[r][1] = 0 /\ issued[r][2] = 0
    BY <2>1
  <2>3. \A p \in Pods, r \in Requests : \A i \in Nat : ~ At(wire, p, i, r)
    BY <2>1 DEF At
  <2> QED BY <2>1, <2>2, <2>3
          DEF NumberInv, Bounded, Untouched, Unique, UnderWay, InAnswers, Carries
<1>2. PlaceInv /\ NumberInv /\ [Next]_vars => NumberInv'
  BY NumberStep DEF PlaceInv
<1>3. PlaceInv /\ NumberInv => DistinctNumbers
  <2> SUFFICES ASSUME PlaceInv, NumberInv, NEW q \in Requests, NEW r \in Requests,
                      ShownNumber(q), ShownNumber(r), answer[q].value = answer[r].value,
                      issued[q][1] = issued[r][1]
               PROVE  q = r
    BY DEF DistinctNumbers
  <2>1. ASSUME NEW s \in Requests, ShownNumber(s)
        PROVE  route[s] = "visit" /\ answer[s].value = issued[s][2] /\ issued[s][2] # 0
    <3>1. answer[s].of = s
      BY <2>1 DEF ShownNumber, PlaceInv, RepliesInv, RepliesMatchCommands
    <3>2. Numbered(answer[s].value, s)
      BY <2>1, <3>1 DEF ShownNumber, NumberInv, InAnswers
    <3> QED BY <2>1, <3>2 DEF ShownNumber, Numbered
  <2>2. issued[q] \in Nat \X Nat /\ issued[r] \in Nat \X Nat
    BY DEF PlaceInv, TypeInv, TypeOK
  <2>3. issued[q][2] = issued[r][2] /\ issued[q][2] # 0 /\ route[q] = "visit" /\ route[r] = "visit"
    BY <2>1
  <2>4. issued[q] = issued[r]
    BY <2>2, <2>3
  <2> QED BY <2>3, <2>4 DEF NumberInv, Unique
<1> QED BY <1>1, <1>2, <1>3, PlaceInit, PlaceStep, PTL DEF Spec

-----------------------------------------------------------------------------
(* The refinement mapping *)

CommandsOf(s) == UNION {{s[p][i] : i \in DOMAIN s[p]} : p \in Pods}
DrawnOf(w, r) == UNION {{w[p][i].value : i \in {j \in DOMAIN w[p] : w[p][j].of = r}} : p \in Pods}

Commanded == CommandsOf(sent)
Drawn == [r \in Requests |-> DrawnOf(wire, r)]
Shown == [r \in Requests |-> <<answer[r].from, answer[r].value>>]

\* Whose commands are under way.
LEMMA CommandsFacts ==
    ASSUME NEW s \in [Pods -> Seq(Requests)]
    PROVE  /\ CommandsOf(s) \subseteq Requests
           /\ \A r : r \in CommandsOf(s) <=> \E p \in Pods : \E i \in Nat : Cmd(s, p, i, r)
<1>1. \A p \in Pods : s[p] \in Seq(Requests) /\ DOMAIN s[p] = 1..Len(s[p]) /\ Len(s[p]) \in Nat
  OBVIOUS
<1>2. \A p \in Pods : \A i \in DOMAIN s[p] : i \in Nat /\ s[p][i] \in Requests
  BY <1>1
<1>3. \A r : r \in CommandsOf(s) <=> \E p \in Pods : \E i \in DOMAIN s[p] : s[p][i] = r
  BY DEF CommandsOf
<1>4. \A r : \A p \in Pods : (\E i \in DOMAIN s[p] : s[p][i] = r) <=> \E i \in Nat : Cmd(s, p, i, r)
  BY <1>1, <1>2 DEF Cmd
<1> QED BY <1>2, <1>3, <1>4

\* The numbers on the way to a request.
LEMMA DrawnFacts ==
    ASSUME NEW w \in [Pods -> Seq(Reply)], NEW r
    PROVE  \A n : n \in DrawnOf(w, r) <=> \E p \in Pods : \E i \in Nat : Carries(w, p, i, r, n)
<1>1. \A p \in Pods : w[p] \in Seq(Reply) /\ DOMAIN w[p] = 1..Len(w[p]) /\ Len(w[p]) \in Nat
  OBVIOUS
<1>2. \A p \in Pods : \A i \in DOMAIN w[p] : i \in Nat
  BY <1>1
<1>3. \A n : n \in DrawnOf(w, r) <=>
         \E p \in Pods : \E i \in {j \in DOMAIN w[p] : w[p][j].of = r} : w[p][i].value = n
  BY DEF DrawnOf
<1>4. \A n : \A p \in Pods : (\E i \in {j \in DOMAIN w[p] : w[p][j].of = r} : w[p][i].value = n)
         <=> \E i \in Nat : Carries(w, p, i, r, n)
  BY <1>1, <1>2 DEF At, Carries
<1> QED BY <1>3, <1>4

(* The steps of CounterSpec in terms of the mapping. *)

\* Nothing that is mapped changes.
LEMMA MapStutter ==
    ASSUME UNCHANGED <<visits, memCounter, route, pod, cut>>, Commanded' = Commanded,
           Drawn' = Drawn, Shown' = Shown
    PROVE  UNCHANGED Abstract!vars
BY Zenon DEF Abstract!vars, Commanded, Drawn, Shown, CommandsOf, DrawnOf

\* Draw: a command leaves, a number is drawn.
LEMMA MapDraw ==
    ASSUME NEW r \in Requests, r \in Commanded, Commanded' = Commanded \ {r},
           visits' = visits + Abstract!One(r),
           Drawn' = [Drawn EXCEPT ![r] = {visits + Abstract!One(r)}],
           UNCHANGED <<memCounter, route, pod, cut>>, Shown' = Shown
    PROVE  Abstract!Draw(r)
BY Zenon DEF Abstract!Draw, Commanded, Drawn, Shown, CommandsOf, DrawnOf

\* Refuse: a command leaves, there is no number.
LEMMA MapRefuse ==
    ASSUME NEW r \in Requests, r \in Commanded, Commanded' = Commanded \ {r},
           Drawn' = [Drawn EXCEPT ![r] = {NoNumber}],
           UNCHANGED <<visits, memCounter, route, pod, cut>>, Shown' = Shown
    PROVE  Abstract!Refuse(r)
BY Zenon DEF Abstract!Refuse, Commanded, Drawn, Shown, CommandsOf, DrawnOf, NoNumber,
             Abstract!NoNumber

\* Show: the number drawn for a waiting request is shown.
LEMMA MapShow ==
    ASSUME NEW r \in Requests, Shown[r] = Abstract!Waiting,
           NEW n \in Drawn[r], Shown' = [Shown EXCEPT ![r] = <<"redis", n>>],
           Drawn' = [Drawn EXCEPT ![r] = {}], Commanded' = Commanded,
           UNCHANGED <<visits, memCounter, route, pod, cut>>
    PROVE  Abstract!Show(r)
BY Zenon DEF Abstract!Show, Commanded, Drawn, Shown, CommandsOf, DrawnOf

\* Misread: a waiting request is shown the number of another one of its pod.
LEMMA MapMisread ==
    ASSUME NEW r \in Requests, NEW q \in Requests, Shown[r] = Abstract!Waiting,
           cut[pod[r]], pod[q] = pod[r],
           NEW n \in Drawn[q], Shown' = [Shown EXCEPT ![r] = <<"redis", n>>],
           Drawn' = [Drawn EXCEPT ![q] = {}], Commanded' = Commanded,
           UNCHANGED <<visits, memCounter, route, pod, cut>>
    PROVE  Abstract!Misread(r, q)
BY Zenon DEF Abstract!Misread, Commanded, Drawn, Shown, CommandsOf, DrawnOf

\* Cut: a number is cut in two, and a waiting request may be shown a part.
LEMMA MapCut ==
    ASSUME NEW p \in Pods, NEW q \in Requests, pod[q] = p, NEW m \in Drawn[q],
           cut' = [cut EXCEPT ![p] = TRUE],
           Drawn' \in {Drawn, [Drawn EXCEPT ![q] = {NoNumber}]},
           \/ Shown' = Shown
           \/ \E r \in Requests : \E n \in {m, NoNumber} :
                 /\ Shown[r] = Abstract!Waiting /\ pod[r] = p
                 /\ Shown' = [Shown EXCEPT ![r] = <<"redis", n>>],
           Commanded' = Commanded, UNCHANGED <<visits, memCounter, route, pod>>
    PROVE  Abstract!Cut(p, q)
<1>1. \/ Shown' = Shown
      \/ \E r \in Requests, n \in Drawn[q] \cup {Abstract!NoNumber} :
            /\ Shown[r] = Abstract!Waiting /\ pod[r] = p
            /\ Shown' = [Shown EXCEPT ![r] = <<"redis", n>>]
  BY Zenon DEF NoNumber, Abstract!NoNumber
<1>2. Drawn' \in {Drawn, [Drawn EXCEPT ![q] = {Abstract!NoNumber}]} /\ Drawn[q] # {}
  BY Zenon DEF NoNumber, Abstract!NoNumber
<1> QED BY <1>1, <1>2, Zenon DEF Abstract!Cut, Commanded, Drawn, Shown, CommandsOf, DrawnOf

\* SetBack: the counter is set back.
LEMMA MapSetBack ==
    ASSUME visits' \in 0..visits, UNCHANGED <<memCounter, route, pod, cut>>,
           Commanded' = Commanded, Drawn' = Drawn, Shown' = Shown
    PROVE  Abstract!SetBack
BY Zenon DEF Abstract!SetBack, Commanded, Drawn, Shown, CommandsOf, DrawnOf

\* GiveUp: a waiting request takes its pod's own number.
LEMMA MapGiveUp ==
    ASSUME NEW r \in Requests, Shown[r] = Abstract!Waiting,
           memCounter' = [memCounter EXCEPT ![pod[r]] = @ + Abstract!One(r)],
           Shown' = [Shown EXCEPT ![r] = <<"memory", memCounter[pod[r]] + Abstract!One(r)>>],
           Drawn' = Drawn, Commanded' = Commanded, UNCHANGED <<visits, route, pod, cut>>
    PROVE  Abstract!GiveUp(r)
BY Zenon DEF Abstract!GiveUp, Commanded, Drawn, Shown, CommandsOf, DrawnOf

\* Forget: commands and numbers disappear.
LEMMA MapForget ==
    ASSUME Commanded' \in SUBSET Commanded,
           \A r \in Requests : Drawn'[r] \in {Drawn[r], {}},
           UNCHANGED <<visits, memCounter, route, pod, cut>>, Shown' = Shown
    PROVE  Abstract!Forget
<1>1. DOMAIN Drawn' = Requests
  BY DEF Drawn
<1> QED BY <1>1, Zenon DEF Abstract!Forget, Commanded, Drawn, Shown, CommandsOf, DrawnOf

\* Lose: the waiting requests of a pod are lost.
LEMMA MapLose ==
    ASSUME NEW p \in Pods,
           Shown' = [r \in Requests |-> IF Shown[r] = Abstract!Waiting /\ pod[r] = p
                                          THEN <<"lost", 0>> ELSE Shown[r]],
           Drawn' = Drawn, Commanded' = Commanded, UNCHANGED <<visits, memCounter, route, pod, cut>>
    PROVE  Abstract!Lose(p)
BY Zenon DEF Abstract!Lose, Commanded, Drawn, Shown, CommandsOf, DrawnOf

\* Ask: a request waits for Redis or takes its pod's own number.
LEMMA MapAsk ==
    ASSUME NEW r \in Requests, NEW p \in Pods, Shown[r] = Abstract!Unanswered,
           pod' = [pod EXCEPT ![r] = p], Drawn' = Drawn, UNCHANGED <<visits, route, cut>>,
           \/ /\ Shown' = [Shown EXCEPT ![r] = Abstract!Waiting]
              /\ Commanded' \in {Commanded, Commanded \cup {r}}
              /\ UNCHANGED memCounter
           \/ /\ memCounter' = [memCounter EXCEPT ![p] = @ + Abstract!One(r)]
              /\ Shown' = [Shown EXCEPT ![r] = <<"memory", memCounter[p] + Abstract!One(r)>>]
              /\ Commanded' = Commanded
    PROVE  Abstract!Ask(r, p)
BY Zenon DEF Abstract!Ask, Commanded, Drawn, Shown, CommandsOf, DrawnOf

\* What is unchanged below is unchanged above.
LEMMA MapFrame ==
    /\ sent' = sent => Commanded' = Commanded
    /\ wire' = wire => Drawn' = Drawn
    /\ answer' = answer => Shown' = Shown
BY DEF Commanded, Drawn, Shown

\* Waiting and unanswered mean the same above and below.
LEMMA ShownFacts ==
    ASSUME TypeInv, ShapeInv, NEW r \in Requests
    PROVE  /\ Shown[r] = Abstract!Waiting <=> answer[r] = Waiting
           /\ answer[r] = Unanswered => Shown[r] = Abstract!Unanswered
           /\ Shown[r] = <<answer[r].from, answer[r].value>>
<1>1. Shown[r] = <<answer[r].from, answer[r].value>>
  BY DEF Shown
<1>2. answer[r] = Waiting => answer[r].from = "waiting" /\ answer[r].value = 0
  BY DEF Waiting
<1>3. answer[r] = Unanswered => answer[r].from = "none" /\ answer[r].value = 0
  BY DEF Unanswered
<1>4. answer[r].from = "waiting" => answer[r] = Waiting
  BY DEF ShapeInv
<1> QED BY <1>1, <1>2, <1>3, <1>4 DEF Abstract!Waiting, Abstract!Unanswered

\* One request is answered.
LEMMA ShownUpdate ==
    ASSUME TypeInv, NEW r \in Requests, NEW f, NEW v, NEW o,
           answer' = [answer EXCEPT ![r] = [from |-> f, value |-> v, of |-> o]]
    PROVE  Shown' = [Shown EXCEPT ![r] = <<f, v>>]
<1>1. answer \in [Requests -> Answer]
  BY DEF TypeInv, TypeOK
<1>2. \A s \in Requests : s # r => answer'[s] = answer[s]
  BY <1>1
<1>3. answer'[r] = [from |-> f, value |-> v, of |-> o]
  BY <1>1
<1>4. answer'[r].from = f /\ answer'[r].value = v
  BY <1>3
<1>5. \A s \in Requests : Shown'[s] = IF s = r THEN <<f, v>> ELSE Shown[s]
  BY ONLY <1>2, <1>4, r \in Requests DEF Shown
<1>6. DOMAIN Shown' = Requests /\ DOMAIN Shown = Requests /\ Shown' = [s \in Requests |-> Shown'[s]]
  BY DEF Shown
<1> QED BY ONLY <1>5, <1>6, r \in Requests

\* The spare counter.
LEMMA FallbackMaps ==
    ASSUME TypeInv, NEW r \in Requests, NEW p \in Pods, Fallback(r, p)
    PROVE  /\ memCounter' = [memCounter EXCEPT ![p] = @ + Abstract!One(r)]
           /\ Shown' = [Shown EXCEPT ![r] = <<"memory", memCounter[p] + Abstract!One(r)>>]
<1>1. memCounter[p] \in Nat
  BY DEF TypeInv, TypeOK
<1>2. PICK n : n = IF route[r] = "visit" THEN memCounter[p] + 1 ELSE memCounter[p]
  OBVIOUS
<1>3. n = memCounter[p] + Abstract!One(r)
  BY <1>1, <1>2 DEF Abstract!One
<1>4. /\ memCounter' = [memCounter EXCEPT ![p] = n]
      /\ answer' = [answer EXCEPT ![r] = [from |-> "memory", value |-> n, of |-> r]]
  BY <1>2 DEF Fallback
<1>5. Shown' = [Shown EXCEPT ![r] = <<"memory", n>>]
  BY <1>4, ShownUpdate
<1> QED BY <1>3, <1>4, <1>5

\* A request arrives: Ask.
LEMMA ArriveMaps ==
    ASSUME TypeInv, ShapeInv, TypeInv', NEW r \in Requests, NEW p \in Pods, Arrive(r, p)
    PROVE  Abstract!Ask(r, p)
<1>t. sent \in [Pods -> Seq(Requests)] /\ sent' \in [Pods -> Seq(Requests)]
  BY DEF TypeInv, TypeOK
<1>1. /\ answer[r] = Unanswered /\ pod' = [pod EXCEPT ![r] = p]
      /\ UNCHANGED <<wire, visits, route, cut>>
  BY DEF Arrive, redisVars
<1>2. Shown[r] = Abstract!Unanswered /\ Drawn' = Drawn
  BY <1>1, ShownFacts, MapFrame
<1>3. CASE redisReady[p] /\ connected[p]
  <2>1. /\ UNCHANGED memCounter /\ answer' = [answer EXCEPT ![r] = Waiting]
        /\ sent' = [sent EXCEPT ![p] = IF link[p] THEN Append(@, r) ELSE @]
    BY <1>3 DEF Arrive
  <2>2. Shown' = [Shown EXCEPT ![r] = Abstract!Waiting]
    BY <2>1, ShownUpdate DEF Waiting, Abstract!Waiting
  <2>3. Commanded' \in {Commanded, Commanded \cup {r}}
    <3>1. CASE ~ link[p]
      <4>1. sent' = sent
        BY <1>t, <2>1, <3>1
      <4> QED BY <4>1, MapFrame
    <3>2. CASE link[p]
      <4>1. PICK k \in Nat : k = Len(sent[p])
        BY <1>t
      <4>2. /\ sent[p] \in Seq(Requests) /\ sent' = [sent EXCEPT ![p] = Append(sent[p], r)]
        BY <1>t, <2>1, <3>2
      <4>3. /\ Len(sent'[p]) = k + 1 /\ sent'[p][k + 1] = r
            /\ \A i \in 1..k : sent'[p][i] = sent[p][i]
            /\ \A q \in Pods : q # p => sent'[q] = sent[q]
        BY <1>t, <4>1, <4>2
      <4>4. ASSUME NEW q \in Pods, NEW s, NEW i \in Nat, Cmd(sent', q, i, s)
            PROVE  Cmd(sent, q, i, s) \/ s = r
        <5>1. CASE q # p
          BY <4>3, <4>4, <5>1 DEF Cmd
        <5>2. CASE q = p
          <6>1. i \in 1..(k + 1) /\ sent'[p][i] = s
            BY <4>3, <4>4, <5>2 DEF Cmd
          <6>2. i = k + 1 \/ i \in 1..k
            BY <6>1
          <6> QED BY <4>1, <4>3, <5>2, <6>1, <6>2 DEF Cmd
        <5> QED BY <5>1, <5>2
      <4>5. ASSUME NEW q \in Pods, NEW s, NEW i \in Nat, Cmd(sent, q, i, s)
            PROVE  Cmd(sent', q, i, s)
        <5>1. CASE q # p
          BY <4>3, <4>5, <5>1 DEF Cmd
        <5>2. CASE q = p
          <6>1. i \in 1..k /\ sent[p][i] = s
            BY <4>1, <4>5, <5>2 DEF Cmd
          <6>2. i \in 1..(k + 1)
            BY <6>1
          <6> QED BY <4>3, <5>2, <6>1, <6>2 DEF Cmd
        <5> QED BY <5>1, <5>2
      <4>6. k + 1 \in Nat /\ Cmd(sent', p, k + 1, r)
        <5>1. k + 1 \in 1..(k + 1)
          OBVIOUS
        <5> QED BY <4>3, <5>1 DEF Cmd
      <4>7. \A s : s \in Commanded <=> \E q \in Pods : \E i \in Nat : Cmd(sent, q, i, s)
        BY <1>t, CommandsFacts DEF Commanded
      <4>8. \A s : s \in Commanded' <=> \E q \in Pods : \E i \in Nat : Cmd(sent', q, i, s)
        BY <1>t, CommandsFacts DEF Commanded
      <4>9. ASSUME NEW s PROVE s \in Commanded' <=> s \in Commanded \/ s = r
        BY ONLY <4>4, <4>5, <4>6, <4>7, <4>8
      <4>10. Commanded' = Commanded \cup {r}
        BY ONLY <4>9
      <4> QED BY <4>10
    <3> QED BY <3>1, <3>2
  <2> QED BY <1>1, <1>2, <2>1, <2>2, <2>3, MapAsk
<1>4. CASE ~ (redisReady[p] /\ connected[p])
  <2>1. Fallback(r, p) /\ UNCHANGED sent
    BY <1>4 DEF Arrive
  <2>2. Commanded' = Commanded
    BY <2>1, MapFrame
  <2> QED BY <1>1, <1>2, <2>1, <2>2, FallbackMaps, MapAsk
<1> QED BY <1>3, <1>4

\* Redis replies to a command: Draw or Refuse.
LEMMA ReplyMaps ==
    ASSUME TypeInv, OnceInv, TypeInv', NEW p \in Pods, NEW h, NEW x, Replied(p, h, x)
    PROVE  \E r \in Requests : Abstract!Draw(r) \/ Abstract!Refuse(r)
<1>t. /\ sent \in [Pods -> Seq(Requests)] /\ sent' \in [Pods -> Seq(Requests)]
      /\ wire \in [Pods -> Seq(Reply)] /\ wire' \in [Pods -> Seq(Reply)]
  BY DEF TypeInv, TypeOK
<1>1. PICK n : n = x.value
  OBVIOUS
<1>2. x.of = h /\ x.value = n
  BY <1>1 DEF Replied
<1>4. /\ sent[p] # <<>> /\ sent' = [sent EXCEPT ![p] = Tail(@)]
      /\ UNCHANGED <<memCounter, route, pod, answer, cut>>
  BY DEF Replied, podVars
<1>5. h \in Requests /\ Executed(p, h, x)
  <2>1. x.of = h /\ h = Head(sent[p]) /\ sent[p] # <<>>
    BY DEF Replied
  <2>2. sent' = [sent EXCEPT ![p] = Tail(@)] /\ wire' = [wire EXCEPT ![p] = Append(@, x)]
    BY DEF Replied
  <2>3. UNCHANGED <<pod, answer>>
    BY <1>4
  <2> QED BY ONLY TypeInv, OnceInv, <2>1, <2>2, <2>3, OnceExecute
<1>6. Commanded' = Commanded \ {h} /\ h \in Commanded
  <2>1. /\ \A s : s \in Commanded <=> \E q \in Pods : \E i \in Nat : Cmd(sent, q, i, s)
        /\ Commanded \subseteq Requests
    BY <1>t, CommandsFacts DEF Commanded
  <2>2. /\ \A s : s \in Commanded' <=> \E q \in Pods : \E i \in Nat : Cmd(sent', q, i, s)
        /\ Commanded' \subseteq Requests
    BY <1>t, CommandsFacts DEF Commanded
  <2>3. ASSUME NEW s \in Requests PROVE s \in Commanded' <=> s \in Commanded /\ s # h
    BY ONLY <1>5, <2>1, <2>2 DEF Executed
  <2>4. h \in Commanded
    BY ONLY <1>5, <2>1, p \in Pods DEF Executed
  <2> QED BY ONLY <2>1, <2>2, <2>3, <2>4
<1>7. \A s \in Requests : Drawn'[s] = IF s = h THEN {n} ELSE Drawn[s]
  <2> SUFFICES ASSUME NEW s \in Requests PROVE Drawn'[s] = IF s = h THEN {n} ELSE Drawn[s]
    OBVIOUS
  <2>1. \A m : m \in Drawn[s] <=> \E q \in Pods : \E i \in Nat : Carries(wire, q, i, s, m)
    BY <1>t, DrawnFacts DEF Drawn
  <2>2. \A m : m \in Drawn'[s] <=> \E q \in Pods : \E i \in Nat : Carries(wire', q, i, s, m)
    BY <1>t, DrawnFacts DEF Drawn
  <2>3. CASE s = h
    <3>1. \A q \in Pods : \A i \in Nat : \A m : Carries(wire', q, i, s, m) => m = n
      BY ONLY <1>2, <1>5, <2>3, s \in Requests DEF Executed, Carries
    <3>2. \E i \in Nat : Carries(wire', p, i, s, n)
      BY ONLY <1>2, <1>5, <2>3 DEF Executed, Carries
    <3>3. \A m : m \in Drawn'[s] <=> m = n
      BY ONLY <2>2, <3>1, <3>2, p \in Pods
    <3> QED BY ONLY <2>3, <3>3
  <2>4. CASE s # h
    <3>1. \A q \in Pods : \A i \in Nat : \A m : Carries(wire', q, i, s, m) <=> Carries(wire, q, i, s, m)
      BY ONLY <1>5, <2>4, s \in Requests DEF Executed, Carries
    <3>2. \A m : m \in Drawn'[s] <=> m \in Drawn[s]
      BY ONLY <2>1, <2>2, <3>1
    <3> QED BY ONLY <2>4, <3>2
  <2> QED BY <2>3, <2>4
<1>8. Drawn' = [Drawn EXCEPT ![h] = {n}]
  <2>1. Drawn' = [s \in Requests |-> Drawn'[s]] /\ DOMAIN Drawn = Requests
    BY DEF Drawn
  <2> QED BY ONLY <1>5, <1>7, <2>1
<1>9. Shown' = Shown
  BY <1>4, MapFrame
<1>10. CASE visits' = visits /\ n = NoNumber
  <2>1. Abstract!Refuse(h)
    BY <1>4, <1>5, <1>6, <1>8, <1>9, <1>10, MapRefuse
  <2> QED BY <1>5, <2>1
<1>11. CASE visits' = visits + Abstract!One(h) /\ n = visits'
  <2>1. Drawn' = [Drawn EXCEPT ![h] = {visits + Abstract!One(h)}]
    BY <1>8, <1>11
  <2>2. Abstract!Draw(h)
    BY <1>4, <1>5, <1>6, <1>9, <1>11, <2>1, MapDraw
  <2> QED BY <1>5, <2>2
<1> QED BY <1>1, <1>10, <1>11 DEF Replied

\* At most one number is on the way to a request.
LEMMA DrawnOnce ==
    ASSUME TypeInv, OnceInv, NEW r \in Requests, NEW m \in Drawn[r], NEW n \in Drawn[r]
    PROVE  m = n
<1>1. wire \in [Pods -> Seq(Reply)]
  BY DEF TypeInv, TypeOK
<1>2. \A k : k \in Drawn[r] <=> \E q \in Pods : \E i \in Nat : Carries(wire, q, i, r, k)
  BY <1>1, DrawnFacts DEF Drawn
<1>3. PICK q \in Pods, i \in Nat : Carries(wire, q, i, r, m)
  BY <1>2
<1>4. PICK u \in Pods, j \in Nat : Carries(wire, u, j, r, n)
  BY <1>2
<1>5. At(wire, q, i, r) /\ At(wire, u, j, r) /\ wire[q][i].value = m /\ wire[u][j].value = n
  BY <1>3, <1>4 DEF Carries
<1>6. q = u /\ i = j
  BY ONLY <1>5, OnceInv, r \in Requests, q \in Pods, u \in Pods, i \in Nat, j \in Nat DEF OnceInv
<1> QED BY <1>5, <1>6

\* Commands and replies get lost: Forget.
LEMMA LossMaps ==
    ASSUME TypeInv, OnceInv, TypeInv',
           \A q \in Pods, s \in Requests : \A i \in Nat :
              /\ Cmd(sent', q, i, s) => Cmd(sent, q, i, s)
              /\ At(wire', q, i, s) => \E j \in Nat : At(wire, q, j, s) /\ wire'[q][i] = wire[q][j],
           UNCHANGED <<visits, memCounter, route, pod, answer, cut>>
    PROVE  Abstract!Forget
<1>t. /\ sent \in [Pods -> Seq(Requests)] /\ sent' \in [Pods -> Seq(Requests)]
      /\ wire \in [Pods -> Seq(Reply)] /\ wire' \in [Pods -> Seq(Reply)]
  BY DEF TypeInv, TypeOK
<1>1. Commanded' \in SUBSET Commanded
  <2>1. \A s : s \in Commanded <=> \E q \in Pods : \E i \in Nat : Cmd(sent, q, i, s)
    BY <1>t, CommandsFacts DEF Commanded
  <2>2. /\ \A s : s \in Commanded' <=> \E q \in Pods : \E i \in Nat : Cmd(sent', q, i, s)
        /\ Commanded' \subseteq Requests
    BY <1>t, CommandsFacts DEF Commanded
  <2>3. ASSUME NEW s \in Commanded' PROVE s \in Commanded
    BY <2>1, <2>2
  <2> QED BY <2>3
<1>2. ASSUME NEW s \in Requests PROVE Drawn'[s] \in {Drawn[s], {}}
  <2>1. \A m : m \in Drawn[s] <=> \E q \in Pods : \E i \in Nat : Carries(wire, q, i, s, m)
    BY <1>t, DrawnFacts DEF Drawn
  <2>2. \A m : m \in Drawn'[s] <=> \E q \in Pods : \E i \in Nat : Carries(wire', q, i, s, m)
    BY <1>t, DrawnFacts DEF Drawn
  <2>3. ASSUME NEW m \in Drawn'[s] PROVE m \in Drawn[s]
    <3>1. PICK q \in Pods, i \in Nat : Carries(wire', q, i, s, m)
      BY <2>2
    <3>2. At(wire', q, i, s) /\ wire'[q][i].value = m
      BY <3>1 DEF Carries
    <3>3. PICK j \in Nat : At(wire, q, j, s) /\ wire'[q][i] = wire[q][j]
      BY <3>2
    <3>4. Carries(wire, q, j, s, m)
      BY <3>2, <3>3 DEF Carries
    <3> QED BY <2>1, <3>4
  <2>4. \A m, n \in Drawn[s] : m = n
    BY DrawnOnce
  <2>5. CASE Drawn'[s] # {}
    <3>1. PICK k : k \in Drawn'[s]
      BY <2>5
    <3>2. \A m : m \in Drawn'[s] <=> m \in Drawn[s]
      BY ONLY <2>3, <2>4, <3>1
    <3>3. Drawn'[s] = Drawn[s]
      BY ONLY <3>2
    <3> QED BY <3>3
  <2> QED BY <2>5
<1>3. Shown' = Shown
  BY MapFrame
<1> QED BY <1>1, <1>2, <1>3, MapForget

\* The reply to h is no longer under way.
LEMMA DrawnReceived ==
    ASSUME TypeInv, TypeInv', NEW h \in Requests, Received(h)
    PROVE  Drawn' = [Drawn EXCEPT ![h] = {}]
<1>t. wire \in [Pods -> Seq(Reply)] /\ wire' \in [Pods -> Seq(Reply)]
  BY DEF TypeInv, TypeOK
<1>5. ASSUME NEW s \in Requests
      PROVE  /\ \A m : m \in Drawn[s] <=> \E q \in Pods : \E i \in Nat : Carries(wire, q, i, s, m)
             /\ \A m : m \in Drawn'[s] <=> \E q \in Pods : \E i \in Nat : Carries(wire', q, i, s, m)
  <2>1. \A m : m \in Drawn[s] <=> \E q \in Pods : \E i \in Nat : Carries(wire, q, i, s, m)
    BY <1>t, DrawnFacts DEF Drawn
  <2>2. \A m : m \in Drawn'[s] <=> \E q \in Pods : \E i \in Nat : Carries(wire', q, i, s, m)
    BY <1>t, DrawnFacts DEF Drawn
  <2> QED BY <2>1, <2>2
<1>7. \A s \in Requests : Drawn'[s] = IF s = h THEN {} ELSE Drawn[s]
  <2> SUFFICES ASSUME NEW s \in Requests PROVE Drawn'[s] = IF s = h THEN {} ELSE Drawn[s]
    OBVIOUS
  <2>1. CASE s = h
    <3>1. \A q \in Pods : \A i \in Nat : \A m : ~ Carries(wire', q, i, s, m)
      BY ONLY Received(h), <2>1, s \in Requests DEF Received, Carries
    <3>2. \A m : m \notin Drawn'[s]
      BY ONLY <1>5, <3>1, s \in Requests
    <3> QED BY ONLY <2>1, <3>2
  <2>2. CASE s # h
    <3>1. ASSUME NEW q \in Pods, NEW i \in Nat, NEW m, Carries(wire', q, i, s, m)
          PROVE  \E j \in Nat : Carries(wire, q, j, s, m)
      <4>1. At(wire', q, i, s) /\ wire'[q][i].value = m
        BY <3>1 DEF Carries
      <4>2. PICK j \in Nat : At(wire, q, j, s) /\ wire'[q][i] = wire[q][j]
        BY ONLY Received(h), <4>1, s \in Requests DEF Received
      <4> QED BY ONLY <4>1, <4>2, j \in Nat DEF Carries
    <3>2. ASSUME NEW q \in Pods, NEW i \in Nat, NEW m, Carries(wire, q, i, s, m)
          PROVE  \E j \in Nat : Carries(wire', q, j, s, m)
      <4>1. At(wire, q, i, s) /\ wire[q][i].value = m
        BY <3>2 DEF Carries
      <4>2. PICK j \in Nat : At(wire', q, j, s) /\ wire'[q][j] = wire[q][i]
        BY ONLY Received(h), <2>2, <4>1, s \in Requests DEF Received
      <4> QED BY ONLY <4>1, <4>2, j \in Nat DEF Carries
    <3>3. \A m : m \in Drawn'[s] <=> m \in Drawn[s]
      BY ONLY <1>5, <3>1, <3>2, s \in Requests
    <3> QED BY ONLY <2>2, <3>3
  <2> QED BY <2>1, <2>2
<1>8. Drawn' = [Drawn EXCEPT ![h] = {}]
  <2>1. Drawn' = [s \in Requests |-> Drawn'[s]] /\ DOMAIN Drawn = Requests
    BY DEF Drawn
  <2> QED BY ONLY h \in Requests, <1>7, <2>1
<1> QED BY <1>8

\* The number of the first reply is under way to its request.
LEMMA DrawnFirst ==
    ASSUME TypeInv, NEW p \in Pods, NEW h \in Requests, At(wire, p, 1, h),
           wire[p][1] = Head(wire[p])
    PROVE  Head(wire[p]).value \in Drawn[h]
<1>1. wire \in [Pods -> Seq(Reply)]
  BY DEF TypeInv, TypeOK
<1>2. \A m : m \in Drawn[h] <=> \E q \in Pods : \E i \in Nat : Carries(wire, q, i, h, m)
  BY <1>1, DrawnFacts DEF Drawn
<1>3. Carries(wire, p, 1, h, Head(wire[p]).value)
  BY DEF Carries
<1>4. 1 \in Nat
  OBVIOUS
<1> QED BY ONLY <1>2, <1>3, <1>4, p \in Pods

\* A reply is shown, to its own request or in a pod that has lost its position to
\* another one, or comes too late: Show, Misread or Forget.
LEMMA ReceiveMaps ==
    ASSUME PlaceInv, TypeInv', NEW p \in Pods, Receive(p)
    PROVE  Abstract!Next
<1>t. TypeInv /\ OnceInv /\ ShapeInv /\ QueueInv
  BY DEF PlaceInv
<1>1. PICK h, n : h = Head(wire[p]).of /\ n = Head(wire[p]).value
  OBVIOUS
<1>2. /\ wire[p] # <<>> /\ wire' = [wire EXCEPT ![p] = Tail(@)]
      /\ UNCHANGED <<sent, pod, memCounter, visits, route, cut>>
  BY DEF Receive, Consume, redisVars
<1>3. \A r \in Requests : answer[r] # Unanswered => answer'[r] # Unanswered
  <2>1. [Next]_vars
    BY DEF Next
  <2> QED BY <1>t, <2>1, AnsweredStays
<1>4. h \in Requests /\ Received(h)
  BY <1>t, <1>1, <1>2, <1>3, OnceReceive
<1>5. pod[h] = p /\ At(wire, p, 1, h) /\ wire[p][1] = Head(wire[p])
  BY <1>t, <1>1, <1>2, FirstReply
<1>6. Resolve(p, n, h) /\ Commanded' = Commanded
  BY <1>1, <1>2, MapFrame DEF Receive
<1>7. CASE queue[p] # <<>> /\ answer[Head(queue[p])] = Waiting
  <2>1. PICK w \in Requests : w = Head(queue[p]) /\ pod[w] = p
    BY <1>t, <1>7, FirstWaiter
  <2>2. answer' = [answer EXCEPT ![w] = [from |-> "redis", value |-> n, of |-> h]]
    BY <1>6, <1>7, <2>1 DEF Resolve
  <2>3. Shown' = [Shown EXCEPT ![w] = <<"redis", n>>]
    BY <1>t, <2>2, ShownUpdate
  <2>4. Shown[w] = Abstract!Waiting
    BY <1>t, <1>7, <2>1, ShownFacts
  <2>5. n \in Drawn[h] /\ Drawn' = [Drawn EXCEPT ![h] = {}]
    BY <1>t, <1>1, <1>4, <1>5, DrawnFirst, DrawnReceived
  <2>6. CASE cut[p]
    <3>1. Abstract!Misread(w, h)
      BY <1>2, <1>4, <1>5, <1>6, <2>1, <2>3, <2>4, <2>5, <2>6, MapMisread
    <3> QED BY <1>4, <2>1, <3>1 DEF Abstract!Next
  <2>7. CASE ~ cut[p]
    <3>1. w = h
      BY <1>t, <1>1, <2>1, <2>7, ReceiveHeads DEF PlaceInv, MatchInv
    <3>2. Abstract!Show(h)
      BY <1>2, <1>4, <1>6, <2>3, <2>4, <2>5, <3>1, MapShow
    <3> QED BY <1>4, <3>2 DEF Abstract!Next
  <2> QED BY <2>6, <2>7
<1>8. CASE ~ (queue[p] # <<>> /\ answer[Head(queue[p])] = Waiting)
  <2>1. answer' = answer
    BY <1>6, <1>8 DEF Resolve
  <2>2. \A q \in Pods, s \in Requests : \A i \in Nat :
           /\ Cmd(sent', q, i, s) => Cmd(sent, q, i, s)
           /\ At(wire', q, i, s) => \E j \in Nat : At(wire, q, j, s) /\ wire'[q][i] = wire[q][j]
    <3>1. sent' = sent
      BY <1>2
    <3> QED BY ONLY <1>4, <3>1 DEF Received
  <2>3. Abstract!Forget
    BY <1>t, <1>2, <2>1, <2>2, LossMaps
  <2> QED BY <2>3 DEF Abstract!Next
<1> QED BY <1>7, <1>8

\* A bulk reply is read before all of it has come: Cut.
LEMMA HeaderMaps ==
    ASSUME PlaceInv, TypeInv', NEW p \in Pods, ReceiveHeaderOnly(p)
    PROVE  \E q \in Requests : Abstract!Cut(p, q)
<1>t. TypeInv /\ OnceInv /\ ShapeInv /\ QueueInv
  BY DEF PlaceInv
<1>b. wire \in [Pods -> Seq(Reply)] /\ wire' \in [Pods -> Seq(Reply)]
  BY <1>t DEF TypeInv, TypeOK
<1>1. PICK v, w, x : HeaderRead(p, v, w, x)
  BY <1>t, HeaderFacts DEF TypeInv
<1>2. PICK h, n : h = Head(wire[p]).of /\ n = Head(wire[p]).value
  OBVIOUS
<1>3. /\ wire[p] # <<>> /\ v \in {NoNumber, n} /\ w \in {NoNumber, n} /\ x.value = w
      /\ Resolve(p, v, h) /\ cut' = [cut EXCEPT ![p] = TRUE]
  BY <1>1, <1>2 DEF HeaderRead
<1>4. UNCHANGED <<sent, pod, memCounter, visits, route>>
  BY DEF ReceiveHeaderOnly, redisVars
<1>5. h \in Requests /\ pod[h] = p /\ At(wire, p, 1, h) /\ wire[p][1] = Head(wire[p])
  BY <1>t, <1>2, <1>3, FirstReply
<1>6. /\ wire'[p][1] = x
      /\ \A q \in Pods, s \in Requests : \A i \in Nat :
            At(wire', q, i, s) <=> At(wire, q, i, s)
      /\ \A q \in Pods : \A i \in Nat : \A s \in Requests :
            At(wire, q, i, s) => wire'[q][i] = wire[q][i] \/ (q = p /\ i = 1)
  BY <1>t, <1>1, HeaderWire
<1>7. n \in Drawn[h]
  BY <1>t, <1>2, <1>5, DrawnFirst
<1>8. Drawn[h] = {n}
  BY <1>t, <1>5, <1>7, DrawnOnce
<1>9. \A s \in Requests : Drawn'[s] = IF s = h THEN {w} ELSE Drawn[s]
  <2> SUFFICES ASSUME NEW s \in Requests PROVE Drawn'[s] = IF s = h THEN {w} ELSE Drawn[s]
    OBVIOUS
  <2>1. \A m : m \in Drawn[s] <=> \E q \in Pods : \E i \in Nat : Carries(wire, q, i, s, m)
    BY <1>b, DrawnFacts DEF Drawn
  <2>2. \A m : m \in Drawn'[s] <=> \E q \in Pods : \E i \in Nat : Carries(wire', q, i, s, m)
    BY <1>b, DrawnFacts DEF Drawn
  <2>3. 1 \in Nat
    OBVIOUS
  <2>4. ASSUME NEW q \in Pods, NEW i \in Nat, At(wire, q, i, s), q = p /\ i = 1
        PROVE  s = h
    BY ONLY <1>5, <2>4 DEF At
  <2>5. CASE s = h
    <3>1. ASSUME NEW q \in Pods, NEW i \in Nat, NEW m, Carries(wire', q, i, s, m)
          PROVE  m = w
      <4>1. At(wire', q, i, s) /\ wire'[q][i].value = m
        BY <3>1 DEF Carries
      <4>2. At(wire, q, i, s)
        BY ONLY <1>6, <4>1, q \in Pods, i \in Nat, s \in Requests
      <4>3. q = p /\ i = 1
        BY ONLY <1>t, <1>5, <2>3, <2>5, <4>2, q \in Pods, p \in Pods, i \in Nat, s \in Requests
           DEF OnceInv
      <4> QED BY <1>3, <1>6, <4>1, <4>3
    <3>2. Carries(wire', p, 1, s, w)
      BY <1>3, <1>5, <1>6, <2>3, <2>5 DEF Carries
    <3>3. \A m : m \in Drawn'[s] <=> m = w
      BY ONLY <2>2, <2>3, <3>1, <3>2, p \in Pods
    <3> QED BY ONLY <2>5, <3>3
  <2>6. CASE s # h
    <3>1. ASSUME NEW q \in Pods, NEW i \in Nat
          PROVE  /\ At(wire', q, i, s) <=> At(wire, q, i, s)
                 /\ At(wire, q, i, s) => wire'[q][i] = wire[q][i]
      BY ONLY <1>6, <2>4, <2>6, q \in Pods, i \in Nat, s \in Requests
    <3>2. \A q \in Pods : \A i \in Nat : \A m :
             Carries(wire', q, i, s, m) <=> Carries(wire, q, i, s, m)
      BY ONLY <3>1 DEF Carries
    <3>3. \A m : m \in Drawn'[s] <=> m \in Drawn[s]
      BY ONLY <2>1, <2>2, <3>2
    <3> QED BY ONLY <2>6, <3>3
  <2> QED BY <2>5, <2>6
<1>10. Drawn' = [Drawn EXCEPT ![h] = {w}]
  <2>1. Drawn' = [s \in Requests |-> Drawn'[s]] /\ DOMAIN Drawn = Requests
    BY DEF Drawn
  <2> QED BY ONLY <1>5, <1>9, <2>1
<1>11. Drawn' \in {Drawn, [Drawn EXCEPT ![h] = {NoNumber}]}
  <2>1. w = n => Drawn' = Drawn
    <3>1. Drawn = [s \in Requests |-> Drawn[s]]
      BY DEF Drawn
    <3> QED BY ONLY <1>8, <1>10, <3>1
  <2> QED BY <1>3, <1>10, <2>1
<1>12. \/ Shown' = Shown
       \/ \E r \in Requests : \E m \in {n, NoNumber} :
             /\ Shown[r] = Abstract!Waiting /\ pod[r] = p
             /\ Shown' = [Shown EXCEPT ![r] = <<"redis", m>>]
  <2>1. CASE queue[p] # <<>> /\ answer[Head(queue[p])] = Waiting
    <3>1. PICK r \in Requests : r = Head(queue[p]) /\ pod[r] = p
      BY <1>t, <2>1, FirstWaiter
    <3>2. answer' = [answer EXCEPT ![r] = [from |-> "redis", value |-> v, of |-> h]]
      BY <1>3, <2>1, <3>1 DEF Resolve
    <3>3. Shown' = [Shown EXCEPT ![r] = <<"redis", v>>]
      BY <1>t, <3>2, ShownUpdate
    <3>4. Shown[r] = Abstract!Waiting
      BY <1>t, <2>1, <3>1, ShownFacts
    <3> QED BY <1>3, <3>1, <3>3, <3>4
  <2>2. CASE ~ (queue[p] # <<>> /\ answer[Head(queue[p])] = Waiting)
    <3>1. answer' = answer
      BY <1>3, <2>2 DEF Resolve
    <3> QED BY <3>1, MapFrame
  <2> QED BY <2>1, <2>2
<1>13. Commanded' = Commanded
  BY <1>4, MapFrame
<1>14. Abstract!Cut(p, h)
  BY <1>3, <1>4, <1>5, <1>7, <1>11, <1>12, <1>13, MapCut
<1> QED BY <1>5, <1>14

\* A timer fires: GiveUp.
LEMMA TimeoutMaps ==
    ASSUME TypeInv, ShapeInv, NEW r \in Requests, Timeout(r)
    PROVE  Abstract!GiveUp(r)
<1>1. /\ answer[r] = Waiting /\ Fallback(r, pod[r])
      /\ UNCHANGED <<sent, wire, visits, route, pod, cut>>
  BY DEF Timeout, redisVars
<1>2. pod[r] \in Pods
  BY <1>1, AnswerType DEF TypeInv
<1>3. Shown[r] = Abstract!Waiting /\ Drawn' = Drawn /\ Commanded' = Commanded
  BY <1>1, ShownFacts, MapFrame
<1> QED BY <1>1, <1>2, <1>3, FallbackMaps, MapGiveUp

\* A pod ends: Lose.
LEMMA ExitMaps ==
    ASSUME TypeInv, ShapeInv, NEW p \in Pods, Exit(p)
    PROVE  Abstract!Lose(p)
<1>1. UNCHANGED <<sent, wire, visits, memCounter, route, pod, cut>>
  BY DEF Exit, redisVars
<1>2. ASSUME NEW r \in Requests
      PROVE  Shown'[r] = IF Shown[r] = Abstract!Waiting /\ pod[r] = p THEN <<"lost", 0>> ELSE Shown[r]
  <2>1. Shown'[r] = <<answer'[r].from, answer'[r].value>> /\ Shown[r] = <<answer[r].from, answer[r].value>>
    BY DEF Shown
  <2>2. Shown[r] = Abstract!Waiting <=> answer[r] = Waiting
    BY ShownFacts
  <2>3. CASE answer[r] = Waiting /\ pod[r] = p
    <3>1. answer'[r] = [Waiting EXCEPT !.from = "lost"]
      BY <2>3 DEF Exit
    <3>2. answer'[r].from = "lost" /\ answer'[r].value = 0
      BY <3>1 DEF Waiting
    <3> QED BY <2>1, <2>2, <2>3, <3>2
  <2>4. CASE ~ (answer[r] = Waiting /\ pod[r] = p)
    <3>1. answer'[r] = answer[r]
      BY <2>4 DEF Exit
    <3> QED BY <2>1, <2>2, <2>4, <3>1
  <2> QED BY <2>3, <2>4
<1>3. Shown' = [r \in Requests |-> IF Shown[r] = Abstract!Waiting /\ pod[r] = p
                                     THEN <<"lost", 0>> ELSE Shown[r]]
  <2>1. Shown' = [r \in Requests |-> Shown'[r]]
    BY DEF Shown
  <2> QED BY ONLY <1>2, <2>1
<1>4. Drawn' = Drawn /\ Commanded' = Commanded
  BY <1>1, MapFrame
<1> QED BY <1>1, <1>3, <1>4, MapLose

\* Every step is a step of CounterSpec or changes nothing there.
LEMMA RefinementStep ==
    ASSUME PlaceInv, TypeInv', [Next]_vars
    PROVE  [Abstract!Next]_(Abstract!vars)
<1> USE DEF podVars, redisVars
<1>i. TypeInv /\ OnceInv /\ ShapeInv
  BY DEF PlaceInv
<1>t. /\ sent \in [Pods -> Seq(Requests)] /\ wire \in [Pods -> Seq(Reply)] /\ visits \in Nat
  BY <1>i DEF TypeInv, TypeOK
<1>s. ASSUME UNCHANGED <<visits, memCounter, route, pod, sent, wire, answer, cut>>
      PROVE  UNCHANGED Abstract!vars
  BY <1>s, MapFrame, MapStutter
<1>1. CASE UNCHANGED vars
  BY <1>1, <1>s DEF vars
<1>2. ASSUME NEW p \in Pods, Start(p) PROVE UNCHANGED Abstract!vars
  BY <1>2, <1>s DEF Start
<1>3. CASE RedisStarts \/ Reset
  <2>1. UNCHANGED <<memCounter, route, pod, sent, wire, answer, cut>>
    BY <1>3 DEF RedisStarts, Reset
  <2>2. visits' \in 0..visits
    <3>1. visits' = visits \/ visits' = 0 \/ visits' \in 0..(visits - 1)
      BY <1>3 DEF RedisStarts, Reset, SetBack
    <3> QED BY <1>t, <3>1
  <2>3. Abstract!SetBack
    BY <2>1, <2>2, MapFrame, MapSetBack
  <2> QED BY <2>3 DEF Abstract!Next
<1>4. ASSUME NEW r \in Requests, NEW p \in Pods, Arrive(r, p) PROVE Abstract!Next
  BY <1>i, <1>4, ArriveMaps DEF Abstract!Next
<1>5. ASSUME NEW p \in Pods, Execute(p) \/ Refuse(p) PROVE Abstract!Next
  <2>1. PICK h, x : Replied(p, h, x)
    BY <1>i, <1>5, ReplyFacts DEF TypeInv
  <2> QED BY <1>i, <2>1, ReplyMaps DEF Abstract!Next
<1>6. ASSUME NEW p \in Pods, Receive(p) PROVE Abstract!Next
  BY <1>6, ReceiveMaps
<1>7. ASSUME NEW r \in Requests, Timeout(r) PROVE Abstract!Next
  BY <1>i, <1>7, TimeoutMaps DEF Abstract!Next
<1>8. ASSUME NEW p \in Pods, Exit(p) PROVE Abstract!Next
  BY <1>i, <1>8, ExitMaps DEF Abstract!Next
<1>9. ASSUME NEW p \in Pods, Break(p) PROVE Abstract!Next
  <2>1. PICK n \in 0..Len(wire[p]) : wire' = [wire EXCEPT ![p] = SubSeq(@, 1, n)]
    BY <1>9 DEF Break
  <2>2. /\ sent' = [sent EXCEPT ![p] = <<>>]
        /\ UNCHANGED <<visits, memCounter, route, pod, answer, cut>>
    BY <1>9 DEF Break
  <2>3. \A q \in Pods, r \in Requests : \A i \in Nat :
           /\ Cmd(sent', q, i, r) => Cmd(sent, q, i, r)
           /\ At(wire', q, i, r) => At(wire, q, i, r) /\ wire'[q][i] = wire[q][i]
    BY <1>t, <2>1, <2>2, CutFacts
  <2>4. \A q \in Pods, r \in Requests : \A i \in Nat :
           /\ Cmd(sent', q, i, r) => Cmd(sent, q, i, r)
           /\ At(wire', q, i, r) => \E j \in Nat : At(wire, q, j, r) /\ wire'[q][i] = wire[q][j]
    BY ONLY <2>3
  <2>5. Abstract!Forget
    BY <1>i, <2>2, <2>4, LossMaps
  <2> QED BY <2>5 DEF Abstract!Next
<1>10. ASSUME NEW p \in Pods, Error(p) PROVE Abstract!Next
  <2>1. /\ wire' = [wire EXCEPT ![p] = <<>>]
        /\ UNCHANGED <<sent, visits, memCounter, route, pod, answer, cut>>
    BY <1>10 DEF Error
  <2>2. \A q \in Pods, r \in Requests : \A i \in Nat :
           At(wire', q, i, r) => At(wire, q, i, r) /\ wire'[q][i] = wire[q][i]
    BY <1>t, <2>1 DEF At
  <2>3. sent' = sent
    BY <2>1
  <2>4. \A q \in Pods, r \in Requests : \A i \in Nat :
           /\ Cmd(sent', q, i, r) => Cmd(sent, q, i, r)
           /\ At(wire', q, i, r) => \E j \in Nat : At(wire, q, j, r) /\ wire'[q][i] = wire[q][j]
    BY ONLY <2>2, <2>3
  <2>5. Abstract!Forget
    BY <1>i, <2>1, <2>4, LossMaps
  <2> QED BY <2>5 DEF Abstract!Next
<1>11. CASE RedisStops
  <2>1. /\ sent' = [p \in Pods |-> <<>>]
        /\ UNCHANGED <<wire, visits, memCounter, route, pod, answer, cut>>
    BY <1>11 DEF RedisStops
  <2>2. \A q \in Pods, r \in Requests : \A i \in Nat : ~ Cmd(sent', q, i, r)
    BY <2>1 DEF Cmd
  <2>3. wire' = wire
    BY <2>1
  <2>4. \A q \in Pods, r \in Requests : \A i \in Nat :
           /\ Cmd(sent', q, i, r) => Cmd(sent, q, i, r)
           /\ At(wire', q, i, r) => \E j \in Nat : At(wire, q, j, r) /\ wire'[q][i] = wire[q][j]
    BY ONLY <2>2, <2>3
  <2>5. Abstract!Forget
    BY <1>i, <2>1, <2>4, LossMaps
  <2> QED BY <2>5 DEF Abstract!Next
<1>12. ASSUME NEW p \in Pods, ReceiveHeaderOnly(p) PROVE Abstract!Next
  BY <1>12, HeaderMaps DEF Abstract!Next
<1> QED BY <1>1, <1>2, <1>3, <1>4, <1>5, <1>6, <1>7, <1>8, <1>9, <1>10, <1>11, <1>12 DEF Next

\* Before the first request nothing is under way.
LEMMA RefinementInit ==
    ASSUME Init
    PROVE  Abstract!Init
<1>1. \A p \in Pods : sent[p] = <<>> /\ wire[p] = <<>>
  BY DEF Init
<1>4. Commanded = {}
  BY <1>1 DEF Commanded, CommandsOf
<1>5. \A r \in Requests : Drawn[r] = {}
  BY <1>1 DEF Drawn, DrawnOf
<1>6. Drawn = [r \in Requests |-> {}]
  <2>1. Drawn = [r \in Requests |-> Drawn[r]]
    BY DEF Drawn
  <2> QED BY ONLY <1>5, <2>1
<1>7. Shown = [r \in Requests |-> Abstract!Unanswered]
  <2>1. \A r \in Requests : Shown[r] = Abstract!Unanswered
    BY DEF Init, Shown, Unanswered, Abstract!Unanswered
  <2>2. Shown = [r \in Requests |-> Shown[r]]
    BY DEF Shown
  <2> QED BY ONLY <2>1, <2>2
<1>8. /\ visits = 0 /\ memCounter = [p \in Pods |-> 0] /\ pod = [r \in Requests |-> NoPod]
      /\ cut = [p \in Pods |-> FALSE]
  BY DEF Init
<1>9. Abstract!Init
  BY ONLY <1>4, <1>6, <1>7, <1>8, Zenon
     DEF Abstract!Init, Commanded, Drawn, Shown, CommandsOf, DrawnOf
<1> QED BY <1>9

\* The pods with their queues, timers and connections implement the counter that
\* draws one number per request and gives it to that request, or, in a pod that has
\* read a reply in pieces, to another one of the pod (server.js, TinyRedis and
\* incrCounter).
THEOREM Implements == Spec => ImplementsCounterSpec
<1>1. Init => PlaceInv /\ Abstract!Init
  BY PlaceInit, RefinementInit
<1>2. PlaceInv /\ [Next]_vars => PlaceInv'
  BY PlaceStep
<1>3. PlaceInv /\ PlaceInv' /\ [Next]_vars => [Abstract!Next]_(Abstract!vars)
  BY RefinementStep DEF PlaceInv
<1> QED BY <1>1, <1>2, <1>3, PTL DEF Spec, ImplementsCounterSpec, Abstract!Spec
=============================================================================
