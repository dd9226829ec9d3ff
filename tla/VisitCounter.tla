---------------------------- MODULE VisitCounter ----------------------------
(***************************************************************************)
(* The visitor counter of k8s_learnProject (app/server.js): several web     *)
(* pods, each with one TinyRedis connection, share the key "visits" of one  *)
(* Redis; a pod that gets no answer from Redis counts in its own memory.    *)
(*                                                                          *)
(* A pod is one Node.js process: an event handler runs to its end, so one   *)
(* action is one event: a request, a reply, a timer, an error of the        *)
(* socket.  Redis and the TCP connections are modelled from how server.js   *)
(* uses them: commands and replies of a connection stay in order, a broken  *)
(* connection loses what was under way.  A Job sets the counter to 0 while  *)
(* the pods serve (manifests/10-job.yaml, applied with them by deploy.sh).  *)
(***************************************************************************)
EXTENDS Integers, Sequences, FiniteSets

CONSTANTS
    Pods,       \* web processes; a restarted pod is another element
    Requests,   \* HTTP requests to / and /metrics
    Routes,     \* the routes used, a subset of {"visit", "metrics"}
    MaxSetbacks,    \* bound: how often the counter is set back
    NoPod

ASSUME RoutesAssumption == Routes \subseteq {"visit", "metrics"}
ASSUME MaxSetbacksAssumption == MaxSetbacks \in Nat
ASSUME NoPodAssumption == NoPod \notin Pods

VARIABLES
    \* per pod
    phase,      \* "down", "serving" or "gone"
    redisReady, \* set once, when connect() settles; what /readyz reports
    connected,  \* TinyRedis.connected
    queue,      \* TinyRedis.queue: the requests whose commands await a reply
    memCounter,
    cut,        \* history: a bulk reply was read before all of it had come
    \* the pod's connection
    link,       \* whether it still works; connected lags behind
    sent,       \* commands on the way to Redis, by request
    wire,       \* replies on the way to the pod
    \* Redis
    redisUp, visits,
    setbacks,   \* history: how often visits was set back
    \* per request
    route, pod, answer,
    issued      \* history: setbacks and the number, when its command was executed

podVars == <<phase, redisReady, connected, queue, memCounter, cut>>
redisVars == <<redisUp, visits, setbacks, issued>>
vars == <<phase, redisReady, connected, queue, memCounter, cut, link, sent, wire,
          redisUp, visits, setbacks, route, pod, answer, issued>>

\* An answer, its source, and a ghost: the request whose reply it shows.
Answer == [from : {"none", "waiting", "redis", "memory", "lost"}, value : Int,
           of : Requests \cup {NoPod}]
Unanswered == [from |-> "none", value |-> 0, of |-> NoPod]
Waiting == [from |-> "waiting", value |-> 0, of |-> NoPod]

\* A reply as the pod's parser sees it: ":n", "$-1", "$len" with its data line,
\* "-ERR", or the rest of a bulk reply.  "of" is a ghost: whose command it answers.
Reply == [form : {"integer", "nil", "bulk", "error", "line"}, value : Int, of : Requests]
\* Shown for a number: null, an error message, "" or some of the digits.
NoNumber == -1

Init ==
    /\ phase = [p \in Pods |-> "down"]
    /\ redisReady = [p \in Pods |-> FALSE]
    /\ connected = [p \in Pods |-> FALSE]
    /\ queue = [p \in Pods |-> <<>>]
    /\ memCounter = [p \in Pods |-> 0]
    /\ cut = [p \in Pods |-> FALSE]
    /\ link = [p \in Pods |-> FALSE]
    /\ sent = [p \in Pods |-> <<>>]
    /\ wire = [p \in Pods |-> <<>>]
    /\ redisUp = TRUE
    /\ visits = 0
    /\ setbacks = 0
    /\ route \in [Requests -> Routes]
    /\ pod = [r \in Requests |-> NoPod]
    /\ answer = [r \in Requests |-> Unanswered]
    /\ issued = [r \in Requests |-> <<0, 0>>]

-----------------------------------------------------------------------------
\* The process starts and connect() settles, one attempt only: connected, or
\* refused or timed out.  The HTTP server listens after that.
Settle(p, ok) ==
    /\ redisReady' = [redisReady EXCEPT ![p] = ok]
    /\ connected' = [connected EXCEPT ![p] = ok]
    /\ link' = [link EXCEPT ![p] = ok]

Start(p) ==
    /\ phase[p] = "down"
    /\ phase' = [phase EXCEPT ![p] = "serving"]
    /\ \E ok \in IF redisUp THEN BOOLEAN ELSE {FALSE} : Settle(p, ok)
    /\ UNCHANGED <<queue, memCounter, cut, sent, wire, redisVars, route, pod, answer>>

\* The fallback of incrCounter and getCounter.
Fallback_NotCounted(r, p) ==     \* mutant: memCounter is returned, not incremented
    /\ UNCHANGED memCounter
    /\ answer' = [answer EXCEPT ![r] = [from |-> "memory", value |-> memCounter[p], of |-> r]]
Fallback(r, p) ==
    LET n == IF route[r] = "visit" THEN memCounter[p] + 1 ELSE memCounter[p] IN
    /\ memCounter' = [memCounter EXCEPT ![p] = n]
    /\ answer' = [answer EXCEPT ![r] = [from |-> "memory", value |-> n, of |-> r]]

\* A request arrives.  cmd() rejects at once when the pod knows it is not
\* connected; else the command is queued and written, if only to a dead socket.
Arrive(r, p) ==
    /\ phase[p] = "serving" /\ answer[r] = Unanswered
    /\ pod' = [pod EXCEPT ![r] = p]
    /\ IF redisReady[p] /\ connected[p]
         THEN /\ queue' = [queue EXCEPT ![p] = Append(@, r)]
              /\ sent' = [sent EXCEPT ![p] = IF link[p] THEN Append(@, r) ELSE @]
              /\ answer' = [answer EXCEPT ![r] = Waiting]
              /\ UNCHANGED memCounter
         ELSE Fallback(r, p) /\ UNCHANGED <<queue, sent>>
    /\ UNCHANGED <<phase, redisReady, connected, cut, link, wire, redisVars, route>>

\* External: Redis replies to the next command of a connection.
SendReply(p, form, value) ==
    /\ redisUp /\ link[p] /\ sent[p] # <<>>
    /\ sent' = [sent EXCEPT ![p] = Tail(@)]
    /\ wire' = [wire EXCEPT ![p] =
                  Append(@, [form |-> form, value |-> value, of |-> Head(sent[p])])]
    /\ UNCHANGED <<podVars, link, redisUp, setbacks, route, pod, answer>>

\* External: INCR gives an integer; GET a string, or nil when there is no key.
Forms(r) ==
    IF route[r] = "visit" THEN {"integer"}
    ELSE {form \in {"nil", "bulk"} : /\ form = "nil" => visits = 0
                                    /\ form = "bulk" => visits + setbacks > 0}

\* External: the command is executed.  getCounter() turns nil into null.
Execute(p) ==
    /\ sent[p] # <<>>
    /\ LET r == Head(sent[p])
           n == IF route[r] = "visit" THEN visits + 1 ELSE visits IN
         /\ \E form \in Forms(r) :
               SendReply(p, form, IF form = "nil" THEN NoNumber ELSE n)
         /\ visits' = n
         /\ issued' = [issued EXCEPT ![r] = <<setbacks, n>>]

\* External: Redis answers -LOADING (it has just started) or -MISCONF (it cannot
\* save) and executes nothing.  The message resolves the promise like a number.
Refuse(p) == SendReply(p, "error", NoNumber) /\ UNCHANGED <<visits, issued>>

\* The first waiter is taken from the queue and resolved with a reply's value;
\* a promise that the timer has rejected already stays as it is.
Resolve(p, value, of) ==
    /\ queue' = [queue EXCEPT ![p] = IF @ = <<>> THEN @ ELSE Tail(@)]
    /\ IF queue[p] # <<>> /\ answer[Head(queue[p])] = Waiting
         THEN answer' = [answer EXCEPT ![Head(queue[p])] =
                           [from |-> "redis", value |-> value, of |-> of]]
         ELSE UNCHANGED answer

\* The bytes of a reply leave the buffer.
Consume_Kept(p) == UNCHANGED wire     \* mutant: the buffer is not cut
Consume(p) == wire' = [wire EXCEPT ![p] = Tail(@)]

\* The 'data' event, one reply at a time.
Receive(p) ==
    /\ phase[p] = "serving" /\ wire[p] # <<>>
    /\ LET reply == Head(wire[p]) IN Resolve(p, reply.value, reply.of)
    /\ Consume(p)
    /\ UNCHANGED <<phase, redisReady, connected, memCounter, cut, link, sent,
                   redisVars, route, pod>>

\* The chunk ends after "$len": indexOf gives -1, the waiter gets what the buffer
\* holds less its last character, the buffer loses its first one, and what is left
\* or still comes will be read as a reply of its own.  Before, in and after n:
Pieces(p, n) ==
    {<<NoNumber, n>>} \cup
    IF queue[p] = <<>> THEN {} ELSE {<<NoNumber, NoNumber>>, <<n, NoNumber>>}

ReceiveHeaderOnly(p) ==
    /\ phase[p] = "serving" /\ wire[p] # <<>> /\ Head(wire[p]).form = "bulk"
    /\ LET reply == Head(wire[p]) IN
         \E piece \in Pieces(p, reply.value) :
            /\ Resolve(p, piece[1], reply.of)
            /\ wire' = [wire EXCEPT ![p] =
                 <<[form |-> "line", value |-> piece[2], of |-> reply.of]>> \o Tail(@)]
    /\ cut' = [cut EXCEPT ![p] = TRUE]
    /\ UNCHANGED <<phase, redisReady, connected, memCounter, link, sent,
                   redisVars, route, pod>>

\* The timer of cmd(): the promise is rejected, its waiter stays in the queue.
LeaveQueue_Removed(p, r) ==     \* mutant: the waiter is dropped with its promise
    queue' = [queue EXCEPT ![p] = SelectSeq(@, LAMBDA q : q # r)]
LeaveQueue(p, r) == UNCHANGED queue

Timeout_Missing(r) == FALSE /\ UNCHANGED vars     \* mutant: cmd() sets no timer
Timeout(r) ==
    /\ answer[r] = Waiting /\ phase[pod[r]] = "serving"
    /\ Fallback(r, pod[r])
    /\ LeaveQueue(pod[r], r)
    /\ UNCHANGED <<phase, redisReady, connected, cut, link, sent, wire,
                   redisVars, route, pod>>

-----------------------------------------------------------------------------
\* External: the connection breaks.  Replies that had arrived may still be read.
Break(p) ==
    /\ link[p]
    /\ link' = [link EXCEPT ![p] = FALSE]
    /\ sent' = [sent EXCEPT ![p] = <<>>]
    /\ \E n \in 0..Len(wire[p]) : wire' = [wire EXCEPT ![p] = SubSeq(@, 1, n)]
    /\ UNCHANGED <<podVars, redisVars, route, pod, answer>>

\* The socket's 'error' event: connected = false, and nobody connects again.
Error(p) ==
    /\ phase[p] = "serving" /\ connected[p] /\ ~ link[p]
    /\ connected' = [connected EXCEPT ![p] = FALSE]
    /\ wire' = [wire EXCEPT ![p] = <<>>]
    /\ UNCHANGED <<phase, redisReady, queue, memCounter, cut, link, sent,
                   redisVars, route, pod, answer>>

\* The counter is set back to n.
SetBack(n) ==
    /\ setbacks < MaxSetbacks
    /\ setbacks' = setbacks + 1
    /\ visits' = n

\* External: Redis stops and comes back with the counter of its append-only file,
\* which may lack the last second (appendfsync is everysec by default).
RedisStops ==
    /\ redisUp
    /\ redisUp' = FALSE
    /\ link' = [p \in Pods |-> FALSE]
    /\ sent' = [p \in Pods |-> <<>>]
    /\ UNCHANGED <<podVars, wire, visits, setbacks, route, pod, answer, issued>>

RedisStarts ==
    /\ ~ redisUp
    /\ redisUp' = TRUE
    /\ UNCHANGED <<visits, setbacks>> \/ \E n \in 0..(visits - 1) : SetBack(n)
    /\ UNCHANGED <<podVars, link, sent, wire, route, pod, answer, issued>>

\* The Job init-counter: redis-cli set visits 0, again when it is retried.
Reset ==
    /\ redisUp
    /\ SetBack(0)
    /\ UNCHANGED <<podVars, link, sent, wire, redisUp, route, pod, answer, issued>>

\* The process ends: commands it has sent may still be executed.
Exit(p) ==
    /\ phase[p] = "serving"
    /\ phase' = [phase EXCEPT ![p] = "gone"]
    /\ answer' = [r \in Requests |->
                    IF answer[r] = Waiting /\ pod[r] = p
                      THEN [answer[r] EXCEPT !.from = "lost"] ELSE answer[r]]
    /\ UNCHANGED <<redisReady, connected, queue, memCounter, cut, link, sent, wire,
                   redisVars, route, pod>>

Next ==
    \/ \E p \in Pods : \/ Start(p) \/ Execute(p) \/ Refuse(p)
                       \/ Receive(p) \/ ReceiveHeaderOnly(p)
                       \/ Break(p) \/ Error(p) \/ Exit(p)
                       \/ \E r \in Requests : Arrive(r, p)
    \/ \E r \in Requests : Timeout(r)
    \/ RedisStops \/ RedisStarts \/ Reset

Spec == Init /\ [][Next]_vars

\* Only timers are certain: Redis may hang and a dead peer go unnoticed.
FairSpec == Spec /\ \A r \in Requests : WF_vars(Timeout(r))

-----------------------------------------------------------------------------
TypeOK ==
    /\ phase \in [Pods -> {"down", "serving", "gone"}]
    /\ redisReady \in [Pods -> BOOLEAN]
    /\ connected \in [Pods -> BOOLEAN]
    /\ queue \in [Pods -> Seq(Requests)]
    /\ memCounter \in [Pods -> Nat]
    /\ cut \in [Pods -> BOOLEAN]
    /\ link \in [Pods -> BOOLEAN]
    /\ sent \in [Pods -> Seq(Requests)]
    /\ wire \in [Pods -> Seq(Reply)]
    /\ redisUp \in BOOLEAN
    /\ visits \in Nat
    /\ setbacks \in Nat
    /\ route \in [Requests -> Routes]
    /\ pod \in [Requests -> Pods \cup {NoPod}]
    /\ answer \in [Requests -> Answer]
    /\ issued \in [Requests -> Nat \X Nat]

\* A request is answered with the reply to its own command, however many earlier
\* commands timed out: replies are matched by position, so a waiter must stay in
\* the queue after its timer fired (server.js, cmd and the 'data' handler).  This
\* lasts until the pod reads a bulk reply before all of it has come; from then on
\* its requests may show one another's replies, never those of another pod.
RepliesMatchCommands ==
    \A r \in Requests : answer[r].from = "redis" =>
        /\ pod[answer[r].of] = pod[r]
        /\ ~ cut[pod[r]] => answer[r].of = r

\* "You are visitor number n": two visits that Redis answered show the same n, in
\* whichever pods, over timeouts, broken connections and restarts, only if the
\* counter was set back between them, by the Job or by a restart that lost the last
\* second, or if a pod has lost the position of its replies (server.js, incrCounter).
ShownNumber(r) ==
    /\ route[r] = "visit" /\ answer[r].from = "redis"
    /\ answer[r].value # NoNumber /\ ~ cut[pod[r]]
DistinctNumbers ==
    \A q, r \in {s \in Requests : ShownNumber(s)} :
        answer[q].value = answer[r].value /\ issued[q][1] = issued[r][1] => q = r

\* The replies on the way to a pod, by the request whose command they answer.
Abstract == INSTANCE CounterSpec WITH
    spare <- memCounter,
    commanded <- UNION {{sent[p][i] : i \in DOMAIN sent[p]} : p \in Pods},
    drawn <- [r \in Requests |-> UNION {{wire[p][i].value : i \in {j \in DOMAIN wire[p] :
                                          wire[p][j].of = r}} : p \in Pods}],
    answer <- [r \in Requests |-> <<answer[r].from, answer[r].value>>]

\* Pods that match replies by their position, over connections that break, timers
\* that fire early and replies in pieces, implement the counter that draws one number
\* per request and gives it to that request, between its arrival and its answer, or,
\* in a pod that lost the position, to another of the pod (server.js, TinyRedis and
\* incrCounter).
ImplementsCounterSpec == Abstract!Spec

\* README: without Redis the service stays available.  Every request that waits
\* for Redis gets an answer unless its pod ends, even if Redis never replies.
NobodyWaitsForever ==
    \A r \in Requests : answer[r] = Waiting ~> answer[r] # Waiting

\* server.js:180: a pod takes traffic only while it is connected to Redis.  /readyz
\* reports redisReady, which connect() sets once (lines 98 and 182).
ReadyOnlyWithRedis ==
    \A p \in Pods : phase[p] = "serving" /\ redisReady[p] => connected[p]
=============================================================================
