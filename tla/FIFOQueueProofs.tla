--------------------------- MODULE FIFOQueueProofs ---------------------------
(***************************************************************************)
(* TLAPS proofs about FIFOQueue, for any number of calls, managers and      *)
(* capacities, batches of any size.                                         *)
(*                                                                          *)
(* CallInv says where a call is: before its attempt, in one of the deques,  *)
(* in the clean_up of one thread, or over.  FlowInv follows the elements,   *)
(* WaitInv the loop of FlushUnlocked, BatchInv what a batch still asks for. *)
(* The last theorem is the refinement of QueueSpec.                         *)
(***************************************************************************)
EXTENDS FIFOQueue, FiniteSetTheorems, SequenceTheorems, TLAPS

Elems(q) == {q[i] : i \in 1..Len(q)}

Distinct(q) == \A i, j \in 1..Len(q) : q[i] = q[j] => i = j

EnqueueKinds == {"enqueue", "enqueue_many", "close"}
DequeueKinds == {"dequeue", "dequeue_many", "dequeue_up_to"}

Pending(c) == c \in Elems(enqueues) \/ c \in Elems(dequeues)
InCleanUp(t, c) == c \in Elems(cleanUp[t])

-----------------------------------------------------------------------------
(* The inductive invariant *)

\* A call that is no batch is of one element; what is requested is part of the batch.
SizeInv ==
    /\ \A c \in Calls : kind[c] \notin Batches => size[c] = 1
    /\ \A c \in Calls : requested[c] <= size[c]

\* A call is in one place only.
PlaceInv ==
    /\ Distinct(enqueues) /\ Distinct(dequeues) /\ \A t \in Threads : Distinct(cleanUp[t])
    /\ \A c \in Elems(enqueues) : kind[c] \in EnqueueKinds
    /\ \A c \in Elems(dequeues) : kind[c] \in DequeueKinds
    /\ \A t \in Threads : \A c \in Calls :
          InCleanUp(t, c) => ~ Pending(c) /\ kind[c] # "close_cancel"
    /\ \A t, u \in Threads : \A c \in Calls : InCleanUp(t, c) /\ InCleanUp(u, c) => t = u

\* Where a call is, what it was told and how often.
Stage(c) ==
    /\ pc[c] = "idle" =>
          /\ ~ Pending(c) /\ c \notin isCancelled /\ status[c] = "none" /\ answered[c] = 0
          /\ requested[c] = 0 /\ \A t \in Threads : ~ InCleanUp(t, c)
    /\ Pending(c) =>
          /\ requested[c] > 0
          /\ IF c \in isCancelled THEN status[c] = "cancelled" /\ answered[c] = 1
                                  ELSE status[c] = "none" /\ answered[c] = 0
    /\ \A t \in Threads : InCleanUp(t, c) =>
          c \notin isCancelled /\ status[c] # "none" /\ answered[c] = 0
    /\ kind[c] = "close_cancel" /\ pc[c] # "done" => status[c] = "none" /\ answered[c] = 0
    /\ answered[c] <= 1
CallInv == \A c \in Calls : Stage(c)

\* Who holds mu_, and what a manager's thread does.
LockInv == \A t \in Threads : pc[t] = "locked" <=> holder = t
ManagerInv ==
    /\ \A c \in Calls : pc[c] # "callbacks"
    /\ \A m \in Managers : /\ cmState[m] = "open" <=> pc[m] = "idle"
                           /\ cmState[m] = "cancelling" => pc[m] # "done"

CoreInv == TypeOK /\ SizeInv /\ PlaceInv /\ CallInv /\ LockInv /\ ManagerInv

\* Only the first dequeue has taken elements.
HeldInv == \A c \in Calls : held[c] # <<>> => dequeues # <<>> /\ c = Head(dequeues)

FlowInv == HeldInv /\ arrived = left \o Taken \o queue

\* In a round in which nothing was changed, the enqueues left behind wait for room
\* and the dequeues left behind for elements.
EnqueuesWait == enqueues # <<>> => ~ closed /\ Len(queue) = Capacity
DequeuesWait == dequeues # <<>> => ~ closed /\ queue = <<>>
WaitInv ==
    /\ NeverYields
    /\ holder # Free /\ side \in {"dequeue", "end"} /\ ~ changed => EnqueuesWait
    /\ holder # Free /\ side = "end" /\ ~ changed => DequeuesWait
    /\ NobodyWaitsWithoutReason

-----------------------------------------------------------------------------
(* Sequences *)

\* What a sequence holds.
LEMMA ElemsType ==
    ASSUME NEW S, NEW q \in Seq(S)
    PROVE  /\ Elems(q) \subseteq S
           /\ \A x : x \in Elems(q) <=> \E i \in DOMAIN q : q[i] = x
           /\ Elems(<<>>) = {} /\ Distinct(<<>>)
           /\ q # <<>> => Head(q) \in Elems(q)
BY DEF Elems, Distinct

\* A new element at the end.
LEMMA AppendElems ==
    ASSUME NEW S, NEW q \in Seq(S), NEW x \in S
    PROVE  /\ Append(q, x) \in Seq(S)
           /\ \A y : y \in Elems(Append(q, x)) <=> y \in Elems(q) \/ y = x
           /\ Distinct(q) /\ x \notin Elems(q) => Distinct(Append(q, x))
           /\ Append(q, x) # <<>>
           /\ Head(Append(q, x)) = IF q = <<>> THEN x ELSE Head(q)
<1>1. /\ Append(q, x) \in Seq(S)
      /\ Len(q) \in Nat /\ Len(Append(q, x)) = Len(q) + 1
      /\ \A i \in 1..Len(q) : Append(q, x)[i] = q[i]
      /\ Append(q, x)[Len(q) + 1] = x /\ Append(q, x) # <<>>
  OBVIOUS
<1>2. \A y : y \in Elems(Append(q, x)) <=> y \in Elems(q) \/ y = x
  <2>1. ASSUME NEW y, y \in Elems(Append(q, x)) PROVE y \in Elems(q) \/ y = x
    BY <1>1, <2>1 DEF Elems
  <2>2. \A i \in 1..Len(q) : q[i] \in Elems(Append(q, x))
    BY <1>1 DEF Elems
  <2>3. x \in Elems(Append(q, x))
    BY <1>1 DEF Elems
  <2> QED BY <2>1, <2>2, <2>3 DEF Elems
<1>3. ASSUME Distinct(q), x \notin Elems(q) PROVE Distinct(Append(q, x))
  BY <1>1, <1>3 DEF Distinct, Elems
<1>4. Head(Append(q, x)) = IF q = <<>> THEN x ELSE Head(q)
  BY HeadTailAppend
<1> QED BY <1>1, <1>2, <1>3, <1>4

\* The first element is removed.
LEMMA TailElems ==
    ASSUME NEW S, NEW q \in Seq(S), q # <<>>, Distinct(q)
    PROVE  /\ Tail(q) \in Seq(S) /\ Head(q) \in S /\ Head(q) \in Elems(q)
           /\ \A y : y \in Elems(Tail(q)) <=> y \in Elems(q) /\ y # Head(q)
           /\ Distinct(Tail(q))
<1>1. /\ Tail(q) \in Seq(S) /\ Len(Tail(q)) = Len(q) - 1 /\ Len(q) \in Nat \ {0}
      /\ \A i \in 1..Len(Tail(q)) : Tail(q)[i] = q[i + 1]
      /\ Head(q) = q[1] /\ \A i \in 1..Len(q) : q[i] \in S
  OBVIOUS
<1>2. \A y \in Elems(Tail(q)) : y \in Elems(q) /\ y # Head(q)
  BY <1>1 DEF Elems, Distinct
<1>3. \A y \in Elems(q) : y # Head(q) => y \in Elems(Tail(q))
  <2> SUFFICES ASSUME NEW i \in 1..Len(q), q[i] # Head(q) PROVE q[i] \in Elems(Tail(q))
    BY DEF Elems
  <2>1. i - 1 \in 1..Len(Tail(q)) /\ Tail(q)[i - 1] = q[i]
    BY <1>1
  <2> QED BY <2>1 DEF Elems
<1>4. Distinct(Tail(q))
  <2> SUFFICES ASSUME NEW i \in 1..Len(Tail(q)), NEW j \in 1..Len(Tail(q)), Tail(q)[i] = Tail(q)[j]
               PROVE  i = j
    BY DEF Distinct
  <2>1. i + 1 \in 1..Len(q) /\ j + 1 \in 1..Len(q) /\ q[i + 1] = q[j + 1]
    BY <1>1
  <2>2. i + 1 = j + 1
    BY <2>1 DEF Distinct
  <2> QED BY <2>2
<1>5. Head(q) \in Elems(q)
  BY <1>1 DEF Elems
<1> QED BY <1>1, <1>2, <1>3, <1>4, <1>5

\* Concatenation of three.
LEMMA Concat3 ==
    ASSUME NEW S, NEW p \in Seq(S), NEW q \in Seq(S), NEW r \in Seq(S)
    PROVE  /\ p \o q \in Seq(S) /\ p \o q \o r \in Seq(S)
           /\ p \o q \o r = p \o (q \o r)
           /\ p \o <<>> = p /\ <<>> \o p = p
BY ConcatProperties, ConcatAssociative, ConcatEmptySeq

\* A sequence is cut in two.
LEMMA Cut ==
    ASSUME NEW S, NEW q \in Seq(S), NEW n \in 0..Len(q)
    PROVE  /\ SubSeq(q, 1, n) \in Seq(S) /\ SubSeq(q, n + 1, Len(q)) \in Seq(S)
           /\ Len(SubSeq(q, 1, n)) = n /\ Len(SubSeq(q, n + 1, Len(q))) = Len(q) - n
           /\ SubSeq(q, 1, n) \o SubSeq(q, n + 1, Len(q)) = q
<1>0. Len(q) \in Nat /\ n \in Nat /\ \A i \in 1..Len(q) : q[i] \in S
  OBVIOUS
<1>1. SubSeq(q, 1, n) \in Seq(S) /\ Len(SubSeq(q, 1, n)) = n
  BY <1>0, SubSeqProperties
<1>2. SubSeq(q, n + 1, Len(q)) \in Seq(S) /\ Len(SubSeq(q, n + 1, Len(q))) = Len(q) - n
  <2> DEFINE m == n + 1
  <2>1. m \in Int /\ Len(q) \in Int /\ \A i \in m..Len(q) : q[i] \in S
    BY <1>0
  <2>2. (IF m <= Len(q) THEN Len(q) - m + 1 ELSE 0) = Len(q) - n
    BY <1>0
  <2> HIDE DEF m
  <2>3. SubSeq(q, m, Len(q)) \in Seq(S) /\ Len(SubSeq(q, m, Len(q))) = Len(q) - n
    BY <2>1, <2>2, SubSeqProperties
  <2> QED BY <2>3 DEF m
<1>3. SubSeq(q, 1, n) \o SubSeq(q, n + 1, Len(q)) = SubSeq(q, 1, Len(q))
  <2>1. /\ 1 \in 1..(Len(q) + 1) /\ n \in (1 - 1)..Len(q) /\ Len(q) \in n..Len(q)
    BY <1>0
  <2> QED BY <2>1, ConcatAdjacentSubSeq
<1>4. SubSeq(q, 1, Len(q)) = q
  BY SubSeqFull
<1> QED BY <1>1, <1>2, <1>3, <1>4

-----------------------------------------------------------------------------
(* Facts that many steps need *)

\* The elements are fixed with the sizes.
LEMMA ElementsFrame ==
    ASSUME UNCHANGED size
    PROVE  Elements' = Elements
BY DEF Elements

\* Calls and managers are different threads, and none of them is Free.
LEMMA TwoThreads ==
    /\ \A c \in Calls : c \in Threads /\ c \notin Managers /\ c # Free
    /\ \A m \in Managers : m \in Threads /\ m \notin Calls /\ m # Free
    /\ \A t \in Threads : t # Free /\ (t \in Calls \/ t \in Managers)
BY ThreadsAssumption DEF Threads

\* Sizes are numbers, and only known operations are used.
LEMMA SizeType ==
    ASSUME TypeOK
    PROVE  \A c \in Calls : size[c] \in Nat /\ requested[c] \in Nat /\ kind[c] \in AllKinds
<1> SUFFICES ASSUME NEW c \in Calls
             PROVE  size[c] \in Nat /\ requested[c] \in Nat /\ kind[c] \in AllKinds
  OBVIOUS
<1>1. size[c] \in Sizes \cup {1} /\ requested[c] \in Nat /\ kind[c] \in Kinds
  BY DEF TypeOK
<1>2. \A n \in Sizes : n \in Nat
  BY CapacityAssumption
<1>3. size[c] \in Nat
  BY <1>1, <1>2
<1>4. kind[c] \in AllKinds
  BY <1>1, KindsAssumption
<1> QED BY <1>1, <1>3, <1>4

-----------------------------------------------------------------------------
(* Where the calls are *)

\* A step leaves a call where it is.
Frame(d) ==
    /\ pc'[d] = "idle" => pc[d] = "idle"
    /\ pc[d] = "done" => pc'[d] = "done"
    /\ Pending(d)' <=> Pending(d)
    /\ d \in isCancelled' <=> d \in isCancelled
    /\ status'[d] = status[d] /\ answered'[d] = answered[d] /\ requested'[d] = requested[d]
    /\ \A t \in Threads : InCleanUp(t, d)' <=> InCleanUp(t, d)

\* One call moves on, the others stay.
LEMMA OneCallMoves ==
    ASSUME CallInv, NEW c, UNCHANGED kind, \A d \in Calls : d # c => Frame(d),
           c \in Calls => Stage(c)'
    PROVE  CallInv'
<1> SUFFICES ASSUME NEW d \in Calls, d # c PROVE Stage(d)'
  BY DEF CallInv
<1>1. Stage(d) /\ Frame(d) /\ kind'[d] = kind[d]
  BY DEF CallInv
<1> QED BY <1>1 DEF Stage, Frame

\* No call moves.
LEMMA NoCallMoves ==
    ASSUME CallInv, UNCHANGED kind, \A d \in Calls : Frame(d)
    PROVE  CallInv'
<1> SUFFICES ASSUME NEW d \in Calls PROVE Stage(d)'
  BY DEF CallInv
<1>1. Stage(d) /\ Frame(d) /\ kind'[d] = kind[d]
  BY DEF CallInv
<1> QED BY <1>1 DEF Stage, Frame

Places == {"idle", "flush", "locked", "clean", "callbacks", "done"}

\* A thread that is not done moves, and not to its beginning.
LEMMA GoFacts ==
    ASSUME TypeOK, NEW t \in Threads, pc[t] # "done",
           NEW place \in Places \ {"idle"}, Go(t, place)
    PROVE  /\ pc' \in [Threads -> Places]
           /\ \A u \in Threads : pc'[u] = IF u = t THEN place ELSE pc[u]
           /\ \A u \in Threads : /\ pc'[u] = "idle" => pc[u] = "idle"
                                 /\ pc[u] = "done" => pc'[u] = "done"
BY DEF Go, TypeOK, Places

\* The attempts and the calls' results are as before, and a thread moves.
LEMMA QuietCore ==
    ASSUME CoreInv, UNCHANGED <<kind, size, enqueues, dequeues, requested, isCancelled, cleanUp,
                                status, answered>>,
           \A u \in Threads : /\ pc'[u] = "idle" => pc[u] = "idle"
                              /\ pc[u] = "done" => pc'[u] = "done"
    PROVE  SizeInv' /\ PlaceInv' /\ CallInv'
<1>i. SizeInv /\ PlaceInv /\ CallInv
  BY DEF CoreInv
<1>1. SizeInv' /\ PlaceInv'
  BY <1>i DEF SizeInv, PlaceInv, Pending, InCleanUp
<1>2. \A d \in Calls : Frame(d)
  BY TwoThreads DEF Frame, Pending, InCleanUp
<1> QED BY <1>i, <1>1, <1>2, NoCallMoves

\* A new attempt.
LEMMA StashCore ==
    ASSUME CoreInv, NEW c \in Calls, pc[c] = "idle", kind[c] # "close_cancel", size[c] > 0,
           Stash(c), Go(c, "flush"), UNCHANGED <<kind, size, cleanUp, callVars>>
    PROVE  /\ SizeInv' /\ PlaceInv' /\ CallInv'
           /\ enqueues' \in Seq(Calls) /\ dequeues' \in Seq(Calls)
           /\ requested' \in [Calls -> Nat]
<1>i. TypeOK /\ SizeInv /\ PlaceInv /\ CallInv
  BY DEF CoreInv
<1>1. /\ enqueues \in Seq(Calls) /\ dequeues \in Seq(Calls) /\ kind[c] \in AllKinds
      /\ \A d \in Calls : size[d] \in Nat
      /\ requested \in [Calls -> Nat]
  BY <1>i, SizeType DEF TypeOK
<1>2. /\ ~ Pending(c) /\ c \notin isCancelled /\ status[c] = "none" /\ answered[c] = 0
      /\ \A t \in Threads : ~ InCleanUp(t, c)
  BY <1>i DEF CallInv, Stage
<1>3. c \notin Elems(enqueues) /\ c \notin Elems(dequeues)
  BY <1>2 DEF Pending
<1>4. /\ enqueues' \in Seq(Calls) /\ dequeues' \in Seq(Calls)
      /\ Distinct(enqueues)' /\ Distinct(dequeues)'
      /\ \A d : d \in Elems(enqueues)' <=> d \in Elems(enqueues) \/ (d = c /\ kind[c] \in EnqueueKinds)
      /\ \A d : d \in Elems(dequeues)' <=> d \in Elems(dequeues) \/ (d = c /\ kind[c] \in DequeueKinds)
  <2>1. CASE kind[c] \in DequeueKinds
    <3>1. dequeues' = Append(dequeues, c) /\ enqueues' = enqueues
      BY <2>1 DEF Stash, DequeueKinds
    <3>2. /\ dequeues' \in Seq(Calls) /\ Distinct(dequeues)'
          /\ \A d : d \in Elems(dequeues)' <=> d \in Elems(dequeues) \/ d = c
      BY <1>1, <1>3, <1>i, <3>1, AppendElems DEF PlaceInv
    <3>3. Distinct(enqueues)' /\ kind[c] \notin EnqueueKinds
      BY <1>i, <2>1, <3>1 DEF PlaceInv, DequeueKinds, EnqueueKinds
    <3> QED BY <1>1, <2>1, <3>1, <3>2, <3>3
  <2>2. CASE kind[c] \notin DequeueKinds
    <3>1. enqueues' = Append(enqueues, c) /\ dequeues' = dequeues
      BY <2>2 DEF Stash, DequeueKinds
    <3>2. /\ enqueues' \in Seq(Calls) /\ Distinct(enqueues)'
          /\ \A d : d \in Elems(enqueues)' <=> d \in Elems(enqueues) \/ d = c
      BY <1>1, <1>3, <1>i, <3>1, AppendElems DEF PlaceInv
    <3>3. Distinct(dequeues)' /\ kind[c] \in EnqueueKinds
      BY <1>1, <1>i, <2>2, <3>1 DEF PlaceInv, DequeueKinds, EnqueueKinds, AllKinds, Batches, Closes
    <3> QED BY <1>1, <2>2, <3>1, <3>2, <3>3
  <2> QED BY <2>1, <2>2
<1>5. /\ requested' \in [Calls -> Nat] /\ requested'[c] = size[c]
      /\ \A d \in Calls : d # c => requested'[d] = requested[d]
  BY <1>1 DEF Stash
<1>6. isCancelled' = isCancelled /\ UNCHANGED <<kind, size, cleanUp, status, answered>>
  BY DEF Stash, callVars
<1>7. /\ \A d \in Calls : d # c => (Pending(d)' <=> Pending(d))
      /\ \A t \in Threads : \A d \in Calls : InCleanUp(t, d)' <=> InCleanUp(t, d)
  BY <1>4, <1>6 DEF Pending, InCleanUp
<1>8. /\ pc'[c] = "flush" /\ \A d \in Calls : d # c => pc'[d] = pc[d]
  BY <1>i, TwoThreads DEF Go, TypeOK
<1>9. SizeInv'
  <2>1. ASSUME NEW d \in Calls PROVE requested'[d] <= size'[d]
    <3>1. requested[d] <= size[d] /\ size'[d] = size[d] /\ size[d] \in Nat
      BY <1>1, <1>6, <1>i DEF SizeInv
    <3> QED BY <1>5, <3>1
  <2>2. \A d \in Calls : kind'[d] \notin Batches => size'[d] = 1
    BY <1>6, <1>i DEF SizeInv
  <2> QED BY <2>1, <2>2 DEF SizeInv
<1>10. PlaceInv'
  <2>1. \A t \in Threads : Distinct(cleanUp[t])'
    BY <1>6, <1>i DEF PlaceInv
  <2>2. \A t \in Threads : \A d \in Calls :
           InCleanUp(t, d)' => ~ Pending(d)' /\ kind'[d] # "close_cancel"
    BY <1>2, <1>6, <1>7, <1>i DEF PlaceInv
  <2>3. \A t, u \in Threads : \A d \in Calls : InCleanUp(t, d)' /\ InCleanUp(u, d)' => t = u
    BY <1>7, <1>i DEF PlaceInv
  <2>4. /\ \A d \in Elems(enqueues)' : kind'[d] \in EnqueueKinds
        /\ \A d \in Elems(dequeues)' : kind'[d] \in DequeueKinds
    BY <1>4, <1>6, <1>i DEF PlaceInv
  <2> QED BY <1>4, <2>1, <2>2, <2>3, <2>4 DEF PlaceInv
<1>11. \A d \in Calls : d # c => Frame(d)
  BY <1>5, <1>6, <1>7, <1>8 DEF Frame
<1>12. Stage(c)'
  <2>1. \A t \in Threads : ~ InCleanUp(t, c)'
    BY <1>2, <1>7
  <2> QED BY <2>1, <1>2, <1>5, <1>6, <1>8 DEF Stage
<1>13. CallInv'
  BY <1>6, <1>i, <1>11, <1>12, OneCallMoves
<1> QED BY <1>4, <1>5, <1>9, <1>10, <1>13

\* The first attempt of a side is popped.
LEMMA PopFacts ==
    ASSUME CoreInv, side # "end", Attempts # <<>>, Pop, UNCHANGED kind
    PROVE  /\ Head(Attempts) \in Calls /\ Pending(Head(Attempts))
           /\ enqueues' \in Seq(Calls) /\ dequeues' \in Seq(Calls)
           /\ Distinct(enqueues)' /\ Distinct(dequeues)'
           /\ \A d : d \in Elems(enqueues)' <=> d \in Elems(enqueues) /\ d # Head(Attempts)
           /\ \A d : d \in Elems(dequeues)' <=> d \in Elems(dequeues) /\ d # Head(Attempts)
<1>i. /\ PlaceInv /\ enqueues \in Seq(Calls) /\ dequeues \in Seq(Calls)
      /\ side \in {"enqueue", "dequeue", "end"}
  BY DEF CoreInv, TypeOK
<1>1. \A d : ~ (d \in Elems(enqueues) /\ d \in Elems(dequeues))
  BY <1>i DEF PlaceInv, EnqueueKinds, DequeueKinds
<1>2. CASE side = "enqueue"
  <2>1. Attempts = enqueues /\ enqueues' = Tail(enqueues) /\ dequeues' = dequeues
    BY <1>2 DEF Attempts, Pop
  <2>2. /\ Head(enqueues) \in Calls /\ Head(enqueues) \in Elems(enqueues)
        /\ Tail(enqueues) \in Seq(Calls) /\ Distinct(Tail(enqueues))
        /\ \A d : d \in Elems(Tail(enqueues)) <=> d \in Elems(enqueues) /\ d # Head(enqueues)
    BY <1>i, <2>1, TailElems DEF PlaceInv
  <2>3. Distinct(dequeues)' /\ Elems(dequeues)' = Elems(dequeues)
    BY <1>i, <2>1 DEF PlaceInv
  <2> QED BY <1>i, <1>1, <2>1, <2>2, <2>3 DEF Pending
<1>3. CASE side = "dequeue"
  <2>1. Attempts = dequeues /\ dequeues' = Tail(dequeues) /\ enqueues' = enqueues
    BY <1>3 DEF Attempts, Pop
  <2>2. /\ Head(dequeues) \in Calls /\ Head(dequeues) \in Elems(dequeues)
        /\ Tail(dequeues) \in Seq(Calls) /\ Distinct(Tail(dequeues))
        /\ \A d : d \in Elems(Tail(dequeues)) <=> d \in Elems(dequeues) /\ d # Head(dequeues)
    BY <1>i, <2>1, TailElems DEF PlaceInv
  <2>3. Distinct(enqueues)' /\ Elems(enqueues)' = Elems(enqueues)
    BY <1>i, <2>1 DEF PlaceInv
  <2> QED BY <1>i, <1>1, <2>1, <2>2, <2>3 DEF Pending
<1> QED BY <1>i, <1>2, <1>3

\* An attempt is complete: it moves to the clean_up of the thread that holds mu_.
LEMMA CompleteCore ==
    ASSUME CoreInv, NEW t \in Threads, side # "end", Attempts # <<>>, NEW c, c = Head(Attempts),
           c \notin isCancelled, NEW result, result # "none", Complete(t, c, result),
           UNCHANGED <<kind, size, pc>>,
           \A d \in Calls : requested'[d] <= size[d] /\ (d # c => requested'[d] = requested[d])
    PROVE  /\ SizeInv' /\ PlaceInv' /\ CallInv'
           /\ enqueues' \in Seq(Calls) /\ dequeues' \in Seq(Calls)
           /\ cleanUp' \in [Threads -> Seq(Calls)]
<1>i. TypeOK /\ SizeInv /\ PlaceInv /\ CallInv
  BY DEF CoreInv
<1>1. /\ Pop /\ cleanUp' = [cleanUp EXCEPT ![t] = Append(@, c)]
      /\ status' = [status EXCEPT ![c] = result] /\ UNCHANGED <<isCancelled, answered>>
  BY DEF Complete
<1>2. /\ c \in Calls /\ Pending(c)
      /\ enqueues' \in Seq(Calls) /\ dequeues' \in Seq(Calls)
      /\ Distinct(enqueues)' /\ Distinct(dequeues)'
      /\ \A d : d \in Elems(enqueues)' <=> d \in Elems(enqueues) /\ d # c
      /\ \A d : d \in Elems(dequeues)' <=> d \in Elems(dequeues) /\ d # c
  BY <1>1, PopFacts
<1>3. \A d \in Calls : Pending(d)' <=> Pending(d) /\ d # c
  BY <1>2 DEF Pending
<1>4. \A u \in Threads : ~ InCleanUp(u, c)
  BY <1>2, <1>i DEF PlaceInv
<1>5. /\ cleanUp' \in [Threads -> Seq(Calls)]
      /\ \A u \in Threads : Distinct(cleanUp[u])'
      /\ \A u \in Threads : \A d \in Calls : InCleanUp(u, d)' <=> InCleanUp(u, d) \/ (u = t /\ d = c)
  <2>1. cleanUp \in [Threads -> Seq(Calls)]
    BY <1>i DEF TypeOK
  <2>2. cleanUp[t] \in Seq(Calls) /\ Distinct(cleanUp[t]) /\ c \notin Elems(cleanUp[t])
    BY <1>4, <1>i, <2>1 DEF PlaceInv, InCleanUp
  <2> DEFINE q == Append(cleanUp[t], c)
  <2>3. /\ q \in Seq(Calls) /\ Distinct(q)
        /\ \A d : d \in Elems(q) <=> d \in Elems(cleanUp[t]) \/ d = c
    BY <1>2, <2>2, AppendElems
  <2>4. /\ cleanUp'[t] = q
        /\ \A u \in Threads : u # t => cleanUp'[u] = cleanUp[u]
    BY <1>1, <2>1
  <2>5. cleanUp' = [cleanUp EXCEPT ![t] = q]
    BY <1>1
  <2> HIDE DEF q
  <2>6. cleanUp' \in [Threads -> Seq(Calls)]
    BY <2>1, <2>3, <2>5
  <2>7. \A u \in Threads : Distinct(cleanUp'[u])
    BY <1>i, <2>3, <2>4 DEF PlaceInv
  <2>8. \A u \in Threads : \A d \in Calls :
           d \in Elems(cleanUp'[u]) <=> d \in Elems(cleanUp[u]) \/ (u = t /\ d = c)
    BY <2>3, <2>4
  <2> QED BY <2>6, <2>7, <2>8 DEF InCleanUp
<1>6. kind[c] # "close_cancel"
  BY <1>2, <1>i DEF PlaceInv, Pending, EnqueueKinds, DequeueKinds
<1>7. SizeInv'
  BY <1>i DEF SizeInv
<1>8. PlaceInv'
  <2>1. /\ \A u \in Threads : \A d \in Calls :
              InCleanUp(u, d)' => ~ Pending(d)' /\ kind'[d] # "close_cancel"
        /\ \A u, v \in Threads : \A d \in Calls : InCleanUp(u, d)' /\ InCleanUp(v, d)' => u = v
    BY <1>3, <1>4, <1>5, <1>6, <1>i DEF PlaceInv
  <2>2. /\ \A d \in Elems(enqueues)' : kind'[d] \in EnqueueKinds
        /\ \A d \in Elems(dequeues)' : kind'[d] \in DequeueKinds
    BY <1>2, <1>i DEF PlaceInv
  <2> QED BY <1>2, <1>5, <2>1, <2>2 DEF PlaceInv
<1>9. /\ status'[c] = result /\ answered'[c] = answered[c]
      /\ \A d \in Calls : d # c => status'[d] = status[d] /\ answered'[d] = answered[d]
  BY <1>1, <1>2, <1>i DEF TypeOK
<1>10. \A d \in Calls : d # c => Frame(d)
  BY <1>1, <1>3, <1>5, <1>9 DEF Frame
<1>11. Stage(c)'
  <2>1. /\ pc[c] # "idle" /\ status[c] = "none" /\ answered[c] = 0
    BY <1>2, <1>i DEF CallInv, Stage
  <2> QED BY <1>1, <1>2, <1>3, <1>6, <1>9, <2>1 DEF Stage
<1>12. CallInv'
  BY <1>i, <1>10, <1>11, OneCallMoves
<1> QED BY <1>2, <1>5, <1>7, <1>8, <1>12

\* A cancelled attempt is dropped: its call is over.
LEMMA SkipCore ==
    ASSUME CoreInv, NEW t \in Threads, SkipCancelled(t), UNCHANGED <<kind, size, pc>>
    PROVE  /\ SizeInv' /\ PlaceInv' /\ CallInv'
           /\ enqueues' \in Seq(Calls) /\ dequeues' \in Seq(Calls)
<1>i. TypeOK /\ SizeInv /\ PlaceInv /\ CallInv
  BY DEF CoreInv
<1>0. PICK c : c = Head(Attempts)
  OBVIOUS
<1>1. /\ side # "end" /\ Attempts # <<>> /\ c \in isCancelled /\ Pop
      /\ UNCHANGED <<isCancelled, requested, cleanUp, status, answered>>
  BY <1>0 DEF SkipCancelled, callVars
<1>2. /\ c \in Calls /\ Pending(c)
      /\ enqueues' \in Seq(Calls) /\ dequeues' \in Seq(Calls)
      /\ Distinct(enqueues)' /\ Distinct(dequeues)'
      /\ \A d : d \in Elems(enqueues)' <=> d \in Elems(enqueues) /\ d # c
      /\ \A d : d \in Elems(dequeues)' <=> d \in Elems(dequeues) /\ d # c
  BY <1>0, <1>1, PopFacts
<1>3. /\ \A d \in Calls : Pending(d)' <=> Pending(d) /\ d # c
      /\ \A u \in Threads : \A d \in Calls : InCleanUp(u, d)' <=> InCleanUp(u, d)
  BY <1>1, <1>2 DEF Pending, InCleanUp
<1>4. SizeInv'
  BY <1>1, <1>i DEF SizeInv
<1>5. PlaceInv'
  <2>1. /\ \A u \in Threads : \A d \in Calls :
              InCleanUp(u, d)' => ~ Pending(d)' /\ kind'[d] # "close_cancel"
        /\ \A u, v \in Threads : \A d \in Calls : InCleanUp(u, d)' /\ InCleanUp(v, d)' => u = v
    BY <1>3, <1>i DEF PlaceInv
  <2>2. /\ \A d \in Elems(enqueues)' : kind'[d] \in EnqueueKinds
        /\ \A d \in Elems(dequeues)' : kind'[d] \in DequeueKinds
    BY <1>2, <1>i DEF PlaceInv
  <2>3. \A u \in Threads : Distinct(cleanUp[u])'
    BY <1>1, <1>i DEF PlaceInv
  <2> QED BY <1>2, <2>1, <2>2, <2>3 DEF PlaceInv
<1>6. \A d \in Calls : d # c => Frame(d)
  BY <1>1, <1>3 DEF Frame
<1>7. Stage(c)'
  BY <1>1, <1>2, <1>3, <1>i DEF CallInv, Stage
<1>8. CallInv'
  BY <1>i, <1>6, <1>7, OneCallMoves
<1> QED BY <1>2, <1>4, <1>5, <1>8

\* An attempt makes some progress and stays in front.
LEMMA StayCore ==
    ASSUME CoreInv, NEW p, Stay(p), UNCHANGED <<kind, size, pc>>,
           \A d \in Calls : /\ requested'[d] <= size[d]
                            /\ requested[d] > 0 => requested'[d] > 0
                            /\ requested[d] = 0 => requested'[d] = 0
    PROVE  SizeInv' /\ PlaceInv' /\ CallInv'
<1>i. TypeOK /\ SizeInv /\ PlaceInv /\ CallInv
  BY DEF CoreInv
<1>1. UNCHANGED <<enqueues, dequeues, isCancelled, cleanUp, status, answered>>
  BY DEF Stay
<1>2. SizeInv'
  BY <1>i DEF SizeInv
<1>3. PlaceInv'
  BY <1>1, <1>i DEF PlaceInv, Pending, InCleanUp
<1>4. /\ \A d \in Calls : Pending(d)' <=> Pending(d)
      /\ \A u \in Threads : \A d \in Calls : InCleanUp(u, d)' <=> InCleanUp(u, d)
  BY <1>1 DEF Pending, InCleanUp
<1>5. ASSUME NEW d \in Calls PROVE Stage(d)'
  <2>1. Stage(d)
    BY <1>i DEF CallInv
  <2> QED BY <1>1, <1>4, <2>1 DEF Stage
<1> QED BY <1>2, <1>3, <1>5 DEF CallInv

\* A completed call is called back by the thread that completed it.
LEMMA CleanUpCore ==
    ASSUME CoreInv, NEW t \in Threads, CleanUp(t)
    PROVE  /\ SizeInv' /\ PlaceInv' /\ CallInv'
           /\ cleanUp' \in [Threads -> Seq(Calls)] /\ answered' \in [Calls -> Nat]
<1>i. TypeOK /\ SizeInv /\ PlaceInv /\ CallInv
  BY DEF CoreInv
<1>0. PICK c : c = Head(cleanUp[t])
  OBVIOUS
<1>1. /\ cleanUp[t] # <<>> /\ answered' = [answered EXCEPT ![c] = @ + 1]
      /\ cleanUp' = [cleanUp EXCEPT ![t] = Tail(@)]
      /\ UNCHANGED <<kind, size, enqueues, dequeues, requested, isCancelled, pc, status>>
  BY <1>0 DEF CleanUp, attemptVars
<1>2. /\ cleanUp \in [Threads -> Seq(Calls)] /\ answered \in [Calls -> Nat]
  BY <1>i DEF TypeOK
<1>3. /\ Tail(cleanUp[t]) \in Seq(Calls) /\ c \in Calls /\ c \in Elems(cleanUp[t])
      /\ \A y : y \in Elems(Tail(cleanUp[t])) <=> y \in Elems(cleanUp[t]) /\ y # c
      /\ Distinct(Tail(cleanUp[t]))
  BY <1>0, <1>1, <1>2, <1>i, TailElems DEF PlaceInv
<1>4. cleanUp' \in [Threads -> Seq(Calls)]
  BY <1>1, <1>2, <1>3
<1>5. /\ cleanUp'[t] = Tail(cleanUp[t])
      /\ \A u \in Threads : u # t => cleanUp'[u] = cleanUp[u]
  BY <1>1, <1>2
<1>6. /\ answered' \in [Calls -> Nat] /\ answered'[c] = answered[c] + 1
      /\ \A d \in Calls : d # c => answered'[d] = answered[d]
  BY <1>1, <1>2, <1>3
<1>7. \A d \in Calls : Pending(d)' <=> Pending(d)
  BY <1>1 DEF Pending
<1>8. InCleanUp(t, c) /\ \A u \in Threads : InCleanUp(u, c) => u = t
  BY <1>3, <1>i DEF PlaceInv, InCleanUp
<1>9. /\ \A u \in Threads : \A d \in Calls : InCleanUp(u, d)' <=> InCleanUp(u, d) /\ d # c
  BY <1>3, <1>5, <1>8 DEF InCleanUp
<1>10. SizeInv'
  BY <1>1, <1>i DEF SizeInv
<1>11. PlaceInv'
  <2>1. \A u \in Threads : Distinct(cleanUp'[u])
    BY <1>3, <1>5, <1>i DEF PlaceInv
  <2>2. /\ \A u \in Threads : \A d \in Calls :
              InCleanUp(u, d)' => ~ Pending(d)' /\ kind'[d] # "close_cancel"
        /\ \A u, v \in Threads : \A d \in Calls : InCleanUp(u, d)' /\ InCleanUp(v, d)' => u = v
    BY <1>1, <1>7, <1>9, <1>i DEF PlaceInv
  <2>3. /\ Distinct(enqueues)' /\ Distinct(dequeues)'
        /\ \A d \in Elems(enqueues)' : kind'[d] \in EnqueueKinds
        /\ \A d \in Elems(dequeues)' : kind'[d] \in DequeueKinds
    BY <1>1, <1>i DEF PlaceInv
  <2> QED BY <2>1, <2>2, <2>3 DEF PlaceInv
<1>12. \A d \in Calls : d # c => Frame(d)
  BY <1>1, <1>6, <1>7, <1>9 DEF Frame
<1>13. Stage(c)'
  <2>1. /\ Stage(c) /\ ~ Pending(c) /\ kind[c] # "close_cancel" /\ answered[c] = 0
        /\ c \notin isCancelled /\ pc[c] # "idle"
    BY <1>3, <1>8, <1>i DEF CallInv, Stage, PlaceInv
  <2> QED BY <1>1, <1>3, <1>6, <1>7, <1>9, <2>1 DEF Stage
<1>14. CallInv'
  BY <1>1, <1>i, <1>12, <1>13, OneCallMoves
<1> QED BY <1>4, <1>6, <1>10, <1>11, <1>14

\* A call that was never stashed is answered, and over.
LEMMA AnswerCore ==
    ASSUME CoreInv, NEW c \in Calls, pc[c] = "idle" \/ (kind[c] = "close_cancel" /\ pc[c] # "done"),
           NEW result, Answer(c, result), Go(c, "done"),
           UNCHANGED <<kind, size, enqueues, dequeues, requested, isCancelled, cleanUp>>
    PROVE  SizeInv' /\ PlaceInv' /\ CallInv' /\ answered' \in [Calls -> Nat]
<1>i. TypeOK /\ SizeInv /\ PlaceInv /\ CallInv
  BY DEF CoreInv
<1>1. /\ answered' \in [Calls -> Nat] /\ answered'[c] = answered[c] + 1
      /\ \A d \in Calls : d # c => answered'[d] = answered[d] /\ status'[d] = status[d]
  BY <1>i DEF Answer, TypeOK
<1>2. /\ pc'[c] = "done" /\ \A d \in Calls : d # c => pc'[d] = pc[d]
  BY <1>i, TwoThreads DEF Go, TypeOK
<1>3. /\ \A d \in Calls : Pending(d)' <=> Pending(d)
      /\ \A u \in Threads : \A d \in Calls : InCleanUp(u, d)' <=> InCleanUp(u, d)
  BY DEF Pending, InCleanUp
<1>4. SizeInv' /\ PlaceInv'
  BY <1>i DEF SizeInv, PlaceInv, Pending, InCleanUp
<1>5. \A d \in Calls : d # c => Frame(d)
  BY <1>1, <1>2, <1>3 DEF Frame
<1>6. Stage(c)'
  <2>1. /\ ~ Pending(c) /\ answered[c] = 0 /\ \A t \in Threads : ~ InCleanUp(t, c)
    BY <1>i DEF CallInv, Stage, PlaceInv, Pending, EnqueueKinds, DequeueKinds
  <2>2. \A t \in Threads : ~ InCleanUp(t, c)'
    BY <1>3, <2>1
  <2> QED BY <1>1, <1>2, <1>3, <2>1, <2>2 DEF Stage
<1>7. CallInv'
  BY <1>i, <1>5, <1>6, OneCallMoves
<1> QED BY <1>1, <1>4, <1>7

\* Whether an attempt is in one of the deques.
LEMMA IsPendingMeans ==
    ASSUME TypeOK, NEW c
    PROVE  IsPending(c) <=> Pending(c)
<1> DEFINE q == enqueues \o dequeues
<1>1. enqueues \in Seq(Calls) /\ dequeues \in Seq(Calls)
  BY DEF TypeOK
<1>2. /\ q \in Seq(Calls) /\ Len(q) = Len(enqueues) + Len(dequeues)
      /\ \A i \in 1..(Len(enqueues) + Len(dequeues)) :
            q[i] = IF i <= Len(enqueues) THEN enqueues[i] ELSE dequeues[i - Len(enqueues)]
  BY <1>1, ConcatProperties
<1>3. IsPending(c) <=> \E i \in DOMAIN q : q[i] = c
  BY DEF IsPending
<1> HIDE DEF q
<1>4. DOMAIN q = 1..Len(q) /\ Len(enqueues) \in Nat /\ Len(dequeues) \in Nat
  BY <1>1, <1>2
<1>5. ASSUME NEW i \in DOMAIN q PROVE Pending(q[i])
  <2>1. CASE i <= Len(enqueues)
    <3>1. i \in 1..Len(enqueues) /\ q[i] = enqueues[i]
      BY <1>2, <1>4, <2>1
    <3> QED BY <3>1 DEF Pending, Elems
  <2>2. CASE ~ (i <= Len(enqueues))
    <3>1. i - Len(enqueues) \in 1..Len(dequeues) /\ q[i] = dequeues[i - Len(enqueues)]
      BY <1>2, <1>4, <2>2
    <3> QED BY <3>1 DEF Pending, Elems
  <2> QED BY <2>1, <2>2
<1>6. \A i \in 1..Len(enqueues) : i \in DOMAIN q /\ q[i] = enqueues[i]
  BY <1>2, <1>4
<1>7. ASSUME NEW i \in 1..Len(dequeues)
      PROVE  i + Len(enqueues) \in DOMAIN q /\ q[i + Len(enqueues)] = dequeues[i]
  <2>1. /\ i + Len(enqueues) \in 1..(Len(enqueues) + Len(dequeues))
        /\ ~ (i + Len(enqueues) <= Len(enqueues)) /\ (i + Len(enqueues)) - Len(enqueues) = i
    BY <1>4
  <2> QED BY <1>2, <1>4, <2>1
<1>8. Pending(c) => \E i \in DOMAIN q : q[i] = c
  <2>1. ASSUME c \in Elems(enqueues) PROVE \E i \in DOMAIN q : q[i] = c
    BY <1>6, <2>1 DEF Elems
  <2>2. ASSUME c \in Elems(dequeues) PROVE \E i \in DOMAIN q : q[i] = c
    BY <1>7, <2>2 DEF Elems
  <2> QED BY <2>1, <2>2 DEF Pending
<1> QED BY <1>3, <1>5, <1>8

\* Pending attempts are marked as cancelled and called back.
LEMMA MarkCore ==
    ASSUME CoreInv, NEW D, \A d \in D : d \in Calls /\ Pending(d) /\ d \notin isCancelled,
           UNCHANGED <<kind, size, enqueues, dequeues, requested, cleanUp>>,
           \A d : d \in isCancelled' <=> d \in isCancelled \/ d \in D,
           \A d \in Calls : /\ status'[d] = IF d \in D THEN "cancelled" ELSE status[d]
                            /\ answered'[d] = IF d \in D THEN answered[d] + 1 ELSE answered[d],
           \A u \in Threads : /\ pc'[u] = "idle" => pc[u] = "idle"
                              /\ pc[u] = "done" => pc'[u] = "done"
    PROVE  SizeInv' /\ PlaceInv' /\ CallInv'
<1>i. TypeOK /\ SizeInv /\ PlaceInv /\ CallInv
  BY DEF CoreInv
<1>1. SizeInv' /\ PlaceInv'
  BY <1>i DEF SizeInv, PlaceInv, Pending, InCleanUp
<1>2. /\ \A d \in Calls : Pending(d)' <=> Pending(d)
      /\ \A u \in Threads : \A d \in Calls : InCleanUp(u, d)' <=> InCleanUp(u, d)
  BY DEF Pending, InCleanUp
<1>3. ASSUME NEW d \in Calls PROVE Stage(d)'
  <2>1. Stage(d) /\ d \in Threads
    BY <1>i, TwoThreads DEF CallInv
  <2>2. CASE d \notin D
    BY <1>2, <2>1, <2>2 DEF Stage
  <2>3. CASE d \in D
    <3>1. /\ Pending(d) /\ d \notin isCancelled /\ answered[d] = 0 /\ status[d] = "none"
          /\ requested[d] > 0 /\ pc[d] # "idle" /\ kind[d] # "close_cancel"
          /\ \A u \in Threads : ~ InCleanUp(u, d)
      BY <2>1, <2>3, <1>i DEF Stage, PlaceInv, Pending, EnqueueKinds, DequeueKinds
    <3>2. \A u \in Threads : ~ InCleanUp(u, d)'
      BY <1>2, <3>1
    <3> QED BY <1>2, <2>1, <2>3, <3>1, <3>2 DEF Stage
  <2> QED BY <2>2, <2>3
<1> QED BY <1>1, <1>3 DEF CallInv

-----------------------------------------------------------------------------
(* Every action keeps CoreInv *)

\* Who holds mu_ when a thread that does not hold it moves elsewhere.
LEMMA LockFrame ==
    ASSUME TypeOK, LockInv, NEW t \in Threads, pc[t] # "locked",
           NEW place \in Places \ {"locked"}, Go(t, place), UNCHANGED holder
    PROVE  LockInv'
<1>1. \A u \in Threads : pc'[u] = IF u = t THEN place ELSE pc[u]
  BY DEF Go, TypeOK
<1> QED BY <1>1 DEF LockInv

\* The managers' states when a call moves.
LEMMA ManagerFrame ==
    ASSUME TypeOK, ManagerInv, NEW c \in Calls, NEW place \in Places \ {"callbacks"},
           Go(c, place), UNCHANGED cmState
    PROVE  ManagerInv'
<1>1. \A u \in Threads : pc'[u] = IF u = c THEN place ELSE pc[u]
  BY DEF Go, TypeOK
<1> QED BY <1>1, TwoThreads DEF ManagerInv

\* A call is registered and stashed, or cancelled at once.
LEMMA TryStep ==
    ASSUME CoreInv, NEW c \in Calls, Try(c)
    PROVE  CoreInv'
<1>i. TypeOK /\ SizeInv /\ PlaceInv /\ CallInv /\ LockInv /\ ManagerInv
  BY DEF CoreInv
<1>1. /\ pc[c] = "idle" /\ kind[c] \notin Closes /\ size[c] > 0 /\ c \in Threads
      /\ UNCHANGED <<kind, size, manager, holder, side, changed, cleanUp, arrived, left>>
  BY TwoThreads DEF Try
<1>2. CASE /\ RegisterCallback(manager[c], c) /\ Stash(c) /\ Go(c, "flush")
           /\ UNCHANGED callVars
  <2>1. /\ SizeInv' /\ PlaceInv' /\ CallInv'
        /\ enqueues' \in Seq(Calls) /\ dequeues' \in Seq(Calls)
        /\ requested' \in [Calls -> Nat]
    BY <1>1, <1>2, StashCore DEF Closes
  <2>2. pc' \in [Threads -> Places]
    BY <1>1, <1>2, <1>i, GoFacts DEF Places
  <2>3. CancellationTypeOK' /\ UNCHANGED cmState
    BY <1>2, <1>i DEF RegisterCallback, CancellationTypeOK, TypeOK
  <2>4. TypeOK'
    BY <1>1, <1>2, <1>i, <2>1, <2>2, <2>3, ElementsFrame DEF TypeOK, Stash, callVars, Places
  <2>5. LockInv'
    BY <1>1, <1>2, <1>i, LockFrame DEF Places
  <2>6. ManagerInv'
    BY <1>2, <1>i, <2>3, ManagerFrame DEF Places
  <2> QED BY <2>1, <2>4, <2>5, <2>6 DEF CoreInv
<1>3. CASE Answer(c, "cancelled") /\ Go(c, "done") /\ UNCHANGED <<attemptVars, cmVars>>
  <2>1. SizeInv' /\ PlaceInv' /\ CallInv' /\ answered' \in [Calls -> Nat]
    BY <1>1, <1>3, AnswerCore DEF attemptVars
  <2>2. pc' \in [Threads -> Places]
    BY <1>1, <1>3, <1>i, GoFacts DEF Places
  <2>3. TypeOK'
    BY <1>1, <1>3, <1>i, <2>1, <2>2, ElementsFrame
       DEF TypeOK, Answer, attemptVars, cmVars, Places, CancellationTypeOK
  <2>5. LockInv'
    BY <1>1, <1>3, <1>i, LockFrame DEF Places
  <2>6. ManagerInv'
    BY <1>3, <1>i, ManagerFrame DEF Places, cmVars
  <2> QED BY <2>1, <2>3, <2>5, <2>6 DEF CoreInv
<1> QED BY <1>2, <1>3 DEF Try

\* A batch of nothing is answered.
LEMMA TryNothingStep ==
    ASSUME CoreInv, NEW c \in Calls, TryNothing(c)
    PROVE  CoreInv'
<1>i. TypeOK /\ SizeInv /\ PlaceInv /\ CallInv /\ LockInv /\ ManagerInv
  BY DEF CoreInv
<1>1. /\ pc[c] = "idle" /\ Answer(c, "ok") /\ Go(c, "done") /\ c \in Threads
      /\ UNCHANGED <<kind, size, manager, queue, closed, enqueues, dequeues, requested, held,
                     isCancelled, holder, side, changed, cleanUp, arrived, left, cmVars>>
  BY TwoThreads DEF TryNothing, attemptVars
<1>2. SizeInv' /\ PlaceInv' /\ CallInv' /\ answered' \in [Calls -> Nat]
  BY <1>1, AnswerCore
<1>3. pc' \in [Threads -> Places]
  BY <1>1, <1>i, GoFacts DEF Places
<1>4. TypeOK'
  BY <1>1, <1>2, <1>3, <1>i, ElementsFrame DEF TypeOK, Answer, cmVars, Places, CancellationTypeOK
<1>5. LockInv' /\ ManagerInv'
  BY <1>1, <1>i, LockFrame, ManagerFrame DEF Places, cmVars
<1> QED BY <1>2, <1>4, <1>5 DEF CoreInv

\* A Close is stashed.
LEMMA CloseStep ==
    ASSUME CoreInv, NEW c \in Calls, Close(c)
    PROVE  CoreInv'
<1>i. TypeOK /\ SizeInv /\ PlaceInv /\ CallInv /\ LockInv /\ ManagerInv
  BY DEF CoreInv
<1>1. /\ pc[c] = "idle" /\ kind[c] = "close" /\ Stash(c) /\ Go(c, "flush") /\ c \in Threads
      /\ UNCHANGED <<kind, size, manager, holder, side, changed, cleanUp, callVars, arrived,
                     left, cmVars>>
  BY TwoThreads DEF Close
<1>2. size[c] = 1
  BY <1>1, <1>i DEF SizeInv, Batches
<1>3. /\ SizeInv' /\ PlaceInv' /\ CallInv'
      /\ enqueues' \in Seq(Calls) /\ dequeues' \in Seq(Calls)
      /\ requested' \in [Calls -> Nat]
  BY <1>1, <1>2, StashCore
<1>4. pc' \in [Threads -> Places]
  BY <1>1, <1>i, GoFacts DEF Places
<1>5. TypeOK'
  BY <1>1, <1>i, <1>3, <1>4, ElementsFrame
     DEF TypeOK, Stash, callVars, cmVars, Places, CancellationTypeOK
<1>6. LockInv' /\ ManagerInv'
  BY <1>1, <1>i, LockFrame, ManagerFrame DEF Places, cmVars
<1> QED BY <1>3, <1>5, <1>6 DEF CoreInv

\* Every pending enqueue is marked and called back.
LEMMA CloseAndCancelStep ==
    ASSUME CoreInv, NEW c \in Calls, CloseAndCancel(c)
    PROVE  CoreInv'
<1>i. TypeOK /\ SizeInv /\ PlaceInv /\ CallInv /\ LockInv /\ ManagerInv
  BY DEF CoreInv
<1>0. PICK D : D = {d \in Calls : \E i \in DOMAIN enqueues : enqueues[i] = d} \ isCancelled
  OBVIOUS
<1>1. /\ pc[c] = "idle" /\ kind[c] = "close_cancel" /\ Go(c, "flush") /\ c \in Threads
      /\ closed' = TRUE /\ isCancelled' = isCancelled \cup D
      /\ status' = [d \in Calls |-> IF d \in D THEN "cancelled" ELSE status[d]]
      /\ answered' = [d \in Calls |-> IF d \in D THEN answered[d] + 1 ELSE answered[d]]
      /\ UNCHANGED <<kind, size, manager, queue, enqueues, dequeues, requested, held,
                     holder, side, changed, cleanUp, got, arrived, left, cmVars>>
  BY <1>0, TwoThreads DEF CloseAndCancel
<1>2. \A d \in D : d \in Calls /\ Pending(d) /\ d \notin isCancelled
  <2>1. enqueues \in Seq(Calls)
    BY <1>i DEF TypeOK
  <2> QED BY <1>0, <2>1, ElemsType DEF Pending
<1>3. /\ pc' \in [Threads -> Places]
      /\ \A u \in Threads : /\ pc'[u] = "idle" => pc[u] = "idle"
                            /\ pc[u] = "done" => pc'[u] = "done"
  BY <1>1, <1>i, GoFacts DEF Places
<1>4. SizeInv' /\ PlaceInv' /\ CallInv'
  BY <1>1, <1>2, <1>3, MarkCore
<1>5. /\ isCancelled' \subseteq Calls
      /\ status' \in [Calls -> {"none", "ok", "cancelled", "closed", "out_of_range"}]
      /\ answered' \in [Calls -> Nat]
  BY <1>1, <1>2, <1>i DEF TypeOK
<1>6. TypeOK'
  BY <1>1, <1>i, <1>3, <1>5, ElementsFrame DEF TypeOK, cmVars, Places, CancellationTypeOK
<1>7. LockInv' /\ ManagerInv'
  BY <1>1, <1>i, LockFrame, ManagerFrame DEF Places, cmVars
<1> QED BY <1>4, <1>6, <1>7 DEF CoreInv

\* A thread gets mu_.
LEMMA LockStep ==
    ASSUME CoreInv, NEW t \in Threads, Lock(t)
    PROVE  CoreInv'
<1>i. TypeOK /\ SizeInv /\ PlaceInv /\ CallInv /\ LockInv /\ ManagerInv
  BY DEF CoreInv
<1>1. /\ pc[t] = "flush" /\ holder = Free /\ holder' = t /\ side' = "enqueue" /\ changed' = FALSE
      /\ Go(t, "locked")
      /\ UNCHANGED <<kind, size, manager, queue, closed, enqueues, dequeues, requested, held,
                     isCancelled, cleanUp, callVars, arrived, left, cmVars>>
  BY DEF Lock, attemptVars
<1>2. /\ pc' \in [Threads -> Places]
      /\ \A u \in Threads : pc'[u] = IF u = t THEN "locked" ELSE pc[u]
      /\ \A u \in Threads : /\ pc'[u] = "idle" => pc[u] = "idle"
                            /\ pc[u] = "done" => pc'[u] = "done"
  BY <1>1, <1>i, GoFacts DEF Places
<1>3. SizeInv' /\ PlaceInv' /\ CallInv'
  BY <1>1, <1>2, QuietCore DEF callVars
<1>4. TypeOK'
  BY <1>1, <1>2, <1>i, ElementsFrame DEF TypeOK, callVars, cmVars, Places, CancellationTypeOK
<1>5. LockInv'
  BY <1>1, <1>2, <1>i, TwoThreads DEF LockInv
<1>6. ManagerInv'
  BY <1>1, <1>2, <1>i, TwoThreads DEF ManagerInv, cmVars
<1> QED BY <1>3, <1>4, <1>5, <1>6 DEF CoreInv

\* A round ends, and mu_ is kept or released.
LEMMA RoundEndsStep ==
    ASSUME CoreInv, NEW t \in Threads, RoundEnds(t)
    PROVE  CoreInv'
<1>i. TypeOK /\ SizeInv /\ PlaceInv /\ CallInv /\ LockInv /\ ManagerInv
  BY DEF CoreInv
<1>1. /\ holder = t /\ pc[t] = "locked"
      /\ UNCHANGED <<kind, size, manager, queue, closed, enqueues, dequeues, requested, held,
                     isCancelled, cleanUp, callVars, arrived, left, cmVars>>
  BY <1>i DEF RoundEnds, attemptVars, LockInv
<1>2. CASE side' = "enqueue" /\ changed' = FALSE /\ UNCHANGED <<holder, pc>>
  <2>1. SizeInv' /\ PlaceInv' /\ CallInv'
    BY <1>1, <1>2, QuietCore DEF callVars
  <2>2. TypeOK'
    BY <1>1, <1>2, <1>i, ElementsFrame DEF TypeOK, callVars, cmVars, CancellationTypeOK
  <2>3. LockInv' /\ ManagerInv'
    BY <1>1, <1>2, <1>i DEF LockInv, ManagerInv, cmVars
  <2> QED BY <2>1, <2>2, <2>3 DEF CoreInv
<1>3. CASE holder' = Free /\ Go(t, "clean") /\ UNCHANGED <<side, changed>>
  <2>1. /\ pc' \in [Threads -> Places]
        /\ \A u \in Threads : pc'[u] = IF u = t THEN "clean" ELSE pc[u]
        /\ \A u \in Threads : /\ pc'[u] = "idle" => pc[u] = "idle"
                              /\ pc[u] = "done" => pc'[u] = "done"
    BY <1>1, <1>3, <1>i, GoFacts DEF Places
  <2>2. SizeInv' /\ PlaceInv' /\ CallInv'
    BY <1>1, <2>1, QuietCore DEF callVars
  <2>3. TypeOK'
    BY <1>1, <1>3, <1>i, <2>1, ElementsFrame DEF TypeOK, callVars, cmVars, Places, CancellationTypeOK
  <2>4. LockInv'
    BY <1>1, <1>3, <1>i, <2>1, TwoThreads DEF LockInv
  <2>5. ManagerInv'
    BY <1>1, <1>i, <2>1, TwoThreads DEF ManagerInv, cmVars
  <2> QED BY <2>2, <2>3, <2>4, <2>5 DEF CoreInv
<1> QED BY <1>2, <1>3 DEF RoundEnds

\* A completed call is deregistered and called back.
LEMMA CleanUpStep ==
    ASSUME CoreInv, NEW t \in Threads, CleanUp(t)
    PROVE  CoreInv'
<1>i. TypeOK /\ SizeInv /\ PlaceInv /\ CallInv /\ LockInv /\ ManagerInv
  BY DEF CoreInv
<1>1. /\ SizeInv' /\ PlaceInv' /\ CallInv'
      /\ cleanUp' \in [Threads -> Seq(Calls)] /\ answered' \in [Calls -> Nat]
  BY CleanUpCore
<1>2. /\ UNCHANGED <<kind, size, manager, queue, closed, enqueues, dequeues, requested, held,
                     isCancelled, holder, side, changed, pc, status, got, arrived, left>>
  BY DEF CleanUp, attemptVars
<1>5. CancellationTypeOK' /\ cmState' = cmState
  <2>1. UNCHANGED cmVars \/ \E m, c : DeregisterCallback(m, c)
    BY DEF CleanUp
  <2>2. CASE UNCHANGED cmVars
    BY <1>i, <2>2 DEF cmVars, TypeOK, CancellationTypeOK
  <2>3. ASSUME NEW m, NEW c, DeregisterCallback(m, c) PROVE CancellationTypeOK' /\ cmState' = cmState
    <3>1. /\ callbacks' = [callbacks EXCEPT ![m] = IF cmState[m] = "open" THEN @ \ {c} ELSE @]
          /\ UNCHANGED <<cmState, running>> /\ CancellationTypeOK
      BY <1>i, <2>3 DEF DeregisterCallback, TypeOK
    <3>2. callbacks' \in [Managers -> SUBSET Calls]
      BY <3>1 DEF CancellationTypeOK
    <3> QED BY <3>1, <3>2 DEF CancellationTypeOK
  <2> QED BY <2>1, <2>2, <2>3
<1>3. TypeOK'
  BY <1>1, <1>2, <1>5, <1>i, ElementsFrame DEF TypeOK
<1>4. LockInv' /\ ManagerInv'
  BY <1>2, <1>5, <1>i DEF LockInv, ManagerInv
<1> QED BY <1>1, <1>3, <1>4 DEF CoreInv

\* FlushUnlocked returns.
LEMMA ReturnStep ==
    ASSUME CoreInv, NEW t \in Threads, Return(t)
    PROVE  CoreInv'
<1>i. TypeOK /\ SizeInv /\ PlaceInv /\ CallInv /\ LockInv /\ ManagerInv
  BY DEF CoreInv
<1>1. /\ pc[t] = "clean"
      /\ UNCHANGED <<kind, size, manager, queue, closed, enqueues, dequeues, requested, held,
                     isCancelled, holder, side, changed, cleanUp, arrived, left, cmVars>>
  BY DEF Return, attemptVars
<1>2. PICK place \in {"callbacks", "done"} :
         Go(t, place) /\ (t \in Managers <=> place = "callbacks")
  BY DEF Return
<1>3. /\ pc' \in [Threads -> Places]
      /\ \A u \in Threads : pc'[u] = IF u = t THEN place ELSE pc[u]
      /\ \A u \in Threads : /\ pc'[u] = "idle" => pc[u] = "idle"
                            /\ pc[u] = "done" => pc'[u] = "done"
  BY <1>1, <1>2, <1>i, GoFacts DEF Places
<1>4. LockInv'
  BY <1>1, <1>2, <1>3, <1>i DEF LockInv
<1>5. ManagerInv'
  BY <1>1, <1>2, <1>3, <1>i, TwoThreads DEF ManagerInv, cmVars
<1>6. CASE t \in Calls /\ kind[t] = "close_cancel"
  <2>1. Answer(t, "ok") /\ Go(t, "done")
    BY <1>2, <1>6, TwoThreads DEF Return
  <2>2. SizeInv' /\ PlaceInv' /\ CallInv' /\ answered' \in [Calls -> Nat]
    BY <1>1, <1>6, <2>1, AnswerCore
  <2>3. TypeOK'
    BY <1>1, <1>3, <1>i, <2>1, <2>2, ElementsFrame
       DEF TypeOK, Answer, cmVars, Places, CancellationTypeOK
  <2> QED BY <1>4, <1>5, <2>2, <2>3 DEF CoreInv
<1>7. CASE ~ (t \in Calls /\ kind[t] = "close_cancel")
  <2>1. UNCHANGED callVars
    BY <1>7 DEF Return
  <2>2. SizeInv' /\ PlaceInv' /\ CallInv'
    BY <1>1, <1>3, <2>1, QuietCore DEF callVars
  <2>3. TypeOK'
    BY <1>1, <1>3, <1>i, <2>1, ElementsFrame DEF TypeOK, callVars, cmVars, Places, CancellationTypeOK
  <2> QED BY <1>4, <1>5, <2>2, <2>3 DEF CoreInv
<1> QED BY <1>6, <1>7

\* A step is cancelled.
LEMMA StartCancelStep ==
    ASSUME CoreInv, NEW m \in Managers, StartCancel(m)
    PROVE  CoreInv'
<1>i. TypeOK /\ SizeInv /\ PlaceInv /\ CallInv /\ LockInv /\ ManagerInv
  BY DEF CoreInv
<1>1. /\ pc[m] = "idle" /\ BeginCancel(m) /\ Go(m, "callbacks") /\ m \in Threads
      /\ UNCHANGED <<kind, size, manager, queue, closed, enqueues, dequeues, requested, held,
                     isCancelled, holder, side, changed, cleanUp, callVars, arrived, left>>
  BY TwoThreads DEF StartCancel, attemptVars
<1>2. /\ pc' \in [Threads -> Places]
      /\ \A u \in Threads : pc'[u] = IF u = m THEN "callbacks" ELSE pc[u]
      /\ \A u \in Threads : /\ pc'[u] = "idle" => pc[u] = "idle"
                            /\ pc[u] = "done" => pc'[u] = "done"
  BY <1>1, <1>i, GoFacts DEF Places
<1>3. SizeInv' /\ PlaceInv' /\ CallInv'
  BY <1>1, <1>2, QuietCore DEF callVars
<1>4. /\ CancellationTypeOK' /\ cmState'[m] = "cancelling"
      /\ \A n \in Managers : n # m => cmState'[n] = cmState[n]
  BY <1>1, <1>i DEF BeginCancel, TypeOK, CancellationTypeOK
<1>5. TypeOK'
  BY <1>1, <1>2, <1>4, <1>i, ElementsFrame DEF TypeOK, callVars, Places
<1>6. LockInv'
  BY <1>1, <1>2, <1>i DEF LockInv
<1>7. ManagerInv'
  BY <1>1, <1>2, <1>4, <1>i, TwoThreads DEF ManagerInv
<1> QED BY <1>3, <1>5, <1>6, <1>7 DEF CoreInv

\* The callback of one call runs.
LEMMA CancelStep ==
    ASSUME CoreInv, NEW m \in Managers, Cancel(m)
    PROVE  CoreInv'
<1>i. TypeOK /\ SizeInv /\ PlaceInv /\ CallInv /\ LockInv /\ ManagerInv
  BY DEF CoreInv
<1>1. /\ pc[m] = "callbacks" /\ m \in Threads
      /\ UNCHANGED <<kind, size, manager, queue, closed, enqueues, dequeues, requested, held,
                     holder, side, changed, cleanUp, arrived, left>>
  BY TwoThreads DEF Cancel
<1>2. PICK c \in running[m] :
         /\ NextCallback(m, c)
         /\ IF Cancels(c)
              THEN /\ isCancelled' = isCancelled \cup {c}
                   /\ Answer(c, "cancelled")
                   /\ Go(m, "flush")
              ELSE UNCHANGED <<isCancelled, callVars, pc>>
  BY DEF Cancel
<1>3. CancellationTypeOK' /\ cmState' = cmState /\ c \in Calls
  BY <1>2, <1>i DEF NextCallback, TypeOK, CancellationTypeOK
<1>4. CASE Cancels(c)
  <2>1. Pending(c) /\ c \notin isCancelled
    BY <1>4, <1>i, IsPendingMeans DEF Cancels
  <2>2. /\ isCancelled' = isCancelled \cup {c} /\ Answer(c, "cancelled") /\ Go(m, "flush")
    BY <1>2, <1>4
  <2>3. /\ pc' \in [Threads -> Places]
        /\ \A u \in Threads : pc'[u] = IF u = m THEN "flush" ELSE pc[u]
        /\ \A u \in Threads : /\ pc'[u] = "idle" => pc[u] = "idle"
                              /\ pc[u] = "done" => pc'[u] = "done"
    BY <1>1, <1>i, <2>2, GoFacts DEF Places
  <2>4. /\ answered' \in [Calls -> Nat]
        /\ status' \in [Calls -> {"none", "ok", "cancelled", "closed", "out_of_range"}]
        /\ \A d \in Calls : /\ status'[d] = IF d \in {c} THEN "cancelled" ELSE status[d]
                            /\ answered'[d] = IF d \in {c} THEN answered[d] + 1 ELSE answered[d]
        /\ got' = got
    BY <1>3, <1>i, <2>2 DEF Answer, TypeOK
  <2>5. SizeInv' /\ PlaceInv' /\ CallInv'
    BY <1>1, <1>3, <2>1, <2>2, <2>3, <2>4, MarkCore
  <2>6. TypeOK'
    BY <1>1, <1>3, <1>i, <2>2, <2>3, <2>4, ElementsFrame DEF TypeOK, Places
  <2>7. LockInv'
    BY <1>1, <1>i, <2>3 DEF LockInv
  <2>8. ManagerInv'
    BY <1>1, <1>3, <1>i, <2>3, TwoThreads DEF ManagerInv
  <2> QED BY <2>5, <2>6, <2>7, <2>8 DEF CoreInv
<1>5. CASE ~ Cancels(c)
  <2>1. UNCHANGED <<isCancelled, callVars, pc>>
    BY <1>2, <1>5
  <2>2. SizeInv' /\ PlaceInv' /\ CallInv'
    BY <1>1, <2>1, QuietCore DEF callVars
  <2>3. TypeOK'
    BY <1>1, <1>3, <1>i, <2>1, ElementsFrame DEF TypeOK, callVars
  <2>4. LockInv' /\ ManagerInv'
    BY <1>1, <1>3, <1>i, <2>1 DEF LockInv, ManagerInv
  <2> QED BY <2>2, <2>3, <2>4 DEF CoreInv
<1> QED BY <1>4, <1>5

\* All callbacks have run.
LEMMA CancelledStep ==
    ASSUME CoreInv, NEW m \in Managers, Cancelled(m)
    PROVE  CoreInv'
<1>i. TypeOK /\ SizeInv /\ PlaceInv /\ CallInv /\ LockInv /\ ManagerInv
  BY DEF CoreInv
<1>1. /\ pc[m] = "callbacks" /\ EndCancel(m) /\ Go(m, "done") /\ m \in Threads
      /\ UNCHANGED <<kind, size, manager, queue, closed, enqueues, dequeues, requested, held,
                     isCancelled, holder, side, changed, cleanUp, callVars, arrived, left>>
  BY TwoThreads DEF Cancelled, attemptVars
<1>2. /\ pc' \in [Threads -> Places]
      /\ \A u \in Threads : pc'[u] = IF u = m THEN "done" ELSE pc[u]
      /\ \A u \in Threads : /\ pc'[u] = "idle" => pc[u] = "idle"
                            /\ pc[u] = "done" => pc'[u] = "done"
  BY <1>1, <1>i, GoFacts DEF Places
<1>3. SizeInv' /\ PlaceInv' /\ CallInv'
  BY <1>1, <1>2, QuietCore DEF callVars
<1>4. /\ CancellationTypeOK' /\ cmState'[m] = "cancelled"
      /\ \A n \in Managers : n # m => cmState'[n] = cmState[n]
  BY <1>1, <1>i DEF EndCancel, TypeOK, CancellationTypeOK
<1>5. TypeOK'
  BY <1>1, <1>2, <1>4, <1>i, ElementsFrame DEF TypeOK, callVars, Places
<1>6. LockInv'
  BY <1>1, <1>2, <1>i DEF LockInv
<1>7. ManagerInv'
  BY <1>1, <1>2, <1>4, <1>i, TwoThreads DEF ManagerInv
<1> QED BY <1>3, <1>5, <1>6, <1>7 DEF CoreInv

\* The next elements of a batch.
LEMMA SliceFacts ==
    ASSUME TypeOK, SizeInv, NEW c \in Calls, NEW n \in 0..requested[c]
    PROVE  /\ Slice(c, n) \in Seq(Elements) /\ Len(Slice(c, n)) = n
           /\ \A i \in 1..n : Slice(c, n)[i] = <<c, size[c] - requested[c] + i>>
<1>1. size[c] \in Nat /\ requested[c] \in Nat /\ requested[c] <= size[c]
  BY SizeType DEF SizeInv
<1>2. \A i \in 1..n : <<c, size[c] - requested[c] + i>> \in Elements
  <2> SUFFICES ASSUME NEW i \in 1..n
               PROVE  <<c, size[c] - requested[c] + i>> \in Elements
    OBVIOUS
  <2>1. size[c] - requested[c] + i \in 1..size[c] /\ size[c] - requested[c] + i \in Nat
    BY <1>1
  <2> QED BY <2>1 DEF Elements
<1>3. n \in Nat
  BY <1>1
<1> QED BY <1>2, <1>3 DEF Slice

\* The room and the part of a batch that fits into it.
LEMMA RoomFacts ==
    ASSUME TypeOK, ~ closed
    PROVE  /\ Room \in Nat /\ Capacity \in Nat /\ Len(queue) \in Nat
           /\ \A c \in Calls : Least(Room, requested[c]) \in 0..requested[c]
           /\ \A c \in Calls : Least(Room, requested[c]) <= Room
           /\ \A c \in Calls : Least(Room, requested[c]) # requested[c] =>
                 Least(Room, requested[c]) = Room
<1>1. Len(queue) \in Nat /\ Len(queue) <= Capacity /\ Capacity \in Nat
  BY CapacityAssumption DEF TypeOK
<1>2. Room \in Nat
  BY <1>1 DEF Room
<1>3. \A c \in Calls : requested[c] \in Nat
  BY SizeType
<1> QED BY <1>1, <1>2, <1>3 DEF Least

\* One turn of TryAttemptLocked on an enqueue.
LEMMA RunEnqueueStep ==
    ASSUME CoreInv, NEW t \in Threads, RunEnqueue(t),
           UNCHANGED <<kind, size, manager, holder, pc, cmVars>>
    PROVE  CoreInv'
<1>i. TypeOK /\ SizeInv /\ PlaceInv /\ CallInv /\ LockInv /\ ManagerInv
  BY DEF CoreInv
<1>0. PICK c : c = Head(enqueues)
  OBVIOUS
<1>1. /\ side = "enqueue" /\ enqueues # <<>> /\ c \notin isCancelled /\ UNCHANGED <<held, got, left>>
      /\ side # "end" /\ Attempts = enqueues
  BY <1>0 DEF RunEnqueue, Attempts
<1>2. c \in Calls /\ Attempts # <<>> /\ c = Head(Attempts) /\ c \in Elems(enqueues)
      /\ enqueues \in Seq(Calls)
  BY <1>0, <1>1, <1>i, ElemsType DEF TypeOK
<1>3. \A d \in Calls : size[d] \in Nat /\ requested[d] \in Nat /\ requested[d] <= size[d]
  BY <1>i, SizeType DEF SizeInv
<1>4. LockInv' /\ ManagerInv'
  BY <1>i DEF LockInv, ManagerInv, cmVars
<1>5. CASE /\ Complete(t, c, "closed") \/ (closed' = TRUE /\ Complete(t, c, "ok"))
           /\ closed' = closed \/ closed' = TRUE
           /\ UNCHANGED <<queue, requested, arrived>>
  <2>1. PICK result \in {"ok", "closed"} : Complete(t, c, result)
    BY <1>5
  <2>2. /\ SizeInv' /\ PlaceInv' /\ CallInv'
        /\ enqueues' \in Seq(Calls) /\ dequeues' \in Seq(Calls)
        /\ cleanUp' \in [Threads -> Seq(Calls)]
    BY <1>1, <1>2, <1>3, <1>5, <2>1, CompleteCore
  <2>3. /\ changed' = TRUE /\ status' = [status EXCEPT ![c] = result]
        /\ UNCHANGED <<side, isCancelled, answered>>
    BY <2>1 DEF Complete
  <2>4. closed' \in BOOLEAN /\ (~ closed' => ~ closed)
    BY <1>5, <1>i, Zenon DEF TypeOK
  <2>5. TypeOK'
    BY <1>1, <1>2, <1>5, <1>i, <2>2, <2>3, <2>4, ElementsFrame DEF TypeOK, cmVars, CancellationTypeOK
  <2> QED BY <1>4, <2>2, <2>5 DEF CoreInv
<1>6. ASSUME NEW n, n = Least(Room, requested[c]), ~ closed,
             queue' = queue \o Slice(c, n), arrived' = arrived \o Slice(c, n),
             requested' = [requested EXCEPT ![c] = @ - n],
             IF n = requested[c] THEN Complete(t, c, "ok") ELSE Stay(n > 0),
             UNCHANGED closed
      PROVE  CoreInv'
  <2>1. /\ Room \in Nat /\ n \in 0..requested[c] /\ n <= Room /\ Room = Capacity - Len(queue)
        /\ Capacity \in Nat /\ Len(queue) \in Nat
    BY <1>2, <1>6, <1>i, RoomFacts DEF Room
  <2>2. Slice(c, n) \in Seq(Elements) /\ Len(Slice(c, n)) = n
    BY <1>2, <1>i, <2>1, SliceFacts
  <2>3. queue \in Seq(Elements) /\ arrived \in Seq(Elements)
    BY <1>i DEF TypeOK
  <2>4. /\ queue' \in Seq(Elements) /\ arrived' \in Seq(Elements)
        /\ Len(queue') = Len(queue) + n
    BY <1>6, <2>2, <2>3, ConcatProperties
  <2>5. Len(queue') <= Capacity
    BY <2>1, <2>4
  <2>6. /\ requested' \in [Calls -> Nat] /\ requested'[c] = requested[c] - n
        /\ \A d \in Calls : requested'[d] <= size[d] /\ (d # c => requested'[d] = requested[d])
    <3>0. requested \in [Calls -> Nat]
      BY <1>i DEF TypeOK
    <3>1. requested[c] - n \in Nat /\ requested[c] - n <= size[c]
      BY <1>2, <1>3, <2>1
    <3>2. requested' \in [Calls -> Nat] /\ requested'[c] = requested[c] - n
          /\ \A d \in Calls : d # c => requested'[d] = requested[d]
      BY <1>2, <1>6, <3>0, <3>1
    <3> QED BY <1>3, <3>1, <3>2
  <2>7. CASE n = requested[c]
    <3>1. Complete(t, c, "ok")
      BY <1>6, <2>7
    <3>2. /\ SizeInv' /\ PlaceInv' /\ CallInv'
          /\ enqueues' \in Seq(Calls) /\ dequeues' \in Seq(Calls)
          /\ cleanUp' \in [Threads -> Seq(Calls)]
      BY <1>1, <1>2, <2>6, <3>1, CompleteCore
    <3>3. /\ changed' = TRUE /\ status' = [status EXCEPT ![c] = "ok"]
          /\ UNCHANGED <<side, isCancelled, answered>>
      BY <3>1 DEF Complete
    <3>4. TypeOK'
      BY <1>1, <1>2, <1>6, <1>i, <2>4, <2>5, <2>6, <3>2, <3>3, ElementsFrame
         DEF TypeOK, cmVars, CancellationTypeOK
    <3> QED BY <1>4, <3>2, <3>4 DEF CoreInv
  <2>8. CASE n # requested[c]
    <3>1. Stay(n > 0)
      BY <1>6, <2>8
    <3>2. requested'[c] > 0
      BY <1>2, <1>3, <2>1, <2>6, <2>8
    <3>3. \A d \in Calls : /\ requested'[d] <= size[d]
                           /\ requested[d] > 0 => requested'[d] > 0
                           /\ requested[d] = 0 => requested'[d] = 0
      BY <1>2, <1>3, <2>1, <2>6, <2>8, <3>2
    <3>4. SizeInv' /\ PlaceInv' /\ CallInv'
      BY <3>1, <3>3, StayCore
    <3>5. /\ side' \in {"enqueue", "dequeue", "end"}
          /\ UNCHANGED <<enqueues, dequeues, isCancelled, cleanUp, status, got, answered, left>>
      BY <3>1 DEF Stay, OtherSide
    <3>6. changed' \in BOOLEAN
      BY <3>1, Zenon DEF Stay
    <3>7. TypeOK'
      BY <1>1, <1>2, <1>6, <1>i, <2>4, <2>5, <2>6, <3>5, <3>6, ElementsFrame
         DEF TypeOK, cmVars, CancellationTypeOK
    <3> QED BY <1>4, <3>4, <3>7 DEF CoreInv
  <2> QED BY <2>7, <2>8
<1> QED BY <1>0, <1>5, <1>6 DEF RunEnqueue

\* A dequeue is complete, with or without elements.
LEMMA DequeuedStep ==
    ASSUME CoreInv, NEW t \in Threads, side = "dequeue", dequeues # <<>>, NEW c, c = Head(dequeues),
           c \notin isCancelled, NEW result \in {"ok", "out_of_range"}, Complete(t, c, result),
           UNCHANGED <<kind, size, manager, holder, pc, cmVars, closed, arrived>>,
           queue' \in Seq(Elements), ~ closed => Len(queue') <= Len(queue),
           got' \in [Calls -> Seq(Elements)], left' \in Seq(Elements),
           held' = [held EXCEPT ![c] = <<>>], requested' \in [Calls -> Nat],
           \A d \in Calls : requested'[d] <= size[d] /\ (d # c => requested'[d] = requested[d])
    PROVE  CoreInv'
<1>i. TypeOK /\ SizeInv /\ PlaceInv /\ CallInv /\ LockInv /\ ManagerInv
  BY DEF CoreInv
<1>1. c \in Calls /\ side # "end" /\ Attempts # <<>> /\ c = Head(Attempts)
  BY <1>i DEF TypeOK, Attempts
<1>2. /\ SizeInv' /\ PlaceInv' /\ CallInv'
      /\ enqueues' \in Seq(Calls) /\ dequeues' \in Seq(Calls)
      /\ cleanUp' \in [Threads -> Seq(Calls)]
  BY <1>1, CompleteCore
<1>3. /\ changed' = TRUE /\ status' = [status EXCEPT ![c] = result]
      /\ UNCHANGED <<side, isCancelled, answered>>
  BY DEF Complete
<1>4. held' \in [Calls -> Seq(Elements)]
  <2>1. <<>> \in Seq(Elements) /\ held \in [Calls -> Seq(Elements)]
    BY <1>i DEF TypeOK
  <2> QED BY <2>1
<1>5. ~ closed' => Len(queue') <= Capacity
  <2>0. queue \in Seq(Elements)
    BY <1>i DEF TypeOK
  <2>1. Len(queue) \in Nat /\ Len(queue') \in Nat /\ Capacity \in Nat
    BY <2>0, CapacityAssumption, ElementsFrame
  <2>2. ~ closed => Len(queue) <= Capacity
    BY <1>i DEF TypeOK
  <2> QED BY <2>1, <2>2
<1>6. TypeOK'
  BY <1>1, <1>2, <1>3, <1>4, <1>5, <1>i, ElementsFrame DEF TypeOK, cmVars, CancellationTypeOK
<1>7. LockInv' /\ ManagerInv'
  BY <1>i DEF LockInv, ManagerInv, cmVars
<1> QED BY <1>2, <1>6, <1>7 DEF CoreInv

\* A dequeue stays in front.
LEMMA DequeueStaysStep ==
    ASSUME CoreInv, NEW p, Stay(p),
           UNCHANGED <<kind, size, manager, holder, pc, cmVars, closed, arrived>>,
           queue' \in Seq(Elements), Len(queue') <= Len(queue),
           held' \in [Calls -> Seq(Elements)], requested' \in [Calls -> Nat],
           \A d \in Calls : /\ requested'[d] <= size[d]
                            /\ requested[d] > 0 => requested'[d] > 0
                            /\ requested[d] = 0 => requested'[d] = 0
    PROVE  CoreInv'
<1>i. TypeOK /\ SizeInv /\ PlaceInv /\ CallInv /\ LockInv /\ ManagerInv
  BY DEF CoreInv
<1>1. SizeInv' /\ PlaceInv' /\ CallInv'
  BY StayCore
<1>2. /\ side' \in {"enqueue", "dequeue", "end"}
      /\ UNCHANGED <<enqueues, dequeues, isCancelled, cleanUp, status, got, answered, left>>
  BY DEF Stay, OtherSide
<1>3. changed' \in BOOLEAN
  BY Zenon DEF Stay
<1>4. ~ closed' => Len(queue') <= Capacity
  <2>1. Len(queue) \in Nat /\ Len(queue') \in Nat /\ Capacity \in Nat
    BY <1>i, CapacityAssumption DEF TypeOK
  <2>2. ~ closed => Len(queue) <= Capacity
    BY <1>i DEF TypeOK
  <2> QED BY <2>1, <2>2
<1>5. TypeOK'
  BY <1>2, <1>3, <1>4, <1>i, ElementsFrame DEF TypeOK, cmVars, CancellationTypeOK
<1>6. LockInv' /\ ManagerInv'
  BY <1>i DEF LockInv, ManagerInv, cmVars
<1> QED BY <1>1, <1>5, <1>6 DEF CoreInv

\* What an attempt of a dequeue works with.
LEMMA DequeueFacts ==
    ASSUME CoreInv, dequeues # <<>>, NEW c, c = Head(dequeues)
    PROVE  /\ c \in Calls /\ c \in Elems(dequeues) /\ Pending(c)
           /\ held[c] \in Seq(Elements) /\ Restored(c) \in Seq(Elements)
           /\ Len(queue) \in Nat /\ requested[c] \in Nat \ {0} /\ size[c] \in Nat
           /\ Least(Len(queue), requested[c]) \in 0..Len(queue)
           /\ Least(Len(queue), requested[c]) \in 0..requested[c]
           /\ Least(Len(queue), requested[c]) # requested[c] =>
                 Least(Len(queue), requested[c]) = Len(queue) /\ Len(queue) < requested[c]
           /\ \A d \in Calls : size[d] \in Nat /\ requested[d] \in Nat /\ requested[d] <= size[d]
<1>1. TypeOK /\ SizeInv /\ CallInv /\ dequeues \in Seq(Calls) /\ queue \in Seq(Elements)
  BY DEF CoreInv, TypeOK
<1>2. c \in Calls /\ c \in Elems(dequeues)
  BY <1>1, ElemsType
<1>3. held[c] \in Seq(Elements) /\ Restored(c) \in Seq(Elements)
  BY <1>1, <1>2, ConcatProperties DEF TypeOK, Restored
<1>4. \A d \in Calls : size[d] \in Nat /\ requested[d] \in Nat /\ requested[d] <= size[d]
  BY <1>1, SizeType DEF SizeInv
<1>5. Pending(c) /\ requested[c] > 0
  BY <1>1, <1>2 DEF CallInv, Stage, Pending
<1>6. Len(queue) \in Nat /\ requested[c] \in Nat \ {0}
  BY <1>1, <1>2, <1>4, <1>5
<1> QED BY <1>2, <1>3, <1>4, <1>5, <1>6 DEF Least

\* One turn of TryAttemptLocked on a dequeue.
LEMMA RunDequeueStep ==
    ASSUME CoreInv, NEW t \in Threads, RunDequeue(t),
           UNCHANGED <<kind, size, manager, holder, pc, cmVars>>
    PROVE  CoreInv'
<1>i. TypeOK /\ SizeInv /\ PlaceInv /\ CallInv /\ LockInv /\ ManagerInv
  BY DEF CoreInv
<1>0. PICK c, n : c = Head(dequeues) /\ n = Least(Len(queue), requested[c])
  OBVIOUS
<1>1. /\ side = "dequeue" /\ dequeues # <<>> /\ c \notin isCancelled /\ UNCHANGED <<closed, arrived>>
  BY <1>0 DEF RunDequeue
<1>2. /\ c \in Calls /\ held[c] \in Seq(Elements) /\ Restored(c) \in Seq(Elements)
      /\ Len(queue) \in Nat /\ requested[c] \in Nat \ {0} /\ size[c] \in Nat
      /\ n \in 0..Len(queue) /\ n \in 0..requested[c]
      /\ \A d \in Calls : size[d] \in Nat /\ requested[d] \in Nat /\ requested[d] <= size[d]
  BY <1>0, <1>1, DequeueFacts
<1>3. /\ queue \in Seq(Elements) /\ left \in Seq(Elements) /\ got \in [Calls -> Seq(Elements)]
      /\ requested \in [Calls -> Nat] /\ held \in [Calls -> Seq(Elements)]
  BY <1>i DEF TypeOK
<1>4. ASSUME NEW elements \in Seq(Elements), Deliver(t, c, elements)
      PROVE  /\ got' \in [Calls -> Seq(Elements)] /\ left' \in Seq(Elements)
             /\ held' = [held EXCEPT ![c] = <<>>] /\ Complete(t, c, "ok")
  BY <1>2, <1>3, <1>4, ConcatProperties DEF Deliver
<1>5. CASE /\ queue' = <<>> /\ requested' = [requested EXCEPT ![c] = 0] /\ Deliver(t, c, Restored(c))
  <2>1. /\ requested' \in [Calls -> Nat]
        /\ \A d \in Calls : requested'[d] <= size[d] /\ (d # c => requested'[d] = requested[d])
    BY <1>2, <1>3, <1>5
  <2>2. queue' \in Seq(Elements) /\ Len(queue') <= Len(queue)
    BY <1>2, <1>5
  <2> QED BY <1>0, <1>1, <1>2, <1>4, <1>5, <2>1, <2>2, DequeuedStep
<1>6. CASE Stay(TRUE) /\ UNCHANGED <<queue, requested, held>>
  <2>1. \A d \in Calls : /\ requested'[d] <= size[d]
                         /\ requested[d] > 0 => requested'[d] > 0
                         /\ requested[d] = 0 => requested'[d] = 0
    BY <1>2, <1>6
  <2>2. /\ queue' \in Seq(Elements) /\ Len(queue') <= Len(queue)
        /\ held' \in [Calls -> Seq(Elements)] /\ requested' \in [Calls -> Nat]
    BY <1>2, <1>3, <1>6
  <2>3. Stay(TRUE)
    BY <1>6
  <2> QED BY <1>1, <2>1, <2>2, <2>3, DequeueStaysStep
<1>7. CASE /\ closed /\ queue' = Restored(c) /\ held' = [held EXCEPT ![c] = <<>>]
           /\ Complete(t, c, "out_of_range") /\ UNCHANGED <<requested, got, left>>
  BY <1>0, <1>1, <1>2, <1>3, <1>7, DequeuedStep
<1>8. CASE /\ queue' = SubSeq(queue, n + 1, Len(queue))
           /\ requested' = [requested EXCEPT ![c] = @ - n]
           /\ IF n = requested[c]
                THEN Deliver(t, c, held[c] \o SubSeq(queue, 1, n))
                ELSE /\ held' = [held EXCEPT ![c] = @ \o SubSeq(queue, 1, n)]
                     /\ Stay(n > 0)
  <2>1. /\ SubSeq(queue, 1, n) \in Seq(Elements) /\ queue' \in Seq(Elements)
        /\ Len(queue') = Len(queue) - n
    BY <1>2, <1>3, <1>8, Cut
  <2>2. Len(queue') <= Len(queue)
    BY <1>2, <2>1
  <2>3. held[c] \o SubSeq(queue, 1, n) \in Seq(Elements)
    BY <1>2, <2>1, ConcatProperties
  <2>4. /\ requested[c] - n \in Nat /\ requested[c] - n <= size[c]
        /\ n # requested[c] => requested[c] - n > 0
    BY <1>2
  <2>5. /\ requested' \in [Calls -> Nat] /\ requested'[c] = requested[c] - n
        /\ \A d \in Calls : d # c => requested'[d] = requested[d]
    BY <1>2, <1>3, <1>8, <2>4
  <2>6. \A d \in Calls : requested'[d] <= size[d] /\ (d # c => requested'[d] = requested[d])
    BY <1>2, <2>4, <2>5
  <2>7. CASE n = requested[c]
    <3>1. Deliver(t, c, held[c] \o SubSeq(queue, 1, n))
      BY <1>8, <2>7
    <3> QED BY <1>0, <1>1, <1>2, <1>4, <2>1, <2>2, <2>3, <2>5, <2>6, <3>1, DequeuedStep
  <2>8. CASE n # requested[c]
    <3>1. held' = [held EXCEPT ![c] = @ \o SubSeq(queue, 1, n)] /\ Stay(n > 0)
      BY <1>8, <2>8
    <3>2. held' \in [Calls -> Seq(Elements)]
      BY <1>2, <1>3, <2>3, <3>1
    <3>3. \A d \in Calls : /\ requested'[d] <= size[d]
                           /\ requested[d] > 0 => requested'[d] > 0
                           /\ requested[d] = 0 => requested'[d] = 0
      BY <1>2, <2>4, <2>5, <2>6, <2>8
    <3> QED BY <1>1, <2>1, <2>2, <2>5, <3>1, <3>2, <3>3, DequeueStaysStep
  <2> QED BY <2>7, <2>8
<1>9. \/ queue' = <<>> /\ requested' = [requested EXCEPT ![c] = 0] /\ Deliver(t, c, Restored(c))
      \/ Stay(TRUE) /\ UNCHANGED <<queue, requested, held>>
      \/ /\ closed /\ queue' = Restored(c) /\ held' = [held EXCEPT ![c] = <<>>]
         /\ Complete(t, c, "out_of_range") /\ UNCHANGED <<requested, got, left>>
      \/ /\ queue' = SubSeq(queue, n + 1, Len(queue))
         /\ requested' = [requested EXCEPT ![c] = @ - n]
         /\ IF n = requested[c]
              THEN Deliver(t, c, held[c] \o SubSeq(queue, 1, n))
              ELSE /\ held' = [held EXCEPT ![c] = @ \o SubSeq(queue, 1, n)]
                   /\ Stay(n > 0)
  BY <1>0 DEF RunDequeue
<1> QED BY <1>5, <1>6, <1>7, <1>8, <1>9

\* One turn of TryAttemptLocked.
LEMMA TryAttemptStep ==
    ASSUME CoreInv, NEW t \in Threads, TryAttempt(t)
    PROVE  CoreInv'
<1>i. TypeOK /\ SizeInv /\ PlaceInv /\ CallInv /\ LockInv /\ ManagerInv
  BY DEF CoreInv
<1>1. UNCHANGED <<kind, size, manager, holder, pc, cmVars>>
  BY DEF TryAttempt
<1>2. LockInv' /\ ManagerInv'
  BY <1>1, <1>i DEF LockInv, ManagerInv, cmVars
<1>3. CASE SkipCancelled(t)
  <2>1. /\ SizeInv' /\ PlaceInv' /\ CallInv'
        /\ enqueues' \in Seq(Calls) /\ dequeues' \in Seq(Calls)
    BY <1>1, <1>3, SkipCore
  <2>2. Head(Attempts) \in Calls
    BY <1>1, <1>3, PopFacts DEF SkipCancelled
  <2>3. /\ held \in [Calls -> Seq(Elements)] /\ left \in Seq(Elements) /\ <<>> \in Seq(Elements)
    BY <1>i DEF TypeOK
  <2>4. held' \in [Calls -> Seq(Elements)] /\ left' \in Seq(Elements)
    BY <1>3, <2>2, <2>3, ConcatProperties DEF SkipCancelled
  <2>5. TypeOK'
    BY <1>1, <1>3, <1>i, <2>1, <2>4, ElementsFrame
       DEF TypeOK, SkipCancelled, callVars, cmVars, CancellationTypeOK
  <2> QED BY <1>2, <2>1, <2>5 DEF CoreInv
<1>4. CASE NoAttempt
  <2>1. SizeInv' /\ PlaceInv' /\ CallInv'
    BY <1>1, <1>4, QuietCore DEF NoAttempt, attemptVars, callVars
  <2>2. TypeOK'
    BY <1>1, <1>4, <1>i, ElementsFrame
       DEF TypeOK, NoAttempt, OtherSide, attemptVars, callVars, cmVars, CancellationTypeOK
  <2> QED BY <1>2, <2>1, <2>2 DEF CoreInv
<1> QED BY <1>1, <1>3, <1>4, RunEnqueueStep, RunDequeueStep DEF TryAttempt

\* Every step keeps CoreInv.
LEMMA CoreStep ==
    ASSUME CoreInv, [Next]_vars
    PROVE  CoreInv'
<1>1. ASSUME NEW c \in Calls, Try(c) \/ TryNothing(c) \/ Close(c) \/ CloseAndCancel(c)
      PROVE  CoreInv'
  BY <1>1, TryStep, TryNothingStep, CloseStep, CloseAndCancelStep
<1>2. ASSUME NEW t \in Threads, Flush(t) PROVE CoreInv'
  BY <1>2, LockStep, TryAttemptStep, RoundEndsStep, CleanUpStep, ReturnStep DEF Flush
<1>3. ASSUME NEW m \in Managers, StartCancel(m) \/ Cancel(m) \/ Cancelled(m) PROVE CoreInv'
  BY <1>3, StartCancelStep, CancelStep, CancelledStep
<1>4. CASE UNCHANGED vars
  <2>1. UNCHANGED <<kind, size, manager, queue, closed, enqueues, dequeues, requested, held,
                    isCancelled, holder, side, changed, pc, cleanUp, status, got, answered,
                    arrived, left, cmState, callbacks, running>>
    BY <1>4 DEF vars, attemptVars, callVars, cmVars
  <2>2. SizeInv' /\ PlaceInv' /\ CallInv'
    BY <2>1, QuietCore
  <2>3. TypeOK' /\ LockInv' /\ ManagerInv'
    BY <2>1, ElementsFrame DEF CoreInv, TypeOK, CancellationTypeOK, LockInv, ManagerInv
  <2> QED BY <2>2, <2>3 DEF CoreInv
<1> QED BY <1>1, <1>2, <1>3, <1>4 DEF Next

-----------------------------------------------------------------------------
(* The order of the elements *)

\* Sequences of elements, put together.
LEMMA Join ==
    /\ \A p, q \in Seq(Elements) : p \o q \in Seq(Elements)
    /\ \A p \in Seq(Elements) : p \o <<>> = p /\ <<>> \o p = p
    /\ <<>> \in Seq(Elements)
BY Concat3

\* The order in which three of them are put together does not matter.
LEMMA Assoc ==
    \A p, q, r \in Seq(Elements) : (p \o q) \o r = p \o (q \o r)
BY Concat3

\* What the invariant says about the first dequeue.
LEMMA TakenFacts ==
    ASSUME CoreInv, FlowInv
    PROVE  /\ arrived \in Seq(Elements) /\ left \in Seq(Elements) /\ queue \in Seq(Elements)
           /\ held \in [Calls -> Seq(Elements)] /\ Taken \in Seq(Elements)
           /\ enqueues \in Seq(Calls) /\ dequeues \in Seq(Calls)
           /\ dequeues = <<>> => Taken = <<>> /\ \A c \in Calls : held[c] = <<>>
           /\ dequeues # <<>> => /\ Head(dequeues) \in Calls /\ Taken = held[Head(dequeues)]
                                 /\ \A c \in Calls : c # Head(dequeues) => held[c] = <<>>
<1>1. /\ arrived \in Seq(Elements) /\ left \in Seq(Elements) /\ queue \in Seq(Elements)
      /\ held \in [Calls -> Seq(Elements)]
      /\ enqueues \in Seq(Calls) /\ dequeues \in Seq(Calls)
  BY DEF CoreInv, TypeOK
<1>2. dequeues # <<>> => Head(dequeues) \in Calls
  BY <1>1
<1>3. HeldInv
  BY DEF FlowInv
<1>4. Taken \in Seq(Elements)
  BY <1>1, <1>2 DEF Taken
<1> QED BY <1>1, <1>2, <1>3, <1>4 DEF Taken, HeldInv

\* The elements and the dequeues are as before.
LEMMA FlowFrame ==
    ASSUME FlowInv, UNCHANGED <<queue, dequeues, held, arrived, left>>
    PROVE  FlowInv'
BY DEF FlowInv, HeldInv, Taken

\* A new attempt has taken nothing.
LEMMA FlowStash ==
    ASSUME CoreInv, FlowInv, NEW c \in Calls, Stash(c), UNCHANGED <<arrived, left>>
    PROVE  FlowInv'
<1>1. UNCHANGED <<queue, held>> /\ (dequeues' = dequeues \/ dequeues' = Append(dequeues, c))
  BY DEF Stash
<1>2. CASE dequeues' = dequeues
  BY <1>1, <1>2, FlowFrame
<1>3. CASE dequeues' = Append(dequeues, c)
  <2>1. dequeues' # <<>> /\ Head(dequeues') = IF dequeues = <<>> THEN c ELSE Head(dequeues)
    BY <1>3, TakenFacts, AppendElems
  <2>2. Taken' = Taken
    BY <1>1, <2>1, TakenFacts DEF Taken
  <2>3. HeldInv'
    BY <1>1, <2>1, TakenFacts DEF HeldInv
  <2> QED BY <1>1, <2>2, <2>3 DEF FlowInv
<1> QED BY <1>1, <1>2, <1>3

\* The first dequeue is over: what it had taken, with the queue, is what it is given
\* (nothing, when it fails) and the new queue.
LEMMA FlowDequeued ==
    ASSUME CoreInv, FlowInv, dequeues # <<>>, NEW c, c = Head(dequeues),
           NEW elements \in Seq(Elements), queue' \in Seq(Elements), dequeues' \in Seq(Calls),
           elements \o queue' = held[c] \o queue,
           held' = [held EXCEPT ![c] = <<>>], left' = left \o elements, UNCHANGED arrived
    PROVE  FlowInv'
<1>1. /\ c \in Calls /\ held[c] \in Seq(Elements) /\ Taken = held[c]
      /\ left \in Seq(Elements) /\ queue \in Seq(Elements)
      /\ held \in [Calls -> Seq(Elements)]
      /\ \A d \in Calls : d # c => held[d] = <<>>
  BY TakenFacts
<1>2. \A d \in Calls : held'[d] = <<>>
  BY <1>1
<1>3. HeldInv'
  BY <1>2 DEF HeldInv
<1>4. Taken' = <<>>
  <2>1. CASE dequeues' = <<>>
    BY <2>1 DEF Taken
  <2>2. CASE dequeues' # <<>>
    <3>1. Head(dequeues') \in Calls
      BY <2>2
    <3> QED BY <1>2, <2>2, <3>1 DEF Taken
  <2> QED BY <2>1, <2>2
<1>5. left \o Taken \o queue = left \o (held[c] \o queue)
  <2>1. left \in Seq(Elements) /\ held[c] \in Seq(Elements) /\ queue \in Seq(Elements)
    BY <1>1
  <2>2. left \o held[c] \o queue = left \o (held[c] \o queue)
    BY ONLY <2>1, Assoc, Zenon
  <2> QED BY <1>1, <2>2
<1>6. left' \o Taken' \o queue' = left \o (elements \o queue')
  <2>1. left' \in Seq(Elements) /\ left' \o <<>> = left'
    BY <1>1, Join
  <2>2. left' \o Taken' \o queue' = (left \o elements) \o queue'
    BY <1>4, <2>1
  <2>3. (left \o elements) \o queue' = left \o (elements \o queue')
    <3>1. elements \in Seq(Elements) /\ queue' \in Seq(Elements) /\ left \in Seq(Elements)
      BY <1>1
    <3> QED BY ONLY <3>1, Assoc, Zenon
  <2> QED BY <2>2, <2>3
<1> QED BY <1>3, <1>5, <1>6 DEF FlowInv

\* Nothing is taken by an enqueue.
LEMMA EnqueueHoldsNothing ==
    ASSUME CoreInv, FlowInv, NEW c, c \in Elems(enqueues)
    PROVE  c \in Calls /\ held[c] = <<>>
<1>1. enqueues \in Seq(Calls) /\ dequeues \in Seq(Calls)
  BY TakenFacts
<1>2. c \in Calls
  BY <1>1, ElemsType
<1>3. kind[c] \in EnqueueKinds /\ \A d \in Elems(dequeues) : kind[d] \in DequeueKinds
  BY DEF CoreInv, PlaceInv
<1>4. c \notin Elems(dequeues)
  BY <1>3 DEF EnqueueKinds, DequeueKinds
<1>5. dequeues # <<>> => c # Head(dequeues)
  BY <1>1, <1>4, ElemsType
<1> QED BY <1>2, <1>5, TakenFacts

\* A cancelled attempt is dropped.
LEMMA SkipFlow ==
    ASSUME CoreInv, CoreInv', FlowInv, NEW t \in Threads, SkipCancelled(t), UNCHANGED size
    PROVE  FlowInv'
<1>0. PICK c : c = Head(Attempts)
  OBVIOUS
<1>1. /\ side # "end" /\ Attempts # <<>> /\ Pop
      /\ left' = left \o held[c] /\ held' = [held EXCEPT ![c] = <<>>]
      /\ UNCHANGED <<queue, arrived>>
  BY <1>0 DEF SkipCancelled
<1>2. CASE side = "enqueue"
  <2>1. c = Head(enqueues) /\ enqueues # <<>> /\ UNCHANGED dequeues
    BY <1>0, <1>1, <1>2 DEF Attempts, Pop
  <2>2. c \in Elems(enqueues)
    BY <2>1, TakenFacts, ElemsType
  <2>3. held[c] = <<>> /\ c \in Calls
    BY <2>2, EnqueueHoldsNothing
  <2>4. left' = left /\ held' = held
    BY <1>1, <2>3, TakenFacts, Join
  <2> QED BY <1>1, <2>1, <2>4, FlowFrame
<1>3. CASE side # "enqueue"
  <2>1. c = Head(dequeues) /\ dequeues # <<>>
    BY <1>0, <1>1, <1>3 DEF Attempts
  <2>2. dequeues' \in Seq(Calls) /\ queue' \in Seq(Elements) /\ held[c] \in Seq(Elements)
    BY <1>1, <2>1, TakenFacts DEF CoreInv, TypeOK
  <2>3. held[c] \o queue' = held[c] \o queue
    BY <1>1
  <2> QED BY <1>1, <2>1, <2>2, <2>3, FlowDequeued
<1> QED BY <1>2, <1>3

\* Elements arrive at the end of the queue.
LEMMA RunEnqueueFlow ==
    ASSUME CoreInv, FlowInv, NEW t \in Threads, RunEnqueue(t)
    PROVE  FlowInv'
<1>0. PICK c : c = Head(enqueues)
  OBVIOUS
<1>1. /\ side = "enqueue" /\ enqueues # <<>> /\ UNCHANGED <<held, left>>
  BY DEF RunEnqueue
<1>2. UNCHANGED dequeues
  BY <1>1 DEF RunEnqueue, Complete, Pop, Stay
<1>3. CASE UNCHANGED <<queue, arrived>>
  BY <1>1, <1>2, <1>3, FlowFrame
<1>4. ASSUME NEW n, n = Least(Room, requested[c]), ~ closed,
             queue' = queue \o Slice(c, n), arrived' = arrived \o Slice(c, n)
      PROVE  FlowInv'
  <2>1. TypeOK /\ SizeInv
    BY DEF CoreInv
  <2>2. /\ c \in Calls /\ left \in Seq(Elements) /\ Taken \in Seq(Elements) /\ queue \in Seq(Elements)
    BY <1>0, <1>1, TakenFacts
  <2>3. n \in 0..requested[c]
    BY <1>4, <2>1, <2>2, RoomFacts
  <2>4. Slice(c, n) \in Seq(Elements)
    BY <2>1, <2>2, <2>3, SliceFacts
  <2>5. arrived = left \o Taken \o queue
    BY DEF FlowInv
  <2>6. PICK p : p = left \o Taken /\ p \in Seq(Elements)
    BY <2>2, Join
  <2>7. (p \o queue) \o Slice(c, n) = p \o (queue \o Slice(c, n))
    BY ONLY <2>2, <2>4, <2>6, Assoc, Zenon
  <2>8. Taken' = Taken /\ HeldInv'
    BY <1>1, <1>2 DEF Taken, HeldInv, FlowInv
  <2>9. left' \o Taken' = p
    BY <1>1, <2>6, <2>8
  <2> QED BY <1>4, <2>5, <2>6, <2>7, <2>8, <2>9 DEF FlowInv
<1> QED BY <1>0, <1>3, <1>4 DEF RunEnqueue

\* Elements leave, are taken by the first dequeue, or go back.
LEMMA RunDequeueFlow ==
    ASSUME CoreInv, CoreInv', FlowInv, NEW t \in Threads, RunDequeue(t), UNCHANGED size
    PROVE  FlowInv'
<1>0. PICK c, n : c = Head(dequeues) /\ n = Least(Len(queue), requested[c])
  OBVIOUS
<1>1. /\ side = "dequeue" /\ dequeues # <<>> /\ UNCHANGED arrived
      /\ dequeues' \in Seq(Calls) /\ queue' \in Seq(Elements)
  <2>1. dequeues' \in Seq(Calls) /\ queue' \in Seq(Elements')
    BY DEF CoreInv, TypeOK
  <2> QED BY <2>1, ElementsFrame DEF RunDequeue
<1>2. /\ c \in Calls /\ held[c] \in Seq(Elements) /\ Restored(c) \in Seq(Elements)
      /\ Restored(c) = held[c] \o queue
      /\ n \in 0..Len(queue) /\ queue \in Seq(Elements) /\ left \in Seq(Elements)
      /\ held \in [Calls -> Seq(Elements)]
  BY <1>0, <1>1, DequeueFacts, TakenFacts DEF Restored
<1>3. CASE queue' = <<>> /\ Deliver(t, c, Restored(c))
  <2>1. Restored(c) \o queue' = held[c] \o queue
    BY <1>2, <1>3, Join
  <2>2. left' = left \o Restored(c) /\ held' = [held EXCEPT ![c] = <<>>]
    BY <1>3 DEF Deliver
  <2> QED BY <1>0, <1>1, <1>2, <2>1, <2>2, FlowDequeued
<1>4. CASE Stay(TRUE) /\ UNCHANGED <<queue, held>>
  BY <1>1, <1>4, FlowFrame DEF Stay
<1>5. CASE /\ queue' = Restored(c) /\ held' = [held EXCEPT ![c] = <<>>]
           /\ UNCHANGED left
  <2>1. PICK e \in Seq(Elements) : e = <<>>
    BY Join
  <2>2. e \o queue' = held[c] \o queue /\ left' = left \o e
    BY <1>2, <1>5, <2>1, Join
  <2> QED BY <1>0, <1>1, <1>2, <1>5, <2>1, <2>2, FlowDequeued
<1>6. CASE /\ queue' = SubSeq(queue, n + 1, Len(queue))
           /\ IF n = requested[c]
                THEN Deliver(t, c, held[c] \o SubSeq(queue, 1, n))
                ELSE /\ held' = [held EXCEPT ![c] = @ \o SubSeq(queue, 1, n)]
                     /\ Stay(n > 0)
  <2>0. PICK first : first = SubSeq(queue, 1, n)
    OBVIOUS
  <2>1. first \in Seq(Elements) /\ first \o queue' = queue
    <3>1. /\ SubSeq(queue, 1, n) \in Seq(Elements)
          /\ SubSeq(queue, 1, n) \o SubSeq(queue, n + 1, Len(queue)) = queue
      BY <1>2, Cut
    <3> QED BY <1>6, <2>0, <3>1
  <2>2. PICK e : e = held[c] \o first /\ e \in Seq(Elements)
    BY <1>2, <2>1, Join
  <2>3. e \o queue' = held[c] \o queue
    <3>1. held[c] \in Seq(Elements) /\ first \in Seq(Elements) /\ queue' \in Seq(Elements)
      BY <1>1, <1>2, <2>1
    <3>2. (held[c] \o first) \o queue' = held[c] \o (first \o queue')
      BY ONLY <3>1, Assoc, Zenon
    <3> QED BY <2>1, <2>2, <3>2
  <2>4. CASE n = requested[c]
    <3>1. left' = left \o e /\ held' = [held EXCEPT ![c] = <<>>]
      BY <1>6, <2>0, <2>2, <2>4 DEF Deliver
    <3> QED BY <1>0, <1>1, <2>2, <2>3, <3>1, FlowDequeued
  <2>5. CASE n # requested[c]
    <3>1. held' = [held EXCEPT ![c] = e] /\ UNCHANGED <<dequeues, left>>
      BY <1>6, <2>0, <2>2, <2>5 DEF Stay
    <3>2. Taken = held[c] /\ Taken' = e /\ HeldInv'
      BY <1>0, <1>1, <1>2, <3>1, TakenFacts DEF Taken, HeldInv
    <3>3. left \o e \o queue' = left \o (e \o queue')
      <4>1. left \in Seq(Elements) /\ e \in Seq(Elements) /\ queue' \in Seq(Elements)
        BY <1>1, <1>2, <2>2
      <4> QED BY ONLY <4>1, Assoc, Zenon
    <3>4. left \o held[c] \o queue = left \o (held[c] \o queue)
      <4>1. left \in Seq(Elements) /\ held[c] \in Seq(Elements) /\ queue \in Seq(Elements)
        BY <1>1, <1>2
      <4> QED BY ONLY <4>1, Assoc, Zenon
    <3> QED BY <1>1, <2>3, <3>1, <3>2, <3>3, <3>4 DEF FlowInv
  <2> QED BY <2>4, <2>5
<1> QED BY <1>0, <1>3, <1>4, <1>5, <1>6 DEF RunDequeue

\* Every step keeps FlowInv.
LEMMA FlowStep ==
    ASSUME CoreInv, CoreInv', FlowInv, [Next]_vars
    PROVE  FlowInv'
<1>1. ASSUME NEW c \in Calls, Try(c) PROVE FlowInv'
  <2>1. UNCHANGED <<arrived, left>> /\ (Stash(c) \/ UNCHANGED attemptVars)
    BY <1>1 DEF Try
  <2> QED BY <2>1, FlowStash, FlowFrame DEF attemptVars
<1>2. ASSUME NEW c \in Calls, Close(c) PROVE FlowInv'
  BY <1>2, FlowStash DEF Close
<1>3. ASSUME NEW c \in Calls, TryNothing(c) \/ CloseAndCancel(c) PROVE FlowInv'
  BY <1>3, FlowFrame DEF TryNothing, CloseAndCancel, attemptVars
<1>4. ASSUME NEW t \in Threads, Lock(t) \/ RoundEnds(t) \/ CleanUp(t) \/ Return(t) PROVE FlowInv'
  BY <1>4, FlowFrame DEF Lock, RoundEnds, CleanUp, Return, attemptVars
<1>5. ASSUME NEW t \in Threads, TryAttempt(t) PROVE FlowInv'
  <2>1. NoAttempt => FlowInv'
    BY FlowFrame DEF NoAttempt, attemptVars
  <2> QED BY <1>5, <2>1, SkipFlow, RunEnqueueFlow, RunDequeueFlow DEF TryAttempt
<1>6. ASSUME NEW m \in Managers, StartCancel(m) \/ Cancel(m) \/ Cancelled(m) PROVE FlowInv'
  BY <1>6, FlowFrame DEF StartCancel, Cancel, Cancelled, attemptVars
<1>7. CASE UNCHANGED vars
  BY <1>7, FlowFrame DEF vars, attemptVars
<1> QED BY <1>1, <1>2, <1>3, <1>4, <1>5, <1>6, <1>7 DEF Next, Flush

-----------------------------------------------------------------------------
(* The loop of FlushUnlocked *)

\* Somebody is going to flush.
LEMMA WaitFlush ==
    ASSUME holder' = Free, NEW t \in Threads, pc'[t] = "flush"
    PROVE  WaitInv'
BY DEF WaitInv, NeverYields, NobodyWaitsWithoutReason

\* The attempts and the elements are as before, and nobody gives up a flush.
LEMMA WaitFrame ==
    ASSUME WaitInv, UNCHANGED <<queue, closed, enqueues, dequeues, holder, side, changed>>,
           \A t \in Threads : pc[t] = "flush" => pc'[t] = "flush"
    PROVE  WaitInv'
BY DEF WaitInv, NeverYields, NobodyWaitsWithoutReason, EnqueuesWait, DequeuesWait

\* A round begins, or is still among the enqueues.
LEMMA WaitEnqueues ==
    ASSUME holder' # Free, side' = "enqueue"
    PROVE  WaitInv'
BY DEF WaitInv, NeverYields, NobodyWaitsWithoutReason

\* Where a thread goes.
LEMMA Gone ==
    ASSUME CoreInv, NEW t \in Threads, NEW place, Go(t, place)
    PROVE  pc'[t] = place /\ \A u \in Threads : u # t => pc'[u] = pc[u]
BY DEF CoreInv, TypeOK, Go

\* One turn of TryAttemptLocked.
LEMMA TryAttemptWait ==
    ASSUME CoreInv, CoreInv', WaitInv, NEW t \in Threads, TryAttempt(t)
    PROVE  WaitInv'
<1>1. holder = t /\ holder' = t /\ t # Free
  BY TwoThreads DEF TryAttempt
<1>2. CASE SkipCancelled(t)
  <2>1. UNCHANGED <<queue, closed, side, changed>> /\ side # "end" /\ Pop
    BY <1>2 DEF SkipCancelled
  <2>2. CASE side = "enqueue"
    BY <1>1, <2>1, <2>2, WaitEnqueues
  <2>3. CASE side # "enqueue"
    <3>1. UNCHANGED enqueues
      BY <2>1, <2>3 DEF Pop
    <3> QED BY <1>1, <2>1, <3>1
            DEF WaitInv, NeverYields, NobodyWaitsWithoutReason, EnqueuesWait
  <2> QED BY <2>2, <2>3
<1>3. CASE RunEnqueue(t)
  <2>0. PICK c, n : c = Head(enqueues) /\ n = Least(Room, requested[c])
    OBVIOUS
  <2>1. side = "enqueue" /\ enqueues # <<>>
    BY <1>3 DEF RunEnqueue
  <2>2. ASSUME NEW result, Complete(t, c, result) PROVE WaitInv'
    BY <1>1, <2>1, <2>2, WaitEnqueues DEF Complete
  <2>3. CASE /\ ~ closed /\ queue' = queue \o Slice(c, n) /\ n # requested[c] /\ Stay(n > 0)
             /\ UNCHANGED closed
    <3>0. TypeOK /\ SizeInv /\ enqueues \in Seq(Calls) /\ queue \in Seq(Elements)
      BY DEF CoreInv, TypeOK
    <3>1. TypeOK /\ SizeInv /\ c \in Calls /\ queue \in Seq(Elements)
      BY <2>0, <2>1, <3>0
    <3>2. n \in 0..requested[c] /\ n = Room /\ Room = Capacity - Len(queue)
          /\ Capacity \in Nat /\ Len(queue) \in Nat
      BY <2>0, <2>3, <3>1, RoomFacts DEF Room
    <3>3. Slice(c, n) \in Seq(Elements) /\ Len(Slice(c, n)) = n
      BY <3>1, <3>2, SliceFacts
    <3>4. Len(queue') = Len(queue) + Len(Slice(c, n))
      BY <2>3, <3>1, <3>3, ConcatProperties
    <3>5. Len(queue') = Capacity
      BY <3>2, <3>3, <3>4
    <3>6. side' = "dequeue" /\ ~ closed'
      BY <2>1, <2>3 DEF Stay, OtherSide
    <3> QED BY <1>1, <3>5, <3>6
            DEF WaitInv, NeverYields, NobodyWaitsWithoutReason, EnqueuesWait
  <2> QED BY <1>3, <2>0, <2>2, <2>3 DEF RunEnqueue
<1>4. CASE RunDequeue(t)
  <2>0. PICK c, n : c = Head(dequeues) /\ n = Least(Len(queue), requested[c])
    OBVIOUS
  <2>1. side = "dequeue" /\ dequeues # <<>> /\ UNCHANGED closed
    BY <1>4 DEF RunDequeue
  <2>2. ASSUME NEW result, Complete(t, c, result) PROVE WaitInv'
    <3>1. side' = "dequeue" /\ changed' = TRUE /\ UNCHANGED enqueues
      BY <2>1, <2>2 DEF Complete, Pop
    <3> QED BY <1>1, <2>1, <3>1 DEF WaitInv, NeverYields, NobodyWaitsWithoutReason
  <2>3. CASE Stay(TRUE)
    <3>1. side' = "end" /\ changed'
      BY <2>1, <2>3 DEF Stay, OtherSide
    <3> QED BY <1>1, <3>1 DEF WaitInv, NeverYields, NobodyWaitsWithoutReason
  <2>4. CASE /\ ~ (closed /\ Len(queue) < requested[c])
             /\ queue' = SubSeq(queue, n + 1, Len(queue))
             /\ n # requested[c] /\ Stay(n > 0)
    <3>1. /\ c \in Calls /\ Len(queue) \in Nat /\ requested[c] \in Nat \ {0}
          /\ n \in 0..Len(queue) /\ queue \in Seq(Elements)
      BY <2>0, <2>1, DequeueFacts DEF CoreInv, TypeOK
    <3>2. n = Len(queue) /\ Len(queue) < requested[c]
      BY <2>0, <2>4, <3>1 DEF Least
    <3>3. ~ closed'
      BY <2>1, <2>4, <3>2
    <3>4. queue' \in Seq(Elements) /\ Len(queue') = Len(queue) - n
      BY <2>4, <3>1, Cut
    <3>5. queue' = <<>>
      BY <3>1, <3>2, <3>4, EmptySeq
    <3>6. side' = "end" /\ UNCHANGED <<enqueues, dequeues>>
      BY <2>1, <2>4 DEF Stay, OtherSide
    <3>7. ASSUME ~ changed' PROVE EnqueuesWait'
      <4>1. ~ changed /\ ~ (n > 0)
        BY <2>4, <3>7 DEF Stay
      <4>2. Len(queue') = Len(queue)
        BY <3>1, <3>4, <4>1
      <4>3. EnqueuesWait
        BY <1>1, <2>1, <4>1 DEF WaitInv
      <4> QED BY <2>1, <3>6, <4>2, <4>3 DEF EnqueuesWait
    <3> QED BY <1>1, <3>3, <3>5, <3>6, <3>7
            DEF WaitInv, NeverYields, NobodyWaitsWithoutReason, DequeuesWait
  <2> QED BY <1>4, <2>0, <2>2, <2>3, <2>4 DEF RunDequeue, Deliver
<1>5. CASE NoAttempt
  <2>1. UNCHANGED <<queue, closed, enqueues, dequeues, changed>>
    BY <1>5 DEF NoAttempt, attemptVars
  <2>2. CASE side = "enqueue"
    <3>1. side' = "dequeue" /\ enqueues' = <<>>
      BY <1>5, <2>1, <2>2 DEF NoAttempt, OtherSide, Attempts
    <3> QED BY <1>1, <3>1 DEF WaitInv, NeverYields, NobodyWaitsWithoutReason, EnqueuesWait
  <2>3. CASE side # "enqueue"
    <3>1. side' = "end" /\ dequeues' = <<>> /\ side = "dequeue"
      BY <1>5, <2>1, <2>3 DEF NoAttempt, OtherSide, Attempts, CoreInv, TypeOK
    <3>2. ~ changed' => EnqueuesWait'
      BY <1>1, <2>1, <3>1 DEF WaitInv, EnqueuesWait
    <3> QED BY <1>1, <3>1, <3>2 DEF WaitInv, NeverYields, NobodyWaitsWithoutReason, DequeuesWait
  <2> QED BY <2>2, <2>3
<1> QED BY <1>2, <1>3, <1>4, <1>5 DEF TryAttempt

\* The round that changed nothing was the last: whoever is left behind has a reason.
LEMMA RoundEndsWait ==
    ASSUME CoreInv, WaitInv, NEW t \in Threads, RoundEnds(t)
    PROVE  WaitInv'
<1>1. /\ holder = t /\ side = "end" /\ t # Free
      /\ UNCHANGED <<queue, closed, enqueues, dequeues>>
  BY TwoThreads DEF RoundEnds, attemptVars
<1>2. CASE side' = "enqueue" /\ UNCHANGED holder
  BY <1>1, <1>2, WaitEnqueues
<1>3. CASE ~ Repeats /\ holder' = Free
  <2>1. EnqueuesWait /\ DequeuesWait
    BY <1>1, <1>3 DEF WaitInv, Repeats
  <2> QED BY <1>1, <1>3, <2>1
          DEF WaitInv, NeverYields, NobodyWaitsWithoutReason, EnqueuesWait, DequeuesWait
<1> QED BY <1>2, <1>3 DEF RoundEnds

\* Every step keeps WaitInv.
LEMMA WaitStep ==
    ASSUME CoreInv, CoreInv', WaitInv, [Next]_vars
    PROVE  WaitInv'
<1>1. ASSUME NEW t \in Threads, Go(t, "flush"), holder = Free, UNCHANGED holder
      PROVE  WaitInv'
  BY <1>1, Gone, WaitFlush
<1>2. ASSUME NEW t \in Threads, NEW place, Go(t, place), pc[t] # "flush",
             UNCHANGED <<queue, closed, enqueues, dequeues, holder, side, changed>>
      PROVE  WaitInv'
  BY <1>2, Gone, WaitFrame
<1>3. ASSUME NEW c \in Calls, Try(c) \/ TryNothing(c) \/ Close(c) \/ CloseAndCancel(c)
      PROVE  WaitInv'
  <2>1. c \in Threads /\ pc[c] = "idle"
    BY <1>3, TwoThreads DEF Try, TryNothing, Close, CloseAndCancel
  <2>2. CASE Try(c)
    BY <1>1, <1>2, <2>1, <2>2 DEF Try, attemptVars
  <2>3. CASE TryNothing(c)
    BY <1>2, <2>1, <2>3 DEF TryNothing, attemptVars
  <2>4. CASE Close(c) \/ CloseAndCancel(c)
    BY <1>1, <2>1, <2>4 DEF Close, CloseAndCancel
  <2> QED BY <1>3, <2>2, <2>3, <2>4
<1>4. ASSUME NEW t \in Threads, Lock(t) PROVE WaitInv'
  BY <1>4, TwoThreads, WaitEnqueues DEF Lock
<1>5. ASSUME NEW t \in Threads, CleanUp(t) PROVE WaitInv'
  BY <1>5, WaitFrame DEF CleanUp, attemptVars
<1>6. ASSUME NEW t \in Threads, Return(t) PROVE WaitInv'
  <2>1. /\ pc[t] # "flush"
        /\ UNCHANGED <<queue, closed, enqueues, dequeues, holder, side, changed>>
        /\ Go(t, "callbacks") \/ Go(t, "done")
    BY <1>6 DEF Return, attemptVars
  <2> QED BY <1>2, <2>1
<1>7. ASSUME NEW m \in Managers, StartCancel(m) \/ Cancelled(m) PROVE WaitInv'
  <2>1. /\ pc[m] # "flush" /\ m \in Threads
        /\ UNCHANGED <<queue, closed, enqueues, dequeues, holder, side, changed>>
        /\ Go(m, "callbacks") \/ Go(m, "done")
    BY <1>7, TwoThreads DEF StartCancel, Cancelled, attemptVars
  <2> QED BY <1>2, <2>1
<1>8. ASSUME NEW m \in Managers, Cancel(m) PROVE WaitInv'
  <2>1. /\ m \in Threads /\ holder = Free
        /\ UNCHANGED <<queue, closed, enqueues, dequeues, holder, side, changed>>
        /\ Go(m, "flush") \/ UNCHANGED pc
    BY <1>8, TwoThreads DEF Cancel
  <2> QED BY <1>1, <2>1, WaitFrame
<1>9. CASE UNCHANGED vars
  BY <1>9, WaitFrame DEF vars, attemptVars
<1> QED BY <1>3, <1>4, <1>5, <1>6, <1>7, <1>8, <1>9, TryAttemptWait, RoundEndsWait DEF Next, Flush

-----------------------------------------------------------------------------
(* The batches *)

\* How many elements of an enqueue have arrived.
Given(c) == Cardinality({i \in DOMAIN arrived : arrived[i][1] = c})

\* What a batch has and what it still asks for.
BatchInv ==
    /\ \A c \in Elems(dequeues) : Len(held[c]) + requested[c] = size[c]
    /\ \A c \in Elems(enqueues) : Given(c) + requested[c] = size[c]
    /\ \A c \in Calls : pc[c] = "idle" => Given(c) = 0

\* The arrived elements of a call can be counted.
LEMMA GivenType ==
    ASSUME CoreInv
    PROVE  \A c : /\ IsFiniteSet({i \in DOMAIN arrived : arrived[i][1] = c})
                  /\ Given(c) \in Nat
<1>1. arrived \in Seq(Elements)
  BY DEF CoreInv, TypeOK
<1>2. IsFiniteSet(1..Len(arrived)) /\ DOMAIN arrived = 1..Len(arrived)
  BY <1>1, FS_Interval
<1>3. \A c : {i \in DOMAIN arrived : arrived[i][1] = c} \subseteq 1..Len(arrived)
  BY <1>2
<1>4. \A c : IsFiniteSet({i \in DOMAIN arrived : arrived[i][1] = c})
  BY <1>2, <1>3, FS_Subset
<1> QED BY <1>4, FS_CardinalityType DEF Given

\* The next part of a batch arrives.
LEMMA GivenGrows ==
    ASSUME CoreInv, NEW c \in Calls, NEW n \in 0..requested[c],
           arrived' = arrived \o Slice(c, n)
    PROVE  Given(c)' = Given(c) + n /\ \A d : d # c => Given(d)' = Given(d)
<1> DEFINE A(d) == {i \in DOMAIN arrived : arrived[i][1] = d}
           B == (Len(arrived) + 1)..(Len(arrived) + n)
<1>1. /\ arrived \in Seq(Elements) /\ Slice(c, n) \in Seq(Elements) /\ Len(Slice(c, n)) = n
      /\ \A i \in 1..n : Slice(c, n)[i][1] = c
  <2>1. arrived \in Seq(Elements)
    BY DEF CoreInv, TypeOK
  <2>2. /\ Slice(c, n) \in Seq(Elements) /\ Len(Slice(c, n)) = n
        /\ \A i \in 1..n : Slice(c, n)[i][1] = c
    BY SliceFacts DEF CoreInv
  <2> QED BY <2>1, <2>2
<1>2. n \in Nat /\ Len(arrived) \in Nat /\ DOMAIN arrived = 1..Len(arrived)
  <2>1. requested[c] \in Nat
    BY SizeType DEF CoreInv
  <2>2. n \in Nat
    BY <2>1
  <2> QED BY <1>1, <2>2
<1>3. /\ DOMAIN arrived' = 1..(Len(arrived) + n)
      /\ \A i \in 1..Len(arrived) : arrived'[i] = arrived[i]
      /\ \A i \in B : arrived'[i][1] = c
  <2>1. /\ Len(arrived') = Len(arrived) + n /\ arrived' \in Seq(Elements)
        /\ \A i \in 1..(Len(arrived) + n) :
              arrived'[i] = IF i <= Len(arrived) THEN arrived[i] ELSE Slice(c, n)[i - Len(arrived)]
    <3>1. PICK s : s = Slice(c, n)
      OBVIOUS
    <3>2. arrived \in Seq(Elements) /\ s \in Seq(Elements) /\ Len(s) = n /\ arrived' = arrived \o s
      BY <1>1, <3>1
    <3>3. /\ Len(arrived') = Len(arrived) + n /\ arrived' \in Seq(Elements)
          /\ \A i \in 1..(Len(arrived) + n) :
                arrived'[i] = IF i <= Len(arrived) THEN arrived[i] ELSE s[i - Len(arrived)]
      BY ONLY <3>2, ConcatProperties
    <3> QED BY <3>1, <3>3
  <2>2. DOMAIN arrived' = 1..(Len(arrived) + n)
    BY <2>1
  <2>3. \A i \in 1..Len(arrived) : i \in 1..(Len(arrived) + n) /\ i <= Len(arrived)
    BY <1>2
  <2>4. \A i \in B : /\ i \in 1..(Len(arrived) + n) /\ ~ (i <= Len(arrived))
                     /\ i - Len(arrived) \in 1..n
    BY <1>2
  <2> HIDE DEF B
  <2> QED BY <1>1, <2>1, <2>2, <2>3, <2>4
<1>4. IsFiniteSet(A(c)) /\ Cardinality(A(c)) = Given(c) /\ Given(c) \in Nat
  BY GivenType DEF Given
<1>5. IsFiniteSet(B) /\ Cardinality(B) = n
  <2> DEFINE a == Len(arrived) + 1
             b == Len(arrived) + n
  <2>1. a \in Int /\ b \in Int /\ (IF a > b THEN 0 ELSE b - a + 1) = n
    BY <1>2
  <2> HIDE DEF a, b
  <2>2. IsFiniteSet(a..b) /\ Cardinality(a..b) = n
    BY <2>1, FS_Interval
  <2> QED BY <2>2 DEF a, b
<1>6. A(c) \cap B = {}
  BY <1>2
<1>7. A(c)' = A(c) \cup B
  <2>1. \A i : i \in A(c)' <=> i \in 1..(Len(arrived) + n) /\ arrived'[i][1] = c
    BY <1>3
  <2>2. \A i : i \in A(c) <=> i \in 1..Len(arrived) /\ arrived[i][1] = c
    BY <1>2
  <2>3. \A i : i \in 1..(Len(arrived) + n) <=> i \in 1..Len(arrived) \/ i \in B
    BY <1>2
  <2> HIDE DEF A, B
  <2> QED BY <1>3, <2>1, <2>2, <2>3
<1>8. \A d : d # c => A(d)' = A(d)
  <2> SUFFICES ASSUME NEW d, d # c PROVE A(d)' = A(d)
    OBVIOUS
  <2>1. \A i : i \in A(d)' <=> i \in 1..(Len(arrived) + n) /\ arrived'[i][1] = d
    BY <1>3
  <2>2. \A i : i \in A(d) <=> i \in 1..Len(arrived) /\ arrived[i][1] = d
    BY <1>2
  <2>3. \A i : i \in 1..(Len(arrived) + n) <=> i \in 1..Len(arrived) \/ i \in B
    BY <1>2
  <2> HIDE DEF A, B
  <2> QED BY <1>3, <2>1, <2>2, <2>3
<1>9. Given(c)' = Cardinality(A(c)') /\ \A d : Given(d) = Cardinality(A(d)) /\ Given(d)' = Cardinality(A(d)')
  BY DEF Given
<1> HIDE DEF A, B
<1>10. Cardinality(A(c) \cup B) = Given(c) + n
  <2>1. Cardinality(A(c) \cup B) = Cardinality(A(c)) + Cardinality(B) - Cardinality({})
    BY <1>4, <1>5, <1>6, FS_Union
  <2>2. Cardinality({}) = 0
    BY FS_EmptySet
  <2> QED BY <1>2, <1>4, <1>5, <2>1, <2>2
<1> QED BY <1>7, <1>8, <1>9, <1>10

\* Attempts are removed, and the others are as before.
LEMMA BatchFrame ==
    ASSUME BatchInv, UNCHANGED <<size, arrived>>,
           \A c : c \in Elems(dequeues)' =>
              c \in Elems(dequeues) /\ held'[c] = held[c] /\ requested'[c] = requested[c],
           \A c : c \in Elems(enqueues)' => c \in Elems(enqueues) /\ requested'[c] = requested[c],
           \A c \in Calls : pc'[c] = "idle" => pc[c] = "idle"
    PROVE  BatchInv'
<1>1. \A c : Given(c)' = Given(c)
  BY DEF Given
<1> QED BY <1>1 DEF BatchInv

\* A new batch asks for all its elements.
LEMMA BatchStash ==
    ASSUME CoreInv, FlowInv, BatchInv, NEW c \in Calls, pc[c] = "idle", Stash(c), Go(c, "flush"),
           UNCHANGED <<size, arrived>>
    PROVE  BatchInv'
<1>1. /\ enqueues \in Seq(Calls) /\ dequeues \in Seq(Calls) /\ requested \in [Calls -> Nat]
      /\ size[c] \in Nat
  BY SizeType DEF CoreInv, TypeOK
<1>2. ~ Pending(c)
  BY DEF CoreInv, CallInv, Stage
<1>3. held[c] = <<>>
  <2>1. dequeues # <<>> => Head(dequeues) \in Elems(dequeues)
    BY <1>1, ElemsType
  <2> QED BY <1>2, <2>1 DEF FlowInv, HeldInv, Pending
<1>4. /\ UNCHANGED held /\ requested'[c] = size[c]
      /\ \A d \in Calls : d # c => requested'[d] = requested[d]
  BY <1>1 DEF Stash
<1>5. \A d : Given(d)' = Given(d)
  BY DEF Given
<1>6. \A d \in Calls : pc'[d] = "idle" => pc[d] = "idle" /\ d # c
  <2>1. pc'[c] = "flush" /\ \A d \in Threads : d # c => pc'[d] = pc[d]
    BY TwoThreads DEF CoreInv, TypeOK, Go
  <2> QED BY <2>1, TwoThreads
<1>7. /\ \A d : d \in Elems(enqueues)' => d \in Calls /\ (d \in Elems(enqueues) \/ d = c)
      /\ \A d : d \in Elems(dequeues)' => d \in Calls /\ (d \in Elems(dequeues) \/ d = c)
  <2>1. enqueues' = enqueues \/ enqueues' = Append(enqueues, c)
    BY DEF Stash
  <2>2. dequeues' = dequeues \/ dequeues' = Append(dequeues, c)
    BY DEF Stash
  <2>3. ASSUME NEW q \in Seq(Calls) PROVE \A d \in Elems(q) \cup Elems(Append(q, c)) :
           d \in Calls /\ (d \in Elems(q) \/ d = c)
    BY ElemsType, AppendElems
  <2>4. ASSUME NEW d, d \in Elems(enqueues)' PROVE d \in Calls /\ (d \in Elems(enqueues) \/ d = c)
    BY <1>1, <2>1, <2>3, <2>4
  <2>5. ASSUME NEW d, d \in Elems(dequeues)' PROVE d \in Calls /\ (d \in Elems(dequeues) \/ d = c)
    BY <1>1, <2>2, <2>3, <2>5
  <2> QED BY <2>4, <2>5
<1>8. \A d \in Elems(dequeues)' : Len(held'[d]) + requested'[d] = size'[d]
  <2>1. Len(held'[c]) + requested'[c] = size'[c]
    BY <1>1, <1>3, <1>4
  <2> QED BY <1>4, <1>7, <2>1 DEF BatchInv
<1>9. \A d \in Elems(enqueues)' : Given(d)' + requested'[d] = size'[d]
  <2>1. Given(c)' + requested'[c] = size'[c]
    BY <1>1, <1>4, <1>5 DEF BatchInv
  <2> QED BY <1>4, <1>5, <1>7, <2>1 DEF BatchInv
<1> QED BY <1>5, <1>6, <1>8, <1>9 DEF BatchInv

\* The first attempt is removed, the others are as before.
LEMMA BatchPop ==
    ASSUME CoreInv, BatchInv, side # "end", Attempts # <<>>, Pop,
           UNCHANGED <<kind, size, arrived, pc>>,
           \A c \in Calls : c # Head(Attempts) => held'[c] = held[c] /\ requested'[c] = requested[c]
    PROVE  BatchInv'
<1>1. \A c : c \in Elems(enqueues) \/ c \in Elems(dequeues) => c \in Calls
  BY ElemsType DEF CoreInv, TypeOK
<1> QED BY <1>1, PopFacts, BatchFrame

\* A part of a batch arrives: that much less is asked for.
LEMMA RunEnqueueBatch ==
    ASSUME CoreInv, BatchInv, NEW t \in Threads, RunEnqueue(t), UNCHANGED <<kind, size, pc>>
    PROVE  BatchInv'
<1>0. PICK c, n : c = Head(enqueues) /\ n = Least(Room, requested[c])
  OBVIOUS
<1>1. side = "enqueue" /\ enqueues # <<>> /\ Attempts = enqueues /\ UNCHANGED held
  BY DEF RunEnqueue, Attempts
<1>2. ASSUME NEW result, Complete(t, c, result), UNCHANGED <<requested, arrived>>
      PROVE  BatchInv'
  BY <1>0, <1>1, <1>2, BatchPop DEF Complete
<1>3. CASE /\ ~ closed /\ arrived' = arrived \o Slice(c, n)
           /\ requested' = [requested EXCEPT ![c] = @ - n]
           /\ IF n = requested[c] THEN Complete(t, c, "ok") ELSE Stay(n > 0)
  <2>1. /\ enqueues \in Seq(Calls) /\ requested \in [Calls -> Nat] /\ TypeOK
        /\ \A d \in Elems(enqueues) : kind[d] \in EnqueueKinds
        /\ \A d \in Elems(dequeues) : kind[d] \in DequeueKinds
    BY DEF CoreInv, TypeOK, PlaceInv
  <2>2. c \in Elems(enqueues) /\ c \in Calls /\ \A d \in Elems(enqueues) : d \in Calls
    BY <1>0, <1>1, <2>1, ElemsType
  <2>3. n \in 0..requested[c] /\ n \in Nat /\ requested[c] \in Nat
    <3>1. n \in 0..requested[c] /\ requested[c] \in Nat
      BY <1>0, <1>3, <2>1, <2>2, RoomFacts
    <3> QED BY <3>1
  <2>4. Given(c)' = Given(c) + n /\ (\A d : d # c => Given(d)' = Given(d)) /\ Given(c) \in Nat
    BY <1>3, <2>2, <2>3, GivenGrows, GivenType
  <2>5. /\ \A d : d \in Elems(enqueues)' => d \in Elems(enqueues)
        /\ dequeues' = dequeues
    <3>1. CASE n = requested[c]
      <4>1. Pop
        BY <1>3, <3>1 DEF Complete
      <4> QED BY <1>1, <4>1, PopFacts DEF Pop
    <3>2. CASE n # requested[c]
      BY <1>3, <3>2 DEF Stay
    <3> QED BY <3>1, <3>2
  <2>6. c \notin Elems(dequeues) /\ \A d \in Elems(dequeues) : d \in Calls
    BY <2>1, <2>2, ElemsType DEF EnqueueKinds, DequeueKinds, CoreInv, TypeOK
  <2>7. /\ requested'[c] = requested[c] - n
        /\ \A d \in Calls : d # c => requested'[d] = requested[d]
    BY <1>3, <2>1, <2>2
  <2>8. \A d \in Elems(enqueues)' : Given(d)' + requested'[d] = size'[d]
    <3>1. Given(c) + requested[c] = size[c]
      BY <2>2 DEF BatchInv
    <3>2. Given(c)' + requested'[c] = size[c]
      BY <2>3, <2>4, <2>7, <3>1
    <3> QED BY <2>2, <2>4, <2>5, <2>7, <3>2 DEF BatchInv
  <2>9. \A d \in Elems(dequeues)' : Len(held'[d]) + requested'[d] = size'[d]
    BY <1>1, <2>5, <2>6, <2>7 DEF BatchInv
  <2>10. \A d \in Calls : pc'[d] = "idle" => Given(d)' = 0
    <3>1. pc[c] # "idle"
      BY <2>2 DEF CoreInv, CallInv, Stage, Pending
    <3> QED BY <2>4, <3>1 DEF BatchInv
  <2> QED BY <2>8, <2>9, <2>10 DEF BatchInv
<1> QED BY <1>0, <1>2, <1>3 DEF RunEnqueue

\* A dequeue takes a part of its batch, or is over.
LEMMA RunDequeueBatch ==
    ASSUME CoreInv, BatchInv, NEW t \in Threads, RunDequeue(t), UNCHANGED <<kind, size, pc>>
    PROVE  BatchInv'
<1>0. PICK c, n : c = Head(dequeues) /\ n = Least(Len(queue), requested[c])
  OBVIOUS
<1>1. side = "dequeue" /\ dequeues # <<>> /\ Attempts = dequeues /\ UNCHANGED arrived
  BY DEF RunDequeue, Attempts
<1>2. /\ c \in Calls /\ held[c] \in Seq(Elements) /\ n \in 0..Len(queue) /\ n \in Nat
      /\ requested[c] \in Nat /\ queue \in Seq(Elements)
      /\ held \in [Calls -> Seq(Elements)] /\ requested \in [Calls -> Nat]
      /\ enqueues \in Seq(Calls) /\ dequeues \in Seq(Calls)
  <2>1. /\ c \in Calls /\ held[c] \in Seq(Elements) /\ n \in 0..Len(queue)
        /\ requested[c] \in Nat /\ Len(queue) \in Nat
    BY <1>0, <1>1, DequeueFacts
  <2>2. n \in Nat
    BY <2>1
  <2> QED BY <2>1, <2>2 DEF CoreInv, TypeOK
<1>3. ASSUME NEW result, Complete(t, c, result), held' = [held EXCEPT ![c] = <<>>],
             NEW r, requested' = [requested EXCEPT ![c] = r]
      PROVE  BatchInv'
  <2>1. \A d \in Calls : d # c => held'[d] = held[d] /\ requested'[d] = requested[d]
    BY <1>2, <1>3
  <2> QED BY <1>0, <1>1, <1>3, <2>1, BatchPop DEF Complete
<1>4. CASE Stay(TRUE) /\ UNCHANGED <<held, requested>>
  BY <1>1, <1>4, BatchFrame DEF Stay
<1>5. CASE /\ requested' = [requested EXCEPT ![c] = @ - n]
           /\ held' = [held EXCEPT ![c] = @ \o SubSeq(queue, 1, n)]
           /\ Stay(n > 0)
  <2>1. SubSeq(queue, 1, n) \in Seq(Elements) /\ Len(SubSeq(queue, 1, n)) = n
    BY <1>2, Cut
  <2>2. /\ held'[c] = held[c] \o SubSeq(queue, 1, n) /\ requested'[c] = requested[c] - n
        /\ \A d \in Calls : d # c => held'[d] = held[d] /\ requested'[d] = requested[d]
    BY <1>2, <1>5
  <2>3. Len(held'[c]) = Len(held[c]) + n /\ Len(held[c]) \in Nat
    BY <1>2, <2>1, <2>2, ConcatProperties
  <2>4. UNCHANGED <<enqueues, dequeues>>
    BY <1>5 DEF Stay
  <2>5. /\ c \in Elems(dequeues) /\ \A d \in Elems(dequeues) : d \in Calls
        /\ \A d \in Elems(enqueues) : d \in Calls /\ d # c
    <3>1. c \in Elems(dequeues) /\ \A d \in Elems(dequeues) : d \in Calls
      BY <1>0, <1>1, <1>2, ElemsType
    <3>2. \A d \in Elems(enqueues) : d \in Calls
      BY <1>2, ElemsType
    <3>3. c \notin Elems(enqueues)
      BY <3>1 DEF CoreInv, PlaceInv, EnqueueKinds, DequeueKinds
    <3> QED BY <3>1, <3>2, <3>3
  <2>6. Len(held'[c]) + requested'[c] = size[c]
    <3>1. Len(held[c]) + requested[c] = size[c]
      BY <2>5 DEF BatchInv
    <3> QED BY <1>2, <2>2, <2>3, <3>1
  <2>7. \A d : Given(d)' = Given(d)
    BY <1>1 DEF Given
  <2>8. \A d \in Elems(dequeues)' : Len(held'[d]) + requested'[d] = size'[d]
    BY <2>2, <2>4, <2>5, <2>6 DEF BatchInv
  <2>9. \A d \in Elems(enqueues)' : Given(d)' + requested'[d] = size'[d]
    BY <2>2, <2>4, <2>5, <2>7 DEF BatchInv
  <2> QED BY <2>7, <2>8, <2>9 DEF BatchInv
<1>6. ASSUME NEW result, Complete(t, c, result), held' = [held EXCEPT ![c] = <<>>],
             UNCHANGED requested
      PROVE  BatchInv'
  <2>1. requested' = [requested EXCEPT ![c] = requested[c]]
    BY <1>2, <1>6
  <2> QED BY <1>3, <1>6, <2>1
<1> QED BY <1>0, <1>3, <1>4, <1>5, <1>6 DEF RunDequeue, Deliver

\* Every step keeps BatchInv.
LEMMA BatchStep ==
    ASSUME CoreInv, FlowInv, BatchInv, [Next]_vars
    PROVE  BatchInv'
<1>0. \A t \in Threads : \A place : Go(t, place) /\ place # "idle" =>
         \A d \in Calls : pc'[d] = "idle" => pc[d] = "idle"
  BY TwoThreads DEF CoreInv, TypeOK, Go
<1>1. ASSUME UNCHANGED <<size, arrived, enqueues, dequeues, held, requested>>,
             UNCHANGED pc \/ \E t \in Threads : \E place : Go(t, place) /\ place # "idle"
      PROVE  BatchInv'
  BY <1>0, <1>1, BatchFrame
<1>2. ASSUME NEW c \in Calls, Try(c) \/ Close(c) PROVE BatchInv'
  <2>1. pc[c] = "idle" /\ UNCHANGED <<size, arrived>> /\ c \in Threads
    BY <1>2, TwoThreads DEF Try, Close
  <2>2. \/ Stash(c) /\ Go(c, "flush")
        \/ UNCHANGED attemptVars /\ Go(c, "done")
    BY <1>2 DEF Try, Close
  <2> QED BY <1>1, <2>1, <2>2, BatchStash DEF attemptVars
<1>3. ASSUME NEW c \in Calls, TryNothing(c) \/ CloseAndCancel(c) PROVE BatchInv'
  BY <1>1, <1>3, TwoThreads DEF TryNothing, CloseAndCancel, attemptVars
<1>4. ASSUME NEW t \in Threads, Lock(t) \/ RoundEnds(t) \/ CleanUp(t) \/ Return(t) PROVE BatchInv'
  BY <1>1, <1>4 DEF Lock, RoundEnds, CleanUp, Return, attemptVars
<1>5. ASSUME NEW t \in Threads, TryAttempt(t) PROVE BatchInv'
  <2>0. UNCHANGED <<kind, size, pc>>
    BY <1>5 DEF TryAttempt
  <2>1. NoAttempt => BatchInv'
    BY <1>1, <2>0 DEF NoAttempt, attemptVars
  <2>2. ASSUME SkipCancelled(t) PROVE BatchInv'
    <3>1. /\ side # "end" /\ Attempts # <<>> /\ Pop /\ UNCHANGED <<arrived, requested>>
          /\ held' = [held EXCEPT ![Head(Attempts)] = <<>>]
      BY <2>2 DEF SkipCancelled
    <3>2. \A d \in Calls : d # Head(Attempts) => held'[d] = held[d]
      BY <3>1 DEF CoreInv, TypeOK
    <3> QED BY <2>0, <3>1, <3>2, BatchPop
  <2> QED BY <1>5, <2>0, <2>1, <2>2, RunEnqueueBatch, RunDequeueBatch DEF TryAttempt
<1>6. ASSUME NEW m \in Managers, StartCancel(m) \/ Cancel(m) \/ Cancelled(m) PROVE BatchInv'
  BY <1>1, <1>6, TwoThreads DEF StartCancel, Cancel, Cancelled, attemptVars
<1>7. CASE UNCHANGED vars
  BY <1>1, <1>7 DEF vars, attemptVars
<1> QED BY <1>2, <1>3, <1>4, <1>5, <1>6, <1>7 DEF Next, Flush

-----------------------------------------------------------------------------
(* The refinement of QueueSpec *)

Contents == Taken \o queue

\* Nothing the users can see has changed.
LEMMA Stutter ==
    ASSUME UNCHANGED <<kind, size, closed, status, got, answered, arrived>>, Contents' = Contents
    PROVE  UNCHANGED Abstract!vars
BY DEF Abstract!vars, Contents

\* The parts of a concatenation.
LEMMA Parts ==
    ASSUME NEW S, NEW p \in Seq(S), NEW q \in Seq(S)
    PROVE  /\ p \o q \in Seq(S) /\ Len(p \o q) = Len(p) + Len(q)
           /\ SubSeq(p \o q, 1, Len(p)) = p
           /\ SubSeq(p \o q, Len(p) + 1, Len(p \o q)) = q
<1>0. Len(p) \in Nat /\ Len(q) \in Nat
  OBVIOUS
<1>1. /\ p \o q \in Seq(S) /\ Len(p \o q) = Len(p) + Len(q)
      /\ \A i \in 1..(Len(p) + Len(q)) :
            (p \o q)[i] = IF i <= Len(p) THEN p[i] ELSE q[i - Len(p)]
  BY ConcatProperties
<1>2. PICK r \in Seq(S) : r = p \o q
  BY <1>1
<1>3. Len(p) \in 0..Len(r) /\ Len(r) = Len(p) + Len(q)
  BY <1>0, <1>1, <1>2
<1>4. /\ SubSeq(r, 1, Len(p)) \in Seq(S) /\ Len(SubSeq(r, 1, Len(p))) = Len(p)
      /\ SubSeq(r, Len(p) + 1, Len(r)) \in Seq(S)
      /\ Len(SubSeq(r, Len(p) + 1, Len(r))) = Len(q)
  BY <1>0, <1>3, Cut
<1>5. SubSeq(r, 1, Len(p)) = p
  <2>1. \A i \in 1..Len(p) : SubSeq(r, 1, Len(p))[i] = r[i] /\ r[i] = p[i]
    BY <1>0, <1>1, <1>2, <1>3
  <2> QED BY <1>4, <2>1, SeqEqual
<1>6. SubSeq(r, Len(p) + 1, Len(r)) = q
  <2>1. ASSUME NEW i \in 1..Len(q) PROVE SubSeq(r, Len(p) + 1, Len(r))[i] = q[i]
    <3>1. /\ Len(p) + i \in 1..(Len(p) + Len(q)) /\ ~ (Len(p) + i <= Len(p))
          /\ (Len(p) + i) - Len(p) = i
      BY <1>0
    <3>2. r[Len(p) + i] = q[i]
      BY <1>1, <1>2, <3>1
    <3>3. SubSeq(r, Len(p) + 1, Len(r))[i] = r[Len(p) + i]
      BY <1>0, <1>3, <1>4
    <3> QED BY <3>2, <3>3
  <2> QED BY <1>4, <2>1, SeqEqual
<1> QED BY <1>1, <1>2, <1>5, <1>6

\* What the users see.
LEMMA ContentsFacts ==
    ASSUME CoreInv, FlowInv
    PROVE  /\ Contents \in Seq(Elements)
           /\ dequeues # <<>> => Contents = held[Head(dequeues)] \o queue
           /\ dequeues = <<>> => Contents = queue
BY TakenFacts, Join DEF Contents

\* The elements and the attempts are as before.
LEMMA ContentsFrame ==
    ASSUME UNCHANGED <<queue, dequeues, held>>
    PROVE  Contents' = Contents
BY DEF Contents, Taken

\* A pending attempt has no result yet.
LEMMA PendingUnfinished ==
    ASSUME CoreInv, NEW c, Pending(c), c \notin isCancelled
    PROVE  /\ c \in Calls /\ Abstract!Unfinished(c) /\ requested[c] \in Nat \ {0}
           /\ size[c] \in Nat
<1>1. enqueues \in Seq(Calls) /\ dequeues \in Seq(Calls) /\ TypeOK
  BY DEF CoreInv, TypeOK
<1>2. c \in Calls
  BY <1>1, ElemsType DEF Pending
<1>3. status[c] = "none" /\ answered[c] = 0 /\ requested[c] > 0
  BY <1>2 DEF CoreInv, CallInv, Stage
<1>4. requested[c] \in Nat /\ size[c] \in Nat
  BY <1>1, <1>2, SizeType
<1> QED BY <1>2, <1>3, <1>4 DEF Abstract!Unfinished

\* A call that asks is registered, or cancelled at once.
LEMMA TryRefines ==
    ASSUME CoreInv, FlowInv, NEW c \in Calls, Try(c) \/ TryNothing(c) \/ Close(c)
    PROVE  Abstract!Next \/ UNCHANGED Abstract!vars
<1>1. pc[c] = "idle" /\ UNCHANGED <<kind, size, closed, arrived, got, left>>
  BY DEF Try, TryNothing, Close, Stash, Answer, attemptVars, callVars
<1>2. Abstract!Unfinished(c)
  BY <1>1 DEF CoreInv, CallInv, Stage, Abstract!Unfinished
<1>3. ASSUME Stash(c), UNCHANGED callVars PROVE UNCHANGED Abstract!vars
  <2>1. UNCHANGED <<queue, held>> /\ (dequeues' = dequeues \/ dequeues' = Append(dequeues, c))
    BY <1>3 DEF Stash
  <2>2. Contents' = Contents
    <3>1. CASE dequeues' = dequeues
      BY <2>1, <3>1, ContentsFrame
    <3>2. CASE dequeues' = Append(dequeues, c)
      <4>1. dequeues' # <<>> /\ Head(dequeues') = IF dequeues = <<>> THEN c ELSE Head(dequeues)
        BY <3>2, TakenFacts, AppendElems
      <4>2. Taken' = Taken
        BY <2>1, <4>1, TakenFacts DEF Taken
      <4> QED BY <2>1, <4>2 DEF Contents
    <3> QED BY <2>1, <3>1, <3>2
  <2> QED BY <1>1, <1>3, <2>2, Stutter DEF callVars
<1>4. ASSUME NEW result, Answer(c, result), UNCHANGED attemptVars,
             result = "cancelled" \/ (result = "ok" /\ size[c] = 0)
      PROVE  Abstract!Next
  <2>1. Contents' = Contents
    BY <1>4, ContentsFrame DEF attemptVars
  <2>2. Abstract!Cancel(c) \/ Abstract!Succeed(c)
    BY <1>1, <1>2, <1>4, <2>1
       DEF Abstract!Cancel, Abstract!Succeed, Abstract!Result, Abstract!CallBack, Answer, Contents
  <2> QED BY <2>2 DEF Abstract!Next
<1> QED BY <1>3, <1>4 DEF Try, TryNothing, Close

\* CloseAndCancel calls back every pending enqueue.
LEMMA CloseAndCancelRefines ==
    ASSUME CoreInv, FlowInv, NEW c \in Calls, CloseAndCancel(c)
    PROVE  Abstract!Next
<1>1. PICK pending : pending = {d \in Calls : \E i \in DOMAIN enqueues : enqueues[i] = d} \ isCancelled
  OBVIOUS
<1>2. /\ closed' = TRUE
      /\ status' = [d \in Calls |-> IF d \in pending THEN "cancelled" ELSE status[d]]
      /\ answered' = [d \in Calls |-> IF d \in pending THEN answered[d] + 1 ELSE answered[d]]
      /\ UNCHANGED <<kind, size, queue, dequeues, held, got, arrived>>
  BY <1>1 DEF CloseAndCancel
<1>3. \A d \in pending : d \in Calls /\ d \in Elems(enqueues) /\ d \notin isCancelled
  <2>1. enqueues \in Seq(Calls)
    BY DEF CoreInv, TypeOK
  <2> QED BY <1>1, <2>1, ElemsType
<1>4. \A d \in pending : Abstract!Unfinished(d) /\ ~ Abstract!Dequeues(d)
  <2> SUFFICES ASSUME NEW d \in pending PROVE Abstract!Unfinished(d) /\ ~ Abstract!Dequeues(d)
    OBVIOUS
  <2>1. Abstract!Unfinished(d)
    BY <1>3, PendingUnfinished DEF Pending
  <2>2. kind[d] \in EnqueueKinds
    BY <1>3 DEF CoreInv, PlaceInv
  <2> QED BY <2>1, <2>2 DEF EnqueueKinds, Abstract!Dequeues
<1>5. Contents' = Contents
  BY <1>2, ContentsFrame
<1>6. kind[c] = "close_cancel" /\ Abstract!Unfinished(c)
  <2>1. kind[c] = "close_cancel" /\ pc[c] = "idle"
    BY DEF CloseAndCancel
  <2> QED BY <2>1 DEF CoreInv, CallInv, Stage, Abstract!Unfinished
<1>7. Abstract!CloseAndCancel(c, pending)
  BY <1>2, <1>4, <1>5, <1>6 DEF Abstract!CloseAndCancel, Contents
<1>8. pending \in SUBSET Calls
  BY <1>3
<1> QED BY <1>7, <1>8 DEF Abstract!Next

\* A dropped dequeue takes what it held with it.
LEMMA SkipRefines ==
    ASSUME CoreInv, CoreInv', FlowInv, FlowInv', BatchInv, NEW t \in Threads, SkipCancelled(t),
           UNCHANGED <<kind, size>>
    PROVE  Abstract!Next \/ UNCHANGED Abstract!vars
<1>0. PICK c : c = Head(Attempts)
  OBVIOUS
<1>1. /\ side # "end" /\ Attempts # <<>> /\ c \in isCancelled /\ Pop
      /\ held' = [held EXCEPT ![c] = <<>>]
      /\ UNCHANGED <<queue, closed, arrived, status, got, answered>>
  BY <1>0 DEF SkipCancelled, callVars
<1>2. c \in Calls /\ Pending(c)
  BY <1>0, <1>1, PopFacts
<1>3. CASE side = "enqueue"
  <2>1. c = Head(enqueues) /\ enqueues # <<>> /\ UNCHANGED dequeues
    BY <1>0, <1>1, <1>3 DEF Attempts, Pop
  <2>2. c \in Elems(enqueues)
    BY <2>1, TakenFacts, ElemsType
  <2>3. held[c] = <<>>
    BY <2>2, EnqueueHoldsNothing
  <2>4. held' = held
    BY <1>1, <1>2, <2>3, TakenFacts
  <2> QED BY <1>1, <2>1, <2>4, ContentsFrame, Stutter
<1>4. CASE side # "enqueue"
  <2>1. c = Head(dequeues) /\ dequeues # <<>>
    BY <1>0, <1>1, <1>4 DEF Attempts
  <2>2. /\ held[c] \in Seq(Elements) /\ queue \in Seq(Elements) /\ Contents = held[c] \o queue
        /\ c \in Elems(dequeues)
    BY <2>1, TakenFacts, ContentsFacts, ElemsType
  <2>3. Contents' = queue
    <3>1. \A d \in Calls : held'[d] = <<>>
      BY <1>1, <2>1, TakenFacts
    <3>2. Taken' = <<>>
      <4>1. dequeues' \in Seq(Calls)
        BY DEF CoreInv, TypeOK
      <4>2. dequeues' # <<>> => Head(dequeues') \in Calls
        BY <4>1
      <4> QED BY <3>1, <4>2 DEF Taken
    <3> QED BY <1>1, <2>2, <3>2, Join DEF Contents
  <2>4. CASE held[c] = <<>>
    <3>1. Contents' = Contents
      BY <2>2, <2>3, <2>4, Join
    <3> QED BY <1>1, <3>1, Stutter
  <2>5. CASE held[c] # <<>>
    <3>1. /\ Len(Contents) = Len(held[c]) + Len(queue)
          /\ queue = SubSeq(Contents, Len(held[c]) + 1, Len(Contents))
      <4>1. /\ Len(held[c] \o queue) = Len(held[c]) + Len(queue)
            /\ SubSeq(held[c] \o queue, Len(held[c]) + 1, Len(held[c] \o queue)) = queue
        <5>1. PICK p, q \in Seq(Elements) : p = held[c] /\ q = queue
          BY <2>2
        <5>2. /\ Len(p \o q) = Len(p) + Len(q)
              /\ SubSeq(p \o q, Len(p) + 1, Len(p \o q)) = q
          BY ONLY p \in Seq(Elements), q \in Seq(Elements), Parts
        <5> QED BY <5>1, <5>2
      <4> QED BY <2>2, <4>1
    <3>2. /\ Len(held[c]) \in Nat \ {0} /\ Len(queue) \in Nat
      BY <2>2, <2>5, EmptySeq
    <3>3. /\ Len(held[c]) + requested[c] = size[c] /\ requested[c] \in Nat \ {0} /\ size[c] \in Nat
      <4>1. Len(held[c]) + requested[c] = size[c]
        BY <2>2 DEF BatchInv
      <4>2. requested[c] > 0
        BY <1>2 DEF CoreInv, CallInv, Stage
      <4>3. requested[c] \in Nat /\ size[c] \in Nat
        BY <1>2, SizeType DEF CoreInv
      <4> QED BY <4>1, <4>2, <4>3
    <3>4. Len(held[c]) \in 1..(size[c] - 1) /\ Len(held[c]) <= Len(Contents)
      <4>1. PICK h, k, r : h = Len(held[c]) /\ k = Len(queue) /\ r = requested[c]
        OBVIOUS
      <4>2. h \in 1..(size[c] - 1) /\ h <= h + k
        BY <3>2, <3>3, <4>1
      <4> QED BY <3>1, <4>1, <4>2
    <3>5. status[c] = "cancelled" /\ Abstract!Dequeues(c)
      BY <1>1, <1>2, <2>2
         DEF CoreInv, CallInv, Stage, PlaceInv, DequeueKinds, Abstract!Dequeues
    <3>6. PICK n \in 1..(size[c] - 1) :
             n <= Len(Contents) /\ Contents' = SubSeq(Contents, n + 1, Len(Contents))
      BY <2>3, <3>1, <3>4
    <3>7. Abstract!Lose(c)
      BY <1>1, <3>5, <3>6 DEF Abstract!Lose, Contents
    <3> QED BY <1>2, <3>7 DEF Abstract!Next
  <2> QED BY <2>4, <2>5
<1> QED BY <1>3, <1>4

\* A turn on an enqueue: elements arrive, the queue is closed, or it was already.
LEMMA RunEnqueueRefines ==
    ASSUME CoreInv, FlowInv, BatchInv, NEW t \in Threads, RunEnqueue(t), UNCHANGED <<kind, size>>
    PROVE  Abstract!Next \/ UNCHANGED Abstract!vars
<1>0. PICK c, n : c = Head(enqueues) /\ n = Least(Room, requested[c])
  OBVIOUS
<1>1. /\ side = "enqueue" /\ enqueues # <<>> /\ c \notin isCancelled /\ UNCHANGED <<held, got>>
  BY <1>0 DEF RunEnqueue
<1>2. /\ c \in Elems(enqueues) /\ enqueues \in Seq(Calls)
  BY <1>0, <1>1, TakenFacts, ElemsType
<1>3. /\ c \in Calls /\ Abstract!Unfinished(c) /\ requested[c] \in Nat \ {0} /\ size[c] \in Nat
      /\ kind[c] \in EnqueueKinds
  BY <1>1, <1>2, PendingUnfinished DEF Pending, CoreInv, PlaceInv
<1>4. ~ Abstract!Dequeues(c)
  BY <1>3 DEF EnqueueKinds, Abstract!Dequeues
<1>5. UNCHANGED <<dequeues, answered>>
  BY <1>1 DEF RunEnqueue, Complete, Pop, Stay
<1>6. CASE /\ closed /\ Complete(t, c, "closed") /\ UNCHANGED <<queue, closed, arrived>>
  <2>1. Contents' = Contents
    BY <1>1, <1>5, <1>6, ContentsFrame
  <2>2. Abstract!Refuse(c)
    BY <1>1, <1>3, <1>4, <1>5, <1>6, <2>1 DEF Abstract!Refuse, Abstract!Result, Complete, Contents
  <2> QED BY <1>3, <2>2 DEF Abstract!Next
<1>7. CASE /\ ~ closed /\ kind[c] = "close" /\ closed' = TRUE /\ Complete(t, c, "ok")
           /\ UNCHANGED <<queue, arrived>>
  <2>1. Contents' = Contents
    BY <1>1, <1>5, <1>7, ContentsFrame
  <2>2. Abstract!Close(c)
    BY <1>1, <1>3, <1>5, <1>7, <2>1 DEF Abstract!Close, Abstract!Result, Complete, Contents
  <2> QED BY <1>3, <2>2 DEF Abstract!Next
<1>8. CASE /\ ~ closed /\ kind[c] # "close" /\ queue' = queue \o Slice(c, n)
           /\ arrived' = arrived \o Slice(c, n)
           /\ IF n = requested[c] THEN Complete(t, c, "ok") ELSE Stay(n > 0)
           /\ UNCHANGED closed
  <2>1. n \in 0..requested[c] /\ n \in Nat
    <3>1. n \in 0..requested[c]
      BY <1>0, <1>3, <1>8, RoomFacts DEF CoreInv
    <3> QED BY <1>3, <3>1
  <2>2. /\ Slice(c, n) \in Seq(Elements) /\ Len(Slice(c, n)) = n
        /\ Given(c)' = Given(c) + n /\ \A d : d # c => Given(d)' = Given(d)
    BY <1>3, <1>8, <2>1, SliceFacts, GivenGrows DEF CoreInv
  <2>3. Given(c) + requested[c] = size[c] /\ Given(c) \in Nat
    BY <1>2, GivenType DEF BatchInv
  <2>4. Contents' = Contents \o Slice(c, n)
    <3>1. Taken' = Taken
      BY <1>1, <1>5 DEF Taken
    <3>2. Taken \in Seq(Elements) /\ queue \in Seq(Elements)
      BY TakenFacts
    <3>3. (Taken \o queue) \o Slice(c, n) = Taken \o (queue \o Slice(c, n))
      BY ONLY <2>2, <3>2, Assoc, Zenon
    <3> QED BY <1>8, <3>1, <3>3 DEF Contents
  <2>5. CASE n = 0
    <3>1. Slice(c, n) = <<>>
      BY <2>2, <2>5, EmptySeq
    <3>2. Contents' = Contents /\ arrived' = arrived
      BY <1>8, <2>4, <3>1, ContentsFacts, TakenFacts, Join
    <3>3. UNCHANGED status
      BY <1>3, <1>8, <2>5 DEF Stay
    <3> QED BY <1>1, <1>5, <1>8, <3>2, <3>3, Stutter
  <2>6. CASE n # 0
    <3>1. n \in 1..(size[c] - Given(c)) /\ (Given(c) + n = size[c] <=> n = requested[c])
      BY <1>3, <2>1, <2>3, <2>6
    <3>2. Slice(c, n) = [i \in 1..n |-> <<c, Given(c) + i>>]
      <4>1. \A i \in 1..n : size[c] - requested[c] + i = Given(c) + i
        BY <1>3, <2>1, <2>3
      <4> QED BY <4>1 DEF Slice
    <3>3. IF Given(c) + n = size[c] THEN status' = [status EXCEPT ![c] = "ok"] ELSE UNCHANGED status
      BY <1>8, <3>1 DEF Complete, Stay
    <3> DEFINE given == [d \in Calls |-> Cardinality({i \in DOMAIN arrived : arrived[i][1] = d})]
    <3>4. (\A d \in Calls : given[d] = Given(d)) /\ DOMAIN given = Calls
      BY DEF Given
    <3>5. (\A d \in Calls : given'[d] = Given(d)') /\ DOMAIN given' = Calls
      BY DEF Given
    <3>6. given' = [d \in Calls |-> given'[d]]
      OBVIOUS
    <3> HIDE DEF given
    <3>7. given' = [given EXCEPT ![c] = given[c] + n] /\ given[c] = Given(c)
      <4>1. \A d \in Calls : given'[d] = [given EXCEPT ![c] = given[c] + n][d]
        BY <1>3, <2>2, <3>4, <3>5
      <4> QED BY <1>3, <3>4, <3>6, <4>1
    <3>8. /\ n \in 1..(size[c] - given[c])
          /\ Contents' = Contents \o [i \in 1..n |-> <<c, given[c] + i>>]
          /\ IF given[c] + n = size[c] THEN status' = [status EXCEPT ![c] = "ok"] ELSE UNCHANGED status
      BY <2>4, <3>1, <3>2, <3>3, <3>7
    <3>9. Abstract!Enqueue(c)
      <4>1. /\ Abstract!Enqueues(c) /\ Abstract!Unfinished(c) /\ ~ closed
            /\ UNCHANGED <<kind, size, closed, got, answered>>
        BY <1>1, <1>3, <1>5, <1>8 DEF EnqueueKinds, Abstract!Enqueues, Abstract!Unfinished
      <4>2. \E m \in 1..(size[c] - given[c]) :
               /\ Contents' = Contents \o [i \in 1..m |-> <<c, given[c] + i>>]
               /\ given' = [given EXCEPT ![c] = given[c] + m]
               /\ IF given[c] + m = size[c] THEN Abstract!Result(c, "ok") ELSE UNCHANGED status
        BY <3>7, <3>8 DEF Abstract!Result
      <4> USE DEF given
      <4> QED BY ONLY <4>1, <4>2, Zenon DEF Abstract!Enqueue, Contents
    <3> QED BY <1>3, <3>9 DEF Abstract!Next
  <2> QED BY <2>5, <2>6
<1> QED BY <1>0, <1>6, <1>7, <1>8 DEF RunEnqueue

\* The first dequeue is over, with the oldest elements or with none.
LEMMA DequeuedContents ==
    ASSUME CoreInv, CoreInv', FlowInv, dequeues # <<>>, NEW c, c = Head(dequeues),
           held' = [held EXCEPT ![c] = <<>>], UNCHANGED size
    PROVE  Contents' = queue'
<1>1. \A d \in Calls : held'[d] = <<>>
  BY TakenFacts
<1>2. dequeues' \in Seq(Calls) /\ queue' \in Seq(Elements')
  BY DEF CoreInv, TypeOK
<1>3. dequeues' # <<>> => Head(dequeues') \in Calls
  BY <1>2
<1>4. Taken' = <<>>
  BY <1>1, <1>3 DEF Taken
<1>5. queue' \in Seq(Elements)
  BY <1>2, ElementsFrame
<1> QED BY <1>4, <1>5, Join DEF Contents

\* A dequeue that is given elements.
LEMMA DeliverRefines ==
    ASSUME CoreInv, CoreInv', FlowInv, dequeues # <<>>, NEW c, c = Head(dequeues),
           c \notin isCancelled, side = "dequeue", NEW t, NEW elements \in Seq(Elements),
           elements # <<>>, Deliver(t, c, elements), elements \o queue' = Contents,
           \/ Len(elements) = size[c]
           \/ kind[c] = "dequeue_up_to" /\ closed /\ Len(elements) < size[c] /\ queue' = <<>>,
           UNCHANGED <<kind, size, closed, arrived>>
    PROVE  Abstract!Next
<1>1. /\ got' = [got EXCEPT ![c] = elements] /\ held' = [held EXCEPT ![c] = <<>>]
      /\ status' = [status EXCEPT ![c] = "ok"] /\ UNCHANGED answered
  BY DEF Deliver, Complete
<1>2. c \in Elems(dequeues)
  BY TakenFacts, ElemsType
<1>3. c \in Calls /\ Abstract!Unfinished(c)
  BY <1>2, PendingUnfinished DEF Pending
<1>4. Abstract!Dequeues(c)
  BY <1>2 DEF CoreInv, PlaceInv, DequeueKinds, Abstract!Dequeues
<1>5. Contents' = queue' /\ queue' \in Seq(Elements)
  <2>1. queue' \in Seq(Elements')
    BY DEF CoreInv, TypeOK
  <2> QED BY <1>1, <2>1, DequeuedContents, ElementsFrame
<1>6. PICK n : n = Len(elements)
  OBVIOUS
<1>7. n \in Nat \ {0} /\ Len(queue') \in Nat
  BY <1>5, <1>6, EmptySeq
<1>8. /\ Len(Contents) = n + Len(queue')
      /\ elements = SubSeq(Contents, 1, n)
      /\ queue' = SubSeq(Contents, n + 1, Len(Contents))
  <2>1. /\ Len(elements \o queue') = Len(elements) + Len(queue')
        /\ SubSeq(elements \o queue', 1, Len(elements)) = elements
        /\ SubSeq(elements \o queue', Len(elements) + 1, Len(elements \o queue')) = queue'
    BY <1>5, Parts
  <2> QED BY <1>6, <2>1
<1>9. /\ n \in 1..Len(Contents)
      /\ n = size[c] \/ (kind[c] = "dequeue_up_to" /\ closed /\ n = Len(Contents) /\ n < size[c])
  <2>1. n \in 1..Len(Contents)
    BY <1>7, <1>8
  <2>2. queue' = <<>> => n = Len(Contents)
    BY <1>7, <1>8
  <2> QED BY <1>6, <2>1, <2>2
<1>10. Abstract!Dequeue(c)
  <2>1. \E k \in 1..Len(Contents) :
           /\ k = size[c] \/ (kind[c] = "dequeue_up_to" /\ closed /\ k = Len(Contents) /\ k < size[c])
           /\ got' = [got EXCEPT ![c] = SubSeq(Contents, 1, k)]
           /\ Contents' = SubSeq(Contents, k + 1, Len(Contents))
    BY <1>1, <1>5, <1>8, <1>9
  <2> QED BY <1>1, <1>3, <1>4, <2>1 DEF Abstract!Dequeue, Abstract!Result, Contents
<1> QED BY <1>3, <1>10 DEF Abstract!Next

\* A turn on a dequeue.
LEMMA RunDequeueRefines ==
    ASSUME CoreInv, CoreInv', FlowInv, BatchInv, NEW t \in Threads, RunDequeue(t),
           UNCHANGED <<kind, size>>
    PROVE  Abstract!Next \/ UNCHANGED Abstract!vars
<1>0. PICK c, n : c = Head(dequeues) /\ n = Least(Len(queue), requested[c])
  OBVIOUS
<1>1. /\ side = "dequeue" /\ dequeues # <<>> /\ c \notin isCancelled /\ UNCHANGED <<closed, arrived>>
  BY <1>0 DEF RunDequeue
<1>2. /\ c \in Calls /\ held[c] \in Seq(Elements) /\ queue \in Seq(Elements)
      /\ Len(queue) \in Nat /\ Len(held[c]) \in Nat /\ requested[c] \in Nat \ {0} /\ size[c] \in Nat
      /\ n \in 0..Len(queue) /\ n \in 0..requested[c]
  BY <1>0, <1>1, DequeueFacts, TakenFacts
<1>3. c \in Elems(dequeues)
  BY <1>0, <1>1, TakenFacts, ElemsType
<1>4. Len(held[c]) + requested[c] = size[c]
  BY <1>3 DEF BatchInv
<1>5. /\ Restored(c) = Contents /\ Contents = held[c] \o queue /\ Contents \in Seq(Elements)
      /\ Len(Contents) = Len(held[c]) + Len(queue)
  <2>1. Contents = held[c] \o queue /\ Contents \in Seq(Elements)
    BY <1>0, <1>1, ContentsFacts
  <2>2. Len(held[c] \o queue) = Len(held[c]) + Len(queue)
    BY <1>2, ConcatProperties
  <2> QED BY <2>1, <2>2 DEF Restored
<1>6. Len(queue) < requested[c] => Len(Contents) < size[c]
  BY <1>2, <1>4, <1>5
<1>7. CASE /\ closed /\ Len(queue) < requested[c] /\ kind[c] = "dequeue_up_to" /\ Restored(c) # <<>>
           /\ queue' = <<>> /\ Deliver(t, c, Restored(c))
  <2>1. Contents \o queue' = Contents
    BY <1>5, <1>7, Join
  <2>2. Deliver(t, c, Contents) /\ Contents # <<>> /\ Len(Contents) < size[c]
    BY <1>5, <1>6, <1>7
  <2> QED BY <1>0, <1>1, <1>5, <1>7, <2>1, <2>2, DeliverRefines
<1>8. CASE Stay(TRUE) /\ UNCHANGED <<queue, held>>
  BY <1>1, <1>8, ContentsFrame, Stutter DEF Stay
<1>9. CASE /\ closed /\ Len(queue) < requested[c]
           /\ queue' = Restored(c) /\ held' = [held EXCEPT ![c] = <<>>]
           /\ Complete(t, c, "out_of_range") /\ UNCHANGED got
  <2>1. Contents' = Contents
    BY <1>0, <1>1, <1>5, <1>9, DequeuedContents
  <2>2. Abstract!Unfinished(c) /\ Abstract!Dequeues(c)
    BY <1>1, <1>3, PendingUnfinished
       DEF Pending, CoreInv, PlaceInv, DequeueKinds, Abstract!Dequeues
  <2>3. Len(Contents) < size[c]
    BY <1>6, <1>9
  <2>4. status' = [status EXCEPT ![c] = "out_of_range"] /\ UNCHANGED answered
    BY <1>9 DEF Complete
  <2>5. Abstract!Refuse(c)
    BY <1>1, <1>9, <2>1, <2>2, <2>3, <2>4 DEF Abstract!Refuse, Abstract!Result, Contents
  <2> QED BY <1>2, <2>5 DEF Abstract!Next
<1>10. CASE /\ queue' = SubSeq(queue, n + 1, Len(queue))
            /\ IF n = requested[c]
                 THEN Deliver(t, c, held[c] \o SubSeq(queue, 1, n))
                 ELSE /\ held' = [held EXCEPT ![c] = @ \o SubSeq(queue, 1, n)]
                      /\ Stay(n > 0)
  <2>0. PICK first : first = SubSeq(queue, 1, n)
    OBVIOUS
  <2>1. /\ first \in Seq(Elements) /\ queue' \in Seq(Elements) /\ Len(first) = n
        /\ first \o queue' = queue
    <3>1. /\ SubSeq(queue, 1, n) \in Seq(Elements)
          /\ SubSeq(queue, n + 1, Len(queue)) \in Seq(Elements) /\ Len(SubSeq(queue, 1, n)) = n
          /\ SubSeq(queue, 1, n) \o SubSeq(queue, n + 1, Len(queue)) = queue
      BY <1>2, Cut
    <3> QED BY <1>10, <2>0, <3>1
  <2>2. PICK e \in Seq(Elements) : e = held[c] \o first
    BY <1>2, <2>1, Join
  <2>3. Len(e) = Len(held[c]) + n
    BY <1>2, <2>1, <2>2, ConcatProperties
  <2>4. e \o queue' = Contents
    <3>1. held[c] \in Seq(Elements) /\ first \in Seq(Elements) /\ queue' \in Seq(Elements)
      BY <1>2, <2>1
    <3>2. (held[c] \o first) \o queue' = held[c] \o (first \o queue')
      BY ONLY <3>1, Assoc, Zenon
    <3> QED BY <1>5, <2>1, <2>2, <3>2
  <2>5. CASE n = requested[c]
    <3>1. Len(e) = size[c] /\ e # <<>>
      <4>1. Len(e) = size[c] /\ Len(e) # 0
        BY <1>2, <1>4, <2>3, <2>5
      <4> QED BY <4>1, EmptySeq
    <3>2. Deliver(t, c, e)
      BY <1>10, <2>0, <2>2, <2>5
    <3> QED BY <1>0, <1>1, <2>4, <3>1, <3>2, DeliverRefines
  <2>6. CASE n # requested[c]
    <3>1. held' = [held EXCEPT ![c] = e]
          /\ UNCHANGED <<dequeues, status, got, answered>>
      BY <1>10, <2>0, <2>2, <2>6 DEF Stay
    <3>2. Taken' = e
      BY <1>0, <1>1, <1>2, <3>1, TakenFacts DEF Taken
    <3>3. Contents' = Contents
      BY <2>4, <3>2 DEF Contents
    <3> QED BY <1>1, <3>1, <3>3, Stutter
  <2> QED BY <2>5, <2>6
<1> QED BY <1>0, <1>7, <1>8, <1>9, <1>10 DEF RunDequeue

\* A completed call is called back.
LEMMA CleanUpRefines ==
    ASSUME CoreInv, NEW t \in Threads, CleanUp(t)
    PROVE  Abstract!Next
<1>1. PICK c : c = Head(cleanUp[t])
  OBVIOUS
<1>2. /\ cleanUp[t] # <<>> /\ answered' = [answered EXCEPT ![c] = @ + 1]
      /\ UNCHANGED <<kind, size, queue, closed, dequeues, held, status, got, arrived>>
  BY <1>1 DEF CleanUp, attemptVars
<1>3. c \in Calls /\ InCleanUp(t, c)
  <2>1. cleanUp[t] \in Seq(Calls)
    BY DEF CoreInv, TypeOK
  <2> QED BY <1>1, <1>2, <2>1, ElemsType DEF InCleanUp
<1>4. status[c] # "none" /\ answered[c] = 0
  BY <1>3 DEF CoreInv, CallInv, Stage
<1>5. Contents' = Contents
  BY <1>2, ContentsFrame
<1>6. Abstract!Finish(c)
  BY <1>2, <1>4, <1>5 DEF Abstract!Finish, Abstract!CallBack, Contents
<1> QED BY <1>3, <1>6 DEF Abstract!Next

\* A CloseAndCancel that is under way has closed the queue.
CloserInv == \A c \in Calls : kind[c] = "close_cancel" /\ pc[c] # "idle" => closed

LEMMA CloserStep ==
    ASSUME CoreInv, CloserInv, [Next]_vars
    PROVE  CloserInv'
<1>t. /\ pc \in [Threads -> {"idle", "flush", "locked", "clean", "callbacks", "done"}]
      /\ closed \in BOOLEAN
  BY DEF CoreInv, TypeOK
<1>1. UNCHANGED kind /\ (closed => closed')
  <2>1. ASSUME NEW c \in Calls, Try(c) \/ TryNothing(c) \/ Close(c) \/ CloseAndCancel(c)
        PROVE  UNCHANGED kind /\ (closed' = closed \/ closed' = TRUE)
    BY <2>1 DEF Try, TryNothing, Close, CloseAndCancel, Stash, attemptVars
  <2>2. ASSUME NEW t \in Threads, Lock(t) \/ RoundEnds(t) \/ CleanUp(t) \/ Return(t)
        PROVE  UNCHANGED <<kind, closed>>
    BY <2>2 DEF Lock, RoundEnds, CleanUp, Return, attemptVars
  <2>3. ASSUME NEW t \in Threads, TryAttempt(t)
        PROVE  UNCHANGED kind /\ (closed' = closed \/ closed' = TRUE)
    <3>1. SkipCancelled(t) \/ NoAttempt \/ RunDequeue(t) => closed' = closed
      BY DEF SkipCancelled, NoAttempt, RunDequeue, attemptVars
    <3>2. RunEnqueue(t) => closed' = closed \/ closed' = TRUE
      BY DEF RunEnqueue
    <3> QED BY <2>3, <3>1, <3>2 DEF TryAttempt
  <2>4. ASSUME NEW m \in Managers, StartCancel(m) \/ Cancel(m) \/ Cancelled(m)
        PROVE  UNCHANGED <<kind, closed>>
    BY <2>4 DEF StartCancel, Cancel, Cancelled, attemptVars
  <2>5. CASE UNCHANGED vars
    BY <2>5 DEF vars, attemptVars
  <2> QED BY <2>1, <2>2, <2>3, <2>4, <2>5 DEF Next, Flush
<1>2. ASSUME \A c \in Calls : kind[c] = "close_cancel" /\ pc[c] = "idle" => pc'[c] = "idle"
      PROVE  CloserInv'
  BY <1>1, <1>2 DEF CloserInv
<1>3. ASSUME NEW c \in Calls, CloseAndCancel(c) PROVE CloserInv'
  BY <1>3 DEF CloseAndCancel, CloserInv
<1>4. ASSUME NEW c \in Calls, Try(c) \/ TryNothing(c) \/ Close(c) PROVE CloserInv'
  <2>1. kind[c] # "close_cancel"
    BY <1>4 DEF Try, TryNothing, Close, Closes, Batches, CoreInv, SizeInv
  <2>2. pc' = [pc EXCEPT ![c] = "flush"] \/ pc' = [pc EXCEPT ![c] = "done"]
    BY <1>4 DEF Try, TryNothing, Close, Go
  <2>3. \A d \in Calls : d # c => pc'[d] = pc[d]
    BY <1>t, <2>2, TwoThreads
  <2> QED BY <1>2, <2>1, <2>3
<1>5. ASSUME NEW t \in Threads, Flush(t) PROVE CloserInv'
  <2>1. UNCHANGED pc \/ (pc[t] # "idle" /\ \E place : pc' = [pc EXCEPT ![t] = place])
    BY <1>5 DEF Flush, Lock, TryAttempt, RoundEnds, CleanUp, Return, Go, CoreInv, LockInv
  <2>2. \A d \in Calls : pc[d] = "idle" => pc'[d] = "idle"
    BY <1>t, <2>1, TwoThreads
  <2> QED BY <1>2, <2>2
<1>6. ASSUME NEW m \in Managers, StartCancel(m) \/ Cancel(m) \/ Cancelled(m) PROVE CloserInv'
  <2>1. UNCHANGED pc \/ \E place : pc' = [pc EXCEPT ![m] = place]
    BY <1>6 DEF StartCancel, Cancel, Cancelled, Go
  <2>2. \A d \in Calls : pc'[d] = pc[d]
    BY <1>t, <2>1, TwoThreads
  <2> QED BY <1>2, <2>2
<1>7. CASE UNCHANGED vars
  BY <1>2, <1>7 DEF vars
<1> QED BY <1>3, <1>4, <1>5, <1>6, <1>7 DEF Next

\* FlushUnlocked returns; CloseAndCancel has succeeded.
LEMMA ReturnRefines ==
    ASSUME CoreInv, CloserInv, NEW t \in Threads, Return(t)
    PROVE  Abstract!Next \/ UNCHANGED Abstract!vars
<1>1. /\ pc[t] = "clean"
      /\ UNCHANGED <<kind, size, queue, closed, dequeues, held, arrived>>
  BY DEF Return, attemptVars
<1>2. Contents' = Contents
  BY <1>1, ContentsFrame
<1>3. CASE t \in Calls /\ kind[t] = "close_cancel"
  <2>1. Answer(t, "ok")
    BY <1>3 DEF Return
  <2>2. Abstract!Unfinished(t)
    BY <1>1, <1>3 DEF CoreInv, CallInv, Stage, Abstract!Unfinished
  <2>3. closed
    BY <1>1, <1>3 DEF CloserInv
  <2>4. Abstract!Succeed(t)
    BY <1>1, <1>2, <1>3, <2>1, <2>2, <2>3
       DEF Abstract!Succeed, Abstract!Result, Abstract!CallBack, Answer, Contents
  <2> QED BY <1>3, <2>4 DEF Abstract!Next
<1>4. CASE ~ (t \in Calls /\ kind[t] = "close_cancel")
  BY <1>1, <1>2, <1>4, Stutter DEF Return, callVars
<1> QED BY <1>3, <1>4

\* A pending attempt is cancelled.
LEMMA CancelRefines ==
    ASSUME CoreInv, NEW m \in Managers, Cancel(m)
    PROVE  Abstract!Next \/ UNCHANGED Abstract!vars
<1>1. UNCHANGED <<kind, size, queue, closed, dequeues, held, arrived>>
  BY DEF Cancel
<1>2. Contents' = Contents
  BY <1>1, ContentsFrame
<1>3. PICK c : IF Cancels(c) THEN Answer(c, "cancelled") ELSE UNCHANGED callVars
  BY DEF Cancel
<1>4. CASE Cancels(c)
  <2>1. c \in Calls /\ Abstract!Unfinished(c)
    BY <1>4, IsPendingMeans, PendingUnfinished DEF Cancels, CoreInv
  <2>2. Abstract!Cancel(c)
    BY <1>1, <1>2, <1>3, <1>4, <2>1
       DEF Abstract!Cancel, Abstract!Result, Abstract!CallBack, Answer, Contents
  <2> QED BY <2>1, <2>2 DEF Abstract!Next
<1>5. CASE ~ Cancels(c)
  BY <1>1, <1>2, <1>3, <1>5, Stutter DEF callVars
<1> QED BY <1>4, <1>5

\* Every step of the queue is a step of QueueSpec, or none that the users see.
LEMMA RefinesStep ==
    ASSUME CoreInv, CoreInv', FlowInv, FlowInv', BatchInv, CloserInv, [Next]_vars
    PROVE  Abstract!Next \/ UNCHANGED Abstract!vars
<1>1. ASSUME UNCHANGED <<kind, size, attemptVars, callVars, arrived>>
      PROVE  UNCHANGED Abstract!vars
  BY <1>1, ContentsFrame, Stutter DEF attemptVars, callVars
<1>2. ASSUME NEW c \in Calls, Try(c) \/ TryNothing(c) \/ Close(c) \/ CloseAndCancel(c)
      PROVE  Abstract!Next \/ UNCHANGED Abstract!vars
  BY <1>2, TryRefines, CloseAndCancelRefines
<1>3. ASSUME NEW t \in Threads, Lock(t) \/ RoundEnds(t)
      PROVE  UNCHANGED Abstract!vars
  BY <1>1, <1>3 DEF Lock, RoundEnds
<1>4. ASSUME NEW t \in Threads, TryAttempt(t)
      PROVE  Abstract!Next \/ UNCHANGED Abstract!vars
  <2>1. UNCHANGED <<kind, size>>
    BY <1>4 DEF TryAttempt
  <2>2. NoAttempt => UNCHANGED Abstract!vars
    BY <1>1, <2>1 DEF NoAttempt
  <2> QED BY <1>4, <2>1, <2>2, SkipRefines, RunEnqueueRefines, RunDequeueRefines DEF TryAttempt
<1>5. ASSUME NEW m \in Managers, StartCancel(m) \/ Cancelled(m)
      PROVE  UNCHANGED Abstract!vars
  BY <1>1, <1>5 DEF StartCancel, Cancelled
<1>6. CASE UNCHANGED vars
  BY <1>1, <1>6 DEF vars
<1> QED BY <1>2, <1>3, <1>4, <1>5, <1>6, CleanUpRefines, ReturnRefines, CancelRefines DEF Next, Flush

-----------------------------------------------------------------------------
(* The theorems *)

Inv == CoreInv /\ FlowInv /\ WaitInv /\ BatchInv

\* An unused queue.
LEMMA InitInv == Init => Inv
<1> SUFFICES ASSUME Init PROVE Inv
  OBVIOUS
<1> USE DEF Init
<1>1. Elems(<<>>) = {} /\ Distinct(<<>>)
  BY DEF Elems, Distinct
<1>2. /\ \A c \in Calls : ~ Pending(c)
      /\ \A t \in Threads : \A c \in Calls : ~ InCleanUp(t, c)
  BY <1>1 DEF Pending, InCleanUp
<1>3. TypeOK
  <2>1. <<>> \in Seq(Calls) /\ <<>> \in Seq(Elements) /\ Len(<<>>) = 0 /\ 0 <= Capacity
    BY CapacityAssumption
  <2>2. CancellationTypeOK
    BY DEF CancellationInit, CancellationTypeOK
  <2> QED BY <2>1, <2>2 DEF TypeOK
<1>4. SizeInv
  <2>1. \A c \in Calls : size[c] \in Nat /\ requested[c] = 0
    BY <1>3, SizeType
  <2> QED BY <2>1 DEF SizeInv
<1>5. PlaceInv
  BY <1>1, <1>2 DEF PlaceInv
<1>6. CallInv
  <2> SUFFICES ASSUME NEW c \in Calls PROVE Stage(c)
    BY DEF CallInv
  <2>1. /\ c \notin isCancelled /\ status[c] = "none" /\ answered[c] = 0 /\ requested[c] = 0
    OBVIOUS
  <2> QED BY <1>2, <2>1 DEF Stage
<1>7. LockInv /\ ManagerInv
  BY TwoThreads DEF LockInv, ManagerInv, CancellationInit
<1>8. FlowInv
  <2>1. Taken = <<>> /\ HeldInv
    BY DEF Taken, HeldInv
  <2> QED BY <2>1, Join DEF FlowInv
<1>9. WaitInv
  BY DEF WaitInv, NeverYields, NobodyWaitsWithoutReason
<1>10. BatchInv
  <2>1. Elems(enqueues) = {} /\ Elems(dequeues) = {}
    BY <1>1
  <2>2. \A c \in Calls : {i \in DOMAIN arrived : arrived[i][1] = c} = {}
    OBVIOUS
  <2>3. \A c \in Calls : Given(c) = 0
    BY <2>2, FS_EmptySet DEF Given
  <2> QED BY <2>1, <2>3 DEF BatchInv
<1> QED BY <1>3, <1>4, <1>5, <1>6, <1>7, <1>8, <1>9, <1>10 DEF Inv, CoreInv

\* The invariant holds forever.
THEOREM Invariance == Spec => []Inv
<1>1. Inv /\ [Next]_vars => Inv'
  BY CoreStep, FlowStep, WaitStep, BatchStep DEF Inv
<1> QED BY InitInv, <1>1, PTL DEF Spec

\* All variables keep their types, and an open queue never holds more than capacity_
\* elements (queue_base.cc, fifo_queue.cc).
THEOREM TypeCorrect == Spec => []TypeOK
<1>1. Inv => TypeOK
  BY DEF Inv, CoreInv
<1> QED BY Invariance, <1>1, PTL

\* A callback is called at most once, whoever completes, cancels or closes
\* (queue_base.cc, FlushUnlocked, Cancel and CloseAndCancel).
THEOREM OneCallback == Spec => []CalledBackOnce
<1>1. Inv => CalledBackOnce
  BY DEF Inv, CoreInv, CallInv, Stage, CalledBackOnce
<1> QED BY Invariance, <1>1, PTL

\* First in, first out: what came is what left, then what the first DequeueMany
\* holds, then the queue, and nobody else holds anything (fifo_queue.cc).
THEOREM OrderIsKept == Spec => []FirstInFirstOut
<1>1. Inv => FirstInFirstOut
  <2> SUFFICES ASSUME Inv PROVE FirstInFirstOut
    OBVIOUS
  <2>1. CoreInv /\ FlowInv /\ dequeues \in Seq(Calls) /\ Distinct(dequeues)
    BY DEF Inv, CoreInv, TypeOK, PlaceInv
  <2>2. ASSUME NEW i \in DOMAIN dequeues, i > 1 PROVE held[dequeues[i]] = <<>>
    <3>1. /\ i \in 1..Len(dequeues) /\ 1 \in 1..Len(dequeues) /\ dequeues[i] \in Calls
          /\ dequeues # <<>> /\ Head(dequeues) = dequeues[1]
      BY <2>1, <2>2
    <3>2. dequeues[i] # Head(dequeues)
      BY <2>1, <2>2, <3>1 DEF Distinct
    <3> QED BY <2>1, <3>1, <3>2 DEF FlowInv, HeldInv
  <2> QED BY <2>1, <2>2 DEF FirstInFirstOut, FlowInv
<1> QED BY Invariance, <1>1, PTL

\* No wakeup is lost: when no thread is about to flush, an enqueue waits only for
\* room, a dequeue only for elements (queue_base.cc, FlushUnlocked).
THEOREM NobodyWaits == Spec => []NobodyWaitsWithoutReason
<1>1. Inv => NobodyWaitsWithoutReason
  BY DEF Inv, WaitInv
<1> QED BY Invariance, <1>1, PTL

\* The yield of DequeueUpTo, which would spin under mu_, is never taken
\* (fifo_queue.cc, TryDequeueMany).
THEOREM NoYield == Spec => []NeverYields
<1>1. Inv => NeverYields
  BY DEF Inv, WaitInv
<1> QED BY Invariance, <1>1, PTL

\* Threads come to a standstill inside the queue only if one that runs StartCancel
\* is among them (queue_base.cc, cancellation.cc).
THEOREM Standstill == Spec => []StandstillNeedsACanceller
<1>1. Inv => StandstillNeedsACanceller
  <2> SUFFICES ASSUME Inv,
                      \A t \in Threads : pc[t] \in {"idle", "done"} \/ WaitsToDeregister(t),
                      NEW t \in Threads, WaitsToDeregister(t)
               PROVE  \E m \in Managers : WaitsToDeregister(m)
    BY DEF StandstillNeedsACanceller
  <2>0. TypeOK /\ ManagerInv
    BY DEF Inv, CoreInv
  <2>1. /\ cleanUp[t] \in Seq(Calls) /\ cleanUp[t] # <<>>
        /\ DeregisterWaits(manager[Head(cleanUp[t])])
    BY <2>0 DEF TypeOK, WaitsToDeregister
  <2>2. PICK m : m = manager[Head(cleanUp[t])]
    OBVIOUS
  <2>3. m \in Managers
    <3>1. Head(cleanUp[t]) \in Calls
      BY <2>1
    <3> QED BY <2>0, <2>2, <3>1 DEF TypeOK
  <2>4. cmState[m] = "cancelling"
    BY <2>1, <2>2 DEF DeregisterWaits
  <2>5. pc[m] \notin {"idle", "done"} /\ m \in Threads
    BY <2>0, <2>3, <2>4, TwoThreads DEF ManagerInv
  <2> QED BY <2>3, <2>5
<1> QED BY Invariance, <1>1, PTL

\* The queue with its attempts, its mutex and its partly filled batches implements
\* QueueSpec, in which every call takes effect in one step (queue_interface.h).
THEOREM Implements == Spec => ImplementsQueueSpec
<1>1. Init => Abstract!Init
  <2> SUFFICES ASSUME Init PROVE Abstract!Init
    OBVIOUS
  <2>1. Taken \o queue = <<>>
    BY Join DEF Init, Taken
  <2>2. [c \in Calls |-> Cardinality({i \in DOMAIN arrived : arrived[i][1] = c})] = [c \in Calls |-> 0]
    <3>1. \A c \in Calls : {i \in DOMAIN arrived : arrived[i][1] = c} = {}
      BY DEF Init
    <3> QED BY <3>1, FS_EmptySet
  <2> QED BY <2>1, <2>2 DEF Init, Abstract!Init
<1>2. Inv /\ Inv' /\ CloserInv /\ [Next]_vars => [Abstract!Next]_(Abstract!vars)
  BY RefinesStep DEF Inv
<1>3. Init => CloserInv
  BY TwoThreads DEF Init, CloserInv
<1>4. Inv /\ CloserInv /\ [Next]_vars => CloserInv'
  BY CloserStep DEF Inv
<1> QED BY Invariance, <1>1, <1>2, <1>3, <1>4, PTL DEF Spec, ImplementsQueueSpec, Abstract!Spec

=============================================================================
