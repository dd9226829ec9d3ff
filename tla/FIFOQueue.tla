----------------------------- MODULE FIFOQueue -----------------------------
(***************************************************************************)
(* The queue of the TensorFlow runtime: QueueBase (core/kernels/            *)
(* queue_base.cc) and FIFOQueue (fifo_queue.cc), together with the          *)
(* CancellationManager of the steps that use it.                            *)
(*                                                                          *)
(* Every call has its thread, and so has every StartCancel.  A call is      *)
(* stashed as an attempt, and any thread may carry it out: FlushUnlocked    *)
(* runs all attempts that can proceed while it holds mu_, and afterwards,   *)
(* without mu_, deregisters and calls back those it completed.  The loop    *)
(* under mu_ is taken one attempt at a time; nobody else can enter.         *)
(* Component shapes are specified; an allocation does not fail.             *)
(***************************************************************************)
EXTENDS Integers, Sequences, FiniteSets, Cancellation

CONSTANTS
    Capacity,   \* capacity_
    Sizes,      \* the batches of EnqueueMany, DequeueMany and DequeueUpTo
    Kinds,      \* the operations used, a subset of AllKinds
    Free        \* nobody holds mu_

Batches == {"enqueue_many", "dequeue_many", "dequeue_up_to"}
Closes == {"close", "close_cancel"}
AllKinds == {"enqueue", "dequeue"} \cup Batches \cup Closes

ASSUME CapacityAssumption == Capacity \in Nat \ {0} /\ Sizes \subseteq Nat
ASSUME KindsAssumption == Kinds \subseteq AllKinds
ASSUME ThreadsAssumption == Calls \cap Managers = {} /\ Free \notin Calls \cup Managers

Threads == Calls \cup Managers

VARIABLES
    kind, size, manager,    \* per call: the operation, its batch, the step's manager
    queue, closed,          \* queues_, closed_
    enqueues, dequeues,     \* enqueue_attempts_, dequeue_attempts_
    requested,              \* per attempt: elements_requested
    held,                   \* per attempt: the part of its tuple filled so far
    isCancelled,            \* the attempts whose is_cancelled is set
    holder, side, changed,  \* mu_ during FlushUnlocked, and where its loop is
    pc,                     \* per thread
    cleanUp,                \* per thread: clean_up, its completed calls
    status,                 \* per call: the status of its context
    got,                    \* per call: the tuple its callback is given
    answered,               \* per call: how often its callback was called
    arrived, left           \* ghosts: elements in the order they came and went

attemptVars == <<queue, closed, enqueues, dequeues, requested, held, isCancelled>>
callVars == <<status, got, answered>>
vars == <<kind, size, manager, attemptVars, holder, side, changed, pc, cleanUp,
          callVars, arrived, left, cmVars>>

Init ==
    /\ kind \in [Calls -> Kinds]
    /\ size \in [Calls -> Sizes \cup {1}]
    /\ \A c \in Calls : IF kind[c] \in Batches THEN size[c] \in Sizes ELSE size[c] = 1
    /\ manager \in [Calls -> Managers]
    /\ queue = <<>> /\ closed = FALSE
    /\ enqueues = <<>> /\ dequeues = <<>>
    /\ requested = [c \in Calls |-> 0]
    /\ held = [c \in Calls |-> <<>>]
    /\ isCancelled = {}
    /\ holder = Free /\ side = "enqueue" /\ changed = FALSE
    /\ pc = [t \in Threads |-> "idle"]
    /\ cleanUp = [t \in Threads |-> <<>>]
    /\ status = [c \in Calls |-> "none"]
    /\ got = [c \in Calls |-> <<>>]
    /\ answered = [c \in Calls |-> 0]
    /\ arrived = <<>> /\ left = <<>>
    /\ CancellationInit

-----------------------------------------------------------------------------
(* The calls *)

Go(t, place) == pc' = [pc EXCEPT ![t] = place]

\* The status is set and the callback called in one step outside mu_.
Answer(c, result) ==
    /\ status' = [status EXCEPT ![c] = result]
    /\ answered' = [answered EXCEPT ![c] = @ + 1]
    /\ UNCHANGED got

\* A new attempt at the end of its deque.
Stash(c) ==
    /\ IF kind[c] \in {"dequeue", "dequeue_many", "dequeue_up_to"}
         THEN dequeues' = Append(dequeues, c) /\ UNCHANGED enqueues
         ELSE enqueues' = Append(enqueues, c) /\ UNCHANGED dequeues
    /\ requested' = [requested EXCEPT ![c] = size[c]]
    /\ UNCHANGED <<queue, closed, held, isCancelled>>

\* TryEnqueue, TryEnqueueMany, TryDequeue, TryDequeueMany: registered and stashed
\* under mu_, unless the step is cancelled already.
Try(c) ==
    /\ pc[c] = "idle" /\ kind[c] \notin Closes /\ size[c] > 0
    /\ holder = Free
    /\ \/ /\ MayRegister(manager[c])
          /\ RegisterCallback(manager[c], c)
          /\ Stash(c)
          /\ Go(c, "flush")
          /\ UNCHANGED callVars
       \/ /\ ~ MayRegister(manager[c])
          /\ Answer(c, "cancelled")
          /\ Go(c, "done")
          /\ UNCHANGED <<attemptVars, cmVars>>
    /\ UNCHANGED <<kind, size, manager, holder, side, changed, cleanUp, arrived, left>>

\* A batch of no elements is answered at once.
TryNothing(c) ==
    /\ pc[c] = "idle" /\ size[c] = 0
    /\ Answer(c, "ok")
    /\ Go(c, "done")
    /\ UNCHANGED <<kind, size, manager, attemptVars, holder, side, changed, cleanUp,
                   arrived, left, cmVars>>

\* Close, which waits behind the pending enqueues.
Close(c) ==
    /\ pc[c] = "idle" /\ kind[c] = "close" /\ holder = Free
    /\ Stash(c)
    /\ Go(c, "flush")
    /\ UNCHANGED <<kind, size, manager, holder, side, changed, cleanUp, callVars,
                   arrived, left, cmVars>>

\* CloseAndCancel: every enqueue that is not cancelled yet is called back with an
\* error, other pending Closes too.
CloseAndCancel(c) ==
    LET pending == {d \in Calls : \E i \in DOMAIN enqueues : enqueues[i] = d} \ isCancelled IN
    /\ pc[c] = "idle" /\ kind[c] = "close_cancel" /\ holder = Free
    /\ closed' = TRUE
    /\ isCancelled' = isCancelled \cup pending
    /\ status' = [d \in Calls |-> IF d \in pending THEN "cancelled" ELSE status[d]]
    /\ answered' = [d \in Calls |-> IF d \in pending THEN answered[d] + 1 ELSE answered[d]]
    /\ Go(c, "flush")
    /\ UNCHANGED <<kind, size, manager, queue, enqueues, dequeues, requested, held,
                   holder, side, changed, cleanUp, got, arrived, left, cmVars>>

-----------------------------------------------------------------------------
(* FlushUnlocked: rounds of TryAttemptLocked over the enqueues, then over the
   dequeues, until a round changes nothing. *)

Lock_DequeuesFirst(t) ==     \* mutant: the dequeues are tried first
    /\ pc[t] = "flush" /\ holder = Free
    /\ holder' = t /\ side' = "dequeue" /\ changed' = FALSE
    /\ Go(t, "locked")
    /\ UNCHANGED <<kind, size, manager, attemptVars, cleanUp, callVars, arrived, left,
                   cmVars>>
Lock(t) ==
    /\ pc[t] = "flush" /\ holder = Free
    /\ holder' = t /\ side' = "enqueue" /\ changed' = FALSE
    /\ Go(t, "locked")
    /\ UNCHANGED <<kind, size, manager, attemptVars, cleanUp, callVars, arrived, left,
                   cmVars>>

\* This deque is finished for the round.
OtherSide == side' = IF side = "enqueue" THEN "dequeue" ELSE "end"

Attempts == IF side = "enqueue" THEN enqueues ELSE dequeues

Pop ==
    IF side = "enqueue" THEN enqueues' = Tail(enqueues) /\ UNCHANGED dequeues
                        ELSE dequeues' = Tail(dequeues) /\ UNCHANGED enqueues

\* A cancelled attempt is dropped, with the elements it has taken.
SkipCancelled(t) ==
    /\ side # "end" /\ Attempts # <<>> /\ Head(Attempts) \in isCancelled
    /\ Pop
    /\ left' = left \o held[Head(Attempts)]
    /\ held' = [held EXCEPT ![Head(Attempts)] = <<>>]
    /\ UNCHANGED <<queue, closed, requested, isCancelled, side, changed, cleanUp,
                   callVars, arrived>>

\* run_callback returned kComplete.
Complete(t, c, result) ==
    /\ Pop
    /\ changed' = TRUE
    /\ cleanUp' = [cleanUp EXCEPT ![t] = Append(@, c)]
    /\ status' = [status EXCEPT ![c] = result]
    /\ UNCHANGED <<side, isCancelled, answered>>

\* run_callback returned kProgress or kNoProgress: the attempt stays in front.
Stay(progress) ==
    /\ OtherSide
    /\ changed' = (changed \/ progress)
    /\ UNCHANGED <<enqueues, dequeues, isCancelled, cleanUp, status, got, answered, left>>

Least(m, n) == IF m <= n THEN m ELSE n

\* The next n elements of an enqueue's batch.
Slice(c, n) == [i \in 1..n |-> <<c, size[c] - requested[c] + i>>]

Room_Off == Capacity - Len(queue) + 1     \* mutant: size() <= capacity_
Room == Capacity - Len(queue)

RunEnqueue(t) ==
    /\ side = "enqueue" /\ enqueues # <<>> /\ Head(enqueues) \notin isCancelled
    /\ LET c == Head(enqueues)
           n == Least(Room, requested[c]) IN
       \/ /\ closed
          /\ Complete(t, c, "closed")
          /\ UNCHANGED <<queue, closed, requested, arrived>>
       \/ /\ ~ closed /\ kind[c] = "close"
          /\ closed' = TRUE
          /\ Complete(t, c, "ok")
          /\ UNCHANGED <<queue, requested, arrived>>
       \/ /\ ~ closed /\ kind[c] # "close"
          /\ queue' = queue \o Slice(c, n)
          /\ arrived' = arrived \o Slice(c, n)
          /\ requested' = [requested EXCEPT ![c] = @ - n]
          /\ IF n = requested[c] THEN Complete(t, c, "ok") ELSE Stay(n > 0)
          /\ UNCHANGED closed
    /\ UNCHANGED <<held, got, left>>

\* The tuple is complete.
Deliver_Forgets(t, c, elements) ==     \* mutant: a new tuple for every attempt
    /\ got' = [got EXCEPT ![c] = SubSeq(elements, Len(held[c]) + 1, Len(elements))]
    /\ left' = left \o elements
    /\ held' = [held EXCEPT ![c] = <<>>]
    /\ Complete(t, c, "ok")
Deliver(t, c, elements) ==
    /\ got' = [got EXCEPT ![c] = elements]
    /\ left' = left \o elements
    /\ held' = [held EXCEPT ![c] = <<>>]
    /\ Complete(t, c, "ok")

\* Closed, and too few elements: those already taken go back to the front.
Restored_Reversed(c) ==     \* mutant: put back in the order they were taken
    [i \in 1..Len(held[c]) |-> held[c][Len(held[c]) + 1 - i]] \o queue
Restored(c) == held[c] \o queue

RunDequeue(t) ==
    /\ side = "dequeue" /\ dequeues # <<>> /\ Head(dequeues) \notin isCancelled
    /\ LET c == Head(dequeues)
           n == Least(Len(queue), requested[c])
           short == closed /\ Len(queue) < requested[c]
           small == kind[c] = "dequeue_up_to" IN
       \/ /\ short /\ small /\ Restored(c) # <<>>
          /\ queue' = <<>>
          /\ requested' = [requested EXCEPT ![c] = 0]
          /\ Deliver(t, c, Restored(c))
       \/ /\ short /\ small /\ Restored(c) = <<>> /\ enqueues # <<>>
          /\ Stay(TRUE)
          /\ UNCHANGED <<queue, requested, held>>
       \/ /\ short /\ ~ (small /\ (Restored(c) # <<>> \/ enqueues # <<>>))
          /\ queue' = Restored(c)
          /\ held' = [held EXCEPT ![c] = <<>>]
          /\ Complete(t, c, "out_of_range")
          /\ UNCHANGED <<requested, got, left>>
       \/ /\ ~ short
          /\ queue' = SubSeq(queue, n + 1, Len(queue))
          /\ requested' = [requested EXCEPT ![c] = @ - n]
          /\ IF n = requested[c]
               THEN Deliver(t, c, held[c] \o SubSeq(queue, 1, n))
               ELSE /\ held' = [held EXCEPT ![c] = @ \o SubSeq(queue, 1, n)]
                    /\ Stay(n > 0)
    /\ UNCHANGED <<closed, arrived>>

\* This side has no attempt left.
NoAttempt ==
    /\ side # "end" /\ Attempts = <<>>
    /\ OtherSide
    /\ UNCHANGED <<attemptVars, changed, cleanUp, callVars, arrived, left>>

\* One turn of TryAttemptLocked's loop.
TryAttempt(t) ==
    /\ holder = t
    /\ SkipCancelled(t) \/ RunEnqueue(t) \/ RunDequeue(t) \/ NoAttempt
    /\ UNCHANGED <<kind, size, manager, holder, pc, cmVars>>

\* The test of the do-while loop.
Repeats_Never == FALSE     \* mutant: one round only
Repeats == changed

RoundEnds(t) ==
    /\ holder = t /\ side = "end"
    /\ \/ /\ Repeats
          /\ side' = "enqueue" /\ changed' = FALSE
          /\ UNCHANGED <<holder, pc>>
       \/ /\ ~ Repeats
          /\ holder' = Free
          /\ Go(t, "clean")
          /\ UNCHANGED <<side, changed>>
    /\ UNCHANGED <<kind, size, manager, attemptVars, cleanUp, callVars, arrived, left, cmVars>>

\* After mu_ is released: each completed call is deregistered, which may have to
\* wait, and called back.  A Close has nothing to deregister.
CleanUp(t) ==
    /\ pc[t] = "clean" /\ cleanUp[t] # <<>>
    /\ LET c == Head(cleanUp[t]) IN
          /\ IF kind[c] = "close"
               THEN UNCHANGED cmVars
               ELSE ~ DeregisterWaits(manager[c]) /\ DeregisterCallback(manager[c], c)
          /\ answered' = [answered EXCEPT ![c] = @ + 1]
    /\ cleanUp' = [cleanUp EXCEPT ![t] = Tail(@)]
    /\ UNCHANGED <<kind, size, manager, attemptVars, holder, side, changed, pc, status,
                   got, arrived, left>>

\* FlushUnlocked returns.  Close with cancel_pending_enqueues then calls back.
Return(t) ==
    /\ pc[t] = "clean" /\ cleanUp[t] = <<>>
    /\ IF t \in Managers THEN Go(t, "callbacks") ELSE Go(t, "done")
    /\ IF t \in Calls /\ kind[t] = "close_cancel" THEN Answer(t, "ok") ELSE UNCHANGED callVars
    /\ UNCHANGED <<kind, size, manager, attemptVars, holder, side, changed, cleanUp,
                   arrived, left, cmVars>>

-----------------------------------------------------------------------------
(* Cancellation of a step *)

StartCancel(m) ==
    /\ pc[m] = "idle"
    /\ BeginCancel(m)
    /\ Go(m, "callbacks")
    /\ UNCHANGED <<kind, size, manager, attemptVars, holder, side, changed, cleanUp,
                   callVars, arrived, left>>

IsPending(c) == \E i \in DOMAIN (enqueues \o dequeues) : (enqueues \o dequeues)[i] = c

\* QueueBase::Cancel: an attempt that is still pending is marked and called back,
\* then the queue is flushed.
Cancels_Again(c) == IsPending(c)     \* mutant: is_cancelled is not tested
Cancels(c) == IsPending(c) /\ c \notin isCancelled

Cancel(m) ==
    /\ pc[m] = "callbacks" /\ holder = Free
    /\ \E c \in running[m] :
          /\ NextCallback(m, c)
          /\ IF Cancels(c)
               THEN /\ isCancelled' = isCancelled \cup {c}
                    /\ Answer(c, "cancelled")
                    /\ Go(m, "flush")
               ELSE UNCHANGED <<isCancelled, callVars, pc>>
    /\ UNCHANGED <<kind, size, manager, queue, closed, enqueues, dequeues, requested,
                   held, holder, side, changed, cleanUp, arrived, left>>

Cancelled(m) ==
    /\ pc[m] = "callbacks"
    /\ EndCancel(m)
    /\ Go(m, "done")
    /\ UNCHANGED <<kind, size, manager, attemptVars, holder, side, changed, cleanUp,
                   callVars, arrived, left>>

Flush(t) == Lock(t) \/ TryAttempt(t) \/ RoundEnds(t) \/ CleanUp(t) \/ Return(t)

Next ==
    \/ \E c \in Calls : Try(c) \/ TryNothing(c) \/ Close(c) \/ CloseAndCancel(c)
    \/ \E t \in Threads : Flush(t)
    \/ \E m \in Managers : StartCancel(m) \/ Cancel(m) \/ Cancelled(m)

Spec == Init /\ [][Next]_vars

\* A thread that is inside the queue or the manager goes on, and a mutex is given
\* to every thread that keeps asking for it; whether there is a call or a
\* cancellation is up to the clients.
FairSpec ==
    /\ Spec
    /\ \A t \in Threads : SF_vars(Flush(t))
    /\ \A m \in Managers : SF_vars(Cancel(m) \/ Cancelled(m))

-----------------------------------------------------------------------------
\* The elements of the enqueued batches.
Elements == {e \in Calls \X Nat : e[2] \in 1..size[e[1]]}

\* The types.  An open queue has at most capacity_ elements; a closed one may have
\* more, because a batch is put back without a test (fifo_queue.cc:282).
TypeOK ==
    /\ kind \in [Calls -> Kinds]
    /\ size \in [Calls -> Sizes \cup {1}]
    /\ manager \in [Calls -> Managers]
    /\ queue \in Seq(Elements) /\ closed \in BOOLEAN
    /\ ~ closed => Len(queue) <= Capacity
    /\ enqueues \in Seq(Calls) /\ dequeues \in Seq(Calls)
    /\ requested \in [Calls -> Nat]
    /\ held \in [Calls -> Seq(Elements)]
    /\ isCancelled \subseteq Calls
    /\ holder \in Threads \cup {Free}
    /\ side \in {"enqueue", "dequeue", "end"} /\ changed \in BOOLEAN
    /\ pc \in [Threads -> {"idle", "flush", "locked", "clean", "callbacks", "done"}]
    /\ cleanUp \in [Threads -> Seq(Calls)]
    /\ status \in [Calls -> {"none", "ok", "cancelled", "closed", "out_of_range"}]
    /\ got \in [Calls -> Seq(Elements)]
    /\ answered \in [Calls -> Nat]
    /\ arrived \in Seq(Elements) /\ left \in Seq(Elements)
    /\ CancellationTypeOK

\* The elements a blocked DequeueMany has taken so far: only the first attempt has any.
Taken == IF dequeues = <<>> THEN <<>> ELSE held[Head(dequeues)]

\* First in, first out, over batches that are filled little by little, put back
\* when the queue is closed, or dropped: what came is what left, then what the
\* first DequeueMany holds, then the queue (fifo_queue.cc, TryDequeueMany).
FirstInFirstOut ==
    /\ arrived = left \o Taken \o queue
    /\ \A i \in DOMAIN dequeues : i > 1 => held[dequeues[i]] = <<>>

\* The users' view: what a DequeueMany has taken is still there, in front.
Abstract == INSTANCE QueueSpec WITH
    contents <- Taken \o queue,
    given <- [c \in Calls |-> Cardinality({i \in DOMAIN arrived : arrived[i][1] = c})]

\* The queue with its attempts, its mutex and its partly filled batches implements
\* the one in which every call takes effect in one step (queue_interface.h).
ImplementsQueueSpec == Abstract!Spec

\* A callback is called at most once, whoever completes, cancels or closes: the
\* note in FlushUnlocked, "the mutex mu_ ensures that the cleanup action only
\* executes once".
CalledBackOnce == \A c \in Calls : answered[c] <= 1

\* No wakeup is lost: when no thread is about to flush, an enqueue waits only for
\* room, a dequeue only for elements, and nobody waits at a closed queue
\* (queue_base.cc, FlushUnlocked).
NobodyWaitsWithoutReason ==
    holder = Free /\ (\A t \in Threads : pc[t] # "flush") =>
       /\ enqueues # <<>> => ~ closed /\ Len(queue) = Capacity
       /\ dequeues # <<>> => ~ closed /\ queue = <<>>

\* The yield of DequeueUpTo, which reports progress without making any and would
\* spin under mu_, is never taken: once the queue is closed no enqueue is left when
\* the dequeues have their turn (fifo_queue.cc:296).
NeverYields ==
    holder # Free /\ side = "dequeue" /\ closed => enqueues = <<>>

\* A thread inside the queue that neither runs nor can get mu_: it waits in
\* DeregisterCallback.
WaitsToDeregister(t) ==
    /\ pc[t] = "clean" /\ cleanUp[t] # <<>>
    /\ kind[Head(cleanUp[t])] # "close"
    /\ DeregisterWaits(manager[Head(cleanUp[t])])

\* Threads come to a standstill inside the queue only if one that runs StartCancel
\* is among them: it has completed a call of a step that is being cancelled and
\* waits for a notification that it, or another one like it, has to give
\* (queue_base.cc, Cancel and FlushUnlocked).
StandstillNeedsACanceller ==
    /\ \A t \in Threads : pc[t] \in {"idle", "done"} \/ WaitsToDeregister(t)
    /\ \E t \in Threads : WaitsToDeregister(t)
    => \E m \in Managers : WaitsToDeregister(m)

\* queue_interface.h: the stashed function object "is guaranteed to call
\* 'callback'".
CallbackIsGuaranteed ==
    \A c \in Calls : status[c] # "none" ~> answered[c] > 0
=============================================================================
