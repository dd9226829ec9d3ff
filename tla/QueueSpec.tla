----------------------------- MODULE QueueSpec -----------------------------
(***************************************************************************)
(* What the users of a FIFO queue are promised (core/framework/             *)
(* queue_interface.h): every call takes effect in one step between its      *)
(* start and its callback.  There are no attempts, no mutex, no batches     *)
(* that are filled little by little or put back; only a batch that is       *)
(* enqueued may arrive in parts.  FIFOQueue implements this.                *)
(***************************************************************************)
EXTENDS Integers, Sequences

CONSTANTS Calls

VARIABLES
    kind, size,     \* per call, as in FIFOQueue
    contents,       \* the elements that came and are not gone
    given,          \* per call: how many of its elements have come
    closed,
    status, got,    \* per call: its result
    answered        \* per call: how often it was called back

vars == <<kind, size, contents, given, closed, status, got, answered>>

Init ==
    /\ contents = <<>> /\ closed = FALSE
    /\ given = [c \in Calls |-> 0]
    /\ status = [c \in Calls |-> "none"]
    /\ got = [c \in Calls |-> <<>>]
    /\ answered = [c \in Calls |-> 0]

Unfinished(c) == status[c] = "none" /\ answered[c] = 0

Enqueues(c) == kind[c] \in {"enqueue", "enqueue_many"}
Dequeues(c) == kind[c] \in {"dequeue", "dequeue_many", "dequeue_up_to"}

Result(c, result) == status' = [status EXCEPT ![c] = result]
CallBack(c) == answered' = [answered EXCEPT ![c] = @ + 1]

\* The next n elements of a batch; with the last one the call has succeeded.
Enqueue(c) ==
    /\ Enqueues(c) /\ Unfinished(c) /\ ~ closed
    /\ \E n \in 1..(size[c] - given[c]) :
          /\ contents' = contents \o [i \in 1..n |-> <<c, given[c] + i>>]
          /\ given' = [given EXCEPT ![c] = @ + n]
          /\ IF given[c] + n = size[c] THEN Result(c, "ok") ELSE UNCHANGED status
    /\ UNCHANGED <<kind, size, closed, got, answered>>

\* The oldest elements, as many as asked for; fewer only at the end, by DequeueUpTo.
Dequeue(c) ==
    /\ Dequeues(c) /\ Unfinished(c)
    /\ \E n \in 1..Len(contents) :
          /\ n = size[c] \/ (kind[c] = "dequeue_up_to" /\ closed /\ n = Len(contents) /\ n < size[c])
          /\ got' = [got EXCEPT ![c] = SubSeq(contents, 1, n)]
          /\ contents' = SubSeq(contents, n + 1, Len(contents))
    /\ Result(c, "ok")
    /\ UNCHANGED <<kind, size, given, closed, answered>>

\* A closed queue takes no element, and reports when it cannot serve a dequeue.
Refuse(c) ==
    /\ Unfinished(c) /\ closed
    /\ \/ Dequeues(c) /\ Len(contents) < size[c] /\ Result(c, "out_of_range")
       \/ ~ Dequeues(c) /\ Result(c, "closed")
    /\ UNCHANGED <<kind, size, contents, given, closed, got, answered>>

Close(c) ==
    /\ kind[c] = "close" /\ Unfinished(c) /\ ~ closed
    /\ closed' = TRUE
    /\ Result(c, "ok")
    /\ UNCHANGED <<kind, size, contents, given, got, answered>>

\* All calls of the set, none of them a dequeue, are called back with an error.
CloseAndCancel(c, pending) ==
    /\ kind[c] = "close_cancel" /\ Unfinished(c)
    /\ \A d \in pending : Unfinished(d) /\ ~ Dequeues(d)
    /\ closed' = TRUE
    /\ status' = [d \in Calls |-> IF d \in pending THEN "cancelled" ELSE status[d]]
    /\ answered' = [d \in Calls |-> IF d \in pending THEN answered[d] + 1 ELSE answered[d]]
    /\ UNCHANGED <<kind, size, contents, given, got>>

Cancel(c) ==
    /\ Unfinished(c)
    /\ Result(c, "cancelled") /\ CallBack(c)
    /\ UNCHANGED <<kind, size, contents, given, closed, got>>

\* A cancelled batch may take the oldest elements with it, fewer than it asked for.
Lose(c) ==
    /\ status[c] = "cancelled" /\ Dequeues(c)
    /\ \E n \in 1..(size[c] - 1) :
          /\ n <= Len(contents)
          /\ contents' = SubSeq(contents, n + 1, Len(contents))
    /\ UNCHANGED <<kind, size, given, closed, status, got, answered>>

\* A batch of nothing succeeds without the queue, CloseAndCancel itself once it is closed.
Succeed(c) ==
    /\ Unfinished(c) /\ (size[c] = 0 \/ (kind[c] = "close_cancel" /\ closed))
    /\ Result(c, "ok") /\ CallBack(c)
    /\ UNCHANGED <<kind, size, contents, given, closed, got>>

Finish(c) ==
    /\ status[c] # "none" /\ answered[c] = 0
    /\ CallBack(c)
    /\ UNCHANGED <<kind, size, contents, given, closed, status, got>>

Next ==
    \/ \E c \in Calls : \/ Enqueue(c) \/ Dequeue(c) \/ Refuse(c) \/ Close(c)
                        \/ Cancel(c) \/ Lose(c) \/ Succeed(c) \/ Finish(c)
    \/ \E c \in Calls : \E pending \in SUBSET Calls : CloseAndCancel(c, pending)

Spec == Init /\ [][Next]_vars
=============================================================================
