----------------------------- MODULE Rendezvous -----------------------------
(***************************************************************************)
(* LocalRendezvous (core/framework/local_rendezvous.cc): Send and RecvAsync *)
(* meet under a key, in a table that is split into buckets with a mutex     *)
(* each; waiting receivers can be cancelled by their step's                 *)
(* CancellationManager, and all can be aborted.                             *)
(*                                                                          *)
(* Every Send, RecvAsync, StartAbort and StartCancel has its thread.  A     *)
(* section under a mutex is one step; the status is read in a step of its   *)
(* own, and done-callbacks run outside the mutexes.  The owner is           *)
(* reference-counted (rc_owner_ is set); its step (DirectSession) drops the *)
(* first reference when its executors are done: their Sends have returned,  *)
(* their Recvs were called back.  An executor that fails aborts through the *)
(* ExecutorBarrier, with a reference of its own.                            *)
(***************************************************************************)
EXTENDS Integers, Sequences, FiniteSets, Cancellation

CONSTANTS
    Sends, Aborts,  \* the other threads; Calls are the RecvAsyncs, Aborts failing executors
    Keys,
    Shards,         \* table_buckets_.size()
    NoManager       \* recv_args.cancellation_manager is null

ASSUME ShardsAssumption == Shards \in Nat \ {0}
ASSUME ManagersAssumption == NoManager \notin Managers

Ops == Sends \cup Calls
Threads == Ops \cup Aborts \cup Managers

\* A step has finitely many threads, and each does one thing.
ASSUME ThreadsAssumption ==
    /\ IsFiniteSet(Ops \cup Aborts)
    /\ Sends \cap Calls = {} /\ Ops \cap Aborts = {} /\ (Ops \cup Aborts) \cap Managers = {}

VARIABLES
    key, bucketOf, manager, \* per call, per key, per Recv
    table,                  \* per key: its ItemQueue
    aborted,                \* status_ is not OK
    pending,                \* per bucket: pending_callback_counter
    refs, owned, destroyed, \* the count of rc_owner_; the step's own reference
    pc,                     \* per thread
    partner,                \* per thread: the item it has taken from the table
    sweepAt, swept,         \* per abort: its bucket, and the table swapped out of it
    status, got, answered,  \* per Recv: how done was called, with which message, how often
    turn,                   \* ghost: the order in which the calls of a key got at the table
    raced                   \* ghost: calls between status() and the table at the abort

tableVars == <<table, pending>>
ownerVars == <<refs, owned, destroyed>>
abortVars == <<aborted, sweepAt, swept, raced>>
doneVars == <<status, got, answered>>
args == <<key, bucketOf, manager>>
vars == <<args, tableVars, ownerVars, abortVars, doneVars, pc, partner, turn, cmVars>>

\* The waiters of a key are told apart by their cancellation tokens, which are
\* unique in one manager only: Recvs of one key belong to the same step.
OneManagerPerKey ==
    \A q, r \in Calls : key[q] = key[r] =>
       manager[q] = manager[r] \/ NoManager \in {manager[q], manager[r]}

Init ==
    /\ key \in [Ops -> Keys]
    /\ bucketOf \in [Keys -> 1..Shards]
    /\ manager \in [Calls -> Managers \cup {NoManager}]
    /\ OneManagerPerKey
    /\ table = [k \in Keys |-> <<>>]
    /\ aborted = FALSE
    /\ pending = [b \in 1..Shards |-> 0]
    /\ refs = 1 /\ owned = TRUE /\ destroyed = FALSE
    /\ pc = [t \in Threads |-> "idle"]
    /\ partner = [t \in Threads |-> <<>>]
    /\ sweepAt = [a \in Aborts |-> 0]
    /\ swept = [a \in Aborts |-> [k \in Keys |-> <<>>]]
    /\ status = [r \in Calls |-> "none"]
    /\ got = [r \in Calls |-> {}]
    /\ answered = [r \in Calls |-> 0]
    /\ turn = [o \in Ops |-> 0]
    /\ raced = {}
    /\ CancellationInit

-----------------------------------------------------------------------------
Go(t, place) == pc' = [pc EXCEPT ![t] = place]

\* done(s, ...), with the message of Send s if there is one.
Done(r, result, message) ==
    /\ status' = [status EXCEPT ![r] = result]
    /\ got' = [got EXCEPT ![r] = @ \cup message]
    /\ answered' = [answered EXCEPT ![r] = @ + 1]

\* The waiter of a queued Recv deregisters first, and drops the reference of its
\* registration if StartCancel has not taken the callback.
Unrefs_Always(r) == manager[r] # NoManager     \* mutant: the result is ignored
Unrefs(r) == manager[r] # NoManager /\ TryDeregisters(manager[r])

Waiter(r, result, message) ==
    /\ Done(r, result, message)
    /\ IF manager[r] = NoManager THEN UNCHANGED cmVars ELSE DeregisterCallback(manager[r], r)

\* The reference a Waiter drops.
Dropped(r) == IF Unrefs(r) THEN 1 ELSE 0

Bucket(o) == bucketOf[key[o]]

Now(o) == Cardinality({p \in Ops : key[p] = key[o] /\ turn[p] > 0}) + 1

-----------------------------------------------------------------------------
(* Send and RecvAsync *)

\* status(), and the return if it is not OK.
Check(o) ==
    /\ pc[o] = "idle" /\ owned
    /\ Go(o, IF aborted THEN "done" ELSE "checked")
    /\ IF aborted /\ o \in Calls THEN Done(o, "aborted", {}) ELSE UNCHANGED doneVars
    /\ UNCHANGED <<args, tableVars, ownerVars, abortVars, partner, turn, cmVars>>

\* The queue of the call's key holds items of the kind, or nothing.
Holds_Never(o, items) == FALSE     \* mutant: the head is not looked at
Holds(o, items) == table[key[o]] # <<>> /\ Head(table[key[o]]) \in items

PushBack_Front(o) ==     \* mutant: pushed to the front
    /\ table' = [table EXCEPT ![key[o]] = <<o>> \o @]
    /\ UNCHANGED <<pending, partner>>
PushBack(o) ==
    /\ table' = [table EXCEPT ![key[o]] = Append(@, o)]
    /\ UNCHANGED <<pending, partner>>

\* The head of the queue is consumed, its callback counted as pending.
PopHead_Keeps(o) ==     \* mutant: the item stays in the table
    /\ partner' = [partner EXCEPT ![o] = <<Head(table[key[o]])>>]
    /\ pending' = [pending EXCEPT ![Bucket(o)] = @ + 1]
    /\ UNCHANGED table
PopHead(o) ==
    /\ partner' = [partner EXCEPT ![o] = <<Head(table[key[o]])>>]
    /\ table' = [table EXCEPT ![key[o]] = Tail(@)]
    /\ pending' = [pending EXCEPT ![Bucket(o)] = @ + 1]

SendLocked(s) ==
    /\ pc[s] = "checked"
    /\ \/ ~ Holds(s, Calls) /\ PushBack(s) /\ Go(s, "done")
       \/ Holds(s, Calls) /\ PopHead(s) /\ Go(s, "calling")
    /\ turn' = [turn EXCEPT ![s] = Now(s)]
    /\ UNCHANGED <<args, ownerVars, abortVars, doneVars, cmVars>>

\* A Recv that has to wait registers for its cancellation before it is queued.
Wait(r) ==
    \/ /\ manager[r] = NoManager
       /\ PushBack(r)
       /\ UNCHANGED <<refs, doneVars, cmVars>>
    \/ /\ manager[r] # NoManager /\ MayRegister(manager[r])
       /\ RegisterCallback(manager[r], r)
       /\ refs' = refs + 1
       /\ PushBack(r)
       /\ UNCHANGED doneVars
    \/ /\ manager[r] # NoManager /\ ~ MayRegister(manager[r])
       /\ Done(r, "cancelled", {})
       /\ UNCHANGED <<refs, tableVars, partner, cmVars>>

RecvLocked(r) ==
    /\ pc[r] = "checked"
    /\ \/ ~ Holds(r, Sends) /\ Wait(r) /\ Go(r, "done")
       \/ Holds(r, Sends) /\ PopHead(r) /\ Go(r, "calling") /\ UNCHANGED <<refs, doneVars, cmVars>>
    /\ turn' = [turn EXCEPT ![r] = Now(r)]
    /\ UNCHANGED <<args, owned, destroyed, abortVars>>

\* The reference that keeps the owner alive during a callback.
CallRef == 1

SendCalls(s) ==
    /\ pc[s] = "calling"
    /\ Waiter(Head(partner[s]), "ok", {s})
    /\ refs' = refs + CallRef - Dropped(Head(partner[s]))
    /\ Go(s, "leaving")
    /\ UNCHANGED <<args, tableVars, owned, destroyed, abortVars, partner, turn>>

RecvCalls(r) ==
    /\ pc[r] = "calling"
    /\ Done(r, "ok", {Head(partner[r])})
    /\ refs' = refs + CallRef
    /\ Go(r, "leaving")
    /\ UNCHANGED <<args, tableVars, owned, destroyed, abortVars, partner, turn, cmVars>>

\* The bucket is told that the callback has returned, then the owner is released.
Leave(o) ==
    /\ pc[o] = "leaving"
    /\ pending' = [pending EXCEPT ![Bucket(o)] = @ - 1]
    /\ refs' = refs - CallRef
    /\ partner' = [partner EXCEPT ![o] = <<>>]
    /\ Go(o, "done")
    /\ UNCHANGED <<args, table, owned, destroyed, abortVars, doneVars, turn, cmVars>>

-----------------------------------------------------------------------------
(* StartAbort: the status first, then bucket after bucket *)

\* An executor reports its error to the ExecutorBarrier, and is done: the others
\* may finish, and the step be over, before or while this thread aborts.
AbortRef_None == 0     \* mutant: no Ref before the abort
AbortRef == 1

WhenDone(a) ==
    /\ pc[a] = "idle" /\ owned
    /\ refs' = refs + AbortRef
    /\ Go(a, "failed")
    /\ UNCHANGED <<args, tableVars, owned, destroyed, abortVars, doneVars, partner, turn, cmVars>>

StartAbort(a) ==
    /\ pc[a] = "failed"
    /\ aborted' = TRUE
    /\ raced' = IF aborted THEN raced ELSE {o \in Ops : pc[o] = "checked"}
    /\ sweepAt' = [sweepAt EXCEPT ![a] = 1]
    /\ Go(a, "sweep")
    /\ UNCHANGED <<args, tableVars, ownerVars, swept, doneVars, partner, turn, cmVars>>

InBucket(b) == {k \in Keys : bucketOf[k] = b}

Swept(a) == \A k \in Keys : swept[a][k] = <<>>

LastBucket_Off == Shards - 1     \* mutant: the last bucket is not swept
LastBucket == Shards

\* The next bucket, when the items of the one before have been dealt with.
SwapTable(a) ==
    /\ pc[a] = "sweep" /\ Swept(a) /\ sweepAt[a] <= LastBucket
    /\ swept' = [swept EXCEPT ![a] =
                    [k \in Keys |-> IF k \in InBucket(sweepAt[a]) THEN table[k] ELSE <<>>]]
    /\ table' = [k \in Keys |-> IF k \in InBucket(sweepAt[a]) THEN <<>> ELSE table[k]]
    /\ sweepAt' = [sweepAt EXCEPT ![a] = @ + 1]
    /\ UNCHANGED <<args, pending, ownerVars, aborted, raced, doneVars, pc, partner, turn, cmVars>>

\* One item: a waiter is called, a message is deleted.  The keys come in any order.
AbortItem(a) ==
    /\ pc[a] = "sweep"
    /\ \E k \in Keys :
          /\ swept[a][k] # <<>>
          /\ LET o == Head(swept[a][k]) IN
                IF o \in Calls THEN Waiter(o, "aborted", {}) /\ refs' = refs - Dropped(o)
                               ELSE UNCHANGED <<doneVars, refs, cmVars>>
          /\ swept' = [swept EXCEPT ![a][k] = Tail(@)]
    /\ UNCHANGED <<args, tableVars, owned, destroyed, aborted, sweepAt, raced, pc, partner,
                   turn>>

EndAbort(a) ==
    /\ pc[a] = "sweep" /\ Swept(a) /\ sweepAt[a] > LastBucket
    /\ refs' = refs - AbortRef
    /\ Go(a, "done")
    /\ UNCHANGED <<args, tableVars, owned, destroyed, abortVars, doneVars, partner, turn, cmVars>>

-----------------------------------------------------------------------------
(* StartCancel and the cancellation callback of RecvAsync *)

StartCancel(m) ==
    /\ pc[m] = "idle"
    /\ BeginCancel(m)
    /\ Go(m, "callbacks")
    /\ UNCHANGED <<args, tableVars, ownerVars, abortVars, doneVars, partner, turn>>

Without_Clears(q, i) == <<>>     \* mutant: the whole entry is erased
Without(q, i) == SubSeq(q, 1, i - 1) \o SubSeq(q, i + 1, Len(q))

\* A queue in which the item is not found is left alone.
NotFound_Erases(k) == table' = [table EXCEPT ![k] = <<>>]     \* mutant: erased all the same
NotFound(k) == UNCHANGED table

\* Under the bucket's mutex: the waiting item, if it is still there, is removed.
CancelLocked(m) ==
    /\ pc[m] = "callbacks"
    /\ \E r \in running[m] :
          LET q == table[key[r]] IN
          /\ NextCallback(m, r)
          /\ partner' = [partner EXCEPT ![m] = <<r>>]
          /\ \/ \E i \in DOMAIN q :
                   /\ q[i] = r
                   /\ table' = [table EXCEPT ![key[r]] = Without(q, i)]
                   /\ Go(m, "calling")
             \/ /\ \A i \in DOMAIN q : q[i] # r
                /\ Go(m, "leaving")
                /\ NotFound(key[r])
    /\ UNCHANGED <<args, pending, ownerVars, abortVars, doneVars, turn>>

CancelCalls(m) ==
    /\ pc[m] = "calling"
    /\ Waiter(Head(partner[m]), "cancelled", {})
    /\ refs' = refs - Dropped(Head(partner[m]))
    /\ Go(m, "leaving")
    /\ UNCHANGED <<args, tableVars, owned, destroyed, abortVars, partner, turn>>

\* The reference of the registration is dropped.
CancelLeaves(m) ==
    /\ pc[m] = "leaving"
    /\ refs' = refs - 1
    /\ partner' = [partner EXCEPT ![m] = <<>>]
    /\ Go(m, "callbacks")
    /\ UNCHANGED <<args, tableVars, owned, destroyed, abortVars, doneVars, turn, cmVars>>

Cancelled(m) ==
    /\ pc[m] = "callbacks"
    /\ EndCancel(m)
    /\ Go(m, "done")
    /\ UNCHANGED <<args, tableVars, ownerVars, abortVars, doneVars, partner, turn>>

-----------------------------------------------------------------------------
(* The end *)

\* The step is over and drops its reference.
Release ==
    /\ owned
    /\ \A s \in Sends : pc[s] \in {"idle", "done"}
    /\ \A r \in Calls : pc[r] = "idle" \/ answered[r] > 0
    /\ owned' = FALSE
    /\ refs' = refs - 1
    /\ UNCHANGED <<args, tableVars, destroyed, abortVars, doneVars, pc, partner, turn, cmVars>>

\* ~LocalRendezvous waits for the pending callbacks; the messages that are left
\* are deleted by StartAbort.
Destroy ==
    /\ refs = 0 /\ ~ destroyed
    /\ \A b \in 1..Shards : pending[b] = 0
    /\ destroyed' = TRUE
    /\ aborted' = (aborted \/ \E k \in Keys : table[k] # <<>>)
    /\ table' = [k \in Keys |-> <<>>]
    /\ UNCHANGED <<args, pending, refs, owned, sweepAt, swept, raced, doneVars, pc, partner,
                   turn, cmVars>>

-----------------------------------------------------------------------------
Next ==
    \/ \E o \in Ops : Check(o) \/ Leave(o)
    \/ \E s \in Sends : SendLocked(s) \/ SendCalls(s)
    \/ \E r \in Calls : RecvLocked(r) \/ RecvCalls(r)
    \/ \E a \in Aborts : WhenDone(a) \/ StartAbort(a) \/ SwapTable(a) \/ AbortItem(a) \/ EndAbort(a)
    \/ \E m \in Managers : \/ StartCancel(m) \/ CancelLocked(m) \/ CancelCalls(m)
                           \/ CancelLeaves(m) \/ Cancelled(m)
    \/ Release
    \/ Destroy

Spec == Init /\ [][Next]_vars

-----------------------------------------------------------------------------
Places == {"idle", "checked", "calling", "leaving", "failed", "sweep", "callbacks", "done"}

\* The types, with the invariant of ItemQueue (local_rendezvous.h:60): the items
\* under a key are all messages or all waiters.
TypeOK ==
    /\ key \in [Ops -> Keys]
    /\ bucketOf \in [Keys -> 1..Shards]
    /\ manager \in [Calls -> Managers \cup {NoManager}]
    /\ table \in [Keys -> Seq(Sends) \cup Seq(Calls)]
    /\ pending \in [1..Shards -> Nat]
    /\ refs \in Nat /\ owned \in BOOLEAN /\ destroyed \in BOOLEAN /\ aborted \in BOOLEAN
    /\ pc \in [Threads -> Places]
    /\ partner \in [Threads -> Seq(Ops)]
    /\ sweepAt \in [Aborts -> 0..(Shards + 1)]
    /\ swept \in [Aborts -> [Keys -> Seq(Ops)]]
    /\ status \in [Calls -> {"none", "ok", "aborted", "cancelled"}]
    /\ got \in [Calls -> SUBSET Sends]
    /\ answered \in [Calls -> Nat]
    /\ turn \in [Ops -> Nat]
    /\ raced \subseteq Ops
    /\ CancellationTypeOK

\* Under a key, messages reach receivers in the order in which both got at the
\* table, and no message reaches two of them, whatever is cancelled in between
\* (Send and RecvAsync, "There is an earliest waiter to consume this message").
NoOvertaking ==
    \A q, r \in Calls : \A s \in got[q], t \in got[r] :
       q # r /\ key[q] = key[r] => s # t /\ (turn[q] < turn[r] <=> turn[s] < turn[t])

\* A message that Send has put into the table or is bringing to a receiver is not
\* lost before the abort: a receiver's cancellation takes none with it
\* (the cancellation callback of RecvAsync).
NoMessageIsLost ==
    ~ aborted => \A s \in Sends : turn[s] > 0 =>
       \/ \E i \in DOMAIN table[key[s]] : table[key[s]][i] = s
       \/ pc[s] = "calling"
       \/ \E r \in Calls : pc[r] = "calling" /\ partner[r] = <<s>>
       \/ \E r \in Calls : s \in got[r]

\* done is called at most once, however Send, abort and cancellation meet.
CalledBackOnce == \A r \in Calls : answered[r] <= 1

\* The cancellation callbacks that still hold their reference.
Registered == {r \in Calls : manager[r] # NoManager /\
                  \/ r \in callbacks[manager[r]] \cup running[manager[r]]
                  \/ partner[manager[r]] = <<r>>}

\* The reference a Recv takes for its cancellation callback is dropped in exactly
\* one of the four cases of the comment in RecvAsync (local_rendezvous.cc:225), so
\* the count is that of the registered callbacks, the threads in a done-callback,
\* the aborts and the step.
ReferencesAreExact ==
    refs = Cardinality(Registered) + Cardinality({o \in Ops : pc[o] = "leaving"})
              + Cardinality({a \in Aborts : pc[a] \in {"failed", "sweep"}})
              + (IF owned THEN 1 ELSE 0)

\* When the last reference is gone nothing of the rendezvous is used any more: no
\* thread is inside, no cancellation callback will come, no waiter is queued, and
\* the destructor need not wait for pending callbacks (Send and RecvAsync, "which
\* would otherwise become deadlock").
FreedIsUnused ==
    refs = 0 =>
       /\ \A o \in Ops : pc[o] \in {"idle", "done"}
       /\ \A a \in Aborts : pc[a] \in {"idle", "done"}
       /\ \A r \in Calls : pc[r] = "idle" \/ answered[r] = 1
       /\ Registered = {}
       /\ \A b \in 1..Shards : pending[b] = 0

\* After StartAbort has swept a bucket, the only calls left in it are those that
\* had read the status before the abort: "Aborts all pending and future Send/Recv"
\* (rendezvous.h:113) leaves out no other.
OnlyRacersSurviveAnAbort ==
    \A a \in Aborts : \A k \in Keys :
       sweepAt[a] > bucketOf[k] \/ pc[a] = "done"
          => \A i \in DOMAIN table[k] : table[k][i] \in raced

\* A receiver that is not called back yet is in the hands of a thread that calls it
\* back next, or in the table.  There its manager can still cancel it, if it has one,
\* and Sends may still come, or, when they are refused, an abort has yet to sweep its
\* bucket.  One receiver is out of everybody's reach: without a manager, it read the
\* status before the abort and was queued after the sweep (RecvAsync, StartAbort).
NobodyIsForgotten ==
    \A r \in Calls : pc[r] = "done" /\ answered[r] = 0 =>
       \/ /\ \E i \in DOMAIN table[key[r]] : table[key[r]][i] = r
          /\ manager[r] # NoManager => r \in callbacks[manager[r]] \cup running[manager[r]]
          /\ aborted => \/ r \in raced
                        \/ \E a \in Aborts : pc[a] = "sweep" /\ sweepAt[a] <= Bucket(r)
       \/ \E t \in Threads : pc[t] = "calling" /\ partner[t] = <<r>>
       \/ \E a \in Aborts : \E i \in DOMAIN swept[a][key[r]] : swept[a][key[r]][i] = r

=============================================================================
