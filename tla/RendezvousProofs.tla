-------------------------- MODULE RendezvousProofs --------------------------
(***************************************************************************)
(* TLAPS proofs about Rendezvous, for any number of calls, aborting         *)
(* threads, managers, keys and buckets.                                     *)
(*                                                                          *)
(* An item (a message, or a waiter that is not called yet) is in the table  *)
(* or in the hands of one thread.  InTable and HeldBy say which, and the    *)
(* invariants below are stated with these two predicates; how a step moves  *)
(* an item is a lemma of its own.  The invariant has three parts, each with *)
(* a lemma per action: CoreInv (where items and threads are), CountInv (the *)
(* counters and the abort), FlowInv (messages and their receivers).         *)
(***************************************************************************)
EXTENDS Rendezvous, FiniteSetTheorems, SequenceTheorems, TLAPS

Elems(q) == {q[i] : i \in 1..Len(q)}

Ordered(q, f) == \A i, j \in 1..Len(q) : i < j => f[q[i]] < f[q[j]]

InTable(o) == o \in Elems(table[key[o]])

\* An aborting thread has swapped the item out of the table, any other has taken
\* it and is about to call back.
HeldBy(t, o) == IF t \in Aborts THEN o \in Elems(swept[t][key[o]])
                                ELSE pc[t] = "calling" /\ partner[t] = <<o>>

-----------------------------------------------------------------------------
(* The inductive invariant *)

\* Types, the two counters as integers.
TypeInv ==
    /\ key \in [Ops -> Keys]
    /\ bucketOf \in [Keys -> 1..Shards]
    /\ manager \in [Calls -> Managers \cup {NoManager}]
    /\ table \in [Keys -> Seq(Sends) \cup Seq(Calls)]
    /\ pending \in [1..Shards -> Int]
    /\ refs \in Int /\ owned \in BOOLEAN /\ destroyed \in BOOLEAN /\ aborted \in BOOLEAN
    /\ pc \in [Threads -> Places]
    /\ partner \in [Threads -> Seq(Ops)]
    /\ sweepAt \in [Aborts -> 0..(Shards + 1)]
    /\ swept \in [Aborts -> [Keys -> Seq(Ops)]]
    /\ status \in [Calls -> {"none", "ok", "aborted", "cancelled"}]
    /\ got \in [Calls -> SUBSET Sends]
    /\ answered \in [Calls -> Nat]
    /\ turn \in [Ops -> Nat]
    /\ raced \subseteq Ops
    /\ CancellationTypeOK

\* Where each kind of thread can be.
PlaceInv ==
    /\ \A o \in Ops : pc[o] \in {"idle", "checked", "calling", "leaving", "done"}
    /\ \A a \in Aborts : pc[a] \in {"idle", "failed", "sweep", "done"}
    /\ \A m \in Managers : pc[m] \in {"idle", "callbacks", "calling", "leaving", "done"}

\* A queue is ordered by the calls' turns and holds items of its key.
QueueInv ==
    /\ \A k \in Keys : Ordered(table[k], turn) /\ \A o \in Elems(table[k]) : key[o] = k
    /\ \A a \in Aborts : \A k \in Keys :
          Ordered(swept[a][k], turn) /\ \A o \in Elems(swept[a][k]) : key[o] = k

\* What a thread that is about to call back has taken.
HandInv ==
    /\ \A o \in Ops : pc[o] = "calling" =>
          \E p \in Ops : /\ partner[o] = <<p>> /\ key[p] = key[o]
                         /\ o \in Sends <=> p \in Calls
    /\ \A m \in Managers : pc[m] \in {"calling", "leaving"} =>
          \E r \in Calls : partner[m] = <<r>> /\ manager[r] = m /\ r \notin running[m]
    /\ \A m \in Managers : pc[m] \notin {"calling", "leaving"} => partner[m] = <<>>

\* An item is in one place only.
OnePlaceInv ==
    \A o \in Ops : /\ InTable(o) => \A t \in Threads : ~ HeldBy(t, o)
                   /\ \A t, u \in Threads : HeldBy(t, o) /\ HeldBy(u, o) => t = u

\* The call of an item has returned, and a waiter among the items is not called
\* back and can still be deregistered if its manager was not cancelled.
Returned(o) ==
    /\ pc[o] = "done" /\ turn[o] > 0
    /\ o \in Calls => /\ answered[o] = 0
                      /\ manager[o] # NoManager /\ cmState[manager[o]] = "open"
                            => o \in callbacks[manager[o]]
ItemInv == \A o \in Ops : InTable(o) \/ (\E t \in Threads : HeldBy(t, o)) => Returned(o)

\* A Recv is called back at most once; until then it is before its table access,
\* has taken a message, or is an item.
RecvInv ==
    \A r \in Calls :
       /\ pc[r] \in {"idle", "checked", "calling"} => answered[r] = 0 /\ got[r] = {}
       /\ pc[r] = "leaving" => answered[r] = 1
       /\ answered[r] = 0 => got[r] = {}
       /\ answered[r] <= 1
       /\ pc[r] = "done" /\ answered[r] = 0 => InTable(r) \/ \E t \in Threads : HeldBy(t, r)

\* A waiter in the table can be cancelled by its manager.
WaiterInv ==
    \A r \in Calls : InTable(r) /\ manager[r] # NoManager
                        => r \in callbacks[manager[r]] \cup running[manager[r]]

\* The registered callbacks, before and after StartCancel has taken them.
ManagerInv ==
    \A m \in Managers :
       /\ cmState[m] = "open" <=> pc[m] = "idle"
       /\ pc[m] = "idle" => running[m] = {}
       /\ pc[m] # "idle" => callbacks[m] = {}
       /\ \A r \in callbacks[m] \cup running[m] : manager[r] = m /\ pc[r] = "done"

\* The turns of a key are no higher than the number of calls that had theirs.
HadTurn(k) == {o \in Ops : key[o] = k /\ turn[o] > 0}
TurnInv ==
    /\ \A o \in Ops : turn[o] <= Cardinality(HadTurn(key[o]))
    /\ \A o \in Ops : pc[o] \in {"idle", "checked"} => turn[o] = 0
    /\ \A o \in Ops : pc[o] \in {"calling", "leaving"} => turn[o] > 0

CoreInv ==
    /\ TypeInv /\ PlaceInv /\ QueueInv /\ HandInv /\ OnePlaceInv /\ ItemInv
    /\ RecvInv /\ WaiterInv /\ ManagerInv /\ TurnInv

\* The counters: pending callbacks of a bucket, references (ReferencesAreExact).
InCallback(b) == {o \in Ops : pc[o] \in {"calling", "leaving"} /\ Bucket(o) = b}
PendingInv == \A b \in 1..Shards : pending[b] = Cardinality(InCallback(b))

\* When the step has dropped its reference its calls have returned or will not come.
OwnerInv ==
    ~ owned => /\ \A s \in Sends : pc[s] \in {"idle", "done"}
               /\ \A r \in Calls : pc[r] = "idle" \/ answered[r] > 0

\* The progress of an abort.
AbortInv ==
    /\ \A a \in Aborts :
          /\ pc[a] \in {"idle", "failed"} => sweepAt[a] = 0
          /\ pc[a] \in {"sweep", "done"} => aborted /\ sweepAt[a] >= 1
          /\ pc[a] = "done" => sweepAt[a] = Shards + 1
          /\ pc[a] # "sweep" => \A k \in Keys : swept[a][k] = <<>>
    /\ aborted => \A o \in Ops : pc[o] = "checked" => o \in raced
    /\ \A a \in Aborts : \A o \in Ops :
          InTable(o) /\ sweepAt[a] > bucketOf[key[o]] => o \in raced

CountInv == ReferencesAreExact /\ PendingInv /\ OwnerInv /\ AbortInv

\* The message and the receiver that were brought together, called back or not.
Matched(s, r) == s \in got[r] \/ HeldBy(r, s) \/ HeldBy(s, r)

\* A message that came is in the table or has its receiver, until the abort.
MessageInv ==
    ~ aborted => \A s \in Sends : turn[s] > 0 => InTable(s) \/ \E r \in Calls : Matched(s, r)

MatchInv ==
    /\ \A s \in Sends, r \in Calls : Matched(s, r) =>
          key[s] = key[r] /\ turn[s] > 0 /\ turn[r] > 0
    /\ \A s, t \in Sends : \A q, r \in Calls :
          Matched(s, q) /\ Matched(t, r) /\ key[s] = key[t] =>
             (s = t <=> q = r) /\ (turn[s] < turn[t] <=> turn[q] < turn[r])
    /\ \A s \in Sends, r \in Calls : \A o \in Ops :
          Matched(s, r) /\ InTable(o) /\ key[o] = key[s] =>
             /\ o \in Sends => turn[s] < turn[o]
             /\ o \in Calls => turn[r] < turn[o]

Inv == CoreInv /\ CountInv /\ MessageInv /\ MatchInv

-----------------------------------------------------------------------------
(* Queues as sets *)

\* What a sequence holds.
LEMMA ElemsType ==
    ASSUME NEW S, NEW q \in Seq(S)
    PROVE  /\ Elems(q) \subseteq S
           /\ Elems(q) = {q[i] : i \in DOMAIN q}
           /\ Elems(<<>>) = {}
           /\ q # <<>> => Head(q) \in Elems(q)
BY DEF Elems

\* The elements after push_back.
LEMMA AppendElems ==
    ASSUME NEW S, NEW q \in Seq(S), NEW x \in S
    PROVE  Append(q, x) \in Seq(S) /\ Elems(Append(q, x)) = Elems(q) \cup {x}
BY DEF Elems

\* push_back of something later keeps the order.
LEMMA AppendOrdered ==
    ASSUME NEW S, NEW q \in Seq(S), NEW x \in S, NEW f, Ordered(q, f),
           \A y \in Elems(q) : f[y] < f[x]
    PROVE  Ordered(Append(q, x), f)
BY DEF Elems, Ordered

\* Unlinking the head: the rest is ordered, and later than the head.
LEMMA TailElems ==
    ASSUME NEW S, NEW q \in Seq(S), q # <<>>, NEW f \in [S -> Nat], Ordered(q, f)
    PROVE  /\ Tail(q) \in Seq(S)
           /\ Elems(Tail(q)) = Elems(q) \ {Head(q)}
           /\ Ordered(Tail(q), f)
           /\ \A x \in Elems(Tail(q)) : f[Head(q)] < f[x]
<1>1. /\ Tail(q) \in Seq(S) /\ Len(Tail(q)) = Len(q) - 1 /\ Len(q) \in Nat \ {0}
      /\ \A i \in 1..Len(Tail(q)) : Tail(q)[i] = q[i + 1]
      /\ Head(q) = q[1] /\ \A i \in 1..Len(q) : q[i] \in S
  OBVIOUS
<1>2. \A x \in Elems(Tail(q)) : x \in Elems(q) /\ f[Head(q)] < f[x]
  BY <1>1 DEF Elems, Ordered
<1>3. \A x \in Elems(q) \ {Head(q)} : x \in Elems(Tail(q))
  <2> SUFFICES ASSUME NEW i \in 1..Len(q), q[i] # Head(q) PROVE q[i] \in Elems(Tail(q))
    BY DEF Elems
  <2>1. i - 1 \in 1..Len(Tail(q)) /\ Tail(q)[i - 1] = q[i]
    BY <1>1
  <2> QED BY <2>1 DEF Elems
<1>4. Ordered(Tail(q), f)
  BY <1>1 DEF Ordered
<1>5. Head(q) \notin Elems(Tail(q))
  <2>1. f[Head(q)] \in Nat
    BY <1>1
  <2> QED BY <2>1, <1>2
<1> QED BY <1>1, <1>2, <1>3, <1>4, <1>5

\* The item at i is unlinked.
LEMMA WithoutElems ==
    ASSUME NEW S, NEW q \in Seq(S), NEW i \in 1..Len(q), NEW f \in [S -> Nat], Ordered(q, f)
    PROVE  /\ Without(q, i) \in Seq(S)
           /\ Elems(Without(q, i)) = Elems(q) \ {q[i]}
           /\ Ordered(Without(q, i), f)
<1> DEFINE w == Without(q, i)
<1>0. Len(q) \in Nat /\ \A j \in 1..Len(q) : q[j] \in S
  OBVIOUS
<1>1. /\ w \in Seq(S) /\ Len(w) = Len(q) - 1
      /\ \A j \in 1..(Len(q) - 1) : w[j] = IF j < i THEN q[j] ELSE q[j + 1]
  <2> DEFINE a == SubSeq(q, 1, i - 1)
             b == SubSeq(q, i + 1, Len(q))
  <2>1. a \in Seq(S) /\ Len(a) = i - 1 /\ \A j \in 1..(i - 1) : a[j] = q[j]
    BY <1>0
  <2>2. b \in Seq(S) /\ Len(b) = Len(q) - i /\ \A j \in 1..(Len(q) - i) : b[j] = q[i + j]
    BY <1>0
  <2>3. w = a \o b
    BY DEF Without
  <2> HIDE DEF a, b, w
  <2>4. w \in Seq(S) /\ Len(w) = Len(a) + Len(b)
    BY <2>1, <2>2, <2>3, ConcatProperties
  <2>5. \A j \in 1..(Len(a) + Len(b)) : w[j] = IF j <= Len(a) THEN a[j] ELSE b[j - Len(a)]
    BY <2>1, <2>2, <2>3, ConcatProperties
  <2>6. ASSUME NEW j \in 1..(Len(q) - 1) PROVE w[j] = IF j < i THEN q[j] ELSE q[j + 1]
    <3>0. Len(a) + Len(b) = Len(q) - 1
      BY <1>0, <2>1, <2>2
    <3>1. CASE j < i
      <4>1. w[j] = a[j]
        BY <1>0, <2>1, <2>5, <3>0, <3>1
      <4> QED BY <2>1, <3>1, <4>1
    <3>2. CASE ~ (j < i)
      <4>1. j - (i - 1) \in 1..(Len(q) - i) /\ i + (j - (i - 1)) = j + 1
        BY <1>0, <3>2
      <4>2. w[j] = b[j - (i - 1)]
        BY <1>0, <2>1, <2>5, <3>0, <3>2
      <4> QED BY <2>2, <3>2, <4>1, <4>2
    <3> QED BY <3>1, <3>2
  <2>7. Len(w) = Len(q) - 1
    BY <1>0, <2>1, <2>2, <2>4
  <2>8. \A j \in 1..(Len(q) - 1) : w[j] = IF j < i THEN q[j] ELSE q[j + 1]
    BY <2>6, Zenon
  <2> QED BY <2>4, <2>7, <2>8, Zenon
<1> HIDE DEF w
<1>2. \A j \in 1..Len(q) : j # i => q[j] # q[i]
  BY <1>0 DEF Ordered
<1>3. \A x \in Elems(w) : x \in Elems(q) /\ x # q[i]
  <2> SUFFICES ASSUME NEW j \in 1..Len(w) PROVE w[j] \in Elems(q) /\ w[j] # q[i]
    BY DEF Elems
  <2>1. PICK h \in 1..Len(q) : h # i /\ w[j] = q[h]
    <3>1. j \in 1..(Len(q) - 1)
      BY <1>1
    <3>2. w[j] = IF j < i THEN q[j] ELSE q[j + 1]
      BY <1>1, <3>1
    <3>3. j \in 1..Len(q) /\ j + 1 \in 1..Len(q) /\ (~ (j < i) => j + 1 # i)
      BY <1>0, <3>1
    <3>4. CASE j < i
      BY <1>0, <3>2, <3>3, <3>4
    <3>5. CASE ~ (j < i)
      BY <3>2, <3>3, <3>5
    <3> QED BY <3>4, <3>5
  <2> QED BY <1>2, <2>1 DEF Elems
<1>4. \A j \in 1..Len(q) : j # i => q[j] \in Elems(w)
  <2> SUFFICES ASSUME NEW j \in 1..Len(q), j # i PROVE q[j] \in Elems(w)
    OBVIOUS
  <2>1. PICK h \in 1..Len(w) : w[h] = q[j]
    <3>1. CASE j < i
      <4>0. j \in 1..(Len(q) - 1)
        BY <1>0, <3>1
      <4>1. j \in 1..(Len(q) - 1) /\ w[j] = q[j]
        BY <1>1, <3>1, <4>0
      <4> QED BY <4>1, <1>1
    <3>2. CASE j > i
      <4>0. j - 1 \in 1..(Len(q) - 1) /\ (j - 1) + 1 = j /\ ~ (j - 1 < i)
        BY <1>0, <3>2
      <4>1. j - 1 \in 1..(Len(q) - 1) /\ w[j - 1] = q[j]
        BY <1>1, <4>0
      <4> QED BY <4>1, <1>1
    <3>3. j < i \/ j > i
      BY <1>0
    <3> QED BY <3>1, <3>2, <3>3
  <2> QED BY <2>1 DEF Elems
<1>5. Elems(w) = Elems(q) \ {q[i]}
  BY <1>3, <1>4 DEF Elems
<1>6. Ordered(w, f)
  <2> SUFFICES ASSUME NEW g \in 1..Len(w), NEW h \in 1..Len(w), g < h
               PROVE  f[w[g]] < f[w[h]]
    BY DEF Ordered
  <2> DEFINE Old(j) == IF j < i THEN j ELSE j + 1
  <2>1. ASSUME NEW j \in 1..Len(w) PROVE Old(j) \in 1..Len(q) /\ w[j] = q[Old(j)]
    <3>1. j \in 1..(Len(q) - 1)
      BY <1>1
    <3>2. w[j] = IF j < i THEN q[j] ELSE q[j + 1]
      BY <1>1, <3>1
    <3>3. j \in 1..Len(q) /\ j + 1 \in 1..Len(q)
      BY <1>0, <3>1
    <3> QED BY <3>2, <3>3
  <2>2. Old(g) < Old(h)
    BY <1>0, <1>1
  <2> HIDE DEF Old
  <2> QED BY <2>1, <2>2 DEF Ordered
<1> QED BY <1>1, <1>5, <1>6 DEF w

\* The order looks at the elements only.
LEMMA OrderedFrame ==
    ASSUME NEW S, NEW q \in Seq(S), NEW f, NEW g, Ordered(q, f), \A x \in Elems(q) : g[x] = f[x]
    PROVE  Ordered(q, g)
BY DEF Ordered, Elems

-----------------------------------------------------------------------------
(* Facts that many steps need *)

\* Every thread does one thing.
LEMMA Kinds ==
    /\ \A s \in Sends : s \in Ops /\ s \notin Calls
    /\ \A r \in Calls : r \in Ops /\ r \notin Sends
    /\ \A o \in Ops : o \in Threads /\ o \notin Aborts /\ o \notin Managers
    /\ \A a \in Aborts : a \in Threads /\ a \notin Ops /\ a \notin Managers
    /\ \A m \in Managers : m \in Threads /\ m \notin Ops /\ m \notin Aborts
BY ThreadsAssumption DEF Ops, Threads

\* What the counters count is finite.
LEMMA FiniteSets ==
    /\ IsFiniteSet(Ops) /\ IsFiniteSet(Aborts)
    /\ \A S \in SUBSET Ops : IsFiniteSet(S) /\ Cardinality(S) \in Nat
    /\ \A S \in SUBSET Aborts : IsFiniteSet(S) /\ Cardinality(S) \in Nat
<1>1. IsFiniteSet(Ops) /\ IsFiniteSet(Aborts)
  BY ThreadsAssumption, FS_Subset
<1>2. \A S \in SUBSET Ops : IsFiniteSet(S) /\ Cardinality(S) \in Nat
  BY <1>1, FS_Subset, FS_CardinalityType
<1>3. \A S \in SUBSET Aborts : IsFiniteSet(S) /\ Cardinality(S) \in Nat
  BY <1>1, FS_Subset, FS_CardinalityType
<1> QED BY <1>1, <1>2, <1>3

\* The turn a call gets is later than all turns of its key.
LEMMA NowIsLatest ==
    ASSUME TypeInv, TurnInv, NEW o \in Ops
    PROVE  /\ Now(o) \in Nat \ {0}
           /\ \A p \in Ops : key[p] = key[o] => turn[p] < Now(o)
<1>1. Now(o) = Cardinality(HadTurn(key[o])) + 1
  BY DEF Now, HadTurn
<1>2. HadTurn(key[o]) \in SUBSET Ops
  BY DEF HadTurn
<1>3. Cardinality(HadTurn(key[o])) \in Nat
  BY <1>2, FiniteSets
<1>4. \A p \in Ops : key[p] = key[o] => turn[p] <= Cardinality(HadTurn(key[o]))
  BY DEF TurnInv
<1> QED BY <1>1, <1>3, <1>4 DEF TypeInv

\* A call takes its turn.
LEMMA TakesTurn ==
    ASSUME TypeInv, TurnInv, NEW o \in Ops, turn[o] = 0,
           turn' = [turn EXCEPT ![o] = Now(o)], key' = key
    PROVE  /\ turn' \in [Ops -> Nat]
           /\ \A p \in Ops : turn'[p] = IF p = o THEN Now(o) ELSE turn[p]
           /\ \A p \in Ops : turn'[p] <= Cardinality(HadTurn(key[p])')
<1>1. /\ Now(o) \in Nat \ {0} /\ key \in [Ops -> Keys] /\ turn \in [Ops -> Nat]
      /\ \A p \in Ops : key[p] = key[o] => turn[p] < Now(o)
  BY NowIsLatest DEF TypeInv
<1>2. /\ turn' \in [Ops -> Nat]
      /\ \A p \in Ops : turn'[p] = IF p = o THEN Now(o) ELSE turn[p]
  BY <1>1
<1>3. \A k \in Keys : HadTurn(k)' = IF k = key[o] THEN HadTurn(k) \cup {o} ELSE HadTurn(k)
  BY <1>1, <1>2 DEF HadTurn
<1>4. \A k \in Keys : IsFiniteSet(HadTurn(k)) /\ Cardinality(HadTurn(k)) \in Nat
  BY FiniteSets DEF HadTurn
<1>5. o \notin HadTurn(key[o]) /\ Now(o) = Cardinality(HadTurn(key[o])) + 1
  BY DEF HadTurn, Now
<1>6. Cardinality(HadTurn(key[o]) \cup {o}) = Now(o)
  BY <1>1, <1>4, <1>5, FS_AddElement
<1> SUFFICES ASSUME NEW p \in Ops PROVE turn'[p] <= Cardinality(HadTurn(key[p])')
  BY <1>2
<1>7. CASE key[p] = key[o]
  <2>1. turn'[p] <= Now(o) /\ key[o] \in Keys
    BY <1>1, <1>2, <1>7
  <2>2. HadTurn(key[p])' = HadTurn(key[o]) \cup {o}
    BY <1>3, <1>7, <2>1
  <2> QED BY <1>6, <2>1, <2>2
<1>8. CASE key[p] # key[o]
  <2>1. turn'[p] = turn[p] /\ key[p] \in Keys
    BY <1>1, <1>2, <1>8
  <2>2. HadTurn(key[p])' = HadTurn(key[p])
    BY <1>3, <1>8, <2>1
  <2>3. turn[p] <= Cardinality(HadTurn(key[p]))
    BY DEF TurnInv
  <2> QED BY <2>1, <2>2, <2>3
<1> QED BY <1>7, <1>8

\* What the table and the sequences swapped out of it hold.
LEMMA QueueTypes ==
    ASSUME TypeInv, QueueInv
    PROVE  /\ \A k \in Keys : table[k] \in Seq(Ops) /\ Elems(table[k]) \subseteq Ops
           /\ \A k \in Keys : \A o \in Elems(table[k]) : key[o] = k /\ InTable(o)
           /\ \A a \in Aborts : \A k \in Keys :
                 swept[a][k] \in Seq(Ops) /\ Elems(swept[a][k]) \subseteq Ops
           /\ \A a \in Aborts : \A k \in Keys : \A o \in Elems(swept[a][k]) :
                 key[o] = k /\ HeldBy(a, o)
           /\ \A o \in Ops : key[o] \in Keys
<1>1. ASSUME NEW k \in Keys PROVE table[k] \in Seq(Ops)
  <2>1. table[k] \in Seq(Sends) \/ table[k] \in Seq(Calls)
    BY DEF TypeInv
  <2>2. Sends \subseteq Ops /\ Calls \subseteq Ops
    BY DEF Ops
  <2> QED BY <2>1, <2>2, SeqMonotonic
<1>2. \A a \in Aborts : \A k \in Keys : swept[a][k] \in Seq(Ops)
  BY DEF TypeInv
<1>3. /\ \A k \in Keys : Elems(table[k]) \subseteq Ops
      /\ \A a \in Aborts : \A k \in Keys : Elems(swept[a][k]) \subseteq Ops
  BY <1>1, <1>2, ElemsType
<1>4. /\ \A k \in Keys : \A o \in Elems(table[k]) : key[o] = k
      /\ \A a \in Aborts : \A k \in Keys : \A o \in Elems(swept[a][k]) : key[o] = k
  BY DEF QueueInv
<1> QED BY <1>1, <1>2, <1>3, <1>4 DEF InTable, HeldBy, TypeInv

\* The turn of a call that is not queued yet changes no order.
LEMMA OldTurns ==
    ASSUME TypeInv, QueueInv, TurnInv, ItemInv, NEW o \in Ops, pc[o] = "checked",
           turn' = [turn EXCEPT ![o] = Now(o)], key' = key
    PROVE  /\ \A j \in Keys : o \notin Elems(table[j]) /\ Ordered(table[j], turn')
           /\ \A a \in Aborts : \A j \in Keys : Ordered(swept[a][j], turn')
           /\ ~ InTable(o) /\ \A t \in Threads : ~ HeldBy(t, o)
<1>1. ~ Returned(o)
  BY DEF Returned
<1>2. ~ InTable(o) /\ \A t \in Threads : ~ HeldBy(t, o)
  BY <1>1 DEF ItemInv
<1>3. /\ \A j \in Keys : \A p \in Elems(table[j]) : p \in Ops /\ p # o
      /\ \A a \in Aborts : \A j \in Keys : \A p \in Elems(swept[a][j]) : p \in Ops /\ p # o
  BY <1>2, QueueTypes, Kinds
<1>4. \A p \in Ops : p # o => turn'[p] = turn[p]
  BY DEF TypeInv
<1>5. ASSUME NEW j \in Keys PROVE Ordered(table[j], turn')
  <2>1. Ordered(table[j], turn) /\ table[j] \in Seq(Ops)
    BY QueueTypes DEF QueueInv
  <2>2. \A p \in Elems(table[j]) : turn'[p] = turn[p]
    BY <1>3, <1>4
  <2> QED BY <2>1, <2>2, OrderedFrame
<1>6. ASSUME NEW a \in Aborts, NEW j \in Keys PROVE Ordered(swept[a][j], turn')
  <2> DEFINE q == swept[a][j]
  <2>1. Ordered(q, turn) /\ q \in Seq(Ops)
    BY QueueTypes DEF QueueInv
  <2>2. \A p \in Elems(q) : turn'[p] = turn[p]
    BY <1>3, <1>4
  <2> HIDE DEF q
  <2>3. Ordered(q, turn')
    BY <2>1, <2>2, OrderedFrame
  <2> QED BY <2>3 DEF q
<1> QED BY <1>2, <1>3, <1>5, <1>6

-----------------------------------------------------------------------------
(* How the steps move items *)

\* No item moves when the table is left alone and nobody starts or ends a callback.
LEMMA QuietMoves ==
    ASSUME key' = key, table' = table, swept' = swept,
           \A t \in Threads : t \notin Aborts =>
              \/ pc'[t] = pc[t] /\ partner'[t] = partner[t]
              \/ pc[t] # "calling" /\ pc'[t] # "calling"
    PROVE  /\ \A p \in Ops : InTable(p)' <=> InTable(p)
           /\ \A t \in Threads : \A p \in Ops : HeldBy(t, p)' <=> HeldBy(t, p)
BY DEF InTable, HeldBy

\* A thread calls back what it has taken.
LEMMA CallMoves ==
    ASSUME TypeInv, NEW t \in Threads, t \notin Aborts, pc[t] = "calling",
           Go(t, "leaving"), partner' = partner, key' = key, table' = table, swept' = swept
    PROVE  /\ \A p \in Ops : InTable(p)' <=> InTable(p)
           /\ \A u \in Threads : \A p \in Ops : HeldBy(u, p)' <=> HeldBy(u, p) /\ u # t
BY DEF InTable, HeldBy, Go, TypeInv

\* A call queues its item.
LEMMA PushMoves ==
    ASSUME TypeInv, QueueInv, TurnInv, ItemInv, NEW o \in Ops, NEW K,
           K = Sends \/ K = Calls, o \in K, table[key[o]] \in Seq(K), pc[o] = "checked",
           PushBack(o), Go(o, "done"), turn' = [turn EXCEPT ![o] = Now(o)],
           key' = key, swept' = swept
    PROVE  /\ table' \in [Keys -> Seq(Sends) \cup Seq(Calls)] /\ QueueInv'
           /\ \A p \in Ops : InTable(p)' <=> InTable(p) \/ p = o
           /\ \A t \in Threads : \A p \in Ops : HeldBy(t, p)' <=> HeldBy(t, p)
<1> DEFINE k == key[o]
           q == table[k]
<1>0. /\ k \in Keys /\ key \in [Ops -> Keys] /\ q \in Seq(K) /\ K \subseteq Ops /\ turn[o] = 0
      /\ table \in [Keys -> Seq(Sends) \cup Seq(Calls)]
      /\ table' = [table EXCEPT ![k] = Append(q, o)]
  BY DEF PushBack, TypeInv, TurnInv, Ops
<1>1. /\ Append(q, o) \in Seq(K) /\ Elems(Append(q, o)) = Elems(q) \cup {o}
      /\ Append(q, o) \in Seq(Ops) /\ q \in Seq(Ops)
  BY <1>0, AppendElems, SeqMonotonic
<1> HIDE DEF k, q
<1>2. table' \in [Keys -> Seq(Sends) \cup Seq(Calls)]
  BY <1>0, <1>1
<1>3. \A j \in Keys : table'[j] = IF j = k THEN Append(q, o) ELSE table[j]
  BY <1>0
<1>4. /\ \A p \in Ops : turn'[p] = IF p = o THEN Now(o) ELSE turn[p]
      /\ \A p \in Ops : key[p] = k => turn[p] < Now(o)
  BY <1>0, TakesTurn, NowIsLatest DEF k
<1>5. /\ \A j \in Keys : Ordered(table[j], turn')
      /\ \A a \in Aborts : \A j \in Keys : Ordered(swept[a][j], turn')
  BY OldTurns
<1>6. ASSUME NEW j \in Keys PROVE Ordered(table'[j], turn')
  <2>1. CASE j = k
    <3>1. \A p \in Elems(q) : turn'[p] < turn'[o]
      <4>1. \A p \in Elems(q) : p \in Ops /\ key[p] = k /\ p # o
        BY <1>0, OldTurns, QueueTypes DEF q
      <4> QED BY <1>4, <4>1
    <3> QED BY <1>0, <1>1, <1>3, <1>5, <2>1, <3>1, AppendOrdered DEF q
  <2>2. CASE j # k
    BY <1>3, <1>5, <2>2
  <2> QED BY <2>1, <2>2
<1>7. \A a \in Aborts : \A j \in Keys : Ordered(swept'[a][j], turn')
  BY <1>5
<1>8. /\ \A j \in Keys : \A p \in Elems(table'[j]) : key'[p] = j
      /\ \A a \in Aborts : \A j \in Keys : \A p \in Elems(swept'[a][j]) : key'[p] = j
  BY <1>0, <1>1, <1>3, QueueTypes DEF k, q
<1>9. \A p \in Ops : InTable(p)' <=> InTable(p) \/ p = o
  BY <1>0, <1>1, <1>3, QueueTypes DEF InTable, k, q
<1>10. \A t \in Threads : \A p \in Ops : HeldBy(t, p)' <=> HeldBy(t, p)
  BY DEF HeldBy, PushBack, Go, TypeInv
<1> QED BY <1>2, <1>6, <1>7, <1>8, <1>9, <1>10 DEF QueueInv

\* A call takes the head of its key's queue.
LEMMA PopMoves ==
    ASSUME TypeInv, QueueInv, TurnInv, ItemInv, NEW o \in Ops, table[key[o]] # <<>>,
           pc[o] = "checked", PopHead(o), Go(o, "calling"),
           turn' = [turn EXCEPT ![o] = Now(o)], key' = key, swept' = swept
    PROVE  /\ table' \in [Keys -> Seq(Sends) \cup Seq(Calls)] /\ QueueInv'
           /\ Head(table[key[o]]) \in Ops /\ InTable(Head(table[key[o]]))
           /\ key[Head(table[key[o]])] = key[o]
           /\ partner'[o] = <<Head(table[key[o]])>>
           /\ \A p \in Ops : InTable(p)' <=> InTable(p) /\ p # Head(table[key[o]])
           /\ \A p \in Ops : InTable(p)' /\ key[p] = key[o] =>
                 turn[Head(table[key[o]])] < turn[p]
           /\ \A t \in Threads : \A p \in Ops :
                 HeldBy(t, p)' <=> HeldBy(t, p) \/ (t = o /\ p = Head(table[key[o]]))
<1> DEFINE k == key[o]
           q == table[k]
           h == Head(q)
<1>0. /\ k \in Keys /\ key \in [Ops -> Keys] /\ q \in Seq(Ops) /\ q # <<>>
      /\ table \in [Keys -> Seq(Sends) \cup Seq(Calls)]
      /\ table' = [table EXCEPT ![k] = Tail(q)]
      /\ partner' = [partner EXCEPT ![o] = <<h>>]
  BY QueueTypes DEF PopHead, TypeInv
<1>1. /\ \A j \in Keys : Ordered(table[j], turn') /\ Ordered(table[j], turn)
      /\ \A a \in Aborts : \A j \in Keys : Ordered(swept[a][j], turn')
      /\ turn \in [Ops -> Nat] /\ turn' \in [Ops -> Nat]
  BY OldTurns, TakesTurn DEF QueueInv, TurnInv, TypeInv
<1>2. /\ Elems(Tail(q)) = Elems(q) \ {h} /\ Ordered(Tail(q), turn')
      /\ h \in Elems(q) /\ \A p \in Elems(Tail(q)) : turn[h] < turn[p]
  BY <1>0, <1>1, TailElems, ElemsType
<1>3. Tail(q) \in Seq(Sends) \cup Seq(Calls)
  <2>1. q \in Seq(Sends) \/ q \in Seq(Calls)
    BY <1>0
  <2> QED BY <1>0, <2>1
<1>4. h \in Ops /\ InTable(h) /\ key[h] = k
  BY <1>0, <1>2, QueueTypes
<1> HIDE DEF h, k, q
<1>5. \A j \in Keys : table'[j] = IF j = k THEN Tail(q) ELSE table[j]
  BY <1>0
<1>6. table' \in [Keys -> Seq(Sends) \cup Seq(Calls)]
  BY <1>0, <1>3
<1>7. /\ \A j \in Keys : Ordered(table'[j], turn')
      /\ \A a \in Aborts : \A j \in Keys : Ordered(swept'[a][j], turn')
  BY <1>1, <1>2, <1>5
<1>8. /\ \A j \in Keys : \A p \in Elems(table'[j]) : key'[p] = j
      /\ \A a \in Aborts : \A j \in Keys : \A p \in Elems(swept'[a][j]) : key'[p] = j
  BY <1>0, <1>2, <1>5, QueueTypes DEF q
<1>9. \A p \in Ops : /\ InTable(p)' <=> InTable(p) /\ p # h
                     /\ InTable(p)' /\ key[p] = k => turn[h] < turn[p]
  BY <1>0, <1>2, <1>4, <1>5 DEF InTable, q
<1>10. \A t \in Threads : \A p \in Ops : HeldBy(t, p)' <=> HeldBy(t, p) \/ (t = o /\ p = h)
  <2> SUFFICES ASSUME NEW t \in Threads, NEW p \in Ops
               PROVE  HeldBy(t, p)' <=> HeldBy(t, p) \/ (t = o /\ p = h)
    OBVIOUS
  <2>1. CASE t = o
    <3>1. pc'[o] = "calling" /\ partner'[o] = <<h>> /\ o \notin Aborts
      BY <1>0, Kinds DEF Go, TypeInv
    <3> QED BY <2>1, <3>1 DEF HeldBy
  <2>2. CASE t # o
    BY <1>0, <2>2 DEF HeldBy, Go, TypeInv
  <2> QED BY <2>1, <2>2
<1> QED BY <1>0, <1>4, <1>6, <1>7, <1>8, <1>9, <1>10, Kinds DEF QueueInv, h, k, q, TypeInv

\* An abort takes what is in a bucket.
LEMMA SwapMoves ==
    ASSUME TypeInv, QueueInv, NEW a \in Aborts, SwapTable(a)
    PROVE  /\ table' \in [Keys -> Seq(Sends) \cup Seq(Calls)]
           /\ swept' \in [Aborts -> [Keys -> Seq(Ops)]] /\ QueueInv'
           /\ \A p \in Ops : InTable(p)' <=> InTable(p) /\ bucketOf[key[p]] # sweepAt[a]
           /\ \A p \in Ops : ~ HeldBy(a, p)
           /\ \A t \in Threads : \A p \in Ops : HeldBy(t, p)' <=>
                 IF t = a THEN InTable(p) /\ bucketOf[key[p]] = sweepAt[a] ELSE HeldBy(t, p)
<1> DEFINE b == sweepAt[a]
<1>0. /\ \A k \in Keys : swept[a][k] = <<>> /\ table[k] \in Seq(Ops)
      /\ \A k \in Keys : table[k] \in Seq(Sends) \cup Seq(Calls)
      /\ swept \in [Aborts -> [Keys -> Seq(Ops)]] /\ key \in [Ops -> Keys]
      /\ <<>> \in Seq(Ops) /\ <<>> \in Seq(Sends) /\ Elems(<<>>) = {} /\ Ordered(<<>>, turn)
  <2>1. <<>> \in Seq(Ops) /\ <<>> \in Seq(Sends) /\ Elems(<<>>) = {}
    BY DEF Elems
  <2>2. Ordered(<<>>, turn)
    BY DEF Ordered
  <2>3. \A k \in Keys : swept[a][k] = <<>>
    BY DEF SwapTable, Swept
  <2> QED BY <2>1, <2>2, <2>3, QueueTypes DEF TypeInv
<1>1. UNCHANGED <<key, turn, pc, partner, bucketOf>>
  BY DEF SwapTable, args
<1>2. /\ table' = [k \in Keys |-> IF bucketOf[k] = b THEN <<>> ELSE table[k]]
      /\ swept' = [swept EXCEPT ![a] =
                      [k \in Keys |-> IF bucketOf[k] = b THEN table[k] ELSE <<>>]]
  BY DEF SwapTable, InBucket
<1> HIDE DEF b
<1>3. /\ \A k \in Keys : table'[k] = IF bucketOf[k] = b THEN <<>> ELSE table[k]
      /\ \A k \in Keys : swept'[a][k] = IF bucketOf[k] = b THEN table[k] ELSE <<>>
      /\ \A c \in Aborts : c # a => swept'[c] = swept[c]
  BY <1>0, <1>2
<1>4. table' \in [Keys -> Seq(Sends) \cup Seq(Calls)]
  BY <1>0, <1>2
<1>5. swept' \in [Aborts -> [Keys -> Seq(Ops)]]
  <2>1. [k \in Keys |-> IF bucketOf[k] = b THEN table[k] ELSE <<>>] \in [Keys -> Seq(Ops)]
    BY <1>0
  <2> QED BY <1>0, <1>2, <2>1
<1>6. \A k \in Keys : /\ Ordered(table'[k], turn)
                       /\ \A p \in Elems(table'[k]) : key[p] = k
  BY <1>0, <1>3, Zenon DEF QueueInv
<1>7. ASSUME NEW c \in Aborts, NEW k \in Keys
      PROVE  Ordered(swept'[c][k], turn) /\ \A p \in Elems(swept'[c][k]) : key[p] = k
  <2>1. CASE c = a
    BY <1>0, <1>3, <2>1, Zenon DEF QueueInv
  <2>2. CASE c # a
    BY <1>3, <2>2, Zenon DEF QueueInv
  <2> QED BY <2>1, <2>2
<1>8. QueueInv'
  BY <1>1, <1>6, <1>7 DEF QueueInv
<1>9. \A p \in Ops : InTable(p)' <=> InTable(p) /\ bucketOf[key[p]] # b
  BY <1>0, <1>1, <1>3 DEF InTable
<1>10. \A p \in Ops : ~ HeldBy(a, p)
  BY <1>0 DEF HeldBy
<1>11. ASSUME NEW t \in Threads, NEW p \in Ops
       PROVE  HeldBy(t, p)' <=>
                 IF t = a THEN InTable(p) /\ bucketOf[key[p]] = b ELSE HeldBy(t, p)
  <2>0. key[p] \in Keys
    BY <1>0
  <2>1. CASE t = a
    <3>1. HeldBy(t, p)' <=> p \in Elems(swept'[a][key[p]])
      BY <1>1, <2>1 DEF HeldBy
    <3> QED BY <1>0, <1>3, <2>0, <2>1, <3>1 DEF InTable
  <2>2. CASE t # a
    BY <1>1, <1>3, <2>2 DEF HeldBy
  <2> QED BY <2>1, <2>2
<1> QED BY <1>4, <1>5, <1>8, <1>9, <1>10, <1>11 DEF b

\* One place of a table of tables is updated.
LEMMA NestedUpdate ==
    ASSUME NEW C, NEW D, NEW S, NEW f \in [C -> [D -> S]], NEW a \in C, NEW k \in D,
           NEW x, NEW g, g = [f EXCEPT ![a][k] = x]
    PROVE  \A c \in C, d \in D : g[c][d] = IF c = a /\ d = k THEN x ELSE f[c][d]
<1>1. g[a] = [f[a] EXCEPT ![k] = x] /\ \A c \in C : c # a => g[c] = f[c]
  OBVIOUS
<1>2. f[a] \in [D -> S]
  OBVIOUS
<1>3. \A d \in D : g[a][d] = IF d = k THEN x ELSE f[a][d]
  BY <1>1, <1>2
<1> QED BY <1>1, <1>3

\* An abort deals with one item it has taken.
LEMMA AbortItemMoves ==
    ASSUME TypeInv, QueueInv, NEW a \in Aborts, NEW k \in Keys, swept[a][k] # <<>>,
           swept' = [swept EXCEPT ![a][k] = Tail(@)],
           UNCHANGED <<key, table, turn, pc, partner>>
    PROVE  /\ swept' \in [Aborts -> [Keys -> Seq(Ops)]] /\ QueueInv'
           /\ Head(swept[a][k]) \in Ops /\ HeldBy(a, Head(swept[a][k]))
           /\ \A p \in Ops : InTable(p)' <=> InTable(p)
           /\ \A t \in Threads : \A p \in Ops :
                 HeldBy(t, p)' <=> HeldBy(t, p) /\ ~ (t = a /\ p = Head(swept[a][k]))
<1> DEFINE q == swept[a][k]
           h == Head(q)
<1>0. /\ swept \in [Aborts -> [Keys -> Seq(Ops)]] /\ key \in [Ops -> Keys]
      /\ q \in Seq(Ops) /\ q # <<>> /\ Ordered(q, turn) /\ turn \in [Ops -> Nat]
      /\ swept' = [swept EXCEPT ![a][k] = Tail(q)]
  BY DEF TypeInv, QueueInv
<1>1. /\ Tail(q) \in Seq(Ops) /\ Elems(Tail(q)) = Elems(q) \ {h} /\ Ordered(Tail(q), turn)
      /\ h \in Elems(q)
  BY <1>0, TailElems, ElemsType
<1>2. h \in Ops /\ key[h] = k /\ HeldBy(a, h)
  BY <1>1, QueueTypes
<1> HIDE DEF q, h
<1>3. \A c \in Aborts, j \in Keys :
         swept'[c][j] = IF c = a /\ j = k THEN Tail(q) ELSE swept[c][j]
  <2>1. PICK x : x = Tail(q)
    OBVIOUS
  <2>2. swept' = [swept EXCEPT ![a][k] = x]
    BY <1>0, <2>1
  <2>3. \A c \in Aborts, j \in Keys : swept'[c][j] = IF c = a /\ j = k THEN x ELSE swept[c][j]
    <3>1. swept \in [Aborts -> [Keys -> Seq(Ops)]]
      BY <1>0
    <3> QED BY ONLY <3>1, <2>2, NestedUpdate, Zenon
  <2> QED BY <2>1, <2>3
<1>4. swept' \in [Aborts -> [Keys -> Seq(Ops)]]
  BY <1>0, <1>1
<1>5. \A c \in Aborts, j \in Keys :
         Ordered(swept'[c][j], turn) /\ \A p \in Elems(swept'[c][j]) : key[p] = j
  BY <1>1, <1>3, QueueTypes DEF QueueInv, q
<1>6. \A c \in Aborts, p \in Ops :
         p \in Elems(swept'[c][key[p]]) <=> p \in Elems(swept[c][key[p]]) /\ ~ (c = a /\ p = h)
  BY <1>0, <1>1, <1>2, <1>3 DEF q
<1>7. \A t \in Threads : \A p \in Ops :
         HeldBy(t, p)' <=> HeldBy(t, p) /\ ~ (t = a /\ p = h)
  BY <1>6 DEF HeldBy
<1>8. \A p \in Ops : InTable(p)' <=> InTable(p)
  BY DEF InTable
<1>9. QueueInv'
  BY <1>5 DEF QueueInv
<1> QED BY <1>2, <1>4, <1>7, <1>8, <1>9 DEF q, h

\* The callback of a cancellation unlinks its Recv.
LEMMA CancelMoves ==
    ASSUME TypeInv, QueueInv, NEW m \in Managers, NEW r \in Calls,
           NEW i \in DOMAIN table[key[r]], table[key[r]][i] = r,
           table' = [table EXCEPT ![key[r]] = Without(table[key[r]], i)],
           pc[m] = "callbacks", Go(m, "calling"), partner' = [partner EXCEPT ![m] = <<r>>],
           UNCHANGED <<key, swept, turn>>
    PROVE  /\ table' \in [Keys -> Seq(Sends) \cup Seq(Calls)] /\ QueueInv' /\ InTable(r)
           /\ \A p \in Ops : InTable(p)' <=> InTable(p) /\ p # r
           /\ \A t \in Threads : \A p \in Ops :
                 HeldBy(t, p)' <=> HeldBy(t, p) \/ (t = m /\ p = r)
<1> DEFINE k == key[r]
           q == table[k]
<1>0. /\ k \in Keys /\ key \in [Ops -> Keys] /\ turn \in [Ops -> Nat] /\ r \in Ops
      /\ table \in [Keys -> Seq(Sends) \cup Seq(Calls)] /\ Ordered(q, turn)
      /\ q \in Seq(Ops) /\ i \in 1..Len(q) /\ q[i] = r
  <2>1. r \in Ops /\ k \in Keys /\ q \in Seq(Ops)
    BY Kinds, QueueTypes
  <2>2. i \in 1..Len(q) /\ q[i] = r
    BY <2>1
  <2> QED BY <2>1, <2>2 DEF TypeInv, QueueInv
<1>1. Elems(Without(q, i)) = Elems(q) \ {r} /\ Ordered(Without(q, i), turn)
  BY <1>0, WithoutElems
<1>2. Without(q, i) \in Seq(Sends) \cup Seq(Calls)
  <2>1. PICK K : (K = Sends \/ K = Calls) /\ q \in Seq(K)
    BY <1>0
  <2>2. K \subseteq Ops /\ \A x \in K : turn[x] \in Nat
    BY <1>0, <2>1 DEF Ops
  <2>3. [x \in K |-> turn[x]] \in [K -> Nat] /\ Ordered(q, [x \in K |-> turn[x]])
    BY <1>0, <2>1, <2>2 DEF Ordered
  <2> QED BY <1>0, <2>1, <2>3, WithoutElems
<1>3. InTable(r)
  BY <1>0 DEF InTable, Elems
<1> HIDE DEF q, k
<1>4. \A j \in Keys : table'[j] = IF j = k THEN Without(q, i) ELSE table[j]
  BY <1>0 DEF k, q
<1>5. table' \in [Keys -> Seq(Sends) \cup Seq(Calls)]
  BY <1>0, <1>2 DEF k, q
<1>6. \A j \in Keys : Ordered(table'[j], turn) /\ \A p \in Elems(table'[j]) : key[p] = j
  BY <1>1, <1>4, QueueTypes DEF QueueInv, q
<1>7. QueueInv'
  BY <1>6 DEF QueueInv
<1>8. \A p \in Ops : InTable(p)' <=> InTable(p) /\ p # r
  BY <1>0, <1>1, <1>4 DEF InTable, q, k
<1>9. \A t \in Threads : \A p \in Ops : HeldBy(t, p)' <=> HeldBy(t, p) \/ (t = m /\ p = r)
  <2> SUFFICES ASSUME NEW t \in Threads, NEW p \in Ops
               PROVE  HeldBy(t, p)' <=> HeldBy(t, p) \/ (t = m /\ p = r)
    OBVIOUS
  <2>1. CASE t = m
    <3>1. pc'[m] = "calling" /\ partner'[m] = <<r>> /\ m \notin Aborts
      BY Kinds DEF Go, TypeInv
    <3> QED BY <2>1, <3>1 DEF HeldBy
  <2>2. CASE t # m
    BY <2>2 DEF HeldBy, Go, TypeInv
  <2> QED BY <2>1, <2>2
<1> QED BY <1>3, <1>5, <1>7, <1>8, <1>9

\* done is called.
LEMMA DoneFacts ==
    ASSUME TypeInv, NEW r \in Calls, NEW result, NEW message, Done(r, result, message),
           result \in {"ok", "aborted", "cancelled"}, message \subseteq Sends
    PROVE  /\ status' \in [Calls -> {"none", "ok", "aborted", "cancelled"}]
           /\ got' \in [Calls -> SUBSET Sends] /\ answered' \in [Calls -> Nat]
           /\ \A q \in Calls : \A s : s \in got'[q] <=> s \in got[q] \/ (q = r /\ s \in message)
           /\ \A q \in Calls : answered'[q] = IF q = r THEN answered[q] + 1 ELSE answered[q]
<1>1. /\ status' = [status EXCEPT ![r] = result]
      /\ got' = [got EXCEPT ![r] = got[r] \cup message]
      /\ answered' = [answered EXCEPT ![r] = answered[r] + 1]
  BY DEF Done
<1>2. /\ status \in [Calls -> {"none", "ok", "aborted", "cancelled"}]
      /\ got \in [Calls -> SUBSET Sends] /\ answered \in [Calls -> Nat]
  BY DEF TypeInv
<1>3. got[r] \cup message \in SUBSET Sends /\ answered[r] + 1 \in Nat
  BY <1>2
<1>4. status' \in [Calls -> {"none", "ok", "aborted", "cancelled"}]
  BY <1>1, <1>2
<1>5. /\ got' \in [Calls -> SUBSET Sends]
      /\ \A q \in Calls : \A s : s \in got'[q] <=> s \in got[q] \/ (q = r /\ s \in message)
  BY <1>1, <1>2, <1>3
<1>6. /\ answered' \in [Calls -> Nat]
      /\ \A q \in Calls : answered'[q] = IF q = r THEN answered[q] + 1 ELSE answered[q]
  BY <1>1, <1>2, <1>3
<1> QED BY <1>4, <1>5, <1>6

\* status() is read; the call returns if it is not OK.
LEMMA CheckStep ==
    ASSUME CoreInv, NEW o \in Ops, Check(o)
    PROVE  CoreInv'
<1>i. TypeInv /\ PlaceInv /\ QueueInv /\ HandInv /\ OnePlaceInv /\ ItemInv
      /\ RecvInv /\ WaiterInv /\ ManagerInv /\ TurnInv
  BY DEF CoreInv
<1>j. \A n \in Managers : callbacks[n] \subseteq Calls /\ running[n] \subseteq Calls
  BY <1>i DEF TypeInv, CancellationTypeOK
<1>q. UNCHANGED <<key, bucketOf, manager, table, pending, refs, owned, destroyed, aborted,
                  sweepAt, swept, raced, partner, turn, cmState, callbacks, running>>
  BY DEF Check, args, tableVars, ownerVars, abortVars, cmVars
<1>p. /\ pc[o] = "idle" /\ pc' \in [Threads -> Places]
      /\ \A t \in Threads : pc'[t] = IF t = o THEN (IF aborted THEN "done" ELSE "checked") ELSE pc[t]
  BY <1>i, Kinds DEF Check, Go, TypeInv, Places
<1>m. /\ \A p \in Ops : InTable(p)' <=> InTable(p)
      /\ \A t \in Threads : \A p \in Ops : HeldBy(t, p)' <=> HeldBy(t, p)
  BY <1>p, <1>q, QuietMoves
<1>d. /\ status' \in [Calls -> {"none", "ok", "aborted", "cancelled"}]
      /\ got' \in [Calls -> SUBSET Sends] /\ answered' \in [Calls -> Nat]
      /\ \A r \in Calls : \A s : s \in got'[r] <=> s \in got[r]
      /\ \A r \in Calls : answered'[r] = IF r = o /\ aborted THEN answered[r] + 1 ELSE answered[r]
  <2>1. CASE aborted /\ o \in Calls
    <3>1. Done(o, "aborted", {})
      BY <2>1 DEF Check
    <3> QED BY <1>i, <2>1, <3>1, DoneFacts
  <2>2. CASE ~ (aborted /\ o \in Calls)
    <3>1. UNCHANGED <<status, got, answered>>
      BY <2>2 DEF Check, doneVars
    <3> QED BY <1>i, <2>2, <3>1 DEF TypeInv
  <2> QED BY <2>1, <2>2
<1>1. TypeInv'
  BY <1>q, <1>p, <1>m, <1>d, <1>i DEF TypeInv, CancellationTypeOK
<1>2. PlaceInv'
  BY <1>q, <1>p, <1>m, <1>d, <1>i, Kinds DEF PlaceInv
<1>3. QueueInv'
  BY <1>q, <1>p, <1>m, <1>d, <1>i DEF QueueInv
<1>4. HandInv'
  BY <1>q, <1>p, <1>m, <1>d, <1>i, Kinds DEF HandInv
<1>5. OnePlaceInv'
  BY <1>q, <1>p, <1>m, <1>d, <1>i DEF OnePlaceInv
<1>6. ItemInv'
  BY <1>q, <1>p, <1>m, <1>d, <1>i, Kinds DEF ItemInv, Returned
<1>7. RecvInv'
  BY <1>q, <1>p, <1>m, <1>d, <1>i, Kinds DEF RecvInv
<1>8. WaiterInv'
  BY <1>q, <1>p, <1>m, <1>d, <1>i, Kinds DEF WaiterInv
<1>9. ManagerInv'
  BY <1>q, <1>p, <1>m, <1>d, <1>i, <1>j, Kinds DEF ManagerInv
<1>10. TurnInv'
  BY <1>q, <1>p, <1>m, <1>d, <1>i, Kinds DEF TurnInv, HadTurn
<1> QED BY <1>1, <1>2, <1>3, <1>4, <1>5, <1>6, <1>7, <1>8, <1>9, <1>10 DEF CoreInv

\* The waiter of a queued Recv deregisters its cancellation callback and calls done.
LEMMA WaiterFacts ==
    ASSUME TypeInv, NEW r \in Calls, NEW result, NEW message, Waiter(r, result, message),
           result \in {"ok", "aborted", "cancelled"}, message \subseteq Sends
    PROVE  /\ status' \in [Calls -> {"none", "ok", "aborted", "cancelled"}]
           /\ got' \in [Calls -> SUBSET Sends] /\ answered' \in [Calls -> Nat]
           /\ \A q \in Calls : \A s : s \in got'[q] <=> s \in got[q] \/ (q = r /\ s \in message)
           /\ \A q \in Calls : answered'[q] = IF q = r THEN answered[q] + 1 ELSE answered[q]
           /\ callbacks' \in [Managers -> SUBSET Calls] /\ UNCHANGED <<cmState, running>>
           /\ \A m \in Managers : \A q : q \in callbacks'[m] <=>
                 q \in callbacks[m] /\ ~ (q = r /\ m = manager[r] /\ cmState[m] = "open")
<1>1. Done(r, result, message)
  BY DEF Waiter
<1>2. callbacks \in [Managers -> SUBSET Calls] /\ manager[r] \in Managers \cup {NoManager}
  BY DEF TypeInv, CancellationTypeOK
<1>3. CASE manager[r] = NoManager
  <2>1. UNCHANGED <<cmState, callbacks, running>>
    BY <1>3 DEF Waiter, cmVars
  <2> QED BY <1>1, <1>2, <1>3, <2>1, DoneFacts, ManagersAssumption
<1>4. CASE manager[r] # NoManager
  <2>1. /\ UNCHANGED <<cmState, running>>
        /\ callbacks' = [callbacks EXCEPT ![manager[r]] =
                            IF cmState[manager[r]] = "open" THEN callbacks[manager[r]] \ {r}
                                                            ELSE callbacks[manager[r]]]
    BY <1>4 DEF Waiter, DeregisterCallback
  <2>2. /\ callbacks' \in [Managers -> SUBSET Calls]
        /\ \A m \in Managers : \A q : q \in callbacks'[m] <=>
              q \in callbacks[m] /\ ~ (q = r /\ m = manager[r] /\ cmState[m] = "open")
    BY <1>2, <1>4, <2>1
  <2> QED BY <1>1, <2>1, <2>2, DoneFacts
<1> QED BY <1>3, <1>4

\* A call that finds no partner queues its item.
LEMMA PushStep ==
    ASSUME CoreInv, NEW o \in Ops, NEW K,
           K = Sends \/ K = Calls, o \in K, table[key[o]] \in Seq(K), pc[o] = "checked",
           PushBack(o), Go(o, "done"), turn' = [turn EXCEPT ![o] = Now(o)],
           UNCHANGED <<key, bucketOf, manager, owned, destroyed, aborted, sweepAt, swept, raced,
                       status, got, answered, cmState, running>>,
           refs' \in Int, callbacks' \in [Managers -> SUBSET Calls],
           \A n \in Managers : \A q : q \in callbacks'[n] <=>
              q \in callbacks[n] \/ (q = o /\ o \in Calls /\ n = manager[o]),
           o \in Calls /\ manager[o] # NoManager => cmState[manager[o]] = "open"
    PROVE  CoreInv'
<1>i. TypeInv /\ PlaceInv /\ QueueInv /\ HandInv /\ OnePlaceInv /\ ItemInv
      /\ RecvInv /\ WaiterInv /\ ManagerInv /\ TurnInv
  BY DEF CoreInv
<1>j. \A n \in Managers : callbacks[n] \subseteq Calls /\ running[n] \subseteq Calls
  BY <1>i DEF TypeInv, CancellationTypeOK
<1>q. UNCHANGED <<pending, partner>>
  BY DEF PushBack
<1>p. /\ pc' \in [Threads -> Places]
      /\ \A t \in Threads : pc'[t] = IF t = o THEN "done" ELSE pc[t]
  BY <1>i, Kinds DEF Go, TypeInv, Places
<1>m. /\ table' \in [Keys -> Seq(Sends) \cup Seq(Calls)] /\ QueueInv'
      /\ \A p \in Ops : InTable(p)' <=> InTable(p) \/ p = o
      /\ \A t \in Threads : \A p \in Ops : HeldBy(t, p)' <=> HeldBy(t, p)
      /\ ~ InTable(o) /\ \A t \in Threads : ~ HeldBy(t, o)
  BY <1>i, PushMoves, OldTurns
<1>d. /\ turn' \in [Ops -> Nat] /\ turn[o] = 0 /\ Now(o) \in Nat \ {0}
      /\ \A p \in Ops : turn'[p] = IF p = o THEN Now(o) ELSE turn[p]
      /\ \A p \in Ops : turn'[p] <= Cardinality(HadTurn(key[p])')
  BY <1>i, TakesTurn, NowIsLatest DEF TurnInv
<1>e. \A r \in Calls : manager[r] \in Managers \cup {NoManager}
  BY <1>i DEF TypeInv
<1>1. TypeInv'
  BY <1>q, <1>p, <1>m, <1>d, <1>e, <1>i DEF TypeInv, CancellationTypeOK
<1>2. PlaceInv'
  BY <1>q, <1>p, <1>m, <1>d, <1>e, <1>i, Kinds DEF PlaceInv
<1>3. QueueInv'
  BY <1>m
<1>4. HandInv'
  BY <1>q, <1>p, <1>m, <1>d, <1>e, <1>i, Kinds DEF HandInv
<1>5. OnePlaceInv'
  BY <1>q, <1>p, <1>m, <1>d, <1>e, <1>i DEF OnePlaceInv
<1>6. ItemInv'
  BY <1>q, <1>p, <1>m, <1>d, <1>e, <1>i, <1>j, Kinds DEF ItemInv, Returned, RecvInv
<1>7. RecvInv'
  BY <1>q, <1>p, <1>m, <1>d, <1>e, <1>i, Kinds DEF RecvInv
<1>8. WaiterInv'
  BY <1>q, <1>p, <1>m, <1>d, <1>e, <1>i, Kinds DEF WaiterInv
<1>9. ManagerInv'
  <2> SUFFICES ASSUME NEW m \in Managers
               PROVE  /\ cmState'[m] = "open" <=> pc'[m] = "idle"
                      /\ pc'[m] = "idle" => running'[m] = {}
                      /\ pc'[m] # "idle" => callbacks'[m] = {}
                      /\ \A r \in callbacks'[m] \cup running'[m] : manager'[r] = m /\ pc'[r] = "done"
    BY DEF ManagerInv
  <2>1. pc'[m] = pc[m]
    BY <1>p, Kinds
  <2>2. \A r \in callbacks[m] \cup running[m] : manager[r] = m /\ pc'[r] = "done"
    BY <1>p, <1>i, <1>j, Kinds DEF ManagerInv
  <2>3. pc[m] # "idle" => \A r : r \notin callbacks'[m]
    BY <1>i, <1>e, ManagersAssumption DEF ManagerInv
  <2>4. \A r \in callbacks'[m] \cup running[m] : manager[r] = m /\ pc'[r] = "done"
    BY <2>2, <1>p, Kinds
  <2> QED BY <2>1, <2>3, <2>4, <1>i DEF ManagerInv
<1>10. TurnInv'
  BY <1>p, <1>d, <1>i, Kinds DEF TurnInv
<1> QED BY <1>1, <1>2, <1>3, <1>4, <1>5, <1>6, <1>7, <1>8, <1>9, <1>10 DEF CoreInv

\* A call that finds a partner takes it.
LEMMA PopStep ==
    ASSUME CoreInv, NEW o \in Ops, table[key[o]] # <<>>,
           o \in Sends <=> Head(table[key[o]]) \in Calls,
           pc[o] = "checked", PopHead(o), Go(o, "calling"),
           turn' = [turn EXCEPT ![o] = Now(o)],
           UNCHANGED <<key, bucketOf, manager, refs, owned, destroyed, aborted, sweepAt, swept,
                       raced, status, got, answered, cmState, callbacks, running>>
    PROVE  CoreInv'
<1>i. TypeInv /\ PlaceInv /\ QueueInv /\ HandInv /\ OnePlaceInv /\ ItemInv
      /\ RecvInv /\ WaiterInv /\ ManagerInv /\ TurnInv
  BY DEF CoreInv
<1>j. \A n \in Managers : callbacks[n] \subseteq Calls /\ running[n] \subseteq Calls
  BY <1>i DEF TypeInv, CancellationTypeOK
<1> DEFINE h == Head(table[key[o]])
<1>q. /\ h \in Ops /\ key[h] = key[o] /\ InTable(h) /\ partner' \in [Threads -> Seq(Ops)]
      /\ \A t \in Threads : partner'[t] = IF t = o THEN <<h>> ELSE partner[t]
      /\ pending' \in [1..Shards -> Int]
  <2>1. h \in Ops /\ key[h] = key[o] /\ InTable(h)
    BY <1>i, PopMoves
  <2>2. bucketOf[key[o]] \in 1..Shards
    BY <1>i DEF TypeInv
  <2> QED BY <1>i, <2>1, <2>2, Kinds DEF PopHead, Bucket, TypeInv
<1>p. /\ pc' \in [Threads -> Places]
      /\ \A t \in Threads : pc'[t] = IF t = o THEN "calling" ELSE pc[t]
  BY <1>i, Kinds DEF Go, TypeInv, Places
<1>m. /\ table' \in [Keys -> Seq(Sends) \cup Seq(Calls)] /\ QueueInv'
      /\ \A p \in Ops : InTable(p)' <=> InTable(p) /\ p # h
      /\ \A t \in Threads : \A p \in Ops : HeldBy(t, p)' <=> HeldBy(t, p) \/ (t = o /\ p = h)
      /\ ~ InTable(o) /\ \A t \in Threads : ~ HeldBy(t, o)
  BY <1>i, PopMoves, OldTurns
<1>d. /\ turn' \in [Ops -> Nat] /\ turn[o] = 0 /\ Now(o) \in Nat \ {0}
      /\ \A p \in Ops : turn'[p] = IF p = o THEN Now(o) ELSE turn[p]
      /\ \A p \in Ops : turn'[p] <= Cardinality(HadTurn(key[p])')
  BY <1>i, TakesTurn, NowIsLatest DEF TurnInv
<1>k. o \in Sends <=> h \in Calls
  OBVIOUS
<1> HIDE DEF h
<1>1. TypeInv'
  BY <1>q, <1>p, <1>m, <1>d, <1>k, <1>i DEF TypeInv, CancellationTypeOK
<1>2. PlaceInv'
  BY <1>q, <1>p, <1>m, <1>d, <1>k, <1>i, Kinds DEF PlaceInv
<1>3. QueueInv'
  BY <1>m
<1>4. HandInv'
  <2>1. ASSUME NEW p \in Ops, pc'[p] = "calling"
        PROVE  \E x \in Ops : /\ partner'[p] = <<x>> /\ key'[x] = key'[p]
                              /\ p \in Sends <=> x \in Calls
    <3>1. CASE p = o
      BY <1>q, <1>k, <3>1, Kinds
    <3>2. CASE p # o
      BY <1>q, <1>p, <1>i, <2>1, <3>2, Kinds DEF HandInv
    <3> QED BY <3>1, <3>2
  <2>2. \A m \in Managers : pc'[m] = pc[m] /\ partner'[m] = partner[m]
    BY <1>q, <1>p, Kinds
  <2>3. ASSUME NEW m \in Managers, pc'[m] \in {"calling", "leaving"}
        PROVE  \E r \in Calls : partner'[m] = <<r>> /\ manager'[r] = m /\ r \notin running'[m]
    BY <2>2, <2>3, <1>i DEF HandInv
  <2>4. \A m \in Managers : pc'[m] \notin {"calling", "leaving"} => partner'[m] = <<>>
    BY <2>2, <1>i DEF HandInv
  <2> QED BY <2>1, <2>3, <2>4 DEF HandInv
<1>5. OnePlaceInv'
  BY <1>q, <1>m, <1>i DEF OnePlaceInv
<1>6. ItemInv'
  BY <1>q, <1>p, <1>m, <1>d, <1>k, <1>i, Kinds DEF ItemInv, Returned
<1>7. RecvInv'
  <2> SUFFICES ASSUME NEW r \in Calls
               PROVE  /\ pc'[r] \in {"idle", "checked", "calling"} => answered[r] = 0 /\ got[r] = {}
                      /\ pc'[r] = "leaving" => answered[r] = 1
                      /\ answered[r] = 0 => got[r] = {}
                      /\ answered[r] <= 1
                      /\ pc'[r] = "done" /\ answered[r] = 0
                            => InTable(r)' \/ \E t \in Threads : HeldBy(t, r)'
    BY DEF RecvInv
  <2>1. pc'[r] = IF r = o THEN "calling" ELSE pc[r]
    BY <1>p, Kinds
  <2>2. InTable(r) \/ (\E t \in Threads : HeldBy(t, r))
           => InTable(r)' \/ \E t \in Threads : HeldBy(t, r)'
    BY <1>m, Kinds
  <2> QED BY <2>1, <2>2, <1>i DEF RecvInv
<1>8. WaiterInv'
  BY <1>q, <1>p, <1>m, <1>d, <1>k, <1>i, Kinds DEF WaiterInv
<1>9. ManagerInv'
  BY <1>p, <1>i, <1>j, Kinds DEF ManagerInv
<1>10. TurnInv'
  BY <1>p, <1>d, <1>i, Kinds DEF TurnInv
<1> QED BY <1>1, <1>2, <1>3, <1>4, <1>5, <1>6, <1>7, <1>8, <1>9, <1>10 DEF CoreInv

\* A thread calls back the waiter it holds.
LEMMA WaiterStep ==
    ASSUME CoreInv, NEW t \in Threads \ Calls, NEW r \in Calls, HeldBy(t, r),
           NEW result, NEW message, Waiter(r, result, message),
           result \in {"ok", "aborted", "cancelled"}, message \subseteq Sends,
           UNCHANGED <<key, bucketOf, manager, table, pending, owned, destroyed, aborted, sweepAt,
                       raced, partner, turn>>,
           refs' \in Int, swept' \in [Aborts -> [Keys -> Seq(Ops)]], QueueInv',
           pc' \in [Threads -> Places],
           \A u \in Threads : pc'[u] = IF u = t /\ t \notin Aborts THEN "leaving" ELSE pc[u],
           \A p \in Ops : InTable(p)' <=> InTable(p),
           \A u \in Threads : \A p \in Ops :
              HeldBy(u, p)' <=> HeldBy(u, p) /\ ~ (u = t /\ p = r)
    PROVE  CoreInv'
<1>i. TypeInv /\ PlaceInv /\ QueueInv /\ HandInv /\ OnePlaceInv /\ ItemInv
      /\ RecvInv /\ WaiterInv /\ ManagerInv /\ TurnInv
  BY DEF CoreInv
<1>j. \A n \in Managers : callbacks[n] \subseteq Calls /\ running[n] \subseteq Calls
  BY <1>i DEF TypeInv, CancellationTypeOK
<1>w. /\ status' \in [Calls -> {"none", "ok", "aborted", "cancelled"}]
      /\ got' \in [Calls -> SUBSET Sends] /\ answered' \in [Calls -> Nat]
      /\ \A q \in Calls : \A s : s \in got'[q] <=> s \in got[q] \/ (q = r /\ s \in message)
      /\ \A q \in Calls : answered'[q] = IF q = r THEN answered[q] + 1 ELSE answered[q]
      /\ callbacks' \in [Managers -> SUBSET Calls] /\ UNCHANGED <<cmState, running>>
      /\ \A m \in Managers : \A q : q \in callbacks'[m] <=>
            q \in callbacks[m] /\ ~ (q = r /\ m = manager[r] /\ cmState[m] = "open")
  BY <1>i, WaiterFacts
<1>h. /\ r \in Ops /\ Returned(r) /\ ~ InTable(r) /\ \A u \in Threads : ~ HeldBy(u, r)'
      /\ pc[r] = "done" /\ answered[r] = 0 /\ (t \notin Aborts => pc[t] = "calling")
  <2>1. r \in Ops
    BY Kinds
  <2>2. Returned(r) /\ ~ InTable(r) /\ \A u \in Threads : ~ HeldBy(u, r)'
    BY <1>i, <2>1 DEF ItemInv, OnePlaceInv
  <2> QED BY <2>1, <2>2 DEF Returned, HeldBy
<1>1. TypeInv'
  BY <1>w, <1>i DEF TypeInv, CancellationTypeOK
<1>2. PlaceInv'
  BY <1>h, <1>i, Kinds DEF PlaceInv
<1>3. QueueInv'
  OBVIOUS
<1>4. HandInv'
  <2>1. ASSUME NEW p \in Ops, pc'[p] = "calling"
        PROVE  \E x \in Ops : /\ partner'[p] = <<x>> /\ key'[x] = key'[p]
                              /\ p \in Sends <=> x \in Calls
    <3>1. pc[p] = "calling"
      BY <2>1, <1>h, Kinds
    <3> QED BY <1>i, <3>1 DEF HandInv
  <2>2. ASSUME NEW m \in Managers
        PROVE  /\ partner'[m] = partner[m]
               /\ pc'[m] \in {"calling", "leaving"} <=> pc[m] \in {"calling", "leaving"}
    BY <1>h, Kinds
  <2>3. ASSUME NEW m \in Managers, pc'[m] \in {"calling", "leaving"}
        PROVE  \E q \in Calls : partner'[m] = <<q>> /\ manager'[q] = m /\ q \notin running'[m]
    BY <2>2, <2>3, <1>i, <1>w DEF HandInv
  <2>4. \A m \in Managers : pc'[m] \notin {"calling", "leaving"} => partner'[m] = <<>>
    BY <2>2, <1>i DEF HandInv
  <2> QED BY <2>1, <2>3, <2>4 DEF HandInv
<1>5. OnePlaceInv'
  BY <1>i DEF OnePlaceInv
<1>6. ItemInv'
  <2> SUFFICES ASSUME NEW p \in Ops, InTable(p)' \/ \E u \in Threads : HeldBy(u, p)'
               PROVE  Returned(p)'
    BY DEF ItemInv
  <2>1. p # r /\ Returned(p)
    BY <1>h, <1>i DEF ItemInv
  <2>2. pc[p] = "done" /\ p # t
    BY <2>1, <1>h, Kinds DEF Returned
  <2>3. pc'[p] = "done" /\ turn'[p] > 0
    BY <2>1, <2>2, Kinds DEF Returned
  <2>4. ASSUME p \in Calls PROVE answered'[p] = 0
    BY <2>1, <2>4, <1>w DEF Returned
  <2>5. ASSUME p \in Calls, manager[p] # NoManager, cmState[manager[p]] = "open"
        PROVE  p \in callbacks'[manager[p]]
    BY <2>1, <2>5, <1>i, <1>w DEF Returned, TypeInv
  <2> QED BY <2>3, <2>4, <2>5, <1>w DEF Returned
<1>7. RecvInv'
  <2> SUFFICES ASSUME NEW q \in Calls
               PROVE  /\ pc'[q] \in {"idle", "checked", "calling"} => answered'[q] = 0 /\ got'[q] = {}
                      /\ pc'[q] = "leaving" => answered'[q] = 1
                      /\ answered'[q] = 0 => got'[q] = {}
                      /\ answered'[q] <= 1
                      /\ pc'[q] = "done" /\ answered'[q] = 0
                            => InTable(q)' \/ \E u \in Threads : HeldBy(u, q)'
    BY DEF RecvInv
  <2>1. pc'[q] = pc[q]
    BY Kinds
  <2>2. CASE q = r
    BY <1>h, <1>w, <2>1, <2>2
  <2>3. CASE q # r
    <3>1. answered'[q] = answered[q] /\ got'[q] = got[q]
      BY <1>w, <2>3
    <3>2. InTable(q) \/ (\E u \in Threads : HeldBy(u, q))
             => InTable(q)' \/ \E u \in Threads : HeldBy(u, q)'
      BY <2>3, Kinds
    <3> QED BY <2>1, <3>1, <3>2, <1>i DEF RecvInv
  <2> QED BY <2>2, <2>3
<1>8. WaiterInv'
  <2> SUFFICES ASSUME NEW q \in Calls, InTable(q)', manager[q] # NoManager
               PROVE  q \in callbacks'[manager[q]] \cup running[manager[q]]
    BY <1>w DEF WaiterInv
  <2>1. q \in Ops /\ InTable(q) /\ q # r /\ manager[q] \in Managers
    BY <1>h, <1>i, Kinds DEF TypeInv
  <2>2. q \in callbacks[manager[q]] \cup running[manager[q]]
    BY <2>1, <1>i DEF WaiterInv
  <2> QED BY <2>1, <2>2, <1>w
<1>9. ManagerInv'
  <2> SUFFICES ASSUME NEW m \in Managers
               PROVE  /\ cmState'[m] = "open" <=> pc'[m] = "idle"
                      /\ pc'[m] = "idle" => running'[m] = {}
                      /\ pc'[m] # "idle" => callbacks'[m] = {}
                      /\ \A q \in callbacks'[m] \cup running'[m] : manager'[q] = m /\ pc'[q] = "done"
    BY DEF ManagerInv
  <2>1. pc'[m] = "idle" <=> pc[m] = "idle"
    BY <1>h, Kinds
  <2>2. \A q \in callbacks[m] \cup running[m] : manager[q] = m /\ pc'[q] = "done"
    BY <1>i, <1>j, Kinds DEF ManagerInv
  <2>3. callbacks'[m] \subseteq callbacks[m]
    BY <1>w
  <2> QED BY <2>1, <2>2, <2>3, <1>i, <1>w DEF ManagerInv
<1>10. TurnInv'
  BY <1>h, <1>i, Kinds DEF TurnInv, HadTurn
<1> QED BY <1>1, <1>2, <1>3, <1>4, <1>5, <1>6, <1>7, <1>8, <1>9, <1>10 DEF CoreInv

-----------------------------------------------------------------------------
(* Every action keeps the items and threads in order *)

\* A thread moves, the others stay.
LEMMA GoFacts ==
    ASSUME TypeInv, NEW t \in Threads, NEW place \in Places, Go(t, place)
    PROVE  /\ pc' \in [Threads -> Places]
           /\ \A u \in Threads : pc'[u] = IF u = t THEN place ELSE pc[u]
BY DEF Go, TypeInv

\* No item moves and nobody is called back.
LEMMA QuietStep ==
    ASSUME CoreInv, UNCHANGED <<key, bucketOf, manager, table, swept, status, got, answered,
                                turn, callbacks,
                       running>>,
           TypeInv', PlaceInv',
           \A o \in Ops : \/ pc'[o] = pc[o] /\ partner'[o] = partner[o]
                          \/ pc[o] = "leaving" /\ pc'[o] = "done",
           \A m \in Managers :
              \/ pc'[m] = pc[m] /\ partner'[m] = partner[m] /\ cmState'[m] = cmState[m]
              \/ /\ pc[m] = "leaving" /\ pc'[m] = "callbacks" /\ partner'[m] = <<>>
                 /\ cmState'[m] = cmState[m]
              \/ /\ pc[m] = "callbacks" /\ pc'[m] = "done" /\ partner'[m] = partner[m]
                 /\ cmState'[m] # "open"
    PROVE  CoreInv'
<1>i. TypeInv /\ PlaceInv /\ QueueInv /\ HandInv /\ OnePlaceInv /\ ItemInv
      /\ RecvInv /\ WaiterInv /\ ManagerInv /\ TurnInv
  BY DEF CoreInv
<1>j. \A n \in Managers : callbacks[n] \subseteq Calls /\ running[n] \subseteq Calls
  BY <1>i DEF TypeInv, CancellationTypeOK
<1>m. /\ \A p \in Ops : InTable(p)' <=> InTable(p)
      /\ \A t \in Threads : \A p \in Ops : HeldBy(t, p)' <=> HeldBy(t, p)
  <2>1. \A t \in Threads : t \notin Aborts =>
           \/ pc'[t] = pc[t] /\ partner'[t] = partner[t]
           \/ pc[t] # "calling" /\ pc'[t] # "calling"
    BY DEF Threads
  <2> QED BY <2>1, QuietMoves
<1>o. \A n \in Managers : cmState'[n] = "open" <=> cmState[n] = "open"
  BY <1>i DEF ManagerInv
<1>1. TypeInv'
  OBVIOUS
<1>2. PlaceInv'
  OBVIOUS
<1>3. QueueInv'
  BY <1>i DEF QueueInv
<1>4. HandInv'
  <2>1. ASSUME NEW p \in Ops, pc'[p] = "calling"
        PROVE  \E x \in Ops : /\ partner'[p] = <<x>> /\ key'[x] = key'[p]
                              /\ p \in Sends <=> x \in Calls
    <3>1. pc[p] = "calling" /\ partner'[p] = partner[p]
      BY <2>1
    <3> QED BY <1>i, <3>1 DEF HandInv
  <2>3. ASSUME NEW m \in Managers, pc'[m] \in {"calling", "leaving"}
        PROVE  \E q \in Calls : partner'[m] = <<q>> /\ manager'[q] = m /\ q \notin running'[m]
    <3>1. pc'[m] = pc[m] /\ partner'[m] = partner[m]
      BY <2>3
    <3> QED BY <2>3, <3>1, <1>i DEF HandInv
  <2>4. \A m \in Managers : pc'[m] \notin {"calling", "leaving"} => partner'[m] = <<>>
    BY <1>i DEF HandInv
  <2> QED BY <2>1, <2>3, <2>4 DEF HandInv
<1>5. OnePlaceInv'
  BY <1>m, <1>i DEF OnePlaceInv
<1>6. ItemInv'
  <2> SUFFICES ASSUME NEW p \in Ops, InTable(p)' \/ \E u \in Threads : HeldBy(u, p)'
               PROVE  Returned(p)'
    BY DEF ItemInv
  <2>1. Returned(p)
    BY <1>m, <1>i DEF ItemInv
  <2>2. pc'[p] = "done" /\ turn'[p] > 0
    BY <2>1 DEF Returned
  <2>3. p \in Calls /\ manager[p] # NoManager /\ cmState'[manager[p]] = "open"
           => p \in callbacks[manager[p]]
    BY <2>1, <1>i, <1>o DEF Returned, TypeInv
  <2>4. p \in Calls => answered[p] = 0
    BY <2>1 DEF Returned
  <2> QED BY <2>2, <2>3, <2>4 DEF Returned
<1>7. RecvInv'
  <2> SUFFICES ASSUME NEW q \in Calls
               PROVE  /\ pc'[q] \in {"idle", "checked", "calling"} => answered[q] = 0 /\ got[q] = {}
                      /\ pc'[q] = "leaving" => answered[q] = 1
                      /\ answered[q] = 0 => got[q] = {}
                      /\ answered[q] <= 1
                      /\ pc'[q] = "done" /\ answered[q] = 0
                            => InTable(q)' \/ \E u \in Threads : HeldBy(u, q)'
    BY DEF RecvInv
  <2>1. q \in Ops /\ (pc'[q] = pc[q] \/ (pc[q] = "leaving" /\ pc'[q] = "done"))
    BY Kinds
  <2>2. InTable(q) \/ (\E u \in Threads : HeldBy(u, q))
           => InTable(q)' \/ \E u \in Threads : HeldBy(u, q)'
    BY <2>1, <1>m
  <2> QED BY <2>1, <2>2, <1>i DEF RecvInv
<1>8. WaiterInv'
  BY <1>m, <1>i, Kinds DEF WaiterInv
<1>9. ManagerInv'
  <2> SUFFICES ASSUME NEW m \in Managers
               PROVE  /\ cmState'[m] = "open" <=> pc'[m] = "idle"
                      /\ pc'[m] = "idle" => running[m] = {}
                      /\ pc'[m] # "idle" => callbacks[m] = {}
                      /\ \A q \in callbacks[m] \cup running[m] : manager[q] = m /\ pc'[q] = "done"
    BY DEF ManagerInv
  <2>1. pc'[m] = "idle" <=> pc[m] = "idle"
    OBVIOUS
  <2>2. \A q \in callbacks[m] \cup running[m] : manager[q] = m /\ pc'[q] = "done"
    BY <1>i, <1>j, Kinds DEF ManagerInv
  <2> QED BY <2>1, <2>2, <1>i, <1>o DEF ManagerInv
<1>10. TurnInv'
  <2>1. \A o \in Ops : turn[o] <= Cardinality(HadTurn(key[o])')
    BY <1>i DEF TurnInv, HadTurn
  <2> QED BY <2>1, <1>i DEF TurnInv
<1> QED BY <1>1, <1>2, <1>3, <1>4, <1>5, <1>6, <1>7, <1>8, <1>9, <1>10 DEF CoreInv

\* The bucket is told that a callback has returned.
LEMMA LeaveStep ==
    ASSUME CoreInv, NEW o \in Ops, Leave(o)
    PROVE  CoreInv'
<1>i. TypeInv /\ PlaceInv /\ ManagerInv
  BY DEF CoreInv
<1>1. UNCHANGED <<key, bucketOf, manager, table, swept, status, got, answered, turn, callbacks,
                  running>>
  BY DEF Leave, args, tableVars, ownerVars, abortVars, doneVars, cmVars
<1>2. /\ pc' \in [Threads -> Places]
      /\ \A u \in Threads : pc'[u] = IF u = o THEN "done" ELSE pc[u]
  BY <1>i, GoFacts, Kinds DEF Leave, Places
<1>3. /\ pc[o] = "leaving" /\ partner' \in [Threads -> Seq(Ops)]
      /\ \A u \in Threads : partner'[u] = IF u = o THEN <<>> ELSE partner[u]
      /\ pending' \in [1..Shards -> Int] /\ refs' \in Int
      /\ UNCHANGED <<owned, destroyed, aborted, sweepAt, raced, cmState>>
  <2>1. Bucket(o) \in 1..Shards
    BY <1>i DEF TypeInv, Bucket
  <2>2. pending' \in [1..Shards -> Int] /\ refs' \in Int
    BY <1>i, <2>1 DEF Leave, CallRef, TypeInv
  <2>3. partner' = [partner EXCEPT ![o] = <<>>] /\ <<>> \in Seq(Ops)
    BY DEF Leave
  <2>4. /\ partner' \in [Threads -> Seq(Ops)]
        /\ \A u \in Threads : partner'[u] = IF u = o THEN <<>> ELSE partner[u]
    BY <1>i, <2>3 DEF TypeInv
  <2> QED BY <2>2, <2>4 DEF Leave, abortVars, cmVars
<1>4. TypeInv'
  BY <1>1, <1>2, <1>3, <1>i DEF TypeInv, CancellationTypeOK
<1>5. PlaceInv'
  BY <1>2, <1>i, Kinds DEF PlaceInv
<1>6. \A p \in Ops : \/ pc'[p] = pc[p] /\ partner'[p] = partner[p]
                     \/ pc[p] = "leaving" /\ pc'[p] = "done"
  BY <1>2, <1>3, Kinds
<1>7. \A m \in Managers :
         \/ pc'[m] = pc[m] /\ partner'[m] = partner[m] /\ cmState'[m] = cmState[m]
         \/ /\ pc[m] = "leaving" /\ pc'[m] = "callbacks" /\ partner'[m] = <<>>
            /\ cmState'[m] = cmState[m]
         \/ /\ pc[m] = "callbacks" /\ pc'[m] = "done" /\ partner'[m] = partner[m]
            /\ cmState'[m] # "open"
  BY <1>2, <1>3, <1>i, Kinds
<1> QED BY <1>1, <1>2, <1>3, <1>4, <1>5, <1>6, <1>7, QuietStep

\* An executor reports its error.
LEMMA WhenDoneStep ==
    ASSUME CoreInv, NEW a \in Aborts, WhenDone(a)
    PROVE  CoreInv'
<1>i. TypeInv /\ PlaceInv /\ ManagerInv
  BY DEF CoreInv
<1>1. UNCHANGED <<key, bucketOf, manager, table, swept, status, got, answered, turn, callbacks,
                  running>>
  BY DEF WhenDone, args, tableVars, ownerVars, abortVars, doneVars, cmVars
<1>2. /\ pc' \in [Threads -> Places]
      /\ \A u \in Threads : pc'[u] = IF u = a THEN "failed" ELSE pc[u]
  BY <1>i, GoFacts, Kinds DEF WhenDone, Places
<1>3. /\ refs' \in Int
      /\ UNCHANGED <<pending, partner, owned, destroyed, aborted, sweepAt, raced, cmState>>
  BY <1>i DEF WhenDone, AbortRef, TypeInv, tableVars, abortVars, cmVars
<1>4. TypeInv'
  BY <1>1, <1>2, <1>3, <1>i DEF TypeInv, CancellationTypeOK
<1>5. PlaceInv'
  BY <1>2, <1>i, Kinds DEF PlaceInv
<1>6. \A o \in Ops : \/ pc'[o] = pc[o] /\ partner'[o] = partner[o]
                     \/ pc[o] = "leaving" /\ pc'[o] = "done"
  BY <1>2, <1>3, Kinds
<1>7. \A m \in Managers :
         \/ pc'[m] = pc[m] /\ partner'[m] = partner[m] /\ cmState'[m] = cmState[m]
         \/ /\ pc[m] = "leaving" /\ pc'[m] = "callbacks" /\ partner'[m] = <<>>
            /\ cmState'[m] = cmState[m]
         \/ /\ pc[m] = "callbacks" /\ pc'[m] = "done" /\ partner'[m] = partner[m]
            /\ cmState'[m] # "open"
  BY <1>2, <1>3, <1>i, Kinds
<1> QED BY <1>1, <1>2, <1>3, <1>4, <1>5, <1>6, <1>7, QuietStep

\* The status is set.
LEMMA StartAbortStep ==
    ASSUME CoreInv, NEW a \in Aborts, StartAbort(a)
    PROVE  CoreInv'
<1>i. TypeInv /\ PlaceInv /\ ManagerInv
  BY DEF CoreInv
<1>1. UNCHANGED <<key, bucketOf, manager, table, swept, status, got, answered, turn, callbacks,
                  running>>
  BY DEF StartAbort, args, tableVars, ownerVars, abortVars, doneVars, cmVars
<1>2. /\ pc' \in [Threads -> Places]
      /\ \A u \in Threads : pc'[u] = IF u = a THEN "sweep" ELSE pc[u]
  BY <1>i, GoFacts, Kinds DEF StartAbort, Places
<1>3. /\ aborted' \in BOOLEAN /\ raced' \subseteq Ops /\ sweepAt' \in [Aborts -> 0..(Shards + 1)]
      /\ UNCHANGED <<pending, partner, refs, owned, destroyed, cmState>>
  <2>1. 1 \in 0..(Shards + 1)
    BY ShardsAssumption
  <2> QED BY <1>i, <2>1 DEF StartAbort, TypeInv, tableVars, ownerVars, cmVars
<1>4. TypeInv'
  BY <1>1, <1>2, <1>3, <1>i DEF TypeInv, CancellationTypeOK
<1>5. PlaceInv'
  BY <1>2, <1>i, Kinds DEF PlaceInv
<1>6. \A o \in Ops : \/ pc'[o] = pc[o] /\ partner'[o] = partner[o]
                     \/ pc[o] = "leaving" /\ pc'[o] = "done"
  BY <1>2, <1>3, Kinds
<1>7. \A m \in Managers :
         \/ pc'[m] = pc[m] /\ partner'[m] = partner[m] /\ cmState'[m] = cmState[m]
         \/ /\ pc[m] = "leaving" /\ pc'[m] = "callbacks" /\ partner'[m] = <<>>
            /\ cmState'[m] = cmState[m]
         \/ /\ pc[m] = "callbacks" /\ pc'[m] = "done" /\ partner'[m] = partner[m]
            /\ cmState'[m] # "open"
  BY <1>2, <1>3, <1>i, Kinds
<1> QED BY <1>1, <1>2, <1>3, <1>4, <1>5, <1>6, <1>7, QuietStep

\* All buckets were swept.
LEMMA EndAbortStep ==
    ASSUME CoreInv, NEW a \in Aborts, EndAbort(a)
    PROVE  CoreInv'
<1>i. TypeInv /\ PlaceInv /\ ManagerInv
  BY DEF CoreInv
<1>1. UNCHANGED <<key, bucketOf, manager, table, swept, status, got, answered, turn, callbacks,
                  running>>
  BY DEF EndAbort, args, tableVars, ownerVars, abortVars, doneVars, cmVars
<1>2. /\ pc' \in [Threads -> Places]
      /\ \A u \in Threads : pc'[u] = IF u = a THEN "done" ELSE pc[u]
  BY <1>i, GoFacts, Kinds DEF EndAbort, Places
<1>3. /\ refs' \in Int
      /\ UNCHANGED <<pending, partner, owned, destroyed, aborted, sweepAt, raced, cmState>>
  BY <1>i DEF EndAbort, AbortRef, TypeInv, tableVars, abortVars, cmVars
<1>4. TypeInv'
  BY <1>1, <1>2, <1>3, <1>i DEF TypeInv, CancellationTypeOK
<1>5. PlaceInv'
  BY <1>2, <1>i, Kinds DEF PlaceInv
<1>6. \A o \in Ops : \/ pc'[o] = pc[o] /\ partner'[o] = partner[o]
                     \/ pc[o] = "leaving" /\ pc'[o] = "done"
  BY <1>2, <1>3, Kinds
<1>7. \A m \in Managers :
         \/ pc'[m] = pc[m] /\ partner'[m] = partner[m] /\ cmState'[m] = cmState[m]
         \/ /\ pc[m] = "leaving" /\ pc'[m] = "callbacks" /\ partner'[m] = <<>>
            /\ cmState'[m] = cmState[m]
         \/ /\ pc[m] = "callbacks" /\ pc'[m] = "done" /\ partner'[m] = partner[m]
            /\ cmState'[m] # "open"
  BY <1>2, <1>3, <1>i, Kinds
<1> QED BY <1>1, <1>2, <1>3, <1>4, <1>5, <1>6, <1>7, QuietStep

\* A cancellation callback has returned.
LEMMA CancelLeavesStep ==
    ASSUME CoreInv, NEW m \in Managers, CancelLeaves(m)
    PROVE  CoreInv'
<1>i. TypeInv /\ PlaceInv /\ ManagerInv
  BY DEF CoreInv
<1>1. UNCHANGED <<key, bucketOf, manager, table, swept, status, got, answered, turn, callbacks,
                  running>>
  BY DEF CancelLeaves, args, tableVars, ownerVars, abortVars, doneVars, cmVars
<1>2. /\ pc' \in [Threads -> Places]
      /\ \A u \in Threads : pc'[u] = IF u = m THEN "callbacks" ELSE pc[u]
  BY <1>i, GoFacts, Kinds DEF CancelLeaves, Places
<1>3. /\ pc[m] = "leaving" /\ partner' \in [Threads -> Seq(Ops)] /\ refs' \in Int
      /\ \A u \in Threads : partner'[u] = IF u = m THEN <<>> ELSE partner[u]
      /\ UNCHANGED <<pending, owned, destroyed, aborted, sweepAt, raced, cmState>>
  <2>1. /\ partner' = [partner EXCEPT ![m] = <<>>] /\ <<>> \in Seq(Ops)
        /\ refs' = refs - 1 /\ refs \in Int
    BY <1>i DEF CancelLeaves, TypeInv
  <2>2. /\ partner' \in [Threads -> Seq(Ops)]
        /\ \A u \in Threads : partner'[u] = IF u = m THEN <<>> ELSE partner[u]
    BY <1>i, <2>1 DEF TypeInv
  <2> QED BY <2>1, <2>2 DEF CancelLeaves, tableVars, abortVars, cmVars
<1>4. TypeInv'
  BY <1>1, <1>2, <1>3, <1>i DEF TypeInv, CancellationTypeOK
<1>5. PlaceInv'
  BY <1>2, <1>i, Kinds DEF PlaceInv
<1>6. \A o \in Ops : \/ pc'[o] = pc[o] /\ partner'[o] = partner[o]
                     \/ pc[o] = "leaving" /\ pc'[o] = "done"
  BY <1>2, <1>3, Kinds
<1>7. \A n \in Managers :
         \/ pc'[n] = pc[n] /\ partner'[n] = partner[n] /\ cmState'[n] = cmState[n]
         \/ /\ pc[n] = "leaving" /\ pc'[n] = "callbacks" /\ partner'[n] = <<>>
            /\ cmState'[n] = cmState[n]
         \/ /\ pc[n] = "callbacks" /\ pc'[n] = "done" /\ partner'[n] = partner[n]
            /\ cmState'[n] # "open"
  BY <1>2, <1>3, <1>i, Kinds
<1> QED BY <1>1, <1>2, <1>3, <1>4, <1>5, <1>6, <1>7, QuietStep

\* All cancellation callbacks have returned.
LEMMA CancelledStep ==
    ASSUME CoreInv, NEW m \in Managers, Cancelled(m)
    PROVE  CoreInv'
<1>i. TypeInv /\ PlaceInv /\ ManagerInv
  BY DEF CoreInv
<1>1. UNCHANGED <<key, bucketOf, manager, table, swept, status, got, answered, turn, callbacks,
                  running>>
  BY DEF Cancelled, args, tableVars, ownerVars, abortVars, doneVars, cmVars, EndCancel
<1>2. /\ pc' \in [Threads -> Places]
      /\ \A u \in Threads : pc'[u] = IF u = m THEN "done" ELSE pc[u]
  BY <1>i, GoFacts, Kinds DEF Cancelled, Places
<1>3. /\ pc[m] = "callbacks" /\ cmState' \in [Managers -> {"open", "cancelling", "cancelled"}]
      /\ \A n \in Managers : cmState'[n] = IF n = m THEN "cancelled" ELSE cmState[n]
      /\ UNCHANGED <<pending, partner, refs, owned, destroyed, aborted, sweepAt, raced>>
  BY <1>i DEF Cancelled, EndCancel, TypeInv, CancellationTypeOK, tableVars, ownerVars, abortVars
<1>4. TypeInv'
  BY <1>1, <1>2, <1>3, <1>i DEF TypeInv, CancellationTypeOK
<1>5. PlaceInv'
  BY <1>2, <1>i, Kinds DEF PlaceInv
<1>6. \A o \in Ops : \/ pc'[o] = pc[o] /\ partner'[o] = partner[o]
                     \/ pc[o] = "leaving" /\ pc'[o] = "done"
  BY <1>2, <1>3, Kinds
<1>7. \A n \in Managers :
         \/ pc'[n] = pc[n] /\ partner'[n] = partner[n] /\ cmState'[n] = cmState[n]
         \/ /\ pc[n] = "leaving" /\ pc'[n] = "callbacks" /\ partner'[n] = <<>>
            /\ cmState'[n] = cmState[n]
         \/ /\ pc[n] = "callbacks" /\ pc'[n] = "done" /\ partner'[n] = partner[n]
            /\ cmState'[n] # "open"
  BY <1>2, <1>3, <1>i, Kinds
<1> QED BY <1>1, <1>2, <1>3, <1>4, <1>5, <1>6, <1>7, QuietStep

\* The step drops its reference.
LEMMA ReleaseStep ==
    ASSUME CoreInv, Release
    PROVE  CoreInv'
<1>i. TypeInv /\ PlaceInv
  BY DEF CoreInv
<1>1. UNCHANGED <<key, bucketOf, manager, table, swept, status, got, answered, turn, callbacks,
                  running, pc, partner, cmState, pending, destroyed, aborted, sweepAt, raced>>
  BY DEF Release, args, tableVars, abortVars, doneVars, cmVars
<1>2. owned' \in BOOLEAN /\ refs' \in Int
  <2>1. refs \in Int
    BY <1>i DEF TypeInv
  <2>2. refs' = refs - 1
    BY DEF Release
  <2>3. owned' \in BOOLEAN
    BY Zenon DEF Release
  <2> QED BY <2>1, <2>2, <2>3
<1>3. TypeInv'
  BY <1>1, <1>2, <1>i DEF TypeInv, CancellationTypeOK
<1>4. PlaceInv'
  BY <1>1, <1>i DEF PlaceInv
<1>5. pc' \in [Threads -> Places] /\ partner' \in [Threads -> Seq(Ops)]
  BY <1>1, <1>i DEF TypeInv
<1> QED BY <1>1, <1>3, <1>4, <1>5, QuietStep

\* A thread that is no abort holds one item, and lets it go by calling back.
LEMMA HandMoves ==
    ASSUME TypeInv, QueueInv, NEW t \in Threads, t \notin Aborts, NEW o \in Ops,
           pc[t] = "calling", partner[t] = <<o>>, Go(t, "leaving"),
           UNCHANGED <<partner, key, table, swept, turn>>
    PROVE  /\ HeldBy(t, o) /\ QueueInv' /\ swept' \in [Aborts -> [Keys -> Seq(Ops)]]
           /\ pc' \in [Threads -> Places]
           /\ \A u \in Threads : pc'[u] = IF u = t THEN "leaving" ELSE pc[u]
           /\ \A p \in Ops : InTable(p)' <=> InTable(p)
           /\ \A u \in Threads : \A p \in Ops :
                 HeldBy(u, p)' <=> HeldBy(u, p) /\ ~ (u = t /\ p = o)
<1>1. HeldBy(t, o) /\ \A p \in Ops : HeldBy(t, p) => p = o
  BY DEF HeldBy
<1>2. QueueInv'
  BY DEF QueueInv
<1>3. /\ \A p \in Ops : InTable(p)' <=> InTable(p)
      /\ \A u \in Threads : \A p \in Ops : HeldBy(u, p)' <=> HeldBy(u, p) /\ u # t
  BY CallMoves
<1>4. /\ pc' \in [Threads -> Places]
      /\ \A u \in Threads : pc'[u] = IF u = t THEN "leaving" ELSE pc[u]
  BY GoFacts DEF Places
<1>5. swept' \in [Aborts -> [Keys -> Seq(Ops)]]
  BY DEF TypeInv
<1> QED BY <1>1, <1>2, <1>3, <1>4, <1>5

\* A Send calls the waiter it has taken.
LEMMA SendCallsStep ==
    ASSUME CoreInv, NEW s \in Sends, SendCalls(s)
    PROVE  CoreInv'
<1>i. TypeInv /\ QueueInv /\ HandInv
  BY DEF CoreInv
<1>1. UNCHANGED <<key, bucketOf, manager, table, pending, owned, destroyed, aborted, sweepAt,
                  raced, partner, turn, swept>>
  BY DEF SendCalls, args, tableVars, abortVars
<1>2. PICK r \in Calls : partner[s] = <<r>>
  BY <1>i, Kinds DEF SendCalls, HandInv
<1>3. Waiter(r, "ok", {s}) /\ pc[s] = "calling" /\ Go(s, "leaving")
  BY <1>2 DEF SendCalls
<1>4. refs' \in Int
  <2>1. refs' = refs + CallRef - Dropped(r) /\ refs \in Int
    BY <1>2, <1>i DEF SendCalls, TypeInv
  <2> QED BY <2>1 DEF Dropped, CallRef
<1>5. s \in Threads \ Calls /\ s \notin Aborts /\ r \in Ops
  BY Kinds
<1>6. /\ HeldBy(s, r) /\ QueueInv' /\ swept' \in [Aborts -> [Keys -> Seq(Ops)]]
      /\ pc' \in [Threads -> Places]
      /\ \A u \in Threads : pc'[u] = IF u = s THEN "leaving" ELSE pc[u]
      /\ \A p \in Ops : InTable(p)' <=> InTable(p)
      /\ \A u \in Threads : \A p \in Ops : HeldBy(u, p)' <=> HeldBy(u, p) /\ ~ (u = s /\ p = r)
  BY <1>i, <1>1, <1>2, <1>3, <1>5, HandMoves
<1>7. \A u \in Threads : pc'[u] = IF u = s /\ s \notin Aborts THEN "leaving" ELSE pc[u]
  BY <1>5, <1>6
<1>8. {s} \subseteq Sends
  OBVIOUS
<1> QED BY <1>1, <1>3, <1>4, <1>5, <1>6, <1>7, <1>8, WaiterStep

\* A cancellation callback calls the waiter it has unlinked.
LEMMA CancelCallsStep ==
    ASSUME CoreInv, NEW m \in Managers, CancelCalls(m)
    PROVE  CoreInv'
<1>i. TypeInv /\ QueueInv /\ HandInv
  BY DEF CoreInv
<1>1. UNCHANGED <<key, bucketOf, manager, table, pending, owned, destroyed, aborted, sweepAt,
                  raced, partner, turn, swept>>
  BY DEF CancelCalls, args, tableVars, abortVars
<1>2. PICK r \in Calls : partner[m] = <<r>>
  BY <1>i DEF CancelCalls, HandInv
<1>3. Waiter(r, "cancelled", {}) /\ pc[m] = "calling" /\ Go(m, "leaving")
  BY <1>2 DEF CancelCalls
<1>4. refs' \in Int
  <2>1. refs' = refs - Dropped(r) /\ refs \in Int
    BY <1>2, <1>i DEF CancelCalls, TypeInv
  <2> QED BY <2>1 DEF Dropped
<1>5. m \in Threads \ Calls /\ m \notin Aborts /\ r \in Ops
  BY Kinds
<1>6. /\ HeldBy(m, r) /\ QueueInv' /\ swept' \in [Aborts -> [Keys -> Seq(Ops)]]
      /\ pc' \in [Threads -> Places]
      /\ \A u \in Threads : pc'[u] = IF u = m THEN "leaving" ELSE pc[u]
      /\ \A p \in Ops : InTable(p)' <=> InTable(p)
      /\ \A u \in Threads : \A p \in Ops : HeldBy(u, p)' <=> HeldBy(u, p) /\ ~ (u = m /\ p = r)
  BY <1>i, <1>1, <1>2, <1>3, <1>5, HandMoves
<1>7. \A u \in Threads : pc'[u] = IF u = m /\ m \notin Aborts THEN "leaving" ELSE pc[u]
  BY <1>5, <1>6
<1> QED BY <1>1, <1>3, <1>4, <1>5, <1>6, <1>7, WaiterStep

\* A thread that holds a message delivers or deletes it.
LEMMA MessageStep ==
    ASSUME CoreInv, NEW t \in Threads, NEW s \in Sends, HeldBy(t, s),
           UNCHANGED <<key, bucketOf, manager, table, pending, owned, destroyed, aborted, sweepAt,
                       raced, partner, turn, cmState, callbacks, running>>,
           refs' \in Int, swept' \in [Aborts -> [Keys -> Seq(Ops)]], QueueInv',
           status' \in [Calls -> {"none", "ok", "aborted", "cancelled"}],
           got' \in [Calls -> SUBSET Sends], answered' \in [Calls -> Nat],
           \A q \in Calls : q = t \/ (answered'[q] = answered[q] /\ got'[q] = got[q]),
           t \in Aborts \/ t \in Calls,
           t \in Calls => answered'[t] = answered[t] + 1,
           pc' \in [Threads -> Places],
           \A u \in Threads : pc'[u] = IF u = t /\ t \notin Aborts THEN "leaving" ELSE pc[u],
           \A p \in Ops : InTable(p)' <=> InTable(p),
           \A u \in Threads : \A p \in Ops :
              HeldBy(u, p)' <=> HeldBy(u, p) /\ ~ (u = t /\ p = s)
    PROVE  CoreInv'
<1>i. TypeInv /\ PlaceInv /\ QueueInv /\ HandInv /\ OnePlaceInv /\ ItemInv
      /\ RecvInv /\ WaiterInv /\ ManagerInv /\ TurnInv
  BY DEF CoreInv
<1>j. \A n \in Managers : callbacks[n] \subseteq Calls /\ running[n] \subseteq Calls
  BY <1>i DEF TypeInv, CancellationTypeOK
<1>h. t \notin Aborts => pc[t] = "calling"
  BY DEF HeldBy
<1>1. TypeInv'
  BY <1>i DEF TypeInv, CancellationTypeOK
<1>2. PlaceInv'
  BY <1>h, <1>i, Kinds DEF PlaceInv
<1>3. QueueInv'
  OBVIOUS
<1>4. HandInv'
  <2>1. ASSUME NEW p \in Ops, pc'[p] = "calling"
        PROVE  \E x \in Ops : /\ partner'[p] = <<x>> /\ key'[x] = key'[p]
                              /\ p \in Sends <=> x \in Calls
    <3>1. pc[p] = "calling"
      BY <2>1, <1>h, Kinds
    <3> QED BY <1>i, <3>1 DEF HandInv
  <2>2. ASSUME NEW m \in Managers
        PROVE  partner'[m] = partner[m] /\ pc'[m] = pc[m]
    BY Kinds
  <2>3. ASSUME NEW m \in Managers, pc'[m] \in {"calling", "leaving"}
        PROVE  \E q \in Calls : partner'[m] = <<q>> /\ manager'[q] = m /\ q \notin running'[m]
    BY <2>2, <2>3, <1>i DEF HandInv
  <2>4. \A m \in Managers : pc'[m] \notin {"calling", "leaving"} => partner'[m] = <<>>
    BY <2>2, <1>i DEF HandInv
  <2> QED BY <2>1, <2>3, <2>4 DEF HandInv
<1>5. OnePlaceInv'
  BY <1>i DEF OnePlaceInv
<1>6. ItemInv'
  <2> SUFFICES ASSUME NEW p \in Ops, InTable(p)' \/ \E u \in Threads : HeldBy(u, p)'
               PROVE  Returned(p)'
    BY DEF ItemInv
  <2>1. Returned(p)
    BY <1>h, <1>i DEF ItemInv
  <2>2. pc[p] = "done" /\ p # t
    BY <2>1, <1>h, Kinds DEF Returned
  <2>3. pc'[p] = "done" /\ turn'[p] > 0
    BY <2>1, <2>2, Kinds DEF Returned
  <2> QED BY <2>1, <2>2, <2>3 DEF Returned
<1>7. RecvInv'
  <2> SUFFICES ASSUME NEW q \in Calls
               PROVE  /\ pc'[q] \in {"idle", "checked", "calling"} => answered'[q] = 0 /\ got'[q] = {}
                      /\ pc'[q] = "leaving" => answered'[q] = 1
                      /\ answered'[q] = 0 => got'[q] = {}
                      /\ answered'[q] <= 1
                      /\ pc'[q] = "done" /\ answered'[q] = 0
                            => InTable(q)' \/ \E u \in Threads : HeldBy(u, q)'
    BY DEF RecvInv
  <2>1. q \in Ops /\ q \in Threads /\ q \notin Aborts /\ q # s
    BY Kinds
  <2>2. CASE q = t
    <3>1. pc[q] = "calling" /\ pc'[q] = "leaving"
      BY <2>1, <2>2, <1>h
    <3>2. answered[q] = 0
      BY <3>1, <1>i DEF RecvInv
    <3> QED BY <2>2, <3>1, <3>2
  <2>3. CASE q # t
    <3>1. answered'[q] = answered[q] /\ got'[q] = got[q] /\ pc'[q] = pc[q]
      BY <2>1, <2>3
    <3>2. InTable(q) \/ (\E u \in Threads : HeldBy(u, q))
             => InTable(q)' \/ \E u \in Threads : HeldBy(u, q)'
      BY <2>1
    <3> QED BY <3>1, <3>2, <1>i DEF RecvInv
  <2> QED BY <2>2, <2>3
<1>8. WaiterInv'
  BY <1>i, Kinds DEF WaiterInv
<1>9. ManagerInv'
  <2>1. \A m \in Managers : pc'[m] = pc[m]
    BY Kinds
  <2>2. \A m \in Managers : \A q \in callbacks[m] \cup running[m] : pc'[q] = "done"
    BY <1>i, <1>h, <1>j, Kinds DEF ManagerInv
  <2>3. UNCHANGED <<manager, cmState, callbacks, running>>
    OBVIOUS
  <2>4. ManagerInv
    BY <1>i
  <2> QED BY ONLY <2>1, <2>2, <2>3, <2>4 DEF ManagerInv
<1>10. TurnInv'
  BY <1>h, <1>i, Kinds DEF TurnInv, HadTurn
<1> QED BY <1>1, <1>2, <1>3, <1>4, <1>5, <1>6, <1>7, <1>8, <1>9, <1>10 DEF CoreInv

\* A Recv calls its own done with the message it has taken.
LEMMA RecvCallsStep ==
    ASSUME CoreInv, NEW r \in Calls, RecvCalls(r)
    PROVE  CoreInv'
<1>i. TypeInv /\ QueueInv /\ HandInv
  BY DEF CoreInv
<1>1. UNCHANGED <<key, bucketOf, manager, table, pending, owned, destroyed, aborted, sweepAt,
                  raced, partner, turn, swept, cmState, callbacks, running>>
  BY DEF RecvCalls, args, tableVars, abortVars, cmVars
<1>2. PICK s \in Ops : partner[r] = <<s>> /\ s \notin Calls
  BY <1>i, Kinds DEF RecvCalls, HandInv
<1>3. Done(r, "ok", {s}) /\ pc[r] = "calling" /\ Go(r, "leaving")
  BY <1>2 DEF RecvCalls
<1>4. refs' \in Int
  BY <1>i DEF RecvCalls, TypeInv, CallRef
<1>5. r \in Threads /\ r \notin Aborts /\ s \in Sends /\ {s} \subseteq Sends
  BY <1>2, Kinds DEF Ops
<1>6. /\ HeldBy(r, s) /\ QueueInv' /\ swept' \in [Aborts -> [Keys -> Seq(Ops)]]
      /\ pc' \in [Threads -> Places]
      /\ \A u \in Threads : pc'[u] = IF u = r THEN "leaving" ELSE pc[u]
      /\ \A p \in Ops : InTable(p)' <=> InTable(p)
      /\ \A u \in Threads : \A p \in Ops : HeldBy(u, p)' <=> HeldBy(u, p) /\ ~ (u = r /\ p = s)
  BY <1>i, <1>1, <1>2, <1>3, <1>5, HandMoves
<1>7. \A u \in Threads : pc'[u] = IF u = r /\ r \notin Aborts THEN "leaving" ELSE pc[u]
  BY <1>5, <1>6
<1>8. /\ status' \in [Calls -> {"none", "ok", "aborted", "cancelled"}]
      /\ got' \in [Calls -> SUBSET Sends] /\ answered' \in [Calls -> Nat]
      /\ \A q \in Calls : \A x : x \in got'[q] <=> x \in got[q] \/ (q = r /\ x \in {s})
      /\ \A q \in Calls : answered'[q] = IF q = r THEN answered[q] + 1 ELSE answered[q]
  BY <1>i, <1>3, <1>5, DoneFacts
<1>9. /\ \A q \in Calls : q = r \/ (answered'[q] = answered[q] /\ got'[q] = got[q])
      /\ answered'[r] = answered[r] + 1
  BY <1>8
<1> QED BY <1>1, <1>4, <1>5, <1>6, <1>7, <1>8, <1>9, MessageStep

\* An abort calls a waiter it has swept out of the table, or deletes a message.
LEMMA AbortItemStep ==
    ASSUME CoreInv, NEW a \in Aborts, AbortItem(a)
    PROVE  CoreInv'
<1>i. TypeInv /\ QueueInv
  BY DEF CoreInv
<1>1. UNCHANGED <<key, bucketOf, manager, table, pending, owned, destroyed, aborted, sweepAt,
                  raced, pc, partner, turn>>
  BY DEF AbortItem, args, tableVars
<1>2. PICK k \in Keys :
         /\ swept[a][k] # <<>>
         /\ IF Head(swept[a][k]) \in Calls
               THEN /\ Waiter(Head(swept[a][k]), "aborted", {})
                    /\ refs' = refs - Dropped(Head(swept[a][k]))
               ELSE UNCHANGED <<doneVars, refs, cmVars>>
         /\ swept' = [swept EXCEPT ![a][k] = Tail(@)]
  BY DEF AbortItem
<1> DEFINE o == Head(swept[a][k])
<1>3. /\ swept' \in [Aborts -> [Keys -> Seq(Ops)]] /\ QueueInv'
      /\ o \in Ops /\ HeldBy(a, o)
      /\ \A p \in Ops : InTable(p)' <=> InTable(p)
      /\ \A u \in Threads : \A p \in Ops : HeldBy(u, p)' <=> HeldBy(u, p) /\ ~ (u = a /\ p = o)
  BY <1>i, <1>1, <1>2, AbortItemMoves
<1>4. /\ o \in Calls => Waiter(o, "aborted", {}) /\ refs' = refs - Dropped(o)
      /\ o \notin Calls => UNCHANGED <<status, got, answered, refs, cmState, callbacks, running>>
  BY <1>2 DEF doneVars, cmVars
<1> HIDE DEF o
<1>5. /\ a \in Threads \ Calls /\ pc' \in [Threads -> Places]
      /\ \A u \in Threads : pc'[u] = IF u = a /\ a \notin Aborts THEN "leaving" ELSE pc[u]
  BY <1>1, <1>i, Kinds DEF TypeInv
<1>6. CASE o \in Calls
  <2>1. refs' \in Int
    BY <1>4, <1>6, <1>i DEF Dropped, TypeInv
  <2> QED BY <1>1, <1>3, <1>4, <1>5, <1>6, <2>1, WaiterStep
<1>7. CASE o \notin Calls
  <2>1. o \in Sends
    BY <1>3, <1>7 DEF Ops
  <2>2. /\ refs' \in Int /\ status' \in [Calls -> {"none", "ok", "aborted", "cancelled"}]
        /\ got' \in [Calls -> SUBSET Sends] /\ answered' \in [Calls -> Nat]
        /\ UNCHANGED <<cmState, callbacks, running, answered, got>>
    BY <1>4, <1>7, <1>i DEF TypeInv
  <2> QED BY <1>1, <1>3, <1>5, <2>1, <2>2, MessageStep
<1> QED BY <1>6, <1>7

\* The head tells what the whole queue holds.
LEMMA HoldsFacts ==
    ASSUME TypeInv, NEW o \in Ops
    PROVE  /\ ~ Holds(o, Calls) => table[key[o]] \in Seq(Sends)
           /\ ~ Holds(o, Sends) => table[key[o]] \in Seq(Calls)
           /\ Holds(o, Calls) => table[key[o]] # <<>> /\ Head(table[key[o]]) \in Calls
           /\ Holds(o, Sends) => table[key[o]] # <<>> /\ Head(table[key[o]]) \in Sends
<1>1. table[key[o]] \in Seq(Sends) \/ table[key[o]] \in Seq(Calls)
  BY DEF TypeInv
<1>2. <<>> \in Seq(Sends) /\ <<>> \in Seq(Calls)
  OBVIOUS
<1>3. /\ \A q \in Seq(Sends) : q # <<>> => Head(q) \in Sends
      /\ \A q \in Seq(Calls) : q # <<>> => Head(q) \in Calls
  OBVIOUS
<1> QED BY <1>1, <1>2, <1>3 DEF Holds

\* A Send at the table.
LEMMA SendLockedStep ==
    ASSUME CoreInv, NEW s \in Sends, SendLocked(s)
    PROVE  CoreInv'
<1>i. TypeInv
  BY DEF CoreInv
<1>1. /\ UNCHANGED <<key, bucketOf, manager, refs, owned, destroyed, aborted, sweepAt, swept, raced,
                     status, got, answered, cmState, callbacks, running>>
      /\ pc[s] = "checked" /\ turn' = [turn EXCEPT ![s] = Now(s)] /\ s \in Ops /\ s \notin Calls
  BY Kinds DEF SendLocked, args, ownerVars, abortVars, doneVars, cmVars
<1>2. refs' \in Int /\ callbacks' \in [Managers -> SUBSET Calls]
  BY <1>1, <1>i DEF TypeInv, CancellationTypeOK
<1>3. CASE ~ Holds(s, Calls) /\ PushBack(s) /\ Go(s, "done")
  <2>1. table[key[s]] \in Seq(Sends)
    BY <1>i, <1>1, <1>3, HoldsFacts
  <2>2. \A n \in Managers : \A q : q \in callbacks'[n] <=>
           q \in callbacks[n] \/ (q = s /\ s \in Calls /\ n = manager[s])
    BY <1>1
  <2> QED BY <1>1, <1>2, <1>3, <2>1, <2>2, PushStep
<1>4. CASE Holds(s, Calls) /\ PopHead(s) /\ Go(s, "calling")
  <2>1. table[key[s]] # <<>> /\ (s \in Sends <=> Head(table[key[s]]) \in Calls)
    BY <1>i, <1>1, <1>4, HoldsFacts
  <2> QED BY <1>1, <1>4, <2>1, PopStep
<1> QED BY <1>3, <1>4 DEF SendLocked

\* A Recv that would wait finds its step cancelled.
LEMMA RefusedStep ==
    ASSUME CoreInv, NEW r \in Calls,
           pc[r] = "checked", Done(r, "cancelled", {}), Go(r, "done"),
           turn' = [turn EXCEPT ![r] = Now(r)],
           UNCHANGED <<key, bucketOf, manager, table, pending, refs, owned, destroyed, aborted,
                       sweepAt,
                       swept, raced, partner, cmState, callbacks, running>>
    PROVE  CoreInv'
<1>i. TypeInv /\ PlaceInv /\ QueueInv /\ HandInv /\ OnePlaceInv /\ ItemInv
      /\ RecvInv /\ WaiterInv /\ ManagerInv /\ TurnInv
  BY DEF CoreInv
<1>j. \A n \in Managers : callbacks[n] \subseteq Calls /\ running[n] \subseteq Calls
  BY <1>i DEF TypeInv, CancellationTypeOK
<1>r. r \in Ops /\ r \in Threads
  BY Kinds
<1>w. /\ status' \in [Calls -> {"none", "ok", "aborted", "cancelled"}]
      /\ got' \in [Calls -> SUBSET Sends] /\ answered' \in [Calls -> Nat]
      /\ \A q \in Calls : \A s : s \in got'[q] <=> s \in got[q] \/ (q = r /\ s \in {})
      /\ \A q \in Calls : answered'[q] = IF q = r THEN answered[q] + 1 ELSE answered[q]
  BY <1>i, DoneFacts
<1>p. /\ pc' \in [Threads -> Places]
      /\ \A t \in Threads : pc'[t] = IF t = r THEN "done" ELSE pc[t]
  BY <1>i, <1>r, GoFacts DEF Places
<1>m. /\ \A p \in Ops : InTable(p)' <=> InTable(p)
      /\ \A t \in Threads : \A p \in Ops : HeldBy(t, p)' <=> HeldBy(t, p)
      /\ ~ InTable(r) /\ \A t \in Threads : ~ HeldBy(t, r)
  <2>1. \A t \in Threads : t \notin Aborts =>
           \/ pc'[t] = pc[t] /\ partner'[t] = partner[t]
           \/ pc[t] # "calling" /\ pc'[t] # "calling"
    BY <1>p
  <2> QED BY <1>i, <1>r, <2>1, QuietMoves, OldTurns
<1>d. /\ turn' \in [Ops -> Nat] /\ turn[r] = 0 /\ Now(r) \in Nat \ {0}
      /\ \A p \in Ops : turn'[p] = IF p = r THEN Now(r) ELSE turn[p]
      /\ \A p \in Ops : turn'[p] <= Cardinality(HadTurn(key[p])')
  BY <1>i, <1>r, TakesTurn, NowIsLatest DEF TurnInv
<1>1. TypeInv'
  BY <1>w, <1>p, <1>d, <1>i DEF TypeInv, CancellationTypeOK
<1>2. PlaceInv'
  BY <1>p, <1>i, Kinds DEF PlaceInv
<1>3. QueueInv'
  <2>1. /\ \A j \in Keys : Ordered(table[j], turn')
        /\ \A a \in Aborts : \A j \in Keys : Ordered(swept[a][j], turn')
    BY <1>i, <1>r, OldTurns
  <2> QED BY <2>1, <1>i DEF QueueInv
<1>4. HandInv'
  <2>1. ASSUME NEW p \in Ops, pc'[p] = "calling"
        PROVE  \E x \in Ops : /\ partner'[p] = <<x>> /\ key'[x] = key'[p]
                              /\ p \in Sends <=> x \in Calls
    <3>1. pc[p] = "calling"
      BY <2>1, <1>p, Kinds
    <3> QED BY <1>i, <3>1 DEF HandInv
  <2>2. \A m \in Managers : pc'[m] = pc[m]
    BY <1>p, Kinds
  <2> QED BY <2>1, <2>2, <1>i DEF HandInv
<1>5. OnePlaceInv'
  BY <1>m, <1>i DEF OnePlaceInv
<1>6. ItemInv'
  <2> SUFFICES ASSUME NEW p \in Ops, InTable(p)' \/ \E u \in Threads : HeldBy(u, p)'
               PROVE  Returned(p)'
    BY DEF ItemInv
  <2>1. Returned(p) /\ p # r
    BY <1>m, <1>i DEF ItemInv
  <2>2. pc'[p] = "done" /\ turn'[p] > 0 /\ (p \in Calls => answered'[p] = answered[p])
    BY <2>1, <1>p, <1>d, <1>w, Kinds DEF Returned
  <2> QED BY <2>1, <2>2 DEF Returned
<1>7. RecvInv'
  <2> SUFFICES ASSUME NEW q \in Calls
               PROVE  /\ pc'[q] \in {"idle", "checked", "calling"} => answered'[q] = 0 /\ got'[q] = {}
                      /\ pc'[q] = "leaving" => answered'[q] = 1
                      /\ answered'[q] = 0 => got'[q] = {}
                      /\ answered'[q] <= 1
                      /\ pc'[q] = "done" /\ answered'[q] = 0
                            => InTable(q)' \/ \E u \in Threads : HeldBy(u, q)'
    BY DEF RecvInv
  <2>1. q \in Ops /\ q \in Threads
    BY Kinds
  <2>2. CASE q = r
    BY <2>1, <2>2, <1>p, <1>w, <1>i DEF RecvInv
  <2>3. CASE q # r
    <3>1. answered'[q] = answered[q] /\ got'[q] = got[q] /\ pc'[q] = pc[q]
      BY <2>1, <2>3, <1>p, <1>w
    <3>2. InTable(q) \/ (\E u \in Threads : HeldBy(u, q))
             => InTable(q)' \/ \E u \in Threads : HeldBy(u, q)'
      BY <2>1, <1>m
    <3> QED BY <3>1, <3>2, <1>i DEF RecvInv
  <2> QED BY <2>2, <2>3
<1>8. WaiterInv'
  BY <1>m, <1>i, Kinds DEF WaiterInv
<1>9. ManagerInv'
  BY <1>p, <1>i, <1>j, Kinds DEF ManagerInv
<1>10. TurnInv'
  BY <1>p, <1>d, <1>i, Kinds DEF TurnInv
<1> QED BY <1>1, <1>2, <1>3, <1>4, <1>5, <1>6, <1>7, <1>8, <1>9, <1>10 DEF CoreInv

\* A Recv at the table.
LEMMA RecvLockedStep ==
    ASSUME CoreInv, NEW r \in Calls, RecvLocked(r)
    PROVE  CoreInv'
<1>i. TypeInv
  BY DEF CoreInv
<1>1. /\ UNCHANGED <<key, bucketOf, manager, owned, destroyed, aborted, sweepAt, swept, raced>>
      /\ pc[r] = "checked" /\ turn' = [turn EXCEPT ![r] = Now(r)] /\ r \in Ops /\ r \notin Sends
  BY Kinds DEF RecvLocked, args, abortVars
<1>2. /\ refs \in Int /\ callbacks \in [Managers -> SUBSET Calls]
      /\ manager[r] \in Managers \cup {NoManager}
  BY <1>i DEF TypeInv, CancellationTypeOK
<1>3. CASE ~ Holds(r, Sends) /\ Wait(r) /\ Go(r, "done")
  <2>0. table[key[r]] \in Seq(Calls)
    BY <1>i, <1>1, <1>3, HoldsFacts
  <2>1. CASE manager[r] = NoManager /\ PushBack(r) /\ UNCHANGED <<refs, doneVars, cmVars>>
    <3>1. UNCHANGED <<refs, status, got, answered, cmState, callbacks, running>>
      BY <2>1 DEF doneVars, cmVars
    <3>2. \A n \in Managers : \A q : q \in callbacks'[n] <=>
             q \in callbacks[n] \/ (q = r /\ r \in Calls /\ n = manager[r])
      BY <2>1, <3>1, ManagersAssumption
    <3> QED BY <1>1, <1>2, <1>3, <2>0, <2>1, <3>1, <3>2, PushStep
  <2>2. CASE /\ manager[r] # NoManager /\ MayRegister(manager[r])
             /\ RegisterCallback(manager[r], r) /\ refs' = refs + 1
             /\ PushBack(r) /\ UNCHANGED doneVars
    <3>1. UNCHANGED <<status, got, answered, cmState, running>>
      BY <2>2 DEF doneVars, RegisterCallback
    <3>2. callbacks' = [callbacks EXCEPT ![manager[r]] = callbacks[manager[r]] \cup {r}]
      BY <2>2 DEF RegisterCallback
    <3>3. callbacks' \in [Managers -> SUBSET Calls]
      BY <1>2, <2>2, <3>2
    <3>4. \A n \in Managers : \A q : q \in callbacks'[n] <=>
             q \in callbacks[n] \/ (q = r /\ r \in Calls /\ n = manager[r])
      BY <1>2, <2>2, <3>2
    <3>5. refs' \in Int /\ cmState[manager[r]] = "open"
      BY <1>2, <2>2 DEF MayRegister
    <3> QED BY <1>1, <1>3, <2>0, <2>2, <3>1, <3>3, <3>4, <3>5, PushStep
  <2>3. CASE /\ manager[r] # NoManager /\ ~ MayRegister(manager[r])
             /\ Done(r, "cancelled", {}) /\ UNCHANGED <<refs, tableVars, partner, cmVars>>
    <3>1. UNCHANGED <<refs, table, pending, partner, cmState, callbacks, running>>
      BY <2>3 DEF tableVars, cmVars
    <3> QED BY <1>1, <1>3, <2>3, <3>1, RefusedStep
  <2> QED BY <1>3, <2>1, <2>2, <2>3 DEF Wait
<1>4. CASE Holds(r, Sends) /\ PopHead(r) /\ Go(r, "calling") /\ UNCHANGED <<refs, doneVars, cmVars>>
  <2>1. UNCHANGED <<refs, status, got, answered, cmState, callbacks, running>>
    BY <1>4 DEF doneVars, cmVars
  <2>2. table[key[r]] # <<>> /\ (r \in Sends <=> Head(table[key[r]]) \in Calls)
    BY <1>i, <1>1, <1>4, HoldsFacts, Kinds
  <2> QED BY <1>1, <1>4, <2>1, <2>2, PopStep
<1> QED BY <1>3, <1>4 DEF RecvLocked

\* An abort takes what is in a bucket.
LEMMA SwapStep ==
    ASSUME CoreInv, NEW a \in Aborts, SwapTable(a)
    PROVE  CoreInv'
<1>i. TypeInv /\ PlaceInv /\ QueueInv /\ HandInv /\ OnePlaceInv /\ ItemInv
      /\ RecvInv /\ WaiterInv /\ ManagerInv /\ TurnInv
  BY DEF CoreInv
<1>j. \A n \in Managers : callbacks[n] \subseteq Calls /\ running[n] \subseteq Calls
  BY <1>i DEF TypeInv, CancellationTypeOK
<1>q. /\ UNCHANGED <<key, bucketOf, manager, pending, refs, owned, destroyed, aborted, raced,
                     status,
                     got, answered, pc, partner, turn, cmState, callbacks, running>>
      /\ sweepAt' \in [Aborts -> 0..(Shards + 1)]
  <2>1. sweepAt[a] + 1 \in 0..(Shards + 1)
    BY <1>i, ShardsAssumption DEF SwapTable, LastBucket, TypeInv
  <2> QED BY <1>i, <2>1 DEF SwapTable, args, ownerVars, doneVars, cmVars, TypeInv
<1>p. \A t \in Threads : pc'[t] = pc[t]
  BY <1>q
<1>m. /\ table' \in [Keys -> Seq(Sends) \cup Seq(Calls)]
      /\ swept' \in [Aborts -> [Keys -> Seq(Ops)]] /\ QueueInv'
      /\ \A p \in Ops : InTable(p)' <=> InTable(p) /\ bucketOf[key[p]] # sweepAt[a]
      /\ \A p \in Ops : ~ HeldBy(a, p)
      /\ \A t \in Threads : \A p \in Ops : HeldBy(t, p)' <=>
            IF t = a THEN InTable(p) /\ bucketOf[key[p]] = sweepAt[a] ELSE HeldBy(t, p)
  BY <1>i, SwapMoves
<1>1. TypeInv'
  BY <1>q, <1>m, <1>i DEF TypeInv, CancellationTypeOK
<1>2. PlaceInv'
  BY <1>q, <1>i DEF PlaceInv
<1>3. QueueInv'
  BY <1>m
<1>4. HandInv'
  BY <1>q, <1>i DEF HandInv
<1>5. OnePlaceInv'
  BY <1>m, <1>i DEF OnePlaceInv
<1>6. ItemInv'
  <2>1. \A p \in Ops : InTable(p)' \/ (\E t \in Threads : HeldBy(t, p)') => Returned(p)
    BY <1>m, <1>i DEF ItemInv
  <2> QED BY <2>1, <1>q DEF ItemInv, Returned
<1>7. RecvInv'
  <2> SUFFICES ASSUME NEW q \in Calls
               PROVE  /\ pc'[q] \in {"idle", "checked", "calling"} => answered[q] = 0 /\ got[q] = {}
                      /\ pc'[q] = "leaving" => answered[q] = 1
                      /\ answered[q] = 0 => got[q] = {}
                      /\ answered[q] <= 1
                      /\ pc'[q] = "done" /\ answered[q] = 0
                            => InTable(q)' \/ \E u \in Threads : HeldBy(u, q)'
    BY <1>q DEF RecvInv
  <2>1. q \in Ops /\ q \in Threads /\ pc'[q] = pc[q]
    BY <1>p, Kinds
  <2>2. InTable(q) \/ (\E u \in Threads : HeldBy(u, q))
           => InTable(q)' \/ \E u \in Threads : HeldBy(u, q)'
    BY <2>1, <1>m, Kinds
  <2> QED BY <2>1, <2>2, <1>i DEF RecvInv
<1>8. WaiterInv'
  BY <1>q, <1>m, <1>i, Kinds DEF WaiterInv
<1>9. ManagerInv'
  BY <1>q, <1>i DEF ManagerInv
<1>10. TurnInv'
  BY <1>q, <1>i DEF TurnInv, HadTurn
<1> QED BY <1>1, <1>2, <1>3, <1>4, <1>5, <1>6, <1>7, <1>8, <1>9, <1>10 DEF CoreInv

\* StartCancel takes the registered callbacks.
LEMMA StartCancelStep ==
    ASSUME CoreInv, NEW m \in Managers, StartCancel(m)
    PROVE  CoreInv'
<1>i. TypeInv /\ PlaceInv /\ QueueInv /\ HandInv /\ OnePlaceInv /\ ItemInv
      /\ RecvInv /\ WaiterInv /\ ManagerInv /\ TurnInv
  BY DEF CoreInv
<1>j. \A n \in Managers : callbacks[n] \subseteq Calls /\ running[n] \subseteq Calls
  BY <1>i DEF TypeInv, CancellationTypeOK
<1>q. /\ UNCHANGED <<key, bucketOf, manager, table, pending, refs, owned, destroyed, aborted,
                     sweepAt,
                     swept, raced, status, got, answered, partner, turn>>
      /\ pc[m] = "idle"
  BY DEF StartCancel, args, tableVars, ownerVars, abortVars, doneVars
<1>c. /\ cmState' \in [Managers -> {"open", "cancelling", "cancelled"}]
      /\ callbacks' \in [Managers -> SUBSET Calls] /\ running' \in [Managers -> SUBSET Calls]
      /\ \A n \in Managers : /\ cmState'[n] = IF n = m THEN "cancelling" ELSE cmState[n]
                             /\ callbacks'[n] = IF n = m THEN {} ELSE callbacks[n]
                             /\ running'[n] = IF n = m THEN callbacks[n] ELSE running[n]
  BY <1>i DEF StartCancel, BeginCancel, TypeInv, CancellationTypeOK
<1>p. /\ pc' \in [Threads -> Places]
      /\ \A t \in Threads : pc'[t] = IF t = m THEN "callbacks" ELSE pc[t]
  BY <1>i, Kinds, GoFacts DEF StartCancel, Places
<1>m. /\ \A p \in Ops : InTable(p)' <=> InTable(p)
      /\ \A t \in Threads : \A p \in Ops : HeldBy(t, p)' <=> HeldBy(t, p)
  <2>1. \A t \in Threads : t \notin Aborts =>
           \/ pc'[t] = pc[t] /\ partner'[t] = partner[t]
           \/ pc[t] # "calling" /\ pc'[t] # "calling"
    BY <1>p, <1>q
  <2> QED BY <1>q, <2>1, QuietMoves
<1>1. TypeInv'
  BY <1>q, <1>c, <1>p, <1>i DEF TypeInv, CancellationTypeOK
<1>2. PlaceInv'
  BY <1>p, <1>i, Kinds DEF PlaceInv
<1>3. QueueInv'
  BY <1>q, <1>i DEF QueueInv
<1>4. HandInv'
  <2>1. \A o \in Ops : pc'[o] = pc[o]
    BY <1>p, Kinds
  <2>2. ASSUME NEW n \in Managers, n # m
        PROVE  pc'[n] = pc[n] /\ running'[n] = running[n]
    BY <2>2, <1>p, <1>c, Kinds
  <2>3. pc'[m] \notin {"calling", "leaving"} /\ partner[m] = <<>>
    BY <1>p, <1>q, <1>i, Kinds DEF HandInv
  <2> QED BY <2>1, <2>2, <2>3, <1>q, <1>i DEF HandInv
<1>5. OnePlaceInv'
  BY <1>m, <1>i DEF OnePlaceInv
<1>6. ItemInv'
  <2> SUFFICES ASSUME NEW p \in Ops, InTable(p)' \/ \E u \in Threads : HeldBy(u, p)'
               PROVE  Returned(p)'
    BY DEF ItemInv
  <2>1. Returned(p)
    BY <1>m, <1>i DEF ItemInv
  <2>2. pc'[p] = "done" /\ turn'[p] > 0
    BY <2>1, <1>p, <1>q, Kinds DEF Returned
  <2>3. p \in Calls /\ manager[p] # NoManager /\ cmState'[manager[p]] = "open"
           => p \in callbacks'[manager[p]]
    BY <2>1, <1>i, <1>c DEF Returned, TypeInv
  <2>4. p \in Calls => answered[p] = 0
    BY <2>1 DEF Returned
  <2> QED BY <2>2, <2>3, <2>4, <1>q DEF Returned
<1>7. RecvInv'
  <2> SUFFICES ASSUME NEW q \in Calls
               PROVE  /\ pc'[q] \in {"idle", "checked", "calling"} => answered[q] = 0 /\ got[q] = {}
                      /\ pc'[q] = "leaving" => answered[q] = 1
                      /\ answered[q] = 0 => got[q] = {}
                      /\ answered[q] <= 1
                      /\ pc'[q] = "done" /\ answered[q] = 0
                            => InTable(q)' \/ \E u \in Threads : HeldBy(u, q)'
    BY <1>q DEF RecvInv
  <2>1. q \in Ops /\ q \in Threads /\ pc'[q] = pc[q]
    BY <1>p, Kinds
  <2>2. InTable(q) \/ (\E u \in Threads : HeldBy(u, q))
           => InTable(q)' \/ \E u \in Threads : HeldBy(u, q)'
    BY <2>1, <1>m, Kinds
  <2> QED BY <2>1, <2>2, <1>i DEF RecvInv
<1>8. WaiterInv'
  <2> SUFFICES ASSUME NEW q \in Calls, InTable(q)', manager[q] # NoManager
               PROVE  q \in callbacks'[manager[q]] \cup running'[manager[q]]
    BY <1>q DEF WaiterInv
  <2>1. InTable(q) /\ manager[q] \in Managers
    BY <1>m, <1>i, Kinds DEF TypeInv
  <2>2. q \in callbacks[manager[q]] \cup running[manager[q]]
    BY <2>1, <1>i DEF WaiterInv
  <2>3. running[m] = {}
    BY <1>i, <1>q DEF ManagerInv
  <2> QED BY <2>1, <2>2, <2>3, <1>c
<1>9. ManagerInv'
  <2> SUFFICES ASSUME NEW n \in Managers
               PROVE  /\ cmState'[n] = "open" <=> pc'[n] = "idle"
                      /\ pc'[n] = "idle" => running'[n] = {}
                      /\ pc'[n] # "idle" => callbacks'[n] = {}
                      /\ \A q \in callbacks'[n] \cup running'[n] : manager[q] = n /\ pc'[q] = "done"
    BY <1>q DEF ManagerInv
  <2>1. \A q \in callbacks[n] \cup running[n] : manager[q] = n /\ pc'[q] = "done"
    BY <1>i, <1>j, <1>p, Kinds DEF ManagerInv
  <2>2. CASE n = m
    BY <2>1, <2>2, <1>c, <1>p, Kinds
  <2>3. CASE n # m
    BY <2>1, <2>3, <1>c, <1>p, <1>i, Kinds DEF ManagerInv
  <2> QED BY <2>2, <2>3
<1>10. TurnInv'
  BY <1>q, <1>p, <1>i, Kinds DEF TurnInv, HadTurn
<1> QED BY <1>1, <1>2, <1>3, <1>4, <1>5, <1>6, <1>7, <1>8, <1>9, <1>10 DEF CoreInv

\* A cancellation callback looks for its Recv in the table.
LEMMA CancelLockedStep ==
    ASSUME CoreInv, NEW m \in Managers, CancelLocked(m)
    PROVE  CoreInv'
<1>i. TypeInv /\ PlaceInv /\ QueueInv /\ HandInv /\ OnePlaceInv /\ ItemInv
      /\ RecvInv /\ WaiterInv /\ ManagerInv /\ TurnInv
  BY DEF CoreInv
<1>j. \A n \in Managers : callbacks[n] \subseteq Calls /\ running[n] \subseteq Calls
  BY <1>i DEF TypeInv, CancellationTypeOK
<1>q. /\ UNCHANGED <<key, bucketOf, manager, pending, refs, owned, destroyed, aborted, sweepAt,
                     swept, raced, status, got, answered, turn>>
      /\ pc[m] = "callbacks"
  BY DEF CancelLocked, NotFound, args, ownerVars, abortVars, doneVars
<1>r. PICK r \in running[m] :
         /\ NextCallback(m, r) /\ partner' = [partner EXCEPT ![m] = <<r>>]
         /\ \/ \E i \in DOMAIN table[key[r]] :
                  /\ table[key[r]][i] = r
                  /\ table' = [table EXCEPT ![key[r]] = Without(table[key[r]], i)]
                  /\ Go(m, "calling")
            \/ /\ \A i \in DOMAIN table[key[r]] : table[key[r]][i] # r
               /\ Go(m, "leaving")
               /\ UNCHANGED table
  BY DEF CancelLocked, NotFound
<1>s. /\ r \in Calls /\ r \in Ops /\ manager[r] = m /\ pc[r] = "done"
      /\ partner' \in [Threads -> Seq(Ops)]
      /\ \A t \in Threads : partner'[t] = IF t = m THEN <<r>> ELSE partner[t]
  <2>1. r \in Calls /\ r \in Ops /\ manager[r] = m /\ pc[r] = "done"
    BY <1>i, <1>j, Kinds DEF ManagerInv
  <2>2. partner' = [partner EXCEPT ![m] = <<r>>]
    BY <1>r
  <2>3. partner \in [Threads -> Seq(Ops)] /\ <<r>> \in Seq(Ops)
    BY <1>i, <2>1 DEF TypeInv
  <2>4. /\ partner' \in [Threads -> Seq(Ops)]
        /\ \A t \in Threads : partner'[t] = IF t = m THEN <<r>> ELSE partner[t]
    BY <2>2, <2>3
  <2> QED BY <2>1, <2>4
<1>c. /\ UNCHANGED <<cmState, callbacks>> /\ running' \in [Managers -> SUBSET Calls]
      /\ \A n \in Managers : running'[n] = IF n = m THEN running[n] \ {r} ELSE running[n]
  BY <1>i, <1>r DEF NextCallback, TypeInv, CancellationTypeOK
<1>t. \/ /\ InTable(r) /\ Go(m, "calling")
         /\ table' \in [Keys -> Seq(Sends) \cup Seq(Calls)] /\ QueueInv'
         /\ \A p \in Ops : InTable(p)' <=> InTable(p) /\ p # r
         /\ \A t \in Threads : \A p \in Ops : HeldBy(t, p)' <=> HeldBy(t, p) \/ (t = m /\ p = r)
      \/ /\ ~ InTable(r) /\ Go(m, "leaving") /\ UNCHANGED table
         /\ \A p \in Ops : InTable(p)' <=> InTable(p)
         /\ \A t \in Threads : \A p \in Ops : HeldBy(t, p)' <=> HeldBy(t, p)
  <2>1. CASE \E i \in DOMAIN table[key[r]] :
                  /\ table[key[r]][i] = r
                  /\ table' = [table EXCEPT ![key[r]] = Without(table[key[r]], i)]
                  /\ Go(m, "calling")
    BY <1>i, <1>q, <1>r, <1>s, <2>1, CancelMoves
  <2>2. CASE /\ \A i \in DOMAIN table[key[r]] : table[key[r]][i] # r
             /\ Go(m, "leaving") /\ UNCHANGED table
    <3>1. ~ InTable(r)
      <4>1. table[key[r]] \in Seq(Ops)
        BY <1>i, <1>s, QueueTypes
      <4> QED BY <2>2, <4>1, ElemsType DEF InTable
    <3>2. \A t \in Threads : t \notin Aborts =>
             \/ pc'[t] = pc[t] /\ partner'[t] = partner[t]
             \/ pc[t] # "calling" /\ pc'[t] # "calling"
      BY <1>i, <1>q, <1>s, <2>2, GoFacts, Kinds DEF Places
    <3> QED BY <1>q, <2>2, <3>1, <3>2, QuietMoves
  <2> QED BY <1>r, <2>1, <2>2
<1>p. /\ pc' \in [Threads -> Places]
      /\ \A t \in Threads : t # m => pc'[t] = pc[t]
      /\ pc'[m] = IF InTable(r) THEN "calling" ELSE "leaving"
  BY <1>i, <1>t, GoFacts, Kinds DEF Places
<1>m. /\ table' \in [Keys -> Seq(Sends) \cup Seq(Calls)] /\ QueueInv'
      /\ \A p \in Ops : InTable(p)' <=> InTable(p) /\ p # r
      /\ \A t \in Threads : \A p \in Ops :
            HeldBy(t, p)' <=> HeldBy(t, p) \/ (t = m /\ p = r /\ InTable(r))
  <2>1. CASE InTable(r)
    BY <1>t, <2>1
  <2>2. CASE ~ InTable(r)
    <3>1. /\ UNCHANGED table /\ \A p \in Ops : InTable(p)' <=> InTable(p)
          /\ \A t \in Threads : \A p \in Ops : HeldBy(t, p)' <=> HeldBy(t, p)
      BY <1>t, <2>2
    <3>2. table' \in [Keys -> Seq(Sends) \cup Seq(Calls)] /\ QueueInv'
      BY <3>1, <1>q, <1>i DEF TypeInv, QueueInv
    <3> QED BY <2>2, <3>1, <3>2
  <2> QED BY <2>1, <2>2
<1>1. TypeInv'
  BY <1>q, <1>c, <1>p, <1>m, <1>s, <1>i DEF TypeInv, CancellationTypeOK
<1>2. PlaceInv'
  BY <1>p, <1>i, Kinds DEF PlaceInv
<1>3. QueueInv'
  BY <1>m
<1>4. HandInv'
  <2>1. \A o \in Ops : pc'[o] = pc[o] /\ partner'[o] = partner[o]
    BY <1>p, <1>s, Kinds
  <2>2. ASSUME NEW p \in Ops, pc'[p] = "calling"
        PROVE  \E x \in Ops : /\ partner'[p] = <<x>> /\ key'[x] = key'[p]
                              /\ p \in Sends <=> x \in Calls
    BY <2>1, <2>2, <1>q, <1>i DEF HandInv
  <2>3. ASSUME NEW n \in Managers, pc'[n] \in {"calling", "leaving"}
        PROVE  \E x \in Calls : partner'[n] = <<x>> /\ manager'[x] = n /\ x \notin running'[n]
    <3>1. CASE n = m
      BY <1>q, <1>s, <1>c, <3>1, Kinds
    <3>2. CASE n # m
      <4>1. pc'[n] = pc[n] /\ partner'[n] = partner[n] /\ running'[n] = running[n]
        BY <1>p, <1>s, <1>c, <3>2, Kinds
      <4> QED BY <2>3, <4>1, <1>q, <1>i DEF HandInv
    <3> QED BY <3>1, <3>2
  <2>4. \A n \in Managers : pc'[n] \notin {"calling", "leaving"} => partner'[n] = <<>>
    BY <1>p, <1>s, <1>i, Kinds DEF HandInv
  <2> QED BY <2>2, <2>3, <2>4 DEF HandInv
<1>5. OnePlaceInv'
  BY <1>m, <1>s, <1>i DEF OnePlaceInv
<1>6. ItemInv'
  <2>1. \A p \in Ops : InTable(p)' \/ (\E t \in Threads : HeldBy(t, p)') => Returned(p)
    BY <1>m, <1>s, <1>i DEF ItemInv
  <2>2. \A p \in Ops : pc'[p] = pc[p]
    BY <1>p, Kinds
  <2> QED BY <2>1, <2>2, <1>q, <1>c DEF ItemInv, Returned
<1>7. RecvInv'
  <2> SUFFICES ASSUME NEW q \in Calls
               PROVE  /\ pc'[q] \in {"idle", "checked", "calling"} => answered[q] = 0 /\ got[q] = {}
                      /\ pc'[q] = "leaving" => answered[q] = 1
                      /\ answered[q] = 0 => got[q] = {}
                      /\ answered[q] <= 1
                      /\ pc'[q] = "done" /\ answered[q] = 0
                            => InTable(q)' \/ \E u \in Threads : HeldBy(u, q)'
    BY <1>q DEF RecvInv
  <2>1. q \in Ops /\ q \in Threads /\ pc'[q] = pc[q]
    BY <1>p, Kinds
  <2>2. InTable(q) \/ (\E u \in Threads : HeldBy(u, q))
           => InTable(q)' \/ \E u \in Threads : HeldBy(u, q)'
    BY <2>1, <1>m, Kinds
  <2> QED BY <2>1, <2>2, <1>i DEF RecvInv
<1>8. WaiterInv'
  <2> SUFFICES ASSUME NEW q \in Calls, InTable(q)', manager[q] # NoManager
               PROVE  q \in callbacks[manager[q]] \cup running'[manager[q]]
    BY <1>q, <1>c DEF WaiterInv
  <2>1. InTable(q) /\ q # r /\ manager[q] \in Managers
    BY <1>m, <1>i, Kinds DEF TypeInv
  <2>2. q \in callbacks[manager[q]] \cup running[manager[q]]
    BY <2>1, <1>i DEF WaiterInv
  <2> QED BY <2>1, <2>2, <1>c
<1>9. ManagerInv'
  <2>1. \A n \in Managers : pc'[n] = "idle" <=> pc[n] = "idle"
    BY <1>p, <1>q, Kinds
  <2>2. \A n \in Managers : running'[n] \subseteq running[n]
    BY <1>c
  <2>3. \A n \in Managers : \A x \in callbacks[n] \cup running[n] : manager[x] = n /\ pc'[x] = "done"
    BY <1>p, <1>i, <1>j, Kinds DEF ManagerInv
  <2>4. \A n \in Managers : pc'[n] = "idle" => running'[n] = {}
    BY <2>1, <2>2, <1>i DEF ManagerInv
  <2> QED BY <2>1, <2>2, <2>3, <2>4, <1>i, <1>q, <1>c DEF ManagerInv
<1>10. TurnInv'
  BY <1>q, <1>p, <1>i, Kinds DEF TurnInv, HadTurn
<1> QED BY <1>1, <1>2, <1>3, <1>4, <1>5, <1>6, <1>7, <1>8, <1>9, <1>10 DEF CoreInv

-----------------------------------------------------------------------------
(* The counters *)

Leaving == {o \in Ops : pc[o] = "leaving"}
Aborting == {a \in Aborts : pc[a] \in {"failed", "sweep"}}

\* One element more.
LEMMA CountMore ==
    ASSUME NEW S, NEW T, NEW x, IsFiniteSet(S), x \notin S, \A y : y \in T <=> y \in S \/ y = x
    PROVE  Cardinality(T) = Cardinality(S) + 1
<1>1. T = S \cup {x}
  OBVIOUS
<1> QED BY <1>1, FS_AddElement

\* One element less.
LEMMA CountLess ==
    ASSUME NEW S, NEW T, NEW x, IsFiniteSet(S), x \in S, \A y : y \in T <=> y \in S /\ y # x
    PROVE  Cardinality(T) = Cardinality(S) - 1
<1>1. T = S \ {x}
  OBVIOUS
<1> QED BY <1>1, FS_RemoveElement

\* The sets that the two counters count.
LEMMA CountSets ==
    /\ IsFiniteSet(Registered) /\ Cardinality(Registered) \in Nat
    /\ IsFiniteSet(Leaving) /\ Cardinality(Leaving) \in Nat
    /\ IsFiniteSet(Aborting) /\ Cardinality(Aborting) \in Nat
    /\ \A b : IsFiniteSet(InCallback(b)) /\ Cardinality(InCallback(b)) \in Nat
<1>1. Registered \subseteq Ops /\ Leaving \subseteq Ops /\ \A b : InCallback(b) \subseteq Ops
  BY DEF Registered, Leaving, InCallback, Ops
<1>2. Aborting \subseteq Aborts
  BY DEF Aborting
<1> QED BY <1>1, <1>2, FiniteSets

\* The references taken and dropped are those of the sets that grow and shrink.
LEMMA RefsChange ==
    ASSUME TypeInv, ReferencesAreExact, NEW dr \in Int, NEW dl \in Int, NEW da \in Int,
           Cardinality(Registered') = Cardinality(Registered) + dr,
           Cardinality(Leaving') = Cardinality(Leaving) + dl,
           Cardinality(Aborting') = Cardinality(Aborting) + da,
           owned' = owned, refs' = refs + dr + dl + da
    PROVE  ReferencesAreExact'
<1> DEFINE own == IF owned THEN 1 ELSE 0
<1>1. refs = Cardinality(Registered) + Cardinality(Leaving) + Cardinality(Aborting) + own
  BY DEF ReferencesAreExact, Leaving, Aborting
<1>2. own \in Int /\ own' = own
  OBVIOUS
<1> HIDE DEF own
<1>3. refs' = Cardinality(Registered') + Cardinality(Leaving') + Cardinality(Aborting') + own'
  BY <1>1, <1>2, CountSets
<1> QED BY <1>3 DEF ReferencesAreExact, Leaving, Aborting, own

\* The registered callbacks depend on the managers and their hands.
LEMMA RegisteredFrame ==
    ASSUME TypeInv, UNCHANGED <<manager, callbacks, running>>,
           \A m \in Managers : partner'[m] = partner[m]
    PROVE  Registered' = Registered
BY DEF Registered, TypeInv

\* The counted threads depend on their places.
LEMMA ThreadFrames ==
    /\ (\A o \in Ops : pc'[o] = "leaving" <=> pc[o] = "leaving") => Leaving' = Leaving
    /\ (\A a \in Aborts : pc'[a] = pc[a]) => Aborting' = Aborting
    /\ bucketOf' = bucketOf /\ key' = key
       /\ (\A o \in Ops : pc'[o] \in {"calling", "leaving"} <=> pc[o] \in {"calling", "leaving"})
       => \A b : InCallback(b)' = InCallback(b)
<1>1. (\A o \in Ops : pc'[o] = "leaving" <=> pc[o] = "leaving") => Leaving' = Leaving
  BY DEF Leaving
<1>2. (\A a \in Aborts : pc'[a] = pc[a]) => Aborting' = Aborting
  BY DEF Aborting
<1>3. ASSUME bucketOf' = bucketOf, key' = key,
             \A o \in Ops : pc'[o] \in {"calling", "leaving"} <=> pc[o] \in {"calling", "leaving"}
      PROVE  \A b : InCallback(b)' = InCallback(b)
  BY <1>3 DEF InCallback, Bucket
<1> QED BY <1>1, <1>2, <1>3

\* A waiter drops the reference of its registration when it deregisters in time.
LEMMA WaiterRefs ==
    ASSUME CoreInv, NEW t \in Threads, NEW r \in Calls, HeldBy(t, r),
           NEW result, NEW message, Waiter(r, result, message),
           result \in {"ok", "aborted", "cancelled"}, message \subseteq Sends,
           manager' = manager, partner' = partner
    PROVE  /\ Dropped(r) \in Int
           /\ Cardinality(Registered') = Cardinality(Registered) + (0 - Dropped(r))
<1>i. TypeInv /\ ItemInv /\ ManagerInv /\ HandInv
  BY DEF CoreInv
<1>w. /\ UNCHANGED <<cmState, running>>
      /\ \A m \in Managers : \A q : q \in callbacks'[m] <=>
            q \in callbacks[m] /\ ~ (q = r /\ m = manager[r] /\ cmState[m] = "open")
  BY <1>i, WaiterFacts
<1>1. CASE manager[r] # NoManager /\ cmState[manager[r]] = "open"
  <2>1. Dropped(r) = 1
    BY <1>1 DEF Dropped, Unrefs, TryDeregisters
  <2>2. manager[r] \in Managers /\ r \in Ops
    BY <1>1, <1>i, Kinds DEF TypeInv
  <2>3. r \in callbacks[manager[r]]
    BY <1>1, <1>i, <2>2 DEF ItemInv, Returned
  <2>4. running[manager[r]] = {} /\ partner[manager[r]] = <<>>
    BY <1>1, <1>i, <2>2 DEF ManagerInv, HandInv
  <2>5. r \in Registered
    BY <1>1, <2>3 DEF Registered
  <2>6. \A q : q \in Registered' <=> q \in Registered /\ q # r
    <3>1. <<>> # <<r>>
      OBVIOUS
    <3>2. r \notin Registered'
      BY <1>1, <1>w, <2>2, <2>4, <3>1 DEF Registered
    <3>3. ASSUME NEW q \in Calls, q # r PROVE q \in Registered' <=> q \in Registered
      <4>1. manager[q] # NoManager => manager[q] \in Managers
        BY <1>i DEF TypeInv
      <4>2. manager[q] # NoManager => (q \in callbacks'[manager[q]] <=> q \in callbacks[manager[q]])
        BY <1>w, <3>3, <4>1
      <4> QED BY <1>w, <4>2 DEF Registered
    <3>4. \A q : q \in Registered \/ q \in Registered' => q \in Calls
      BY DEF Registered
    <3> QED BY <3>2, <3>3, <3>4
  <2>7. Cardinality(Registered') = Cardinality(Registered) - 1
    BY <2>5, <2>6, CountLess, CountSets
  <2> QED BY <2>1, <2>7, CountSets
<1>2. CASE ~ (manager[r] # NoManager /\ cmState[manager[r]] = "open")
  <2>1. Dropped(r) = 0
    BY <1>2 DEF Dropped, Unrefs, TryDeregisters
  <2>2. \A m \in Managers : \A q : q \in callbacks'[m] <=> q \in callbacks[m]
    BY <1>2, <1>w, ManagersAssumption
  <2>3. \A q : q \in Registered' <=> q \in Registered
    BY <1>i, <1>w, <2>2 DEF Registered, TypeInv
  <2>4. Registered' = Registered
    BY <2>3
  <2> QED BY <2>1, <2>4, CountSets
<1> QED BY <1>1, <1>2

\* Only Check starts a call, and only while the step has its reference.
LEMMA OwnerFrame ==
    ASSUME TypeInv, OwnerInv, owned' = owned,
           \A s \in Sends : pc'[s] = pc[s] \/ pc[s] \notin {"idle", "done"} \/ owned,
           \A r \in Calls : pc'[r] = pc[r] \/ pc[r] # "idle" \/ owned,
           answered' \in [Calls -> Nat], \A r \in Calls : answered[r] <= answered'[r]
    PROVE  OwnerInv'
<1> SUFFICES ASSUME ~ owned
             PROVE  /\ \A s \in Sends : pc'[s] \in {"idle", "done"}
                    /\ \A r \in Calls : pc'[r] = "idle" \/ answered'[r] > 0
  BY DEF OwnerInv
<1>1. \A s \in Sends : pc[s] \in {"idle", "done"}
  BY DEF OwnerInv
<1>2. \A r \in Calls : answered[r] \in Nat /\ answered'[r] \in Nat
  BY DEF TypeInv
<1>3. ASSUME NEW r \in Calls PROVE pc'[r] = "idle" \/ answered'[r] > 0
  <2>1. pc[r] = "idle" \/ answered[r] > 0
    BY DEF OwnerInv
  <2> QED BY <1>2, <2>1
<1> QED BY <1>1, <1>3

\* Items come into the table from calls that have read the status.
LEMMA AbortFrame ==
    ASSUME TypeInv, PlaceInv, AbortInv, UNCHANGED <<key, bucketOf, aborted, raced, sweepAt, swept>>,
           \A a \in Aborts : pc'[a] = pc[a],
           \A o \in Ops : InTable(o)' => InTable(o) \/ pc[o] = "checked",
           \A o \in Ops : pc'[o] = "checked" => pc[o] = "checked" \/ ~ aborted
    PROVE  AbortInv'
<1>1. \A o \in Ops : bucketOf[key[o]] \in 1..Shards
  BY DEF TypeInv
<1>2. /\ \A a \in Aborts :
          /\ pc'[a] \in {"idle", "failed"} => sweepAt'[a] = 0
          /\ pc'[a] \in {"sweep", "done"} => aborted' /\ sweepAt'[a] >= 1
          /\ pc'[a] = "done" => sweepAt'[a] = Shards + 1
          /\ pc'[a] # "sweep" => \A k \in Keys : swept'[a][k] = <<>>
  BY DEF AbortInv
<1>3. aborted' => \A o \in Ops : pc'[o] = "checked" => o \in raced'
  BY DEF AbortInv
<1>4. ASSUME NEW a \in Aborts, NEW o \in Ops, InTable(o)', sweepAt[a] > bucketOf[key[o]]
      PROVE  o \in raced
  <2>1. CASE InTable(o)
    BY <1>4, <2>1 DEF AbortInv
  <2>2. CASE pc[o] = "checked"
    <3>1. sweepAt[a] # 0
      BY <1>1, <1>4 DEF TypeInv
    <3>2. aborted
      BY <3>1 DEF AbortInv, PlaceInv
    <3> QED BY <2>2, <3>2 DEF AbortInv
  <2> QED BY <1>4, <2>1, <2>2
<1> QED BY <1>2, <1>3, <1>4 DEF AbortInv

\* done is called at most once more in a step.
LEMMA AnsweredGrows ==
    ASSUME TypeInv, Next
    PROVE  answered' \in [Calls -> Nat] /\ \A r \in Calls : answered[r] <= answered'[r]
<1>1. answered \in [Calls -> Nat]
  BY DEF TypeInv
<1>2. ASSUME NEW x, answered' = [answered EXCEPT ![x] = answered[x] + 1]
      PROVE  answered' \in [Calls -> Nat] /\ \A r \in Calls : answered[r] <= answered'[r]
  <2>1. CASE x \in Calls
    BY <1>1, <1>2, <2>1
  <2>2. CASE x \notin Calls
    <3>1. answered' = [r \in Calls |-> IF r = x THEN answered[x] + 1 ELSE answered[r]]
      BY <1>1, <1>2
    <3>2. \A r \in Calls : answered'[r] = answered[r]
      BY <2>2, <3>1
    <3>3. \A r \in Calls : answered[r] \in Nat
      BY <1>1
    <3> QED BY <3>1, <3>2, <3>3
  <2> QED BY <2>1, <2>2
<1>3. ASSUME NEW x, NEW result, NEW message, Done(x, result, message)
      PROVE  answered' \in [Calls -> Nat] /\ \A r \in Calls : answered[r] <= answered'[r]
  BY <1>2, <1>3 DEF Done
<1>4. ASSUME answered' = answered
      PROVE  answered' \in [Calls -> Nat] /\ \A r \in Calls : answered[r] <= answered'[r]
  BY <1>1, <1>4
<1>5. ASSUME NEW o \in Ops, Check(o) \/ Leave(o)
      PROVE  answered' \in [Calls -> Nat] /\ \A r \in Calls : answered[r] <= answered'[r]
  BY <1>3, <1>4, <1>5 DEF Check, Leave, doneVars
<1>6. ASSUME NEW s \in Sends, SendLocked(s) \/ SendCalls(s)
      PROVE  answered' \in [Calls -> Nat] /\ \A r \in Calls : answered[r] <= answered'[r]
  BY <1>3, <1>4, <1>6 DEF SendLocked, SendCalls, Waiter, doneVars
<1>7. ASSUME NEW c \in Calls, RecvLocked(c) \/ RecvCalls(c)
      PROVE  answered' \in [Calls -> Nat] /\ \A r \in Calls : answered[r] <= answered'[r]
  BY <1>3, <1>4, <1>7 DEF RecvLocked, Wait, RecvCalls, doneVars
<1>8. ASSUME NEW a \in Aborts,
             WhenDone(a) \/ StartAbort(a) \/ SwapTable(a) \/ AbortItem(a) \/ EndAbort(a)
      PROVE  answered' \in [Calls -> Nat] /\ \A r \in Calls : answered[r] <= answered'[r]
  <2>1. CASE AbortItem(a)
    BY <1>3, <1>4, <2>1 DEF AbortItem, Waiter, doneVars
  <2> QED BY <1>4, <1>8, <2>1 DEF WhenDone, StartAbort, SwapTable, EndAbort, doneVars
<1>9. ASSUME NEW m \in Managers, \/ StartCancel(m) \/ CancelLocked(m) \/ CancelCalls(m)
                                 \/ CancelLeaves(m) \/ Cancelled(m)
      PROVE  answered' \in [Calls -> Nat] /\ \A r \in Calls : answered[r] <= answered'[r]
  BY <1>3, <1>4, <1>9
  DEF StartCancel, CancelLocked, NotFound, CancelCalls, CancelLeaves, Cancelled, Waiter, doneVars
<1>10. CASE Release \/ Destroy
  BY <1>4, <1>10 DEF Release, Destroy, doneVars
<1> QED BY <1>5, <1>6, <1>7, <1>8, <1>9, <1>10 DEF Next

\* The counter of a bucket counts the threads in its callbacks.
LEMMA PendingFrame ==
    ASSUME PendingInv, UNCHANGED <<key, bucketOf, pending>>,
           \A o \in Ops : pc'[o] \in {"calling", "leaving"} <=> pc[o] \in {"calling", "leaving"}
    PROVE  PendingInv'
<1>1. \A b : InCallback(b)' = InCallback(b)
  BY ThreadFrames
<1> QED BY <1>1 DEF PendingInv

\* A call enters its callback.
LEMMA PendingMore ==
    ASSUME TypeInv, PendingInv, UNCHANGED <<key, bucketOf>>, NEW o \in Ops,
           pending' = [pending EXCEPT ![Bucket(o)] = @ + 1],
           pc[o] \notin {"calling", "leaving"}, pc'[o] = "calling",
           \A p \in Ops : p # o => pc'[p] = pc[p]
    PROVE  PendingInv'
<1> SUFFICES ASSUME NEW b \in 1..Shards PROVE pending'[b] = Cardinality(InCallback(b)')
  BY DEF PendingInv
<1>1. pending[b] = Cardinality(InCallback(b)) /\ pending \in [1..Shards -> Int]
  BY DEF PendingInv, TypeInv
<1>2. \A p : p \in InCallback(b)' <=> p \in InCallback(b) \/ (p = o /\ b = Bucket(o))
  BY DEF InCallback, Bucket
<1>3. CASE b = Bucket(o)
  <2>1. o \notin InCallback(b) /\ \A p : p \in InCallback(b)' <=> p \in InCallback(b) \/ p = o
    BY <1>2, <1>3 DEF InCallback
  <2>2. Cardinality(InCallback(b)') = Cardinality(InCallback(b)) + 1
    BY <2>1, CountMore, CountSets
  <2> QED BY <1>1, <1>3, <2>2
<1>4. CASE b # Bucket(o)
  <2>1. InCallback(b)' = InCallback(b)
    BY <1>2, <1>4
  <2> QED BY <1>1, <1>4, <2>1
<1> QED BY <1>3, <1>4

\* A call leaves its callback.
LEMMA PendingLess ==
    ASSUME TypeInv, PendingInv, UNCHANGED <<key, bucketOf>>, NEW o \in Ops,
           pending' = [pending EXCEPT ![Bucket(o)] = @ - 1],
           pc[o] = "leaving", pc'[o] = "done", \A p \in Ops : p # o => pc'[p] = pc[p]
    PROVE  PendingInv'
<1> SUFFICES ASSUME NEW b \in 1..Shards PROVE pending'[b] = Cardinality(InCallback(b)')
  BY DEF PendingInv
<1>1. pending[b] = Cardinality(InCallback(b)) /\ pending \in [1..Shards -> Int]
  BY DEF PendingInv, TypeInv
<1>2. \A p : p \in InCallback(b)' <=> p \in InCallback(b) /\ ~ (p = o /\ b = Bucket(o))
  BY DEF InCallback, Bucket
<1>3. CASE b = Bucket(o)
  <2>1. o \in InCallback(b) /\ \A p : p \in InCallback(b)' <=> p \in InCallback(b) /\ p # o
    BY <1>2, <1>3 DEF InCallback
  <2>2. Cardinality(InCallback(b)') = Cardinality(InCallback(b)) - 1
    BY <2>1, CountLess, CountSets
  <2> QED BY <1>1, <1>3, <2>2
<1>4. CASE b # Bucket(o)
  <2>1. InCallback(b)' = InCallback(b)
    BY <1>2, <1>4
  <2> QED BY <1>1, <1>4, <2>1
<1> QED BY <1>3, <1>4

\* A step of a call or of a cancellation.
LEMMA CountFrame ==
    ASSUME CoreInv, CountInv, Next,
           UNCHANGED <<key, bucketOf, owned, aborted, raced, sweepAt, swept>>,
           NEW dr \in Int, NEW dl \in Int, refs' = refs + dr + dl,
           Cardinality(Registered') = Cardinality(Registered) + dr,
           Cardinality(Leaving') = Cardinality(Leaving) + dl,
           PendingInv', \A a \in Aborts : pc'[a] = pc[a],
           \A o \in Ops : pc'[o] = pc[o] \/ pc[o] \notin {"idle", "done"} \/ owned,
           \A o \in Ops : pc'[o] = "checked" => pc[o] = "checked" \/ ~ aborted,
           \A o \in Ops : InTable(o)' => InTable(o) \/ pc[o] = "checked"
    PROVE  CountInv'
<1>i. /\ TypeInv /\ PlaceInv /\ ReferencesAreExact /\ PendingInv /\ OwnerInv /\ AbortInv
      /\ refs \in Int
  BY DEF CoreInv, CountInv, TypeInv
<1>1. Cardinality(Aborting') = Cardinality(Aborting) + 0
  BY ThreadFrames, CountSets
<1>2. ReferencesAreExact'
  <2>1. refs' = refs + dr + dl + 0
    BY <1>i
  <2> QED BY <1>i, <1>1, <2>1, RefsChange
<1>3. OwnerInv'
  BY <1>i, AnsweredGrows, OwnerFrame, Kinds
<1>4. AbortInv'
  BY <1>i, AbortFrame
<1> QED BY <1>2, <1>3, <1>4 DEF CountInv

\* status() is read.
LEMMA CheckCount ==
    ASSUME CoreInv, CountInv, NEW o \in Ops, Check(o)
    PROVE  CountInv'
<1>i. TypeInv /\ PlaceInv /\ QueueInv /\ HandInv /\ OnePlaceInv /\ ItemInv /\ ManagerInv /\ TurnInv
      /\ PendingInv /\ refs \in Int
  BY DEF CoreInv, CountInv, TypeInv
<1>n. Next
  BY DEF Next
<1>q. /\ UNCHANGED <<key, bucketOf, manager, table, pending, refs, owned, aborted, sweepAt,
                     swept, raced,
                     partner, callbacks, running>>
      /\ owned
  BY DEF Check, args, tableVars, ownerVars, abortVars, cmVars
<1>p. /\ pc[o] = "idle"
      /\ \A t \in Threads : pc'[t] = IF t = o THEN (IF aborted THEN "done" ELSE "checked") ELSE pc[t]
  BY <1>i, Kinds DEF Check, Go, TypeInv
<1>r. Registered' = Registered
  BY <1>i, <1>q, RegisteredFrame, Kinds
<1>l. Leaving' = Leaving
  BY <1>p, ThreadFrames, Kinds
<1>1. PendingInv'
  BY <1>i, <1>q, <1>p, PendingFrame, Kinds
<1>2. \A p \in Ops : InTable(p)' => InTable(p) \/ pc[p] = "checked"
  BY <1>q DEF InTable
<1>3. refs' = refs + 0 + 0 /\ Cardinality(Registered') = Cardinality(Registered) + 0
      /\ Cardinality(Leaving') = Cardinality(Leaving) + 0
  BY <1>i, <1>q, <1>r, <1>l, CountSets
<1>4. \A a \in Aborts : pc'[a] = pc[a]
  BY <1>p, Kinds
<1>5. \A p \in Ops : /\ pc'[p] = pc[p] \/ pc[p] \notin {"idle", "done"} \/ owned
                     /\ pc'[p] = "checked" => pc[p] = "checked" \/ ~ aborted
  BY <1>p, <1>q, Kinds
<1> QED BY <1>n, <1>q, <1>1, <1>2, <1>3, <1>4, <1>5, CountFrame

\* A callback has returned.
LEMMA LeaveCount ==
    ASSUME CoreInv, CountInv, NEW o \in Ops, Leave(o)
    PROVE  CountInv'
<1>i. TypeInv /\ PlaceInv /\ QueueInv /\ HandInv /\ OnePlaceInv /\ ItemInv /\ ManagerInv /\ TurnInv
      /\ PendingInv /\ refs \in Int
  BY DEF CoreInv, CountInv, TypeInv
<1>n. Next
  BY DEF Next
<1>q. /\ UNCHANGED <<key, bucketOf, manager, table, owned, aborted, sweepAt, swept, raced,
                     callbacks, running>>
      /\ pending' = [pending EXCEPT ![Bucket(o)] = @ - 1] /\ refs' = refs + 0 + (0 - 1)
      /\ \A m \in Managers : partner'[m] = partner[m]
  BY <1>i, Kinds DEF Leave, args, abortVars, cmVars, CallRef, TypeInv
<1>p. /\ pc[o] = "leaving"
      /\ \A t \in Threads : pc'[t] = IF t = o THEN "done" ELSE pc[t]
  BY <1>i, Kinds DEF Leave, Go, TypeInv
<1>r. Registered' = Registered
  BY <1>i, <1>q, RegisteredFrame, Kinds
<1>l. Cardinality(Leaving') = Cardinality(Leaving) - 1
  <2>1. o \in Leaving /\ \A p : p \in Leaving' <=> p \in Leaving /\ p # o
    BY <1>p, Kinds DEF Leaving
  <2> QED BY <2>1, CountLess, CountSets
<1>1. PendingInv'
  BY <1>i, <1>q, <1>p, PendingLess, Kinds
<1>2. \A p \in Ops : InTable(p)' => InTable(p) \/ pc[p] = "checked"
  BY <1>q DEF InTable
<1>3. /\ Cardinality(Registered') = Cardinality(Registered) + 0
      /\ Cardinality(Leaving') = Cardinality(Leaving) + (0 - 1)
  BY <1>i, <1>q, <1>r, <1>l, CountSets
<1>4. \A a \in Aborts : pc'[a] = pc[a]
  BY <1>p, Kinds
<1>5. \A p \in Ops : /\ pc'[p] = pc[p] \/ pc[p] \notin {"idle", "done"} \/ owned
                     /\ pc'[p] = "checked" => pc[p] = "checked" \/ ~ aborted
  BY <1>p, Kinds
<1> QED BY <1>n, <1>q, <1>1, <1>2, <1>3, <1>4, <1>5, CountFrame

\* A Send calls its waiter.
LEMMA SendCallsCount ==
    ASSUME CoreInv, CountInv, NEW s \in Sends, SendCalls(s)
    PROVE  CountInv'
<1>i. TypeInv /\ PlaceInv /\ QueueInv /\ HandInv /\ OnePlaceInv /\ ItemInv /\ ManagerInv /\ TurnInv
      /\ PendingInv /\ refs \in Int
  BY DEF CoreInv, CountInv, TypeInv
<1>n. Next
  BY DEF Next
<1>q. UNCHANGED <<key, bucketOf, manager, table, pending, owned, aborted, sweepAt, swept, raced,
                  partner>>
  BY DEF SendCalls, args, tableVars, abortVars
<1>p. /\ pc[s] = "calling" /\ s \in Ops /\ s \in Threads /\ s \notin Aborts
      /\ \A t \in Threads : pc'[t] = IF t = s THEN "leaving" ELSE pc[t]
  BY <1>i, Kinds DEF SendCalls, Go, TypeInv
<1>c. PICK r \in Calls : partner[s] = <<r>>
  BY <1>i, <1>p, Kinds DEF HandInv
<1>r. /\ Dropped(r) \in Int /\ refs' = refs + (0 - Dropped(r)) + 1
      /\ Cardinality(Registered') = Cardinality(Registered) + (0 - Dropped(r))
  <2>1. HeldBy(s, r) /\ {s} \subseteq Sends
    BY <1>c, <1>p DEF HeldBy
  <2>2. Waiter(r, "ok", {s}) /\ refs' = refs + 1 - Dropped(r)
    BY <1>c DEF SendCalls, CallRef
  <2>3. /\ Dropped(r) \in Int
        /\ Cardinality(Registered') = Cardinality(Registered) + (0 - Dropped(r))
    BY <1>p, <1>q, <2>1, <2>2, WaiterRefs
  <2> QED BY <1>i, <2>2, <2>3
<1>l. Cardinality(Leaving') = Cardinality(Leaving) + 1
  <2>1. s \notin Leaving /\ \A p : p \in Leaving' <=> p \in Leaving \/ p = s
    BY <1>p, Kinds DEF Leaving
  <2> QED BY <2>1, CountMore, CountSets
<1>1. PendingInv'
  BY <1>i, <1>q, <1>p, PendingFrame, Kinds
<1>2. \A p \in Ops : InTable(p)' => InTable(p) \/ pc[p] = "checked"
  BY <1>q DEF InTable
<1>4. \A a \in Aborts : pc'[a] = pc[a]
  BY <1>p, Kinds
<1>5. \A p \in Ops : /\ pc'[p] = pc[p] \/ pc[p] \notin {"idle", "done"} \/ owned
                     /\ pc'[p] = "checked" => pc[p] = "checked" \/ ~ aborted
  BY <1>p, Kinds
<1>6. 0 - Dropped(r) \in Int
  BY <1>r
<1> QED BY <1>n, <1>q, <1>r, <1>l, <1>1, <1>2, <1>4, <1>5, <1>6, CountFrame

\* A cancellation callback calls its waiter.
LEMMA CancelCallsCount ==
    ASSUME CoreInv, CountInv, NEW m \in Managers, CancelCalls(m)
    PROVE  CountInv'
<1>i. TypeInv /\ PlaceInv /\ QueueInv /\ HandInv /\ OnePlaceInv /\ ItemInv /\ ManagerInv /\ TurnInv
      /\ PendingInv /\ refs \in Int
  BY DEF CoreInv, CountInv, TypeInv
<1>n. Next
  BY DEF Next
<1>q. UNCHANGED <<key, bucketOf, manager, table, pending, owned, aborted, sweepAt, swept, raced,
                  partner>>
  BY DEF CancelCalls, args, tableVars, abortVars
<1>p. /\ pc[m] = "calling" /\ m \in Threads /\ m \notin Aborts /\ m \notin Ops
      /\ \A t \in Threads : pc'[t] = IF t = m THEN "leaving" ELSE pc[t]
  BY <1>i, Kinds DEF CancelCalls, Go, TypeInv
<1>c. PICK r \in Calls : partner[m] = <<r>>
  BY <1>i, <1>p DEF HandInv
<1>r. /\ Dropped(r) \in Int /\ refs' = refs + (0 - Dropped(r)) + 0
      /\ Cardinality(Registered') = Cardinality(Registered) + (0 - Dropped(r))
  <2>1. HeldBy(m, r)
    BY <1>c, <1>p DEF HeldBy
  <2>2. Waiter(r, "cancelled", {}) /\ refs' = refs - Dropped(r)
    BY <1>c DEF CancelCalls
  <2>3. /\ Dropped(r) \in Int
        /\ Cardinality(Registered') = Cardinality(Registered) + (0 - Dropped(r))
    BY <1>p, <1>q, <2>1, <2>2, WaiterRefs
  <2> QED BY <1>i, <2>2, <2>3
<1>5. \A p \in Ops : pc'[p] = pc[p]
  BY <1>p, Kinds
<1>l. Cardinality(Leaving') = Cardinality(Leaving) + 0
  BY <1>5, ThreadFrames, CountSets
<1>1. PendingInv'
  BY <1>i, <1>q, <1>5, PendingFrame
<1>2. \A p \in Ops : InTable(p)' => InTable(p) \/ pc[p] = "checked"
  BY <1>q DEF InTable
<1>4. \A a \in Aborts : pc'[a] = pc[a]
  BY <1>p, Kinds
<1>6. 0 - Dropped(r) \in Int
  BY <1>r
<1> QED BY <1>n, <1>q, <1>r, <1>l, <1>1, <1>2, <1>4, <1>5, <1>6, CountFrame

\* A Recv calls its own done.
LEMMA RecvCallsCount ==
    ASSUME CoreInv, CountInv, NEW r \in Calls, RecvCalls(r)
    PROVE  CountInv'
<1>i. TypeInv /\ PlaceInv /\ QueueInv /\ HandInv /\ OnePlaceInv /\ ItemInv /\ ManagerInv /\ TurnInv
      /\ PendingInv /\ refs \in Int
  BY DEF CoreInv, CountInv, TypeInv
<1>n. Next
  BY DEF Next
<1>q. /\ UNCHANGED <<key, bucketOf, manager, table, pending, owned, aborted, sweepAt, swept, raced,
                     partner, callbacks, running>>
      /\ refs' = refs + 0 + 1
  BY <1>i DEF RecvCalls, args, tableVars, abortVars, cmVars, CallRef
<1>p. /\ pc[r] = "calling" /\ r \in Ops
      /\ \A t \in Threads : pc'[t] = IF t = r THEN "leaving" ELSE pc[t]
  BY <1>i, Kinds DEF RecvCalls, Go, TypeInv
<1>r. Registered' = Registered
  BY <1>i, <1>q, RegisteredFrame, Kinds
<1>l. Cardinality(Leaving') = Cardinality(Leaving) + 1
  <2>1. r \notin Leaving /\ \A p : p \in Leaving' <=> p \in Leaving \/ p = r
    BY <1>p, Kinds DEF Leaving
  <2> QED BY <2>1, CountMore, CountSets
<1>1. PendingInv'
  BY <1>i, <1>q, <1>p, PendingFrame, Kinds
<1>2. \A p \in Ops : InTable(p)' => InTable(p) \/ pc[p] = "checked"
  BY <1>q DEF InTable
<1>3. Cardinality(Registered') = Cardinality(Registered) + 0
  BY <1>r, CountSets
<1>4. \A a \in Aborts : pc'[a] = pc[a]
  BY <1>p, Kinds
<1>5. \A p \in Ops : /\ pc'[p] = pc[p] \/ pc[p] \notin {"idle", "done"} \/ owned
                     /\ pc'[p] = "checked" => pc[p] = "checked" \/ ~ aborted
  BY <1>p, Kinds
<1> QED BY <1>n, <1>q, <1>l, <1>1, <1>2, <1>3, <1>4, <1>5, CountFrame

\* A call at the table returns, with or without an item left there.
LEMMA ReturnCount ==
    ASSUME CoreInv, CountInv, Next, NEW o \in Ops, pc[o] = "checked", Go(o, "done"),
           UNCHANGED <<key, bucketOf, owned, aborted, raced, sweepAt, swept, pending>>,
           NEW dr \in Int, refs' = refs + dr,
           Cardinality(Registered') = Cardinality(Registered) + dr,
           \A p \in Ops : InTable(p)' => InTable(p) \/ p = o
    PROVE  CountInv'
<1>i. TypeInv /\ PendingInv /\ refs \in Int
  BY DEF CoreInv, CountInv, TypeInv
<1>p. \A t \in Threads : pc'[t] = IF t = o THEN "done" ELSE pc[t]
  BY <1>i, Kinds DEF Go, TypeInv
<1>l. Cardinality(Leaving') = Cardinality(Leaving) + 0 /\ refs' = refs + dr + 0
  BY <1>i, <1>p, ThreadFrames, CountSets, Kinds
<1>1. PendingInv'
  BY <1>i, <1>p, PendingFrame, Kinds
<1>2. \A p \in Ops : InTable(p)' => InTable(p) \/ pc[p] = "checked"
  OBVIOUS
<1>4. \A a \in Aborts : pc'[a] = pc[a]
  BY <1>p, Kinds
<1>5. \A p \in Ops : /\ pc'[p] = pc[p] \/ pc[p] \notin {"idle", "done"} \/ owned
                     /\ pc'[p] = "checked" => pc[p] = "checked" \/ ~ aborted
  BY <1>p, Kinds
<1> QED BY <1>l, <1>1, <1>2, <1>4, <1>5, CountFrame

\* The counters when a call meets the first item of its key.
LEMMA PopCount ==
    ASSUME CoreInv, CountInv, Next, NEW o \in Ops, pc[o] = "checked", Go(o, "calling"),
           table[key[o]] # <<>>, PopHead(o), turn' = [turn EXCEPT ![o] = Now(o)],
           UNCHANGED <<key, bucketOf, manager, owned, aborted, raced, sweepAt, swept, refs,
                       callbacks,
                       running>>
    PROVE  CountInv'
<1>i. TypeInv /\ QueueInv /\ TurnInv /\ ItemInv /\ PendingInv /\ refs \in Int
  BY DEF CoreInv, CountInv, TypeInv
<1>p. \A t \in Threads : pc'[t] = IF t = o THEN "calling" ELSE pc[t]
  BY <1>i, Kinds DEF Go, TypeInv
<1>q. \A m \in Managers : partner'[m] = partner[m]
  BY <1>i, Kinds DEF PopHead, TypeInv
<1>r. Registered' = Registered
  BY <1>i, <1>q, RegisteredFrame
<1>l. /\ Cardinality(Leaving') = Cardinality(Leaving) + 0 /\ refs' = refs + 0 + 0
      /\ Cardinality(Registered') = Cardinality(Registered) + 0
  BY <1>i, <1>p, <1>r, ThreadFrames, CountSets, Kinds
<1>1. PendingInv'
  <2>1. pending' = [pending EXCEPT ![Bucket(o)] = @ + 1]
    BY DEF PopHead
  <2> QED BY <1>i, <1>p, <2>1, PendingMore, Kinds
<1>2. \A p \in Ops : InTable(p)' => InTable(p) \/ pc[p] = "checked"
  BY <1>i, PopMoves
<1>4. \A a \in Aborts : pc'[a] = pc[a]
  BY <1>p, Kinds
<1>5. \A p \in Ops : /\ pc'[p] = pc[p] \/ pc[p] \notin {"idle", "done"} \/ owned
                     /\ pc'[p] = "checked" => pc[p] = "checked" \/ ~ aborted
  BY <1>p, Kinds
<1> QED BY <1>l, <1>1, <1>2, <1>4, <1>5, CountFrame

\* A Send at the table.
LEMMA SendLockedCount ==
    ASSUME CoreInv, CountInv, NEW s \in Sends, SendLocked(s)
    PROVE  CountInv'
<1>i. TypeInv /\ PlaceInv /\ QueueInv /\ HandInv /\ OnePlaceInv /\ ItemInv /\ ManagerInv /\ TurnInv
      /\ PendingInv /\ refs \in Int
  BY DEF CoreInv, CountInv, TypeInv
<1>n. Next
  BY DEF Next
<1>1. /\ UNCHANGED <<key, bucketOf, manager, refs, owned, aborted, sweepAt, swept, raced,
                     callbacks, running>>
      /\ pc[s] = "checked" /\ turn' = [turn EXCEPT ![s] = Now(s)] /\ s \in Ops
  BY Kinds DEF SendLocked, args, ownerVars, abortVars, cmVars
<1>3. CASE ~ Holds(s, Calls) /\ PushBack(s) /\ Go(s, "done")
  <2>1. table[key[s]] \in Seq(Sends)
    BY <1>i, <1>1, <1>3, HoldsFacts
  <2>2. \A p \in Ops : InTable(p)' => InTable(p) \/ p = s
    BY <1>i, <1>1, <1>3, <2>1, PushMoves
  <2>3. UNCHANGED <<pending, partner>>
    BY <1>3 DEF PushBack
  <2>4. Cardinality(Registered') = Cardinality(Registered) + 0 /\ refs' = refs + 0
    BY <1>i, <1>1, <2>3, RegisteredFrame, CountSets
  <2> QED BY <1>n, <1>1, <1>3, <2>2, <2>3, <2>4, ReturnCount
<1>4. CASE Holds(s, Calls) /\ PopHead(s) /\ Go(s, "calling")
  BY <1>i, <1>n, <1>1, <1>4, HoldsFacts, PopCount
<1> QED BY <1>3, <1>4 DEF SendLocked

\* A Recv at the table, with the reference for its cancellation callback.
LEMMA RecvLockedCount ==
    ASSUME CoreInv, CountInv, NEW r \in Calls, RecvLocked(r)
    PROVE  CountInv'
<1>i. TypeInv /\ PlaceInv /\ QueueInv /\ HandInv /\ OnePlaceInv /\ ItemInv /\ ManagerInv /\ TurnInv
      /\ PendingInv /\ refs \in Int
  BY DEF CoreInv, CountInv, TypeInv
<1>n. Next
  BY DEF Next
<1>1. /\ UNCHANGED <<key, bucketOf, manager, owned, aborted, sweepAt, swept, raced>>
      /\ pc[r] = "checked" /\ turn' = [turn EXCEPT ![r] = Now(r)] /\ r \in Ops
  BY Kinds DEF RecvLocked, args, abortVars
<1>3. CASE ~ Holds(r, Sends) /\ Wait(r) /\ Go(r, "done")
  <2>0. table[key[r]] \in Seq(Calls)
    BY <1>i, <1>1, <1>3, HoldsFacts
  <2>p. PushBack(r) => \A p \in Ops : InTable(p)' => InTable(p) \/ p = r
    BY <1>i, <1>1, <1>3, <2>0, PushMoves
  <2>1. CASE manager[r] = NoManager /\ PushBack(r) /\ UNCHANGED <<refs, doneVars, cmVars>>
    <3>1. UNCHANGED <<refs, callbacks, running, pending, partner>>
      BY <2>1 DEF PushBack, cmVars
    <3>2. Cardinality(Registered') = Cardinality(Registered) + 0 /\ refs' = refs + 0
      BY <1>i, <1>1, <3>1, RegisteredFrame, CountSets
    <3> QED BY <1>n, <1>1, <1>3, <2>1, <2>p, <3>1, <3>2, ReturnCount
  <2>2. CASE /\ manager[r] # NoManager /\ MayRegister(manager[r])
             /\ RegisterCallback(manager[r], r) /\ refs' = refs + 1
             /\ PushBack(r) /\ UNCHANGED doneVars
    <3>1. /\ UNCHANGED <<running, pending, partner>>
          /\ callbacks' = [callbacks EXCEPT ![manager[r]] = callbacks[manager[r]] \cup {r}]
      BY <2>2 DEF RegisterCallback, PushBack
    <3>2. /\ manager[r] \in Managers /\ cmState[manager[r]] = "open"
          /\ callbacks \in [Managers -> SUBSET Calls]
      BY <1>i, <2>2 DEF TypeInv, CancellationTypeOK, MayRegister
    <3>3. running[manager[r]] = {} /\ partner[manager[r]] = <<>> /\ r \notin callbacks[manager[r]]
      BY <1>i, <1>1, <3>2 DEF ManagerInv, HandInv
    <3>4. r \notin Registered
      <4>1. <<>> # <<r>>
        OBVIOUS
      <4> QED BY <3>3, <4>1 DEF Registered
    <3>5. \A q : q \in Registered' <=> q \in Registered \/ q = r
      <4>1. r \in Registered'
        BY <1>1, <2>2, <3>1, <3>2 DEF Registered
      <4>2. ASSUME NEW q \in Calls, q # r PROVE q \in Registered' <=> q \in Registered
        <5>1. manager[q] # NoManager => manager[q] \in Managers
          BY <1>i DEF TypeInv
        <5>2. manager[q] # NoManager => (q \in callbacks'[manager[q]] <=> q \in callbacks[manager[q]])
          BY <3>1, <3>2, <4>2, <5>1
        <5> QED BY <1>1, <3>1, <5>2 DEF Registered
      <4>3. \A q : q \in Registered \/ q \in Registered' => q \in Calls
        BY DEF Registered
      <4> QED BY <4>1, <4>2, <4>3
    <3>6. Cardinality(Registered') = Cardinality(Registered) + 1
      BY <3>4, <3>5, CountMore, CountSets
    <3> QED BY <1>n, <1>1, <1>3, <2>2, <2>p, <3>1, <3>6, ReturnCount
  <2>3. CASE /\ manager[r] # NoManager /\ ~ MayRegister(manager[r])
             /\ Done(r, "cancelled", {}) /\ UNCHANGED <<refs, tableVars, partner, cmVars>>
    <3>1. UNCHANGED <<refs, table, pending, partner, callbacks, running>>
      BY <2>3 DEF tableVars, cmVars
    <3>2. Cardinality(Registered') = Cardinality(Registered) + 0 /\ refs' = refs + 0
      BY <1>i, <1>1, <3>1, RegisteredFrame, CountSets
    <3>3. \A p \in Ops : InTable(p)' => InTable(p) \/ p = r
      BY <1>1, <3>1 DEF InTable
    <3> QED BY <1>n, <1>1, <1>3, <3>1, <3>2, <3>3, ReturnCount
  <2> QED BY <1>3, <2>1, <2>2, <2>3 DEF Wait
<1>4. CASE Holds(r, Sends) /\ PopHead(r) /\ Go(r, "calling") /\ UNCHANGED <<refs, doneVars, cmVars>>
  <2>1. UNCHANGED <<refs, callbacks, running>>
    BY <1>4 DEF cmVars
  <2> QED BY <1>i, <1>n, <1>1, <1>4, <2>1, HoldsFacts, PopCount
<1> QED BY <1>3, <1>4 DEF RecvLocked

\* StartCancel takes the callbacks with their references.
LEMMA StartCancelCount ==
    ASSUME CoreInv, CountInv, NEW m \in Managers, StartCancel(m)
    PROVE  CountInv'
<1>i. TypeInv /\ PlaceInv /\ QueueInv /\ HandInv /\ OnePlaceInv /\ ItemInv /\ ManagerInv /\ TurnInv
      /\ PendingInv /\ refs \in Int
  BY DEF CoreInv, CountInv, TypeInv
<1>n. Next
  BY DEF Next
<1>q. UNCHANGED <<key, bucketOf, manager, table, pending, refs, owned, aborted, sweepAt, swept,
                  raced,
                  partner>>
  BY DEF StartCancel, args, tableVars, ownerVars, abortVars
<1>p. /\ m \in Threads /\ m \notin Aborts /\ m \notin Ops
      /\ \A t \in Threads : t # m => pc'[t] = pc[t]
  BY <1>i, Kinds DEF StartCancel, Go, TypeInv
<1>c. /\ pc[m] = "idle"
      /\ \A n \in Managers : /\ callbacks'[n] = IF n = m THEN {} ELSE callbacks[n]
                             /\ running'[n] = IF n = m THEN callbacks[n] ELSE running[n]
  BY <1>i DEF StartCancel, BeginCancel, TypeInv, CancellationTypeOK
<1>r. /\ Cardinality(Registered') = Cardinality(Registered) + 0 /\ refs' = refs + 0 + 0
  <2>1. ASSUME NEW q \in Calls, manager[q] # NoManager
        PROVE  q \in Registered' <=> q \in Registered
    <3>1. manager[q] \in Managers
      BY <1>i, <2>1 DEF TypeInv
    <3>2. CASE manager[q] # m
      BY <1>q, <1>c, <2>1, <3>1, <3>2 DEF Registered
    <3>3. CASE manager[q] = m
      <4>1. running[m] = {}
        BY <1>c, <1>i DEF ManagerInv
      <4> QED BY <1>q, <1>c, <2>1, <3>1, <3>3, <4>1 DEF Registered
    <3> QED BY <3>2, <3>3
  <2>2. \A q : q \in Registered \/ q \in Registered' => q \in Calls /\ manager[q] # NoManager
    BY <1>q DEF Registered
  <2>3. Registered' = Registered
    BY <2>1, <2>2
  <2> QED BY <1>i, <1>q, <2>3, CountSets
<1>2. \A p \in Ops : InTable(p)' => InTable(p) \/ pc[p] = "checked"
  BY <1>q DEF InTable
<1>5. /\ \A p \in Ops : pc'[p] = pc[p]
      /\ \A a \in Aborts : pc'[a] = pc[a]
  BY <1>p, Kinds
<1>l. Cardinality(Leaving') = Cardinality(Leaving) + 0
  BY <1>5, ThreadFrames, CountSets
<1>1. PendingInv'
  BY <1>i, <1>q, <1>5, PendingFrame
<1> QED BY <1>n, <1>q, <1>r, <1>l, <1>1, <1>2, <1>5, CountFrame

\* The running callback keeps its reference.
LEMMA CancelLockedCount ==
    ASSUME CoreInv, CountInv, NEW m \in Managers, CancelLocked(m)
    PROVE  CountInv'
<1>i. TypeInv /\ PlaceInv /\ QueueInv /\ HandInv /\ OnePlaceInv /\ ItemInv /\ ManagerInv /\ TurnInv
      /\ PendingInv /\ refs \in Int
  BY DEF CoreInv, CountInv, TypeInv
<1>n. Next
  BY DEF Next
<1>q. /\ UNCHANGED <<key, bucketOf, manager, pending, refs, owned, aborted, sweepAt, swept,
                     raced, turn>>
      /\ pc[m] = "callbacks"
  BY DEF CancelLocked, NotFound, args, ownerVars, abortVars
<1>p. /\ m \in Threads /\ m \notin Aborts /\ m \notin Ops
      /\ \A t \in Threads : t # m => pc'[t] = pc[t]
  BY <1>i, Kinds DEF CancelLocked, NotFound, Go, TypeInv
<1>s. PICK r \in running[m] :
         /\ NextCallback(m, r) /\ partner' = [partner EXCEPT ![m] = <<r>>]
         /\ \/ \E i \in DOMAIN table[key[r]] :
                  /\ table[key[r]][i] = r
                  /\ table' = [table EXCEPT ![key[r]] = Without(table[key[r]], i)]
                  /\ Go(m, "calling")
            \/ UNCHANGED table
  BY DEF CancelLocked, NotFound
<1>t. r \in Calls /\ r \in Ops /\ manager[r] = m
  BY <1>i, Kinds DEF ManagerInv, TypeInv, CancellationTypeOK
<1>c. /\ UNCHANGED callbacks
      /\ \A n \in Managers : /\ running'[n] = IF n = m THEN running[n] \ {r} ELSE running[n]
                             /\ partner'[n] = IF n = m THEN <<r>> ELSE partner[n]
  BY <1>i, <1>s, Kinds DEF NextCallback, TypeInv, CancellationTypeOK
<1>r. /\ Cardinality(Registered') = Cardinality(Registered) + 0 /\ refs' = refs + 0 + 0
  <2>1. ASSUME NEW q \in Calls, manager[q] # NoManager
        PROVE  q \in Registered' <=> q \in Registered
    <3>1. manager[q] \in Managers
      BY <1>i, <2>1 DEF TypeInv
    <3>2. CASE manager[q] # m
      BY <1>q, <1>c, <2>1, <3>1, <3>2 DEF Registered
    <3>3. CASE manager[q] = m
      <4>1. partner[m] = <<>> /\ partner'[m] = <<r>> /\ <<>> # <<q>> /\ (<<q>> = <<r>> <=> q = r)
        BY <1>q, <1>c, <1>i DEF HandInv
      <4> QED BY <1>q, <1>c, <1>s, <2>1, <3>1, <3>3, <4>1 DEF Registered
    <3> QED BY <3>2, <3>3
  <2>2. \A q : q \in Registered \/ q \in Registered' => q \in Calls /\ manager[q] # NoManager
    BY <1>q DEF Registered
  <2>3. Registered' = Registered
    BY <2>1, <2>2
  <2> QED BY <1>i, <1>q, <2>3, CountSets
<1>2. \A p \in Ops : InTable(p)' => InTable(p) \/ pc[p] = "checked"
  <2>1. CASE UNCHANGED table
    BY <1>q, <2>1 DEF InTable
  <2>2. CASE \E i \in DOMAIN table[key[r]] :
                  /\ table[key[r]][i] = r
                  /\ table' = [table EXCEPT ![key[r]] = Without(table[key[r]], i)]
                  /\ Go(m, "calling")
    BY <1>i, <1>q, <1>s, <1>t, <2>2, CancelMoves
  <2> QED BY <1>s, <2>1, <2>2
<1>5. /\ \A p \in Ops : pc'[p] = pc[p]
      /\ \A a \in Aborts : pc'[a] = pc[a]
  BY <1>p, Kinds
<1>l. Cardinality(Leaving') = Cardinality(Leaving) + 0
  BY <1>5, ThreadFrames, CountSets
<1>1. PendingInv'
  BY <1>i, <1>q, <1>5, PendingFrame
<1> QED BY <1>n, <1>q, <1>r, <1>l, <1>1, <1>2, <1>5, CountFrame

\* All cancellation callbacks have returned.
LEMMA CancelledCount ==
    ASSUME CoreInv, CountInv, NEW m \in Managers, Cancelled(m)
    PROVE  CountInv'
<1>i. TypeInv /\ PlaceInv /\ QueueInv /\ HandInv /\ OnePlaceInv /\ ItemInv /\ ManagerInv /\ TurnInv
      /\ PendingInv /\ refs \in Int
  BY DEF CoreInv, CountInv, TypeInv
<1>n. Next
  BY DEF Next
<1>q. UNCHANGED <<key, bucketOf, manager, table, pending, refs, owned, aborted, sweepAt, swept,
                  raced,
                  partner, callbacks, running>>
  BY DEF Cancelled, EndCancel, args, tableVars, ownerVars, abortVars
<1>p. /\ m \in Threads /\ m \notin Aborts /\ m \notin Ops
      /\ \A t \in Threads : t # m => pc'[t] = pc[t]
  BY <1>i, Kinds DEF Cancelled, Go, TypeInv
<1>r. /\ Cardinality(Registered') = Cardinality(Registered) + 0 /\ refs' = refs + 0 + 0
  BY <1>i, <1>q, RegisteredFrame, CountSets
<1>2. \A p \in Ops : InTable(p)' => InTable(p) \/ pc[p] = "checked"
  BY <1>q DEF InTable
<1>5. /\ \A p \in Ops : pc'[p] = pc[p]
      /\ \A a \in Aborts : pc'[a] = pc[a]
  BY <1>p, Kinds
<1>l. Cardinality(Leaving') = Cardinality(Leaving) + 0
  BY <1>5, ThreadFrames, CountSets
<1>1. PendingInv'
  BY <1>i, <1>q, <1>5, PendingFrame
<1> QED BY <1>n, <1>q, <1>r, <1>l, <1>1, <1>2, <1>5, CountFrame

\* A cancellation callback drops its reference.
LEMMA CancelLeavesCount ==
    ASSUME CoreInv, CountInv, NEW m \in Managers, CancelLeaves(m)
    PROVE  CountInv'
<1>i. TypeInv /\ PlaceInv /\ QueueInv /\ HandInv /\ OnePlaceInv /\ ItemInv /\ ManagerInv /\ TurnInv
      /\ PendingInv /\ refs \in Int
  BY DEF CoreInv, CountInv, TypeInv
<1>n. Next
  BY DEF Next
<1>q. /\ UNCHANGED <<key, bucketOf, manager, table, pending, owned, aborted, sweepAt, swept, raced,
                     callbacks, running>>
      /\ refs' = refs - 1 /\ pc[m] = "leaving"
  BY DEF CancelLeaves, args, tableVars, abortVars, cmVars
<1>p. /\ m \in Threads /\ m \notin Aborts /\ m \notin Ops
      /\ \A t \in Threads : t # m => pc'[t] = pc[t]
  BY <1>i, Kinds DEF CancelLeaves, Go, TypeInv
<1>s. PICK r \in Calls : partner[m] = <<r>> /\ manager[r] = m /\ r \notin running[m]
  BY <1>i, <1>q DEF HandInv
<1>c. \A n \in Managers : partner'[n] = IF n = m THEN <<>> ELSE partner[n]
  BY <1>i, Kinds DEF CancelLeaves, TypeInv
<1>d. callbacks[m] = {} /\ m # NoManager
  BY <1>i, <1>q, ManagersAssumption DEF ManagerInv
<1>e. r \in Registered
  BY <1>s, <1>d DEF Registered
<1>f. \A q : q \in Registered' <=> q \in Registered /\ q # r
  <2>1. ASSUME NEW q \in Calls, manager[q] # NoManager
        PROVE  q \in Registered' <=> q \in Registered /\ q # r
    <3>1. manager[q] \in Managers
      BY <1>i, <2>1 DEF TypeInv
    <3>2. CASE manager[q] # m
      BY <1>q, <1>c, <1>s, <2>1, <3>1, <3>2 DEF Registered
    <3>3. CASE manager[q] = m
      <4>1. <<>> # <<q>> /\ (<<r>> = <<q>> <=> r = q)
        OBVIOUS
      <4> QED BY <1>q, <1>c, <1>s, <1>d, <2>1, <3>1, <3>3, <4>1 DEF Registered
    <3> QED BY <3>2, <3>3
  <2>2. \A q : q \in Registered \/ q \in Registered' => q \in Calls /\ manager[q] # NoManager
    BY <1>q DEF Registered
  <2> QED BY <2>1, <2>2
<1>r. /\ Cardinality(Registered') = Cardinality(Registered) + (0 - 1) /\ refs' = refs + (0 - 1) + 0
  <2>1. Cardinality(Registered') = Cardinality(Registered) - 1
    BY <1>e, <1>f, CountLess, CountSets
  <2> QED BY <1>i, <1>q, <2>1, CountSets
<1>2. \A p \in Ops : InTable(p)' => InTable(p) \/ pc[p] = "checked"
  BY <1>q DEF InTable
<1>5. /\ \A p \in Ops : pc'[p] = pc[p]
      /\ \A a \in Aborts : pc'[a] = pc[a]
  BY <1>p, Kinds
<1>l. Cardinality(Leaving') = Cardinality(Leaving) + 0
  BY <1>5, ThreadFrames, CountSets
<1>1. PendingInv'
  BY <1>i, <1>q, <1>5, PendingFrame
<1> QED BY <1>n, <1>q, <1>r, <1>l, <1>1, <1>2, <1>5, CountFrame

\* An executor that fails takes a reference for its abort.
LEMMA WhenDoneCount ==
    ASSUME CoreInv, CountInv, NEW a \in Aborts, WhenDone(a)
    PROVE  CountInv'
<1>i. /\ TypeInv /\ PlaceInv /\ QueueInv /\ refs \in Int /\ sweepAt \in [Aborts -> 0..(Shards + 1)]
      /\ ReferencesAreExact /\ PendingInv /\ OwnerInv /\ AbortInv /\ Shards \in Nat
      /\ swept \in [Aborts -> [Keys -> Seq(Ops)]]
  BY ShardsAssumption DEF CoreInv, CountInv, TypeInv
<1>n. Next
  BY DEF Next
<1>q. /\ UNCHANGED <<key, bucketOf, manager, table, pending, owned, aborted, sweepAt, swept,
                     raced, partner,
                     callbacks, running>>
      /\ pc[a] = "idle" /\ refs' = refs + 1
  BY DEF WhenDone, AbortRef, args, tableVars, abortVars, cmVars
<1>p. \A t \in Threads : pc'[t] = IF t = a THEN "failed" ELSE pc[t]
  BY <1>i, Kinds DEF WhenDone, Go, TypeInv
<1>o. \A o \in Ops : pc'[o] = pc[o]
  BY <1>p, Kinds
<1>l. Cardinality(Leaving') = Cardinality(Leaving) + 0
  BY <1>o, ThreadFrames, CountSets
<1>r. Cardinality(Registered') = Cardinality(Registered) + 0
  BY <1>i, <1>q, RegisteredFrame, CountSets
<1>w. OwnerInv'
  BY <1>i, <1>n, <1>q, <1>o, AnsweredGrows, OwnerFrame, Kinds
<1>b. PendingInv'
  BY <1>i, <1>q, <1>o, PendingFrame
<1>v. \A o \in Ops : bucketOf[key[o]] \in 1..Shards
  BY <1>i DEF TypeInv
<1>1. ReferencesAreExact'
  <2>1. a \notin Aborting /\ \A c : c \in Aborting' <=> c \in Aborting \/ c = a
    BY <1>p, <1>q, Kinds DEF Aborting
  <2>2. Cardinality(Aborting') = Cardinality(Aborting) + 1
    BY <2>1, CountMore, CountSets
  <2>3. refs' = refs + 0 + 0 + 1
    BY <1>i, <1>q
  <2> QED BY <1>i, <1>q, <1>r, <1>l, <2>2, <2>3, RefsChange
<1>2. AbortInv'
  <2>1. \A o \in Ops : InTable(o)' <=> InTable(o)
    BY <1>q DEF InTable
  <2> QED BY <1>i, <1>q, <1>p, <1>o, <2>1, Kinds DEF AbortInv
<1> QED BY <1>1, <1>2, <1>w, <1>b DEF CountInv

\* The calls that have read the status before are the ones that race.
LEMMA StartAbortCount ==
    ASSUME CoreInv, CountInv, NEW a \in Aborts, StartAbort(a)
    PROVE  CountInv'
<1>i. /\ TypeInv /\ PlaceInv /\ QueueInv /\ refs \in Int /\ sweepAt \in [Aborts -> 0..(Shards + 1)]
      /\ ReferencesAreExact /\ PendingInv /\ OwnerInv /\ AbortInv /\ Shards \in Nat
      /\ swept \in [Aborts -> [Keys -> Seq(Ops)]]
  BY ShardsAssumption DEF CoreInv, CountInv, TypeInv
<1>n. Next
  BY DEF Next
<1>q. /\ UNCHANGED <<key, bucketOf, manager, table, pending, refs, owned, swept, partner,
                     callbacks, running>>
      /\ pc[a] = "failed" /\ aborted' = TRUE
      /\ raced' = (IF aborted THEN raced ELSE {o \in Ops : pc[o] = "checked"})
      /\ \A c \in Aborts : sweepAt'[c] = IF c = a THEN 1 ELSE sweepAt[c]
  BY <1>i DEF StartAbort, args, tableVars, ownerVars, cmVars
<1>p. \A t \in Threads : pc'[t] = IF t = a THEN "sweep" ELSE pc[t]
  BY <1>i, Kinds DEF StartAbort, Go, TypeInv
<1>o. \A o \in Ops : pc'[o] = pc[o]
  BY <1>p, Kinds
<1>l. Cardinality(Leaving') = Cardinality(Leaving) + 0
  BY <1>o, ThreadFrames, CountSets
<1>r. Cardinality(Registered') = Cardinality(Registered) + 0
  BY <1>i, <1>q, RegisteredFrame, CountSets
<1>w. OwnerInv'
  BY <1>i, <1>n, <1>q, <1>o, AnsweredGrows, OwnerFrame, Kinds
<1>b. PendingInv'
  BY <1>i, <1>q, <1>o, PendingFrame
<1>v. \A o \in Ops : bucketOf[key[o]] \in 1..Shards
  BY <1>i DEF TypeInv
<1>1. ReferencesAreExact'
  <2>1. \A c : c \in Aborting' <=> c \in Aborting
    BY <1>p, <1>q, Kinds DEF Aborting
  <2>2. Aborting' = Aborting
    BY <2>1
  <2>3. Cardinality(Aborting') = Cardinality(Aborting) + 0 /\ refs' = refs + 0 + 0 + 0
    BY <1>i, <1>q, <2>2, CountSets
  <2> QED BY <1>i, <1>q, <1>r, <1>l, <2>3, RefsChange
<1>2. AbortInv'
  <2>1. ASSUME NEW c \in Aborts
        PROVE  /\ pc'[c] \in {"idle", "failed"} => sweepAt'[c] = 0
               /\ pc'[c] \in {"sweep", "done"} => aborted' /\ sweepAt'[c] >= 1
               /\ pc'[c] = "done" => sweepAt'[c] = Shards + 1
               /\ pc'[c] # "sweep" => \A k \in Keys : swept'[c][k] = <<>>
    <3>1. c \in Threads /\ sweepAt[c] \in Int
      BY <1>i, Kinds
    <3>2. CASE c = a
      BY <1>p, <1>q, <3>1, <3>2
    <3>3. CASE c # a
      BY <1>i, <1>p, <1>q, <3>1, <3>3 DEF AbortInv
    <3> QED BY <3>2, <3>3
  <2>2. \A o \in Ops : pc'[o] = "checked" => o \in raced'
    BY <1>i, <1>o, <1>q DEF AbortInv
  <2>3. ASSUME NEW c \in Aborts, NEW o \in Ops, InTable(o)', sweepAt'[c] > bucketOf[key[o]]
        PROVE  o \in raced'
    <3>1. InTable(o) /\ c # a
      BY <1>q, <1>v, <2>3 DEF InTable
    <3>2. sweepAt[c] # 0 /\ sweepAt[c] > bucketOf[key[o]]
      BY <1>q, <1>v, <2>3, <3>1
    <3>3. aborted /\ o \in raced
      BY <1>i, <3>1, <3>2 DEF AbortInv, PlaceInv
    <3> QED BY <1>q, <3>3
  <2> QED BY <1>q, <2>1, <2>2, <2>3 DEF AbortInv
<1> QED BY <1>1, <1>2, <1>w, <1>b DEF CountInv

\* A bucket is swept.
LEMMA SwapCount ==
    ASSUME CoreInv, CountInv, NEW a \in Aborts, SwapTable(a)
    PROVE  CountInv'
<1>i. /\ TypeInv /\ PlaceInv /\ QueueInv /\ refs \in Int /\ sweepAt \in [Aborts -> 0..(Shards + 1)]
      /\ ReferencesAreExact /\ PendingInv /\ OwnerInv /\ AbortInv /\ Shards \in Nat
      /\ swept \in [Aborts -> [Keys -> Seq(Ops)]]
  BY ShardsAssumption DEF CoreInv, CountInv, TypeInv
<1>n. Next
  BY DEF Next
<1>q. /\ UNCHANGED <<key, bucketOf, manager, pending, refs, owned, aborted, raced, pc, partner,
                     callbacks,
                     running>>
      /\ pc[a] = "sweep"
      /\ \A c \in Aborts : sweepAt'[c] = IF c = a THEN sweepAt[a] + 1 ELSE sweepAt[c]
      /\ \A c \in Aborts : c # a => swept'[c] = swept[c]
  BY <1>i DEF SwapTable, args, ownerVars, cmVars
<1>o. \A o \in Ops : pc'[o] = pc[o]
  BY <1>q
<1>l. Cardinality(Leaving') = Cardinality(Leaving) + 0 /\ Cardinality(Aborting') = Cardinality(Aborting) + 0
  BY <1>q, ThreadFrames, CountSets
<1>r. Cardinality(Registered') = Cardinality(Registered) + 0
  BY <1>i, <1>q, RegisteredFrame, CountSets
<1>w. OwnerInv'
  BY <1>i, <1>n, <1>q, <1>o, AnsweredGrows, OwnerFrame, Kinds
<1>b. PendingInv'
  BY <1>i, <1>q, <1>o, PendingFrame
<1>v. \A o \in Ops : bucketOf[key[o]] \in 1..Shards
  BY <1>i DEF TypeInv
<1>1. ReferencesAreExact'
  <2>1. refs' = refs + 0 + 0 + 0
    BY <1>i, <1>q
  <2> QED BY <1>i, <1>q, <1>r, <1>l, <2>1, RefsChange
<1>2. AbortInv'
  <2>1. ASSUME NEW c \in Aborts
        PROVE  /\ pc'[c] \in {"idle", "failed"} => sweepAt'[c] = 0
               /\ pc'[c] \in {"sweep", "done"} => aborted' /\ sweepAt'[c] >= 1
               /\ pc'[c] = "done" => sweepAt'[c] = Shards + 1
               /\ pc'[c] # "sweep" => \A k \in Keys : swept'[c][k] = <<>>
    <3>1. sweepAt[c] \in Int
      BY <1>i
    <3>2. CASE c = a
      BY <1>i, <1>q, <3>1, <3>2 DEF AbortInv
    <3>3. CASE c # a
      BY <1>i, <1>q, <3>3 DEF AbortInv
    <3> QED BY <3>2, <3>3
  <2>2. aborted => \A o \in Ops : pc[o] = "checked" => o \in raced
    BY <1>i DEF AbortInv
  <2>3. ASSUME NEW c \in Aborts, NEW o \in Ops, InTable(o)', sweepAt'[c] > bucketOf[key[o]]
        PROVE  o \in raced
    <3>1. InTable(o) /\ bucketOf[key[o]] # sweepAt[a]
      BY <1>i, <2>3, SwapMoves
    <3>2. sweepAt[c] \in Int /\ sweepAt[a] \in Int /\ bucketOf[key[o]] \in Int
      BY <1>i, <1>v
    <3>3. sweepAt'[c] = IF c = a THEN sweepAt[a] + 1 ELSE sweepAt[c]
      BY <1>q
    <3>4. sweepAt[c] > bucketOf[key[o]]
      BY <2>3, <3>1, <3>2, <3>3
    <3> QED BY <1>i, <3>1, <3>4 DEF AbortInv
  <2> QED BY <1>q, <2>1, <2>2, <2>3 DEF AbortInv
<1> QED BY <1>1, <1>2, <1>w, <1>b DEF CountInv

\* One item of a bucket is dealt with.
LEMMA AbortItemCount ==
    ASSUME CoreInv, CountInv, NEW a \in Aborts, AbortItem(a)
    PROVE  CountInv'
<1>i. /\ TypeInv /\ PlaceInv /\ QueueInv /\ refs \in Int /\ sweepAt \in [Aborts -> 0..(Shards + 1)]
      /\ ReferencesAreExact /\ PendingInv /\ OwnerInv /\ AbortInv /\ Shards \in Nat
      /\ swept \in [Aborts -> [Keys -> Seq(Ops)]]
  BY ShardsAssumption DEF CoreInv, CountInv, TypeInv
<1>n. Next
  BY DEF Next
<1>q. UNCHANGED <<key, bucketOf, manager, table, pending, owned, aborted, sweepAt, raced, pc,
                  partner, turn>>
      /\ pc[a] = "sweep"
  BY DEF AbortItem, args, tableVars
<1>k. PICK k \in Keys :
         /\ swept[a][k] # <<>>
         /\ IF Head(swept[a][k]) \in Calls
               THEN /\ Waiter(Head(swept[a][k]), "aborted", {})
                    /\ refs' = refs - Dropped(Head(swept[a][k]))
               ELSE UNCHANGED <<doneVars, refs, cmVars>>
         /\ swept' = [swept EXCEPT ![a][k] = Tail(@)]
  BY DEF AbortItem
<1>o. \A o \in Ops : pc'[o] = pc[o]
  BY <1>q
<1>l. Cardinality(Leaving') = Cardinality(Leaving) + 0 /\ Cardinality(Aborting') = Cardinality(Aborting) + 0
  BY <1>q, ThreadFrames, CountSets
<1>w. OwnerInv'
  BY <1>i, <1>n, <1>q, <1>o, AnsweredGrows, OwnerFrame, Kinds
<1>b. PendingInv'
  BY <1>i, <1>q, <1>o, PendingFrame
<1>v. \A o \in Ops : bucketOf[key[o]] \in 1..Shards
  BY <1>i DEF TypeInv
<1> DEFINE o == Head(swept[a][k])
<1>3. HeldBy(a, o)
  BY <1>i, <1>q, <1>k, AbortItemMoves
<1>4. /\ o \in Calls => Waiter(o, "aborted", {}) /\ refs' = refs - Dropped(o)
      /\ o \notin Calls => UNCHANGED <<refs, callbacks, running>>
  BY <1>k DEF cmVars
<1> HIDE DEF o
<1>1. ReferencesAreExact'
  <2>1. CASE o \in Calls
    <3>1. /\ Dropped(o) \in Int
          /\ Cardinality(Registered') = Cardinality(Registered) + (0 - Dropped(o))
      BY <1>q, <1>3, <1>4, <2>1, WaiterRefs, Kinds
    <3>2. refs' = refs + (0 - Dropped(o)) + 0 + 0 /\ 0 - Dropped(o) \in Int
      BY <1>i, <1>4, <2>1, <3>1
    <3> QED BY <1>i, <1>q, <1>l, <3>1, <3>2, RefsChange
  <2>2. CASE o \notin Calls
    <3>1. refs' = refs + 0 + 0 + 0 /\ Cardinality(Registered') = Cardinality(Registered) + 0
      BY <1>i, <1>q, <1>4, <2>2, RegisteredFrame, CountSets
    <3> QED BY <1>i, <1>q, <1>l, <3>1, RefsChange
  <2> QED BY <2>1, <2>2
<1>2. AbortInv'
  <2>1. \A c \in Aborts : c # a => swept'[c] = swept[c]
    BY <1>i, <1>k
  <2>2. \A p \in Ops : InTable(p)' <=> InTable(p)
    BY <1>q DEF InTable
  <2> QED BY <1>i, <1>q, <2>1, <2>2 DEF AbortInv
<1> QED BY <1>1, <1>2, <1>w, <1>b DEF CountInv

\* The reference of the abort is dropped.
LEMMA EndAbortCount ==
    ASSUME CoreInv, CountInv, NEW a \in Aborts, EndAbort(a)
    PROVE  CountInv'
<1>i. /\ TypeInv /\ PlaceInv /\ QueueInv /\ refs \in Int /\ sweepAt \in [Aborts -> 0..(Shards + 1)]
      /\ ReferencesAreExact /\ PendingInv /\ OwnerInv /\ AbortInv /\ Shards \in Nat
      /\ swept \in [Aborts -> [Keys -> Seq(Ops)]]
  BY ShardsAssumption DEF CoreInv, CountInv, TypeInv
<1>n. Next
  BY DEF Next
<1>q. /\ UNCHANGED <<key, bucketOf, manager, table, pending, owned, aborted, sweepAt, swept,
                     raced, partner,
                     callbacks, running>>
      /\ pc[a] = "sweep" /\ refs' = refs - 1 /\ sweepAt[a] > Shards /\ \A k \in Keys : swept[a][k] = <<>>
  BY DEF EndAbort, AbortRef, LastBucket, Swept, args, tableVars, abortVars, cmVars
<1>p. \A t \in Threads : pc'[t] = IF t = a THEN "done" ELSE pc[t]
  BY <1>i, Kinds DEF EndAbort, Go, TypeInv
<1>o. \A o \in Ops : pc'[o] = pc[o]
  BY <1>p, Kinds
<1>l. Cardinality(Leaving') = Cardinality(Leaving) + 0
  BY <1>o, ThreadFrames, CountSets
<1>r. Cardinality(Registered') = Cardinality(Registered) + 0
  BY <1>i, <1>q, RegisteredFrame, CountSets
<1>w. OwnerInv'
  BY <1>i, <1>n, <1>q, <1>o, AnsweredGrows, OwnerFrame, Kinds
<1>b. PendingInv'
  BY <1>i, <1>q, <1>o, PendingFrame
<1>v. \A o \in Ops : bucketOf[key[o]] \in 1..Shards
  BY <1>i DEF TypeInv
<1>1. ReferencesAreExact'
  <2>1. a \in Aborting /\ \A c : c \in Aborting' <=> c \in Aborting /\ c # a
    BY <1>p, <1>q, Kinds DEF Aborting
  <2>2. Cardinality(Aborting') = Cardinality(Aborting) - 1
    BY <2>1, CountLess, CountSets
  <2>3. refs' = refs + 0 + 0 + (0 - 1) /\ Cardinality(Aborting') = Cardinality(Aborting) + (0 - 1)
    BY <1>i, <1>q, <2>2, CountSets
  <2> QED BY <1>i, <1>q, <1>r, <1>l, <2>3, RefsChange
<1>2. AbortInv'
  <2>1. \A o \in Ops : InTable(o)' <=> InTable(o)
    BY <1>q DEF InTable
  <2>2. sweepAt[a] = Shards + 1
    BY <1>i, <1>q
  <2> QED BY <1>i, <1>q, <1>p, <1>o, <2>1, <2>2, Kinds DEF AbortInv
<1> QED BY <1>1, <1>2, <1>w, <1>b DEF CountInv

\* The step drops its reference when its calls have returned.
LEMMA ReleaseCount ==
    ASSUME CoreInv, CountInv, Release
    PROVE  CountInv'
<1>i. /\ TypeInv /\ refs \in Int /\ ReferencesAreExact /\ PendingInv /\ AbortInv
  BY DEF CoreInv, CountInv, TypeInv
<1>q. /\ UNCHANGED <<key, bucketOf, manager, table, pending, aborted, sweepAt, swept, raced,
                     partner, pc,
                     callbacks, running, answered>>
      /\ refs' = refs - 1
      /\ \A s \in Sends : pc[s] \in {"idle", "done"}
      /\ \A r \in Calls : pc[r] = "idle" \/ answered[r] > 0
  BY DEF Release, args, tableVars, abortVars, doneVars, cmVars
<1>1. ReferencesAreExact'
  <2>1. Registered' = Registered /\ Leaving' = Leaving /\ Aborting' = Aborting
    BY <1>i, <1>q, RegisteredFrame, ThreadFrames
  <2>2. refs = Cardinality(Registered) + Cardinality(Leaving) + Cardinality(Aborting) + 1
    BY <1>i DEF Release, ReferencesAreExact, Leaving, Aborting
  <2>3. refs' = Cardinality(Registered') + Cardinality(Leaving') + Cardinality(Aborting') + 0
    BY <1>q, <2>1, <2>2, CountSets
  <2>4. ~ owned'
    BY DEF Release
  <2> QED BY <2>3, <2>4 DEF ReferencesAreExact, Leaving, Aborting
<1>2. PendingInv'
  BY <1>i, <1>q, PendingFrame
<1>3. OwnerInv'
  BY <1>q DEF OwnerInv
<1>4. AbortInv'
  BY <1>i, <1>q DEF AbortInv, InTable
<1> QED BY <1>1, <1>2, <1>3, <1>4 DEF CountInv

\* Nobody is left when the last reference is gone.
LEMMA FreedFacts ==
    ASSUME CoreInv, CountInv, refs = 0
    PROVE  /\ Registered = {} /\ ~ owned
           /\ \A o \in Ops : pc[o] \in {"idle", "done"}
           /\ \A a \in Aborts : pc[a] \in {"idle", "done"}
           /\ \A r \in Calls : pc[r] = "idle" \/ answered[r] = 1
           /\ \A b \in 1..Shards : pending[b] = 0
<1>i. TypeInv /\ PlaceInv /\ RecvInv /\ ReferencesAreExact /\ PendingInv /\ OwnerInv
  BY DEF CoreInv, CountInv
<1>1. Cardinality(Registered) = 0 /\ Cardinality(Leaving) = 0 /\ Cardinality(Aborting) = 0 /\ ~ owned
  <2> DEFINE own == IF owned THEN 1 ELSE 0
  <2>1. 0 = Cardinality(Registered) + Cardinality(Leaving) + Cardinality(Aborting) + own
    BY <1>i DEF ReferencesAreExact, Leaving, Aborting
  <2>2. own \in Nat /\ (own = 0 => ~ owned)
    OBVIOUS
  <2> HIDE DEF own
  <2>3. /\ Cardinality(Registered) \in Nat /\ Cardinality(Leaving) \in Nat
        /\ Cardinality(Aborting) \in Nat /\ own \in Nat
    BY <2>2, CountSets
  <2>4. Cardinality(Registered) = 0 /\ Cardinality(Leaving) = 0 /\ Cardinality(Aborting) = 0 /\ own = 0
    <3>1. \A w, x, y, z \in Nat : 0 = w + x + y + z => w = 0 /\ x = 0 /\ y = 0 /\ z = 0
      OBVIOUS
    <3> QED BY <2>1, <2>3, <3>1
  <2> QED BY <2>2, <2>4
<1>2. Registered = {} /\ Leaving = {} /\ Aborting = {}
  BY <1>1, CountSets, FS_EmptySet
<1>3. \A r \in Calls : answered[r] \in Nat /\ answered[r] <= 1
  BY <1>i DEF TypeInv, RecvInv
<1>4. \A r \in Calls : pc[r] = "idle" \/ answered[r] = 1
  BY <1>i, <1>1, <1>3 DEF OwnerInv
<1>5. \A r \in Calls : pc[r] \in {"idle", "done"}
  <2>1. \A r \in Calls : pc[r] # "leaving" /\ pc[r] \in {"idle", "checked", "calling", "leaving", "done"}
    BY <1>i, <1>2, Kinds DEF Leaving, PlaceInv
  <2> QED BY <1>i, <1>4, <2>1 DEF RecvInv
<1>6. \A o \in Ops : pc[o] \in {"idle", "done"}
  BY <1>i, <1>1, <1>5 DEF OwnerInv, Ops
<1>7. \A a \in Aborts : pc[a] \in {"idle", "done"}
  BY <1>i, <1>2 DEF Aborting, PlaceInv
<1>8. ASSUME NEW b \in 1..Shards PROVE pending[b] = 0
  <2>1. InCallback(b) = {}
    BY <1>6 DEF InCallback
  <2> QED BY <1>i, <2>1, FS_EmptySet DEF PendingInv
<1> QED BY <1>1, <1>2, <1>4, <1>6, <1>7, <1>8

\* The destructor finds no waiter in the table, and deletes the messages.
LEMMA DestroyFacts ==
    ASSUME CoreInv, CountInv, Destroy
    PROVE  /\ UNCHANGED <<key, bucketOf, manager, pending, refs, owned, sweepAt, swept, raced,
                          status, got,
                          answered, pc, partner, turn, cmState, callbacks, running>>
           /\ table' \in [Keys -> Seq(Sends) \cup Seq(Calls)] /\ QueueInv'
           /\ \A p \in Ops : ~ InTable(p)'
           /\ \A t \in Threads : \A p \in Ops : HeldBy(t, p)' <=> HeldBy(t, p)
           /\ \A r \in Calls : pc[r] = "idle" \/ answered[r] = 1
           /\ \A o \in Ops : pc[o] \in {"idle", "done"}
<1>i. TypeInv /\ QueueInv
  BY DEF CoreInv
<1>1. /\ UNCHANGED <<key, bucketOf, manager, pending, refs, owned, sweepAt, swept, raced, status,
                     got,
                     answered, pc, partner, turn, cmState, callbacks, running>>
      /\ refs = 0 /\ table' = [k \in Keys |-> <<>>]
  BY DEF Destroy, args, doneVars, cmVars
<1>2. /\ \A r \in Calls : pc[r] = "idle" \/ answered[r] = 1
      /\ \A o \in Ops : pc[o] \in {"idle", "done"}
  BY <1>1, FreedFacts
<1>3. <<>> \in Seq(Sends) /\ Elems(<<>>) = {} /\ Ordered(<<>>, turn)
  <2>1. <<>> \in Seq(Sends) /\ Elems(<<>>) = {}
    BY DEF Elems
  <2>2. Ordered(<<>>, turn)
    BY DEF Ordered
  <2> QED BY <2>1, <2>2
<1>4. \A k \in Keys : table'[k] = <<>>
  BY <1>1
<1>5. table' \in [Keys -> Seq(Sends) \cup Seq(Calls)]
  BY <1>1, <1>3
<1>6. QueueInv'
  BY <1>i, <1>1, <1>3, <1>4 DEF QueueInv
<1>7. \A p \in Ops : ~ InTable(p)'
  <2>1. \A p \in Ops : key'[p] \in Keys
    BY <1>i, <1>1 DEF TypeInv
  <2> QED BY <1>3, <1>4, <2>1 DEF InTable
<1>8. \A t \in Threads : \A p \in Ops : HeldBy(t, p)' <=> HeldBy(t, p)
  BY <1>1 DEF HeldBy
<1> QED BY <1>1, <1>2, <1>5, <1>6, <1>7, <1>8

\* The destructor.
LEMMA DestroyStep ==
    ASSUME CoreInv, CountInv, Destroy
    PROVE  CoreInv'
<1>i. TypeInv /\ PlaceInv /\ QueueInv /\ HandInv /\ OnePlaceInv /\ ItemInv
      /\ RecvInv /\ WaiterInv /\ ManagerInv /\ TurnInv
  BY DEF CoreInv
<1>j. \A n \in Managers : callbacks[n] \subseteq Calls /\ running[n] \subseteq Calls
  BY <1>i DEF TypeInv, CancellationTypeOK
<1>q. /\ UNCHANGED <<key, bucketOf, manager, pending, refs, owned, sweepAt, swept, raced, status,
                     got,
                     answered, pc, partner, turn, cmState, callbacks, running>>
      /\ table' \in [Keys -> Seq(Sends) \cup Seq(Calls)] /\ QueueInv'
      /\ \A p \in Ops : ~ InTable(p)'
      /\ \A t \in Threads : \A p \in Ops : HeldBy(t, p)' <=> HeldBy(t, p)
      /\ \A r \in Calls : pc[r] = "idle" \/ answered[r] = 1
  BY DestroyFacts
<1>b. destroyed' \in BOOLEAN /\ aborted' \in BOOLEAN
  <2>1. aborted \in BOOLEAN
    BY <1>i DEF TypeInv
  <2>2. aborted' \in BOOLEAN
    BY <2>1, Zenon DEF Destroy
  <2>3. destroyed' \in BOOLEAN
    BY Zenon DEF Destroy
  <2> QED BY <2>2, <2>3
<1>1. TypeInv'
  BY <1>q, <1>b, <1>i DEF TypeInv, CancellationTypeOK
<1>2. PlaceInv'
  BY <1>q, <1>i DEF PlaceInv
<1>3. QueueInv'
  BY <1>q
<1>4. HandInv'
  BY <1>q, <1>i DEF HandInv
<1>5. OnePlaceInv'
  BY <1>q, <1>i DEF OnePlaceInv
<1>6. ItemInv'
  <2>1. \A p \in Ops : InTable(p)' \/ (\E t \in Threads : HeldBy(t, p)') => Returned(p)
    BY <1>q, <1>i DEF ItemInv
  <2> QED BY <2>1, <1>q DEF ItemInv, Returned
<1>7. RecvInv'
  BY <1>q, <1>i DEF RecvInv
<1>8. WaiterInv'
  BY <1>q, Kinds DEF WaiterInv
<1>9. ManagerInv'
  BY <1>q, <1>i DEF ManagerInv
<1>10. TurnInv'
  BY <1>q, <1>i DEF TurnInv, HadTurn
<1> QED BY <1>1, <1>2, <1>3, <1>4, <1>5, <1>6, <1>7, <1>8, <1>9, <1>10 DEF CoreInv

\* The destructor finds nothing counted.
LEMMA DestroyCount ==
    ASSUME CoreInv, CountInv, Destroy
    PROVE  CountInv'
<1>i. TypeInv /\ PlaceInv /\ ReferencesAreExact /\ PendingInv /\ OwnerInv /\ AbortInv /\ refs \in Int
  BY DEF CoreInv, CountInv, TypeInv
<1>q. /\ UNCHANGED <<key, bucketOf, manager, pending, refs, owned, sweepAt, swept, raced,
                     answered, pc,
                     partner, callbacks, running>>
      /\ \A p \in Ops : ~ InTable(p)'
      /\ \A o \in Ops : pc[o] \in {"idle", "done"}
  BY DestroyFacts
<1>1. ReferencesAreExact'
  <2>1. Registered' = Registered /\ Leaving' = Leaving /\ Aborting' = Aborting
    BY <1>i, <1>q, RegisteredFrame, ThreadFrames
  <2>2. /\ Cardinality(Registered') = Cardinality(Registered) + 0
        /\ Cardinality(Leaving') = Cardinality(Leaving) + 0
        /\ Cardinality(Aborting') = Cardinality(Aborting) + 0
        /\ refs' = refs + 0 + 0 + 0
    BY <1>i, <1>q, <2>1, CountSets
  <2> QED BY <1>i, <1>q, <2>2, RefsChange
<1>2. PendingInv'
  BY <1>i, <1>q, PendingFrame
<1>3. OwnerInv'
  BY <1>i, <1>q DEF OwnerInv
<1>4. AbortInv'
  <2>1. aborted => aborted'
    BY DEF Destroy
  <2> QED BY <1>i, <1>q, <2>1 DEF AbortInv
<1> QED BY <1>1, <1>2, <1>3, <1>4 DEF CountInv

\* Every step keeps the first two parts of the invariant.
LEMMA CoreStep ==
    ASSUME CoreInv, CountInv, [Next]_vars
    PROVE  CoreInv' /\ CountInv'
<1>1. ASSUME NEW o \in Ops, Check(o) PROVE CoreInv' /\ CountInv'
  BY <1>1, CheckStep, CheckCount
<1>2. ASSUME NEW o \in Ops, Leave(o) PROVE CoreInv' /\ CountInv'
  BY <1>2, LeaveStep, LeaveCount
<1>3. ASSUME NEW s \in Sends, SendLocked(s) PROVE CoreInv' /\ CountInv'
  BY <1>3, SendLockedStep, SendLockedCount
<1>4. ASSUME NEW s \in Sends, SendCalls(s) PROVE CoreInv' /\ CountInv'
  BY <1>4, SendCallsStep, SendCallsCount
<1>5. ASSUME NEW r \in Calls, RecvLocked(r) PROVE CoreInv' /\ CountInv'
  BY <1>5, RecvLockedStep, RecvLockedCount
<1>6. ASSUME NEW r \in Calls, RecvCalls(r) PROVE CoreInv' /\ CountInv'
  BY <1>6, RecvCallsStep, RecvCallsCount
<1>7. ASSUME NEW a \in Aborts, WhenDone(a) PROVE CoreInv' /\ CountInv'
  BY <1>7, WhenDoneStep, WhenDoneCount
<1>8. ASSUME NEW a \in Aborts, StartAbort(a) PROVE CoreInv' /\ CountInv'
  BY <1>8, StartAbortStep, StartAbortCount
<1>9. ASSUME NEW a \in Aborts, SwapTable(a) PROVE CoreInv' /\ CountInv'
  BY <1>9, SwapStep, SwapCount
<1>10. ASSUME NEW a \in Aborts, AbortItem(a) PROVE CoreInv' /\ CountInv'
  BY <1>10, AbortItemStep, AbortItemCount
<1>11. ASSUME NEW a \in Aborts, EndAbort(a) PROVE CoreInv' /\ CountInv'
  BY <1>11, EndAbortStep, EndAbortCount
<1>12. ASSUME NEW m \in Managers, StartCancel(m) PROVE CoreInv' /\ CountInv'
  BY <1>12, StartCancelStep, StartCancelCount
<1>13. ASSUME NEW m \in Managers, CancelLocked(m) PROVE CoreInv' /\ CountInv'
  BY <1>13, CancelLockedStep, CancelLockedCount
<1>14. ASSUME NEW m \in Managers, CancelCalls(m) PROVE CoreInv' /\ CountInv'
  BY <1>14, CancelCallsStep, CancelCallsCount
<1>15. ASSUME NEW m \in Managers, CancelLeaves(m) PROVE CoreInv' /\ CountInv'
  BY <1>15, CancelLeavesStep, CancelLeavesCount
<1>16. ASSUME NEW m \in Managers, Cancelled(m) PROVE CoreInv' /\ CountInv'
  BY <1>16, CancelledStep, CancelledCount
<1>17. CASE Release
  BY <1>17, ReleaseStep, ReleaseCount
<1>18. CASE Destroy
  BY <1>18, DestroyStep, DestroyCount
<1>19. CASE UNCHANGED vars
  <2>1. UNCHANGED <<key, bucketOf, manager, table, pending, refs, owned, destroyed, aborted,
                    sweepAt, swept,
                    raced, status, got, answered, pc, partner, turn, cmState, callbacks, running>>
    BY <1>19 DEF vars, args, tableVars, ownerVars, abortVars, doneVars, cmVars
  <2>2. CoreInv'
    <3>1. /\ TypeInv' /\ PlaceInv' /\ QueueInv' /\ HandInv'
      BY <2>1 DEF CoreInv, TypeInv, CancellationTypeOK, PlaceInv, QueueInv, HandInv
    <3>2. OnePlaceInv' /\ ItemInv' /\ RecvInv' /\ WaiterInv'
      BY <2>1 DEF CoreInv, OnePlaceInv, ItemInv, Returned, RecvInv, WaiterInv, InTable, HeldBy
    <3>3. ManagerInv' /\ TurnInv'
      BY <2>1 DEF CoreInv, ManagerInv, TurnInv, HadTurn
    <3> QED BY <3>1, <3>2, <3>3 DEF CoreInv
  <2>3. CountInv'
    <3>1. PendingInv' /\ OwnerInv' /\ AbortInv'
      BY <2>1 DEF CountInv, PendingInv, InCallback, Bucket, OwnerInv, AbortInv, InTable
    <3>2. ReferencesAreExact'
      BY <2>1 DEF CountInv, ReferencesAreExact, Registered
    <3> QED BY <3>1, <3>2 DEF CountInv
  <2> QED BY <2>2, <2>3
<1> QED BY <1>1, <1>2, <1>3, <1>4, <1>5, <1>6, <1>7, <1>8, <1>9, <1>10, <1>11, <1>12, <1>13,
           <1>14, <1>15, <1>16, <1>17, <1>18, <1>19 DEF Next

-----------------------------------------------------------------------------
(* Messages and their receivers *)

FlowInv == MessageInv /\ MatchInv

\* No call gets its turn, nobody is brought together, no item is queued.
LEMMA FlowFrame ==
    ASSUME FlowInv, UNCHANGED <<key, turn>>, aborted => aborted',
           \A s \in Sends, r \in Calls : Matched(s, r)' <=> Matched(s, r),
           \A p \in Ops : InTable(p)' => InTable(p),
           ~ aborted' => \A s \in Sends : InTable(s) => InTable(s)'
    PROVE  FlowInv'
<1>1. MessageInv'
  BY DEF FlowInv, MessageInv
<1>2. MatchInv'
  <2>1. \A s \in Sends, r \in Calls : Matched(s, r)' =>
           key'[s] = key'[r] /\ turn'[s] > 0 /\ turn'[r] > 0
    BY DEF FlowInv, MatchInv
  <2>2. \A s, t \in Sends : \A q, r \in Calls :
           Matched(s, q)' /\ Matched(t, r)' /\ key'[s] = key'[t] =>
              (s = t <=> q = r) /\ (turn'[s] < turn'[t] <=> turn'[q] < turn'[r])
    BY DEF FlowInv, MatchInv
  <2>3. \A s \in Sends, r \in Calls : \A o \in Ops :
           Matched(s, r)' /\ InTable(o)' /\ key'[o] = key'[s] =>
              /\ o \in Sends => turn'[s] < turn'[o]
              /\ o \in Calls => turn'[r] < turn'[o]
    BY DEF FlowInv, MatchInv
  <2> QED BY <2>1, <2>2, <2>3 DEF MatchInv
<1> QED BY <1>1, <1>2 DEF FlowInv

\* A call gets its turn and finds nobody; it may have queued its item.
LEMMA FlowTurn ==
    ASSUME TypeInv, TurnInv, FlowInv, UNCHANGED <<key, aborted>>, NEW o \in Ops, turn[o] = 0,
           turn' = [turn EXCEPT ![o] = Now(o)],
           \A s \in Sends, r \in Calls : Matched(s, r)' <=> Matched(s, r),
           \A p \in Ops : InTable(p)' => InTable(p) \/ p = o,
           \A p \in Ops : InTable(p) => InTable(p)',
           o \in Sends => InTable(o)', ~ InTable(o)
    PROVE  FlowInv'
<1>i. MessageInv /\ MatchInv
  BY DEF FlowInv
<1>t. /\ \A p \in Ops : turn'[p] = IF p = o THEN Now(o) ELSE turn[p]
      /\ \A p \in Ops : key[p] = key[o] => turn[p] < Now(o)
      /\ \A p \in Ops : turn[p] \in Nat
  BY TakesTurn, NowIsLatest DEF TypeInv
<1>m. \A s \in Sends, r \in Calls : Matched(s, r) =>
         s # o /\ r # o /\ s \in Ops /\ r \in Ops /\ turn'[s] = turn[s] /\ turn'[r] = turn[r]
  BY <1>i, <1>t, Kinds DEF MatchInv
<1>1. MessageInv'
  BY <1>i, <1>t, Kinds DEF MessageInv
<1>2. MatchInv'
  <2>1. \A s \in Sends, r \in Calls : Matched(s, r)' =>
           key'[s] = key'[r] /\ turn'[s] > 0 /\ turn'[r] > 0
    BY <1>i, <1>m DEF MatchInv
  <2>2. \A s, t \in Sends : \A q, r \in Calls :
           Matched(s, q)' /\ Matched(t, r)' /\ key'[s] = key'[t] =>
              (s = t <=> q = r) /\ (turn'[s] < turn'[t] <=> turn'[q] < turn'[r])
    BY <1>i, <1>m DEF MatchInv
  <2>3. ASSUME NEW s \in Sends, NEW r \in Calls, NEW p \in Ops,
               Matched(s, r)', InTable(p)', key'[p] = key'[s]
        PROVE  /\ p \in Sends => turn'[s] < turn'[p]
               /\ p \in Calls => turn'[r] < turn'[p]
    <3>1. /\ Matched(s, r) /\ turn'[s] = turn[s] /\ turn'[r] = turn[r] /\ key[s] = key[r]
          /\ s \in Ops /\ r \in Ops
      BY <1>i, <1>m, <2>3 DEF MatchInv
    <3>2. CASE p = o
      BY <1>t, <2>3, <3>1, <3>2
    <3>3. CASE p # o
      <4>1. InTable(p) /\ turn'[p] = turn[p]
        BY <1>t, <2>3, <3>3
      <4> QED BY <1>i, <2>3, <3>1, <4>1 DEF MatchInv
    <3> QED BY <3>2, <3>3
  <2> QED BY <2>1, <2>2, <2>3 DEF MatchInv
<1> QED BY <1>1, <1>2 DEF FlowInv

\* A call gets its turn and is brought together with the first item of its key.
LEMMA FlowPair ==
    ASSUME TypeInv, TurnInv, FlowInv, UNCHANGED <<key, aborted>>, NEW o \in Ops, turn[o] = 0,
           turn' = [turn EXCEPT ![o] = Now(o)],
           NEW h \in Ops, o \in Sends <=> h \in Calls,
           key[h] = key[o], InTable(h), ~ InTable(o), turn[h] > 0,
           \A s \in Sends, r \in Calls : Matched(s, r)' <=>
              Matched(s, r) \/ (s = o /\ r = h) \/ (s = h /\ r = o),
           \A p \in Ops : InTable(p)' <=> InTable(p) /\ p # h,
           \A p \in Ops : InTable(p)' /\ key[p] = key[o] =>
              turn[h] < turn[p] /\ (p \in Sends <=> h \in Sends)
    PROVE  FlowInv'
<1>p. PICK s0 \in Sends, r0 \in Calls : (o = s0 /\ h = r0) \/ (o = r0 /\ h = s0)
  BY Kinds DEF Ops
<1>q. \A s \in Sends, r \in Calls : Matched(s, r)' <=> Matched(s, r) \/ (s = s0 /\ r = r0)
  BY <1>p, Kinds
<1>i. MessageInv /\ MatchInv
  BY DEF FlowInv
<1>t. /\ \A p \in Ops : turn'[p] = IF p = o THEN Now(o) ELSE turn[p]
      /\ \A p \in Ops : key[p] = key[o] => turn[p] < Now(o)
      /\ \A p \in Ops : turn[p] \in Nat
      /\ Now(o) \in Nat \ {0}
  BY TakesTurn, NowIsLatest DEF TypeInv
<1>k. o # h /\ s0 \in Ops /\ r0 \in Ops /\ key[s0] = key[o] /\ key[r0] = key[o] /\ s0 # r0
  BY <1>p, Kinds
<1>m. \A s \in Sends, r \in Calls : Matched(s, r) =>
         /\ s # o /\ r # o /\ s \in Ops /\ r \in Ops /\ turn'[s] = turn[s] /\ turn'[r] = turn[r]
         /\ key[s] = key[r]
  BY <1>i, <1>t, Kinds DEF MatchInv
<1>h. turn'[h] = turn[h] /\ turn'[o] = Now(o)
  BY <1>t, <1>k
\* A pair that was brought together before is earlier on both sides.
<1>e. ASSUME NEW s \in Sends, NEW r \in Calls, Matched(s, r), key[s] = key[o]
      PROVE  s # s0 /\ r # r0 /\ turn'[s] < turn'[s0] /\ turn'[r] < turn'[r0]
  <2>1. turn[s] < Now(o) /\ turn[r] < Now(o) /\ s # o /\ r # o
    BY <1>e, <1>m, <1>t
  <2>2. /\ h \in Sends => turn[s] < turn[h]
        /\ h \in Calls => turn[r] < turn[h]
    BY <1>e, <1>i, <1>k DEF MatchInv
  <2>3. turn'[s] = turn[s] /\ turn'[r] = turn[r] /\ turn[s] \in Nat /\ turn[r] \in Nat /\ turn[h] \in Nat
    BY <1>e, <1>m, <1>t
  <2>4. CASE o = s0 /\ h = r0
    BY <1>h, <2>1, <2>2, <2>3, <2>4
  <2>5. CASE o = r0 /\ h = s0
    BY <1>h, <2>1, <2>2, <2>3, <2>5
  <2> QED BY <1>p, <2>4, <2>5
<1>1. MessageInv'
  <2> SUFFICES ASSUME ~ aborted, NEW s \in Sends, turn'[s] > 0
               PROVE  InTable(s)' \/ \E r \in Calls : Matched(s, r)'
    BY DEF MessageInv
  <2>1. CASE s = s0
    BY <1>q, <2>1
  <2>2. CASE s # s0
    <3>1. s \in Ops /\ s # o /\ s # h /\ turn[s] > 0
      BY <1>p, <1>t, <2>2, Kinds
    <3> QED BY <1>i, <1>q, <3>1 DEF MessageInv
  <2> QED BY <2>1, <2>2
<1>2. MatchInv'
  <2>1. ASSUME NEW s \in Sends, NEW r \in Calls, Matched(s, r)'
        PROVE  key'[s] = key'[r] /\ turn'[s] > 0 /\ turn'[r] > 0
    <3>1. CASE Matched(s, r)
      BY <1>i, <1>m, <3>1 DEF MatchInv
    <3>2. CASE s = s0 /\ r = r0
      BY <1>p, <1>k, <1>h, <1>t, <3>2
    <3> QED BY <1>q, <2>1, <3>1, <3>2
  <2>2. ASSUME NEW s \in Sends, NEW t \in Sends, NEW q \in Calls, NEW r \in Calls,
               Matched(s, q)', Matched(t, r)', key'[s] = key'[t]
        PROVE  (s = t <=> q = r) /\ (turn'[s] < turn'[t] <=> turn'[q] < turn'[r])
    <3>0. \A p \in Ops : turn'[p] \in Nat
      BY <1>t
    <3>k. s \in Ops /\ t \in Ops /\ q \in Ops /\ r \in Ops
      BY Kinds
    <3>1. CASE Matched(s, q) /\ Matched(t, r)
      BY <1>i, <1>m, <2>2, <3>1 DEF MatchInv
    <3>2. CASE Matched(s, q) /\ t = s0 /\ r = r0
      <4>1. s # t /\ q # r /\ turn'[s] < turn'[t] /\ turn'[q] < turn'[r]
        BY <1>e, <1>k, <2>2, <3>2
      <4> QED BY <4>1
    <3>3. CASE s = s0 /\ q = r0 /\ Matched(t, r)
      <4>1. s # t /\ q # r /\ turn'[t] < turn'[s] /\ turn'[r] < turn'[q]
        BY <1>e, <1>k, <2>2, <3>3
      <4> QED BY <3>0, <3>k, <4>1
    <3>4. CASE s = s0 /\ q = r0 /\ t = s0 /\ r = r0
      BY <3>0, <3>k, <3>4
    <3> QED BY <1>q, <2>2, <3>1, <3>2, <3>3, <3>4
  <2>3. ASSUME NEW s \in Sends, NEW r \in Calls, NEW p \in Ops,
               Matched(s, r)', InTable(p)', key'[p] = key'[s]
        PROVE  /\ p \in Sends => turn'[s] < turn'[p]
               /\ p \in Calls => turn'[r] < turn'[p]
    <3>1. InTable(p) /\ p # o /\ turn'[p] = turn[p]
      BY <1>t, <2>3
    <3>2. CASE Matched(s, r)
      BY <1>i, <1>m, <2>3, <3>1, <3>2 DEF MatchInv
    <3>3. CASE s = s0 /\ r = r0
      <4>1. turn[h] < turn[p] /\ (p \in Sends <=> h \in Sends)
        BY <1>k, <2>3, <3>3
      <4>2. /\ p \in Sends => h = s0
            /\ p \in Calls => h = r0
        BY <1>p, <4>1, Kinds
      <4> QED BY <1>h, <3>1, <3>3, <4>1, <4>2
    <3> QED BY <1>q, <2>3, <3>2, <3>3
  <2> QED BY <2>1, <2>2, <2>3 DEF MatchInv
<1> QED BY <1>1, <1>2 DEF FlowInv

\* A step that moves no item and delivers nothing.
LEMMA FlowQuiet ==
    ASSUME TypeInv, FlowInv, NEW t \in Threads, NEW place, Go(t, place),
           t \notin Aborts => pc[t] # "calling" /\ place # "calling",
           UNCHANGED <<key, turn, table, swept>>, aborted => aborted',
           \A u \in Threads : u # t => partner'[u] = partner[u],
           \A r \in Calls : \A s : s \in got'[r] <=> s \in got[r]
    PROVE  FlowInv'
<1>1. \A u \in Threads : u \notin Aborts =>
         \/ pc'[u] = pc[u] /\ partner'[u] = partner[u]
         \/ pc[u] # "calling" /\ pc'[u] # "calling"
  BY DEF Go, TypeInv
<1>2. /\ \A p \in Ops : InTable(p)' <=> InTable(p)
      /\ \A u \in Threads : \A p \in Ops : HeldBy(u, p)' <=> HeldBy(u, p)
  BY <1>1, QuietMoves
<1>3. \A s \in Sends, r \in Calls : Matched(s, r)' <=> Matched(s, r)
  BY <1>2, Kinds DEF Matched
<1> QED BY <1>2, <1>3, FlowFrame, Kinds

\* status() is read.
LEMMA CheckFlow ==
    ASSUME CoreInv, CountInv, FlowInv, NEW o \in Ops, Check(o)
    PROVE  FlowInv'
<1>i. TypeInv /\ QueueInv /\ HandInv /\ ItemInv /\ ManagerInv /\ TurnInv /\ AbortInv
  BY DEF CoreInv, CountInv
<1>1. /\ UNCHANGED <<key, turn, table, swept, aborted,
                     partner>> /\ o \in Threads /\ pc[o] # "calling"
      /\ Go(o, IF aborted THEN "done" ELSE "checked")
  BY Kinds DEF Check, args, tableVars, abortVars
<1>2. \A r \in Calls : \A s : s \in got'[r] <=> s \in got[r]
  <2>1. CASE aborted /\ o \in Calls
    <3>1. Done(o, "aborted", {})
      BY <2>1 DEF Check
    <3> QED BY <1>i, <2>1, <3>1, DoneFacts
  <2>2. CASE ~ (aborted /\ o \in Calls)
    BY <2>2 DEF Check, doneVars
  <2> QED BY <2>1, <2>2
<1>3. (IF aborted THEN "done" ELSE "checked") # "calling"
  OBVIOUS
<1> QED BY <1>i, <1>1, <1>2, <1>3, FlowQuiet

\* A callback has returned.
LEMMA LeaveFlow ==
    ASSUME CoreInv, CountInv, FlowInv, NEW o \in Ops, Leave(o)
    PROVE  FlowInv'
<1>i. TypeInv /\ QueueInv /\ HandInv /\ ItemInv /\ ManagerInv /\ TurnInv /\ AbortInv
  BY DEF CoreInv, CountInv
<1>1. /\ UNCHANGED <<key, turn, table, swept, got>> /\ Go(o, "done") /\ o \in Threads
      /\ o \notin Aborts => pc[o] # "calling"
      /\ \A u \in Threads : u # o => partner'[u] = partner[u]
      /\ aborted => aborted'
  BY <1>i, Kinds DEF Leave, args, tableVars, abortVars, doneVars, TypeInv
<1> QED BY <1>i, <1>1, FlowQuiet

\* An executor fails.
LEMMA WhenDoneFlow ==
    ASSUME CoreInv, CountInv, FlowInv, NEW a \in Aborts, WhenDone(a)
    PROVE  FlowInv'
<1>i. TypeInv /\ QueueInv /\ HandInv /\ ItemInv /\ ManagerInv /\ TurnInv /\ AbortInv
  BY DEF CoreInv, CountInv
<1>1. /\ UNCHANGED <<key, turn, table, swept, got>> /\ Go(a, "failed") /\ a \in Threads
      /\ a \notin Aborts => pc[a] # "calling"
      /\ \A u \in Threads : u # a => partner'[u] = partner[u]
      /\ aborted => aborted'
  BY <1>i, Kinds DEF WhenDone, args, tableVars, abortVars, doneVars, TypeInv
<1> QED BY <1>i, <1>1, FlowQuiet

\* The status is set.
LEMMA StartAbortFlow ==
    ASSUME CoreInv, CountInv, FlowInv, NEW a \in Aborts, StartAbort(a)
    PROVE  FlowInv'
<1>i. TypeInv /\ QueueInv /\ HandInv /\ ItemInv /\ ManagerInv /\ TurnInv /\ AbortInv
  BY DEF CoreInv, CountInv
<1>1. /\ UNCHANGED <<key, turn, table, swept, got>> /\ Go(a, "sweep") /\ a \in Threads
      /\ a \notin Aborts => pc[a] # "calling"
      /\ \A u \in Threads : u # a => partner'[u] = partner[u]
      /\ aborted => aborted'
  BY <1>i, Kinds DEF StartAbort, args, tableVars, abortVars, doneVars, TypeInv
<1> QED BY <1>i, <1>1, FlowQuiet

\* The abort is over.
LEMMA EndAbortFlow ==
    ASSUME CoreInv, CountInv, FlowInv, NEW a \in Aborts, EndAbort(a)
    PROVE  FlowInv'
<1>i. TypeInv /\ QueueInv /\ HandInv /\ ItemInv /\ ManagerInv /\ TurnInv /\ AbortInv
  BY DEF CoreInv, CountInv
<1>1. /\ UNCHANGED <<key, turn, table, swept, got>> /\ Go(a, "done") /\ a \in Threads
      /\ a \notin Aborts => pc[a] # "calling"
      /\ \A u \in Threads : u # a => partner'[u] = partner[u]
      /\ aborted => aborted'
  BY <1>i, Kinds DEF EndAbort, args, tableVars, abortVars, doneVars, TypeInv
<1> QED BY <1>i, <1>1, FlowQuiet

\* StartCancel takes the callbacks.
LEMMA StartCancelFlow ==
    ASSUME CoreInv, CountInv, FlowInv, NEW m \in Managers, StartCancel(m)
    PROVE  FlowInv'
<1>i. TypeInv /\ QueueInv /\ HandInv /\ ItemInv /\ ManagerInv /\ TurnInv /\ AbortInv
  BY DEF CoreInv, CountInv
<1>1. /\ UNCHANGED <<key, turn, table, swept, got>> /\ Go(m, "callbacks") /\ m \in Threads
      /\ m \notin Aborts => pc[m] # "calling"
      /\ \A u \in Threads : u # m => partner'[u] = partner[u]
      /\ aborted => aborted'
  BY <1>i, Kinds DEF StartCancel, args, tableVars, abortVars, doneVars, TypeInv
<1> QED BY <1>i, <1>1, FlowQuiet

\* A cancellation callback has returned.
LEMMA CancelLeavesFlow ==
    ASSUME CoreInv, CountInv, FlowInv, NEW m \in Managers, CancelLeaves(m)
    PROVE  FlowInv'
<1>i. TypeInv /\ QueueInv /\ HandInv /\ ItemInv /\ ManagerInv /\ TurnInv /\ AbortInv
  BY DEF CoreInv, CountInv
<1>1. /\ UNCHANGED <<key, turn, table, swept, got>> /\ Go(m, "callbacks") /\ m \in Threads
      /\ m \notin Aborts => pc[m] # "calling"
      /\ \A u \in Threads : u # m => partner'[u] = partner[u]
      /\ aborted => aborted'
  BY <1>i, Kinds DEF CancelLeaves, args, tableVars, abortVars, doneVars, TypeInv
<1> QED BY <1>i, <1>1, FlowQuiet

\* All cancellation callbacks have returned.
LEMMA CancelledFlow ==
    ASSUME CoreInv, CountInv, FlowInv, NEW m \in Managers, Cancelled(m)
    PROVE  FlowInv'
<1>i. TypeInv /\ QueueInv /\ HandInv /\ ItemInv /\ ManagerInv /\ TurnInv /\ AbortInv
  BY DEF CoreInv, CountInv
<1>1. /\ UNCHANGED <<key, turn, table, swept, got>> /\ Go(m, "done") /\ m \in Threads
      /\ m \notin Aborts => pc[m] # "calling"
      /\ \A u \in Threads : u # m => partner'[u] = partner[u]
      /\ aborted => aborted'
  BY <1>i, Kinds DEF Cancelled, args, tableVars, abortVars, doneVars, TypeInv
<1> QED BY <1>i, <1>1, FlowQuiet

\* A bucket is swept, after the status was set.
LEMMA SwapFlow ==
    ASSUME CoreInv, CountInv, FlowInv, NEW a \in Aborts, SwapTable(a)
    PROVE  FlowInv'
<1>i. TypeInv /\ QueueInv /\ HandInv /\ ItemInv /\ ManagerInv /\ TurnInv /\ AbortInv
  BY DEF CoreInv, CountInv
<1>1. UNCHANGED <<key, turn, got, aborted>> /\ pc[a] = "sweep"
  BY DEF SwapTable, args, doneVars
<1>2. aborted
  BY <1>i, <1>1 DEF AbortInv
<1>3. /\ \A p \in Ops : InTable(p)' => InTable(p)
      /\ \A t \in Threads : \A p \in Ops : t # a => (HeldBy(t, p)' <=> HeldBy(t, p))
  BY <1>i, SwapMoves
<1>4. \A s \in Sends, r \in Calls : Matched(s, r)' <=> Matched(s, r)
  BY <1>1, <1>3, Kinds DEF Matched
<1> QED BY <1>1, <1>2, <1>3, <1>4, FlowFrame

\* A swept item is dealt with.
LEMMA AbortItemFlow ==
    ASSUME CoreInv, CountInv, FlowInv, NEW a \in Aborts, AbortItem(a)
    PROVE  FlowInv'
<1>i. TypeInv /\ QueueInv /\ HandInv /\ ItemInv /\ ManagerInv /\ TurnInv /\ AbortInv
  BY DEF CoreInv, CountInv
<1>1. UNCHANGED <<key, table, turn, pc, partner, aborted>> /\ pc[a] = "sweep"
  BY DEF AbortItem, args, tableVars
<1>2. PICK k \in Keys :
         /\ swept[a][k] # <<>>
         /\ IF Head(swept[a][k]) \in Calls
               THEN /\ Waiter(Head(swept[a][k]), "aborted", {})
                    /\ refs' = refs - Dropped(Head(swept[a][k]))
               ELSE UNCHANGED <<doneVars, refs, cmVars>>
         /\ swept' = [swept EXCEPT ![a][k] = Tail(@)]
  BY DEF AbortItem
<1> DEFINE o == Head(swept[a][k])
<1>3. /\ \A p \in Ops : InTable(p)' <=> InTable(p)
      /\ \A u \in Threads : \A p \in Ops : HeldBy(u, p)' <=> HeldBy(u, p) /\ ~ (u = a /\ p = o)
  BY <1>i, <1>1, <1>2, AbortItemMoves
<1>4. /\ o \in Calls => Waiter(o, "aborted", {})
      /\ o \notin Calls => UNCHANGED got
  BY <1>2 DEF doneVars
<1> HIDE DEF o
<1>5. \A r \in Calls : \A s : s \in got'[r] <=> s \in got[r]
  BY <1>i, <1>4, WaiterFacts
<1>6. \A s \in Sends, r \in Calls : Matched(s, r)' <=> Matched(s, r)
  BY <1>3, <1>5, Kinds DEF Matched
<1> QED BY <1>1, <1>3, <1>6, FlowFrame, Kinds

\* A cancellation unlinks a waiter and no message.
LEMMA CancelLockedFlow ==
    ASSUME CoreInv, CountInv, FlowInv, NEW m \in Managers, CancelLocked(m)
    PROVE  FlowInv'
<1>i. TypeInv /\ QueueInv /\ HandInv /\ ItemInv /\ ManagerInv /\ TurnInv /\ AbortInv
  BY DEF CoreInv, CountInv
<1>1. UNCHANGED <<key, turn, swept, got, aborted>> /\ pc[m] = "callbacks"
  BY DEF CancelLocked, NotFound, args, abortVars, doneVars
<1>2. PICK r \in running[m] :
         /\ partner' = [partner EXCEPT ![m] = <<r>>]
         /\ \/ \E i \in DOMAIN table[key[r]] :
                  /\ table[key[r]][i] = r
                  /\ table' = [table EXCEPT ![key[r]] = Without(table[key[r]], i)]
                  /\ Go(m, "calling")
            \/ Go(m, "leaving") /\ UNCHANGED table
  BY DEF CancelLocked, NotFound
<1>3. r \in Calls
  BY <1>i DEF TypeInv, CancellationTypeOK
<1>4. CASE \E i \in DOMAIN table[key[r]] :
              /\ table[key[r]][i] = r
              /\ table' = [table EXCEPT ![key[r]] = Without(table[key[r]], i)]
              /\ Go(m, "calling")
  <2>1. /\ \A p \in Ops : InTable(p)' <=> InTable(p) /\ p # r
        /\ \A t \in Threads : \A p \in Ops : HeldBy(t, p)' <=> HeldBy(t, p) \/ (t = m /\ p = r)
    BY <1>i, <1>1, <1>2, <1>3, <1>4, CancelMoves
  <2>2. \A s \in Sends, q \in Calls : Matched(s, q)' <=> Matched(s, q)
    BY <1>1, <2>1, Kinds DEF Matched
  <2> QED BY <1>1, <1>3, <2>1, <2>2, FlowFrame, Kinds
<1>5. CASE Go(m, "leaving") /\ UNCHANGED table
  <2>1. \A u \in Threads : u # m => partner'[u] = partner[u]
    BY <1>i, <1>2 DEF TypeInv
  <2> QED BY <1>i, <1>1, <1>5, <2>1, FlowQuiet, Kinds
<1> QED BY <1>2, <1>4, <1>5

\* A cancelled receiver gets no message.
LEMMA CancelCallsFlow ==
    ASSUME CoreInv, CountInv, FlowInv, NEW m \in Managers, CancelCalls(m)
    PROVE  FlowInv'
<1>i. TypeInv /\ QueueInv /\ HandInv /\ ItemInv /\ ManagerInv /\ TurnInv /\ AbortInv
  BY DEF CoreInv, CountInv
<1>1. /\ UNCHANGED <<key, table, swept, partner, turn, aborted>>
      /\ pc[m] = "calling" /\ Go(m, "leaving")
  BY DEF CancelCalls, args, tableVars, abortVars
<1>2. PICK r \in Calls : partner[m] = <<r>>
  BY <1>i, <1>1 DEF HandInv
<1>3. \A q \in Calls : \A s : s \in got'[q] <=> s \in got[q]
  <2>1. Waiter(r, "cancelled", {})
    BY <1>2 DEF CancelCalls
  <2> QED BY <1>i, <2>1, WaiterFacts
<1>4. /\ \A p \in Ops : InTable(p)' <=> InTable(p)
      /\ \A u \in Threads : \A p \in Ops : HeldBy(u, p)' <=> HeldBy(u, p) /\ u # m
  BY <1>i, <1>1, CallMoves, Kinds
<1>5. \A s \in Sends, q \in Calls : Matched(s, q)' <=> Matched(s, q)
  BY <1>3, <1>4, Kinds DEF Matched
<1> QED BY <1>1, <1>4, <1>5, FlowFrame, Kinds

\* A Send delivers its message.
LEMMA SendCallsFlow ==
    ASSUME CoreInv, CountInv, FlowInv, NEW s \in Sends, SendCalls(s)
    PROVE  FlowInv'
<1>i. TypeInv /\ QueueInv /\ HandInv /\ ItemInv /\ ManagerInv /\ TurnInv /\ AbortInv
  BY DEF CoreInv, CountInv
<1>1. /\ UNCHANGED <<key, table, swept, partner, turn, aborted>>
      /\ pc[s] = "calling" /\ Go(s, "leaving")
  BY DEF SendCalls, args, tableVars, abortVars
<1>2. PICK r \in Calls : partner[s] = <<r>>
  BY <1>i, <1>1, Kinds DEF HandInv
<1>3. \A q \in Calls : \A x : x \in got'[q] <=> x \in got[q] \/ (q = r /\ x \in {s})
  <2>1. Waiter(r, "ok", {s}) /\ {s} \subseteq Sends
    BY <1>2 DEF SendCalls
  <2> QED BY <1>i, <2>1, WaiterFacts
<1>4. /\ HeldBy(s, r) /\ \A p \in Ops : InTable(p)' <=> InTable(p)
      /\ \A u \in Threads : \A p \in Ops : HeldBy(u, p)' <=> HeldBy(u, p) /\ ~ (u = s /\ p = r)
  BY <1>i, <1>1, <1>2, HandMoves, Kinds
<1>5. \A x \in Sends, q \in Calls : Matched(x, q)' <=> Matched(x, q)
  BY <1>3, <1>4, Kinds DEF Matched
<1> QED BY <1>1, <1>4, <1>5, FlowFrame, Kinds

\* A Recv takes its message.
LEMMA RecvCallsFlow ==
    ASSUME CoreInv, CountInv, FlowInv, NEW r \in Calls, RecvCalls(r)
    PROVE  FlowInv'
<1>i. TypeInv /\ QueueInv /\ HandInv /\ ItemInv /\ ManagerInv /\ TurnInv /\ AbortInv
  BY DEF CoreInv, CountInv
<1>1. /\ UNCHANGED <<key, table, swept, partner, turn, aborted>>
      /\ pc[r] = "calling" /\ Go(r, "leaving")
  BY DEF RecvCalls, args, tableVars, abortVars
<1>2. PICK s \in Sends : partner[r] = <<s>>
  BY <1>i, <1>1, Kinds DEF HandInv, Ops
<1>3. \A q \in Calls : \A x : x \in got'[q] <=> x \in got[q] \/ (q = r /\ x \in {s})
  <2>1. Done(r, "ok", {s}) /\ {s} \subseteq Sends
    BY <1>2 DEF RecvCalls
  <2> QED BY <1>i, <2>1, DoneFacts
<1>4. /\ HeldBy(r, s) /\ \A p \in Ops : InTable(p)' <=> InTable(p)
      /\ \A u \in Threads : \A p \in Ops : HeldBy(u, p)' <=> HeldBy(u, p) /\ ~ (u = r /\ p = s)
  BY <1>i, <1>1, <1>2, HandMoves, Kinds
<1>5. \A x \in Sends, q \in Calls : Matched(x, q)' <=> Matched(x, q)
  BY <1>3, <1>4, Kinds DEF Matched
<1> QED BY <1>1, <1>4, <1>5, FlowFrame, Kinds

\* A call meets the first item of its key.
LEMMA PopFlow ==
    ASSUME CoreInv, FlowInv, NEW o \in Ops, table[key[o]] # <<>>,
           o \in Sends <=> Head(table[key[o]]) \in Calls,
           pc[o] = "checked", PopHead(o), Go(o, "calling"),
           turn' = [turn EXCEPT ![o] = Now(o)], UNCHANGED <<key, swept, got, aborted>>
    PROVE  FlowInv'
<1>i. TypeInv /\ QueueInv /\ ItemInv /\ TurnInv
  BY DEF CoreInv
<1> DEFINE h == Head(table[key[o]])
<1>1. /\ h \in Ops /\ InTable(h) /\ key[h] = key[o]
      /\ \A p \in Ops : InTable(p)' <=> InTable(p) /\ p # h
      /\ \A p \in Ops : InTable(p)' /\ key[p] = key[o] => turn[h] < turn[p]
      /\ \A t \in Threads : \A p \in Ops : HeldBy(t, p)' <=> HeldBy(t, p) \/ (t = o /\ p = h)
      /\ ~ InTable(o)
  BY <1>i, PopMoves, OldTurns
<1>2. \A p \in Ops : InTable(p) /\ key[p] = key[o] => (p \in Sends <=> h \in Sends)
  <2>1. table[key[o]] \in Seq(Sends) \/ table[key[o]] \in Seq(Calls)
    BY <1>i DEF TypeInv
  <2>2. \A p \in Ops : InTable(p) /\ key[p] = key[o] => p \in Elems(table[key[o]])
    BY DEF InTable
  <2>3. \/ \A p \in Elems(table[key[o]]) : p \in Sends
        \/ \A p \in Elems(table[key[o]]) : p \in Calls
    BY <2>1, ElemsType
  <2> QED BY <1>1, <2>2, <2>3, Kinds
<1>k. o \in Sends <=> h \in Calls
  OBVIOUS
<1> HIDE DEF h
<1>3. turn[o] = 0 /\ turn[h] > 0
  BY <1>i, <1>1 DEF TurnInv, ItemInv, Returned
<1>6. \A p \in Ops : InTable(p)' /\ key[p] = key[o] =>
         turn[h] < turn[p] /\ (p \in Sends <=> h \in Sends)
  BY <1>1, <1>2
<1>4. \A s \in Sends, r \in Calls : Matched(s, r)' <=>
         Matched(s, r) \/ (s = o /\ r = h) \/ (s = h /\ r = o)
  BY <1>1, Kinds DEF Matched
<1> QED BY <1>i, <1>k, <1>1, <1>3, <1>4, <1>6, FlowPair

\* A call queues its item behind the others.
LEMMA PushFlow ==
    ASSUME CoreInv, FlowInv, NEW o \in Ops, NEW K,
           K = Sends \/ K = Calls, o \in K, table[key[o]] \in Seq(K), pc[o] = "checked",
           PushBack(o), Go(o, "done"), turn' = [turn EXCEPT ![o] = Now(o)],
           UNCHANGED <<key, swept, got, aborted>>
    PROVE  FlowInv'
<1>i. TypeInv /\ QueueInv /\ ItemInv /\ TurnInv
  BY DEF CoreInv
<1>1. /\ \A p \in Ops : InTable(p)' <=> InTable(p) \/ p = o
      /\ \A t \in Threads : \A p \in Ops : HeldBy(t, p)' <=> HeldBy(t, p)
      /\ ~ InTable(o) /\ turn[o] = 0
  BY <1>i, PushMoves, OldTurns DEF TurnInv
<1>2. \A s \in Sends, r \in Calls : Matched(s, r)' <=> Matched(s, r)
  BY <1>1, Kinds DEF Matched
<1> QED BY <1>i, <1>1, <1>2, FlowTurn

\* A Send at the table.
LEMMA SendLockedFlow ==
    ASSUME CoreInv, CountInv, FlowInv, NEW s \in Sends, SendLocked(s)
    PROVE  FlowInv'
<1>i. TypeInv /\ QueueInv /\ HandInv /\ ItemInv /\ ManagerInv /\ TurnInv /\ AbortInv
  BY DEF CoreInv, CountInv
<1>1. /\ UNCHANGED <<key, swept, got, aborted>> /\ pc[s] = "checked" /\ s \in Ops
      /\ turn' = [turn EXCEPT ![s] = Now(s)]
  BY Kinds DEF SendLocked, args, abortVars, doneVars
<1>2. CASE ~ Holds(s, Calls) /\ PushBack(s) /\ Go(s, "done")
  BY <1>i, <1>1, <1>2, HoldsFacts, PushFlow
<1>3. CASE Holds(s, Calls) /\ PopHead(s) /\ Go(s, "calling")
  BY <1>i, <1>1, <1>3, HoldsFacts, PopFlow
<1> QED BY <1>2, <1>3 DEF SendLocked

\* A Recv at the table.
LEMMA RecvLockedFlow ==
    ASSUME CoreInv, CountInv, FlowInv, NEW r \in Calls, RecvLocked(r)
    PROVE  FlowInv'
<1>i. TypeInv /\ QueueInv /\ HandInv /\ ItemInv /\ ManagerInv /\ TurnInv /\ AbortInv
  BY DEF CoreInv, CountInv
<1>1. /\ UNCHANGED <<key, swept, aborted>> /\ pc[r] = "checked" /\ r \in Ops
      /\ turn' = [turn EXCEPT ![r] = Now(r)]
  BY Kinds DEF RecvLocked, args, abortVars
<1>2. CASE ~ Holds(r, Sends) /\ Wait(r) /\ Go(r, "done")
  <2>1. CASE PushBack(r) /\ UNCHANGED doneVars
    <3>1. UNCHANGED got
      BY <2>1 DEF doneVars
    <3> QED BY <1>i, <1>1, <1>2, <2>1, <3>1, HoldsFacts, PushFlow
  <2>2. CASE Done(r, "cancelled", {}) /\ UNCHANGED <<refs, tableVars, partner, cmVars>>
    <3>1. \A q \in Calls : \A s : s \in got'[q] <=> s \in got[q]
      BY <1>i, <2>2, DoneFacts
    <3>2. UNCHANGED <<table, partner>>
      BY <2>2 DEF tableVars
    <3>3. \A u \in Threads : u \notin Aborts =>
             \/ pc'[u] = pc[u] /\ partner'[u] = partner[u]
             \/ pc[u] # "calling" /\ pc'[u] # "calling"
      BY <1>i, <1>1, <1>2, <3>2 DEF Go, TypeInv
    <3>4. /\ \A p \in Ops : InTable(p)' <=> InTable(p)
          /\ \A t \in Threads : \A p \in Ops : HeldBy(t, p)' <=> HeldBy(t, p)
      BY <1>1, <3>2, <3>3, QuietMoves
    <3>5. \A s \in Sends, q \in Calls : Matched(s, q)' <=> Matched(s, q)
      BY <3>1, <3>4, Kinds DEF Matched
    <3>6. ~ InTable(r) /\ turn[r] = 0 /\ r \notin Sends
      BY <1>i, <1>1, OldTurns, Kinds DEF TurnInv
    <3> QED BY <1>i, <1>1, <3>4, <3>5, <3>6, FlowTurn
  <2> QED BY <1>2, <2>1, <2>2 DEF Wait
<1>3. CASE Holds(r, Sends) /\ PopHead(r) /\ Go(r, "calling") /\ UNCHANGED <<refs, doneVars, cmVars>>
  <2>1. UNCHANGED got
    BY <1>3 DEF doneVars
  <2>2. table[key[r]] # <<>> /\ (r \in Sends <=> Head(table[key[r]]) \in Calls)
    BY <1>i, <1>1, <1>3, HoldsFacts, Kinds
  <2> QED BY <1>1, <1>3, <2>1, <2>2, PopFlow
<1> QED BY <1>2, <1>3 DEF RecvLocked

\* The step drops its reference, and the destructor deletes messages only after an abort.
LEMMA EndFlow ==
    ASSUME CoreInv, CountInv, FlowInv, Release \/ Destroy
    PROVE  FlowInv'
<1>1. CASE Release
  <2>1. UNCHANGED <<key, turn, table, swept, got, pc, partner, aborted>>
    BY <1>1 DEF Release, args, tableVars, abortVars, doneVars
  <2>2. /\ \A p \in Ops : InTable(p)' <=> InTable(p)
        /\ \A s \in Sends, r \in Calls : Matched(s, r)' <=> Matched(s, r)
    BY <2>1 DEF InTable, Matched, HeldBy
  <2> QED BY <2>1, <2>2, FlowFrame, Kinds
<1>2. CASE Destroy
  <2>1. /\ UNCHANGED <<key, turn, got>> /\ \A p \in Ops : ~ InTable(p)'
        /\ \A t \in Threads : \A p \in Ops : HeldBy(t, p)' <=> HeldBy(t, p)
    BY <1>2, DestroyFacts
  <2>2. \A s \in Sends, r \in Calls : Matched(s, r)' <=> Matched(s, r)
    BY <2>1, Kinds DEF Matched
  <2>3. aborted => aborted'
    BY <1>2 DEF Destroy
  <2>4. ASSUME ~ aborted', NEW s \in Sends PROVE ~ InTable(s)
    <3>1. \A k \in Keys : table[k] = <<>>
      BY <1>2, <2>4 DEF Destroy
    <3>2. key[s] \in Keys
      BY Kinds DEF CoreInv, TypeInv
    <3> QED BY <3>1, <3>2 DEF InTable, Elems
  <2> QED BY <2>1, <2>2, <2>3, <2>4, FlowFrame
<1> QED BY <1>1, <1>2

\* Every step keeps the third part: messages and their receivers.
LEMMA FlowStep ==
    ASSUME CoreInv, CountInv, FlowInv, [Next]_vars
    PROVE  FlowInv'
<1>1. ASSUME NEW o \in Ops, Check(o) PROVE FlowInv'
  BY <1>1, CheckFlow
<1>2. ASSUME NEW o \in Ops, Leave(o) PROVE FlowInv'
  BY <1>2, LeaveFlow
<1>3. ASSUME NEW s \in Sends, SendLocked(s) PROVE FlowInv'
  BY <1>3, SendLockedFlow
<1>4. ASSUME NEW s \in Sends, SendCalls(s) PROVE FlowInv'
  BY <1>4, SendCallsFlow
<1>5. ASSUME NEW r \in Calls, RecvLocked(r) PROVE FlowInv'
  BY <1>5, RecvLockedFlow
<1>6. ASSUME NEW r \in Calls, RecvCalls(r) PROVE FlowInv'
  BY <1>6, RecvCallsFlow
<1>7. ASSUME NEW a \in Aborts, WhenDone(a) PROVE FlowInv'
  BY <1>7, WhenDoneFlow
<1>8. ASSUME NEW a \in Aborts, StartAbort(a) PROVE FlowInv'
  BY <1>8, StartAbortFlow
<1>9. ASSUME NEW a \in Aborts, SwapTable(a) PROVE FlowInv'
  BY <1>9, SwapFlow
<1>10. ASSUME NEW a \in Aborts, AbortItem(a) PROVE FlowInv'
  BY <1>10, AbortItemFlow
<1>11. ASSUME NEW a \in Aborts, EndAbort(a) PROVE FlowInv'
  BY <1>11, EndAbortFlow
<1>12. ASSUME NEW m \in Managers, StartCancel(m) PROVE FlowInv'
  BY <1>12, StartCancelFlow
<1>13. ASSUME NEW m \in Managers, CancelLocked(m) PROVE FlowInv'
  BY <1>13, CancelLockedFlow
<1>14. ASSUME NEW m \in Managers, CancelCalls(m) PROVE FlowInv'
  BY <1>14, CancelCallsFlow
<1>15. ASSUME NEW m \in Managers, CancelLeaves(m) PROVE FlowInv'
  BY <1>15, CancelLeavesFlow
<1>16. ASSUME NEW m \in Managers, Cancelled(m) PROVE FlowInv'
  BY <1>16, CancelledFlow
<1>98. CASE Release \/ Destroy
  BY <1>98, EndFlow
<1>99. CASE UNCHANGED vars
  <2>1. UNCHANGED <<key, turn, table, swept, got, pc, partner, aborted>>
    BY <1>99 DEF vars, args, tableVars, abortVars, doneVars
  <2>2. /\ \A p \in Ops : InTable(p)' <=> InTable(p)
        /\ \A s \in Sends, r \in Calls : Matched(s, r)' <=> Matched(s, r)
    BY <2>1 DEF InTable, Matched, HeldBy
  <2> QED BY <2>1, <2>2, FlowFrame, Kinds
<1> QED BY <1>1, <1>2, <1>3, <1>4, <1>5, <1>6, <1>7, <1>8, <1>9, <1>10, <1>11, <1>12, <1>13,
           <1>14, <1>15, <1>16, <1>98, <1>99 DEF Next

-----------------------------------------------------------------------------
(* The theorems *)

\* Nothing is queued, taken or registered at first.
LEMMA InitInv ==
    ASSUME Init
    PROVE  CoreInv /\ CountInv /\ FlowInv
<1>1. /\ key \in [Ops -> Keys] /\ bucketOf \in [Keys -> 1..Shards]
      /\ manager \in [Calls -> Managers \cup {NoManager}]
      /\ aborted = FALSE /\ owned = TRUE /\ destroyed = FALSE /\ refs = 1 /\ raced = {}
      /\ table = [k \in Keys |-> <<>>]
      /\ pending = [b \in 1..Shards |-> 0]
      /\ pc = [t \in Threads |-> "idle"]
      /\ partner = [t \in Threads |-> <<>>]
      /\ sweepAt = [a \in Aborts |-> 0]
      /\ swept = [a \in Aborts |-> [k \in Keys |-> <<>>]]
      /\ status = [r \in Calls |-> "none"]
      /\ got = [r \in Calls |-> {}]
      /\ answered = [r \in Calls |-> 0]
      /\ turn = [o \in Ops |-> 0]
      /\ cmState = [m \in Managers |-> "open"]
      /\ callbacks = [m \in Managers |-> {}]
      /\ running = [m \in Managers |-> {}]
  BY DEF Init, CancellationInit
<1>2. /\ \A k \in Keys : table[k] = <<>> /\ Elems(table[k]) = {}
      /\ \A a \in Aborts : \A k \in Keys : swept[a][k] = <<>> /\ Elems(swept[a][k]) = {}
  BY <1>1 DEF Elems
<1>3. /\ \A o \in Ops : ~ InTable(o)
      /\ \A t \in Threads : \A o \in Ops : ~ HeldBy(t, o)
  BY <1>1, <1>2 DEF InTable, HeldBy
<1>4. TypeInv
  <2>1. /\ <<>> \in Seq(Ops) /\ <<>> \in Seq(Sends) /\ <<>> \in Seq(Calls)
        /\ 0 \in 0..(Shards + 1) /\ "idle" \in Places
    BY ShardsAssumption DEF Places
  <2>2. table \in [Keys -> Seq(Sends) \cup Seq(Calls)]
    BY <1>1, <2>1
  <2>3. partner \in [Threads -> Seq(Ops)] /\ pc \in [Threads -> Places]
    BY <1>1, <2>1
  <2>4. swept \in [Aborts -> [Keys -> Seq(Ops)]] /\ sweepAt \in [Aborts -> 0..(Shards + 1)]
    BY <1>1, <2>1
  <2>5. owned \in BOOLEAN /\ destroyed \in BOOLEAN /\ aborted \in BOOLEAN
    BY <1>1, Zenon
  <2>6. CancellationTypeOK
    BY <1>1 DEF CancellationTypeOK
  <2>7. /\ pending \in [1..Shards -> Int] /\ refs \in Int /\ turn \in [Ops -> Nat]
        /\ answered \in [Calls -> Nat] /\ got \in [Calls -> SUBSET Sends] /\ raced \subseteq Ops
        /\ status \in [Calls -> {"none", "ok", "aborted", "cancelled"}]
    BY <1>1
  <2> QED BY <1>1, <2>2, <2>3, <2>4, <2>5, <2>6, <2>7 DEF TypeInv
<1>5. PlaceInv /\ HandInv
  BY <1>1, Kinds DEF PlaceInv, HandInv
<1>6. QueueInv
  <2>1. Ordered(<<>>, turn)
    BY DEF Ordered
  <2> QED BY <1>2, <2>1 DEF QueueInv
<1>7. OnePlaceInv /\ ItemInv /\ WaiterInv
  BY <1>3, Kinds DEF OnePlaceInv, ItemInv, WaiterInv
<1>8. RecvInv /\ ManagerInv
  BY <1>1, Kinds DEF RecvInv, ManagerInv
<1>9. TurnInv
  <2>1. \A o \in Ops : Cardinality(HadTurn(key[o])) \in Nat
    BY FiniteSets DEF HadTurn
  <2> QED BY <1>1, <2>1, Kinds DEF TurnInv
<1>10. CoreInv
  BY <1>4, <1>5, <1>6, <1>7, <1>8, <1>9 DEF CoreInv
<1>11. ReferencesAreExact
  <2>1. Registered = {} /\ Leaving = {} /\ Aborting = {}
    BY <1>1, Kinds DEF Registered, Leaving, Aborting
  <2>2. Cardinality({}) = 0
    BY FS_EmptySet
  <2>3. /\ refs = Cardinality(Registered) + Cardinality(Leaving) + Cardinality(Aborting) + 1
        /\ (IF owned THEN 1 ELSE 0) = 1
    BY <1>1, <2>1, <2>2
  <2> QED BY <2>3 DEF ReferencesAreExact, Leaving, Aborting
<1>12. PendingInv
  <2>1. \A b \in 1..Shards : InCallback(b) = {}
    BY <1>1, Kinds DEF InCallback
  <2> QED BY <1>1, <2>1, FS_EmptySet DEF PendingInv
<1>13. OwnerInv /\ AbortInv
  BY <1>1, <1>2, <1>3, Kinds DEF OwnerInv, AbortInv
<1>14. FlowInv
  BY <1>1, <1>3, Kinds DEF FlowInv, MessageInv, MatchInv, Matched
<1> QED BY <1>10, <1>11, <1>12, <1>13, <1>14 DEF CountInv

\* The inductive invariant of the rendezvous.
THEOREM Invariance == Spec => []Inv
<1>1. Init => Inv
  BY InitInv DEF Inv, FlowInv
<1>2. Inv /\ [Next]_vars => Inv'
  BY CoreStep, FlowStep DEF Inv, FlowInv
<1> QED BY <1>1, <1>2, PTL DEF Spec

\* The types of the state; the items under a key are all messages or all waiters
\* (the invariant of ItemQueue, local_rendezvous.h:60), and neither the count of
\* references nor that of a bucket's pending callbacks falls below zero.
THEOREM TypeCorrect == Spec => []TypeOK
<1>1. Inv => TypeOK
  <2> SUFFICES ASSUME Inv PROVE TypeOK
    OBVIOUS
  <2>1. TypeInv /\ PendingInv /\ ReferencesAreExact
    BY DEF Inv, CoreInv, CountInv
  <2>2. refs \in Nat
    BY <2>1, CountSets DEF ReferencesAreExact, Leaving, Aborting
  <2>3. pending \in [1..Shards -> Nat]
    BY <2>1, CountSets DEF TypeInv, PendingInv
  <2> QED BY <2>1, <2>2, <2>3 DEF TypeInv, TypeOK
<1> QED BY <1>1, Invariance, PTL

\* done is called at most once for a Recv, however Send, abort and cancellation meet.
THEOREM OneCallback == Spec => []CalledBackOnce
<1>1. Inv => CalledBackOnce
  BY DEF Inv, CoreInv, RecvInv, CalledBackOnce
<1> QED BY <1>1, Invariance, PTL

\* Every reference on the owner is taken and dropped once: a Recv's for its
\* cancellation callback, a thread's for a done-callback, an abort's and the step's.
THEOREM ExactReferences == Spec => []ReferencesAreExact
<1>1. Inv => ReferencesAreExact
  BY DEF Inv, CountInv
<1> QED BY <1>1, Invariance, PTL

\* When the last reference is dropped no thread is inside the rendezvous, none will
\* be called, and the destructor does not wait.
THEOREM NoUseAfterFree == Spec => []FreedIsUnused
<1>1. Inv => FreedIsUnused
  BY FreedFacts DEF Inv, FreedIsUnused
<1> QED BY <1>1, Invariance, PTL

\* Under a key, messages reach receivers in the order in which both got at the
\* table, whatever is cancelled or aborted in between.
THEOREM OrderPreserved == Spec => []NoOvertaking
<1>1. Inv => NoOvertaking
  <2> SUFFICES ASSUME Inv, NEW q \in Calls, NEW r \in Calls, NEW s \in got[q], NEW t \in got[r],
                      q # r, key[q] = key[r]
               PROVE  s # t /\ (turn[q] < turn[r] <=> turn[s] < turn[t])
    BY DEF NoOvertaking
  <2>1. s \in Sends /\ t \in Sends
    BY DEF Inv, CoreInv, TypeInv
  <2>2. Matched(s, q) /\ Matched(t, r)
    BY DEF Matched
  <2>3. key[s] = key[q] /\ key[t] = key[r]
    BY <2>1, <2>2 DEF Inv, MatchInv
  <2> QED BY <2>1, <2>2, <2>3 DEF Inv, MatchInv
<1> QED BY <1>1, Invariance, PTL

\* Before an abort every message whose Send got at the table is there, on its way,
\* or delivered: no receiver's cancellation takes one with it.
THEOREM MessagesKept == Spec => []NoMessageIsLost
<1>1. Inv => NoMessageIsLost
  <2> SUFFICES ASSUME Inv, ~ aborted, NEW s \in Sends, turn[s] > 0
               PROVE  \/ \E i \in DOMAIN table[key[s]] : table[key[s]][i] = s
                      \/ pc[s] = "calling"
                      \/ \E r \in Calls : pc[r] = "calling" /\ partner[r] = <<s>>
                      \/ \E r \in Calls : s \in got[r]
    BY DEF NoMessageIsLost
  <2>1. TypeInv /\ QueueInv /\ MessageInv
    BY DEF Inv, CoreInv
  <2>2. InTable(s) => \E i \in DOMAIN table[key[s]] : table[key[s]][i] = s
    <3>1. key[s] \in Keys /\ table[key[s]] \in Seq(Ops)
      BY <2>1, QueueTypes, Kinds
    <3> QED BY <3>1, ElemsType DEF InTable, Elems
  <2>3. \A r \in Calls : Matched(s, r) =>
           s \in got[r] \/ (pc[r] = "calling" /\ partner[r] = <<s>>) \/ pc[s] = "calling"
    BY Kinds DEF Matched, HeldBy
  <2> QED BY <2>1, <2>2, <2>3 DEF MessageInv
<1> QED BY <1>1, Invariance, PTL

\* What is left in a bucket that StartAbort has swept was put there by calls that
\* had read the status before it was set.
THEOREM RacersOnly == Spec => []OnlyRacersSurviveAnAbort
<1>1. Inv => OnlyRacersSurviveAnAbort
  <2> SUFFICES ASSUME Inv, NEW a \in Aborts, NEW k \in Keys, NEW i \in DOMAIN table[k],
                      sweepAt[a] > bucketOf[k] \/ pc[a] = "done"
               PROVE  table[k][i] \in raced
    BY DEF OnlyRacersSurviveAnAbort
  <2>1. TypeInv /\ QueueInv /\ AbortInv
    BY DEF Inv, CoreInv, CountInv
  <2>2. sweepAt[a] > bucketOf[k]
    BY <2>1, ShardsAssumption DEF AbortInv, TypeInv
  <2> DEFINE o == table[k][i]
  <2>3. o \in Elems(table[k])
    BY <2>1, QueueTypes, ElemsType DEF Elems
  <2> HIDE DEF o
  <2>4. o \in Ops /\ key[o] = k /\ InTable(o)
    BY <2>1, <2>3, QueueTypes
  <2>5. o \in raced
    BY <2>1, <2>2, <2>4 DEF AbortInv
  <2> QED BY <2>5 DEF o
<1> QED BY <1>1, Invariance, PTL

\* The status is set by an abort, or by the destructor after the end of the step.
AbortedBy == aborted => ~ owned \/ \E a \in Aborts : pc[a] \in {"sweep", "done"}

LEMMA AbortedByStep ==
    ASSUME Inv, AbortedBy, [Next]_vars
    PROVE  AbortedBy'
<1> USE DEF args, tableVars, ownerVars, abortVars
<1>t. pc \in [Threads -> Places]
  BY DEF Inv, CoreInv, TypeInv
<1>a. \A a \in Aborts : a \in Threads /\ a \notin Ops /\ a \notin Managers
  BY Kinds
<1>1. ASSUME NEW a \in Aborts, StartAbort(a) PROVE AbortedBy'
  <2>1. pc'[a] = "sweep"
    BY <1>t, <1>a, <1>1 DEF StartAbort, Go
  <2> QED BY <2>1 DEF AbortedBy
<1>2. CASE Destroy
  <2>1. refs = 0 /\ UNCHANGED owned
    BY <1>2 DEF Destroy
  <2>2. ~ owned
    BY <2>1, CountSets DEF Inv, CountInv, CoreInv, ReferencesAreExact, Leaving, Aborting
  <2> QED BY <2>1, <2>2 DEF AbortedBy
<1>3. ASSUME UNCHANGED aborted, owned' => owned,
             \A a \in Aborts : pc[a] \in {"sweep", "done"} => pc'[a] \in {"sweep", "done"}
      PROVE  AbortedBy'
  BY <1>3 DEF AbortedBy
<1>4. ASSUME NEW t \in Threads, NEW place, t \notin Aborts, Go(t, place), UNCHANGED <<aborted, owned>>
      PROVE  AbortedBy'
  <2>1. \A a \in Aborts : pc'[a] = pc[a]
    BY <1>t, <1>a, <1>4 DEF Go
  <2> QED BY <1>3, <1>4, <2>1
<1>5. ASSUME NEW o \in Ops, Check(o) \/ Leave(o) PROVE AbortedBy'
  BY <1>4, <1>5, Kinds DEF Check, Leave
<1>6. ASSUME NEW s \in Sends, SendLocked(s) \/ SendCalls(s) PROVE AbortedBy'
  BY <1>4, <1>6, Kinds DEF SendLocked, SendCalls
<1>7. ASSUME NEW r \in Calls, RecvLocked(r) \/ RecvCalls(r) PROVE AbortedBy'
  BY <1>4, <1>7, Kinds DEF RecvLocked, RecvCalls
<1>8. ASSUME NEW m \in Managers,
             \/ StartCancel(m) \/ CancelLocked(m) \/ CancelCalls(m)
             \/ CancelLeaves(m) \/ Cancelled(m)
      PROVE  AbortedBy'
  BY <1>4, <1>8, Kinds DEF StartCancel, CancelLocked, CancelCalls, CancelLeaves, Cancelled
<1>9. ASSUME NEW a \in Aborts, WhenDone(a) \/ EndAbort(a) PROVE AbortedBy'
  <2>1. /\ pc' = [pc EXCEPT ![a] = "failed"] \/ pc' = [pc EXCEPT ![a] = "done"]
        /\ pc[a] = "idle" \/ pc' = [pc EXCEPT ![a] = "done"]
        /\ UNCHANGED <<aborted, owned>>
    BY <1>9 DEF WhenDone, EndAbort, Go
  <2>2. \A b \in Aborts : pc[b] \in {"sweep", "done"} => pc'[b] \in {"sweep", "done"}
    BY <1>t, <1>a, <2>1
  <2> QED BY <1>3, <2>1, <2>2
<1>10. ASSUME NEW a \in Aborts, SwapTable(a) \/ AbortItem(a) PROVE AbortedBy'
  BY <1>3, <1>10 DEF SwapTable, AbortItem
<1>11. CASE Release
  BY <1>3, <1>11 DEF Release
<1>12. CASE UNCHANGED vars
  BY <1>3, <1>12 DEF vars
<1> QED BY <1>1, <1>2, <1>5, <1>6, <1>7, <1>8, <1>9, <1>10, <1>11, <1>12 DEF Next

\* A receiver that is not called back yet is in the hands of a thread that calls it
\* back next, or in the table, registered with its manager, and out of the reach of
\* Sends only with a sweep to come or after a race with the abort.
THEOREM NobodyForgotten == Spec => []NobodyIsForgotten
<1>1. Inv /\ AbortedBy => NobodyIsForgotten
  <2> SUFFICES ASSUME Inv, AbortedBy, NEW r \in Calls, pc[r] = "done", answered[r] = 0
               PROVE  \/ /\ \E i \in DOMAIN table[key[r]] : table[key[r]][i] = r
                         /\ manager[r] # NoManager => r \in callbacks[manager[r]] \cup running[manager[r]]
                         /\ aborted =>
                               \/ r \in raced
                               \/ \E a \in Aborts : pc[a] = "sweep" /\ sweepAt[a] <= Bucket(r)
                      \/ \E t \in Threads : pc[t] = "calling" /\ partner[t] = <<r>>
                      \/ \E a \in Aborts : \E i \in DOMAIN swept[a][key[r]] : swept[a][key[r]][i] = r
    BY DEF NobodyIsForgotten
  <2>1. TypeInv /\ QueueInv /\ RecvInv /\ WaiterInv /\ OwnerInv /\ AbortInv
    BY DEF Inv, CoreInv, CountInv
  <2>2. InTable(r) \/ \E t \in Threads : HeldBy(t, r)
    BY <2>1 DEF RecvInv
  <2>3. key[r] \in Keys
    BY <2>1, QueueTypes, Kinds
  <2>4. CASE InTable(r)
    <3>1. table[key[r]] \in Seq(Ops)
      BY <2>1, <2>3, QueueTypes
    <3>2. \E i \in DOMAIN table[key[r]] : table[key[r]][i] = r
      BY <2>4, <3>1, ElemsType DEF InTable, Elems
    <3>3. ASSUME aborted, r \notin raced
          PROVE  \E a \in Aborts : pc[a] = "sweep" /\ sweepAt[a] <= Bucket(r)
      <4>1. owned
        BY <2>1 DEF OwnerInv
      <4>2. PICK a \in Aborts : pc[a] \in {"sweep", "done"}
        BY <3>3, <4>1 DEF AbortedBy
      <4>3. r \in Ops /\ ~ sweepAt[a] > bucketOf[key[r]]
        BY <2>1, <2>4, <3>3, Kinds DEF AbortInv
      <4>4. sweepAt[a] \in Int /\ bucketOf[key[r]] \in 1..Shards
        BY <2>1, <2>3 DEF TypeInv
      <4>5. sweepAt[a] <= bucketOf[key[r]] /\ sweepAt[a] # Shards + 1
        BY <4>3, <4>4, ShardsAssumption
      <4>6. pc[a] = "sweep"
        BY <2>1, <4>2, <4>5 DEF AbortInv
      <4> QED BY <4>5, <4>6 DEF Bucket
    <3>4. manager[r] # NoManager => r \in callbacks[manager[r]] \cup running[manager[r]]
      BY <2>1, <2>4 DEF WaiterInv
    <3> QED BY <3>2, <3>3, <3>4
  <2>5. ASSUME NEW t \in Threads, HeldBy(t, r)
        PROVE  \/ \E u \in Threads : pc[u] = "calling" /\ partner[u] = <<r>>
               \/ \E a \in Aborts : \E i \in DOMAIN swept[a][key[r]] : swept[a][key[r]][i] = r
    <3>1. CASE t \in Aborts
      <4>1. swept[t][key[r]] \in Seq(Ops) /\ r \in Elems(swept[t][key[r]])
        BY <2>1, <2>3, <2>5, <3>1, QueueTypes DEF HeldBy
      <4>2. \E i \in DOMAIN swept[t][key[r]] : swept[t][key[r]][i] = r
        BY <4>1, ElemsType DEF Elems
      <4> QED BY <3>1, <4>2
    <3>2. CASE t \notin Aborts
      BY <2>5, <3>2 DEF HeldBy
    <3> QED BY <3>1, <3>2
  <2> QED BY <2>2, <2>4, <2>5
<1>2. Init => AbortedBy
  BY DEF Init, AbortedBy
<1>3. Inv /\ AbortedBy /\ [Next]_vars => AbortedBy'
  BY AbortedByStep
<1>4. Spec => []AbortedBy
  BY <1>2, <1>3, Invariance, PTL DEF Spec
<1> QED BY <1>1, <1>4, Invariance, PTL

=============================================================================
