----------------------------- MODULE SyncProofs -----------------------------
(* Any number of threads that wait for each other: at a mutex                *)
(* (kernel/mutex.c), and on wait queues and events (kernel/wait.c).          *)
EXTENDS Mutex, WaitQueue, FiniteSetTheorems, TLAPS

-----------------------------------------------------------------------------
(* The mutex: the queue bookkeeping never loses a waiter, and a non-empty    *)
(* queue always has a thread on its way to the release the waiters need.     *)

\* A free mutex with a queue is about to be handed over by an unlocker that
\* has stored state = 0 but not yet run its slow path.
Covered == wait_list # << >> =>
             \/ state = 1
             \/ \E t \in Threads : pc[t] \in {"unlock_recheck", "unlock_slow"}

\* A locked mutex has a thread that will release it.
Locked == state = 1 => \E t \in Threads :
  \/ pc[t] \in {"lock_owner", "unlock_store"}
  \/ /\ owner_tid = t
     /\ \/ pc[t] \in {"critical", "unlock_state", "unlock_mine", "unlock_load",
                      "unlock_owner", "unlock_slow"}
        \/ pc[t] = "lock_wait" /\ granted[t]

IInv == TypeOK /\ NoLostWakeup /\ Covered /\ Locked

-----------------------------------------------------------------------------
(* Sequences without repetition, as the wait list is *)

\* Queuing a thread at the tail adds that thread and no other.
LEMMA AppendQueue ==
  ASSUME NEW S, NEW q \in Seq(S), NEW x \in S, IsInjective(q), x \notin Range(q)
  PROVE  /\ Append(q, x) \in Seq(S)
         /\ Append(q, x) # << >>
         /\ Len(Append(q, x)) = Len(q) + 1
         /\ IsInjective(Append(q, x))
         /\ Range(Append(q, x)) = Range(q) \cup {x}
<1> DEFINE r == Append(q, x)
<1>1. /\ r \in Seq(S) /\ Len(r) = Len(q) + 1 /\ r # << >>
      /\ \A i \in 1 .. Len(q) : r[i] = q[i]
      /\ r[Len(q) + 1] = x
  OBVIOUS
<1>2. Len(q) \in Nat /\ DOMAIN q = 1 .. Len(q) /\ DOMAIN r = 1 .. (Len(q) + 1)
  BY <1>1
<1> HIDE DEF r
<1>3. \A i \in 1 .. Len(q) : q[i] # x
  BY <1>2 DEF Range
<1>4. \A i \in 1 .. (Len(q) + 1) : i \in 1 .. Len(q) \/ i = Len(q) + 1
  BY <1>2
<1>5. IsInjective(r)
  BY <1>1, <1>2, <1>3, <1>4 DEF IsInjective
<1>6. Range(r) = Range(q) \cup {x}
  BY <1>1, <1>2, <1>4 DEF Range
<1> QED
  BY <1>1, <1>5, <1>6 DEF r

\* Elements of a concatenation.
LEMMA Joined ==
  ASSUME NEW S, NEW a \in Seq(S), NEW b \in Seq(S)
  PROVE  /\ a \o b \in Seq(S) /\ Len(a \o b) = Len(a) + Len(b)
         /\ \A i \in 1 .. Len(a) + Len(b) :
              (a \o b)[i] = IF i <= Len(a) THEN a[i] ELSE b[i - Len(a)]
  OBVIOUS

\* Dequeuing the head removes that thread and no other.
LEMMA TailQueue ==
  ASSUME NEW S, NEW q \in Seq(S), q # << >>, IsInjective(q)
  PROVE  /\ Tail(q) \in Seq(S)
         /\ Head(q) \in S
         /\ Head(q) \in Range(q)
         /\ Len(q) > 0
         /\ Len(Tail(q)) = Len(q) - 1
         /\ IsInjective(Tail(q))
         /\ Range(Tail(q)) = Range(q) \ {Head(q)}
<1>1. /\ Len(q) \in Nat /\ Len(q) > 0
      /\ DOMAIN q = 1 .. Len(q)
      /\ Head(q) = q[1] /\ Head(q) \in S
  BY DEF Range
<1>2. /\ Tail(q) \in Seq(S)
      /\ Len(Tail(q)) = Len(q) - 1
      /\ DOMAIN Tail(q) = 1 .. (Len(q) - 1)
      /\ \A i \in 1 .. (Len(q) - 1) : Tail(q)[i] = q[i + 1]
  BY <1>1
<1>3. IsInjective(Tail(q))
  BY <1>1, <1>2 DEF IsInjective
<1>4. Range(Tail(q)) \subseteq Range(q) \ {Head(q)}
  BY <1>1, <1>2 DEF IsInjective, Range
<1>5. Range(q) \ {Head(q)} \subseteq Range(Tail(q))
  <2> SUFFICES ASSUME NEW i \in 1 .. Len(q), i # 1
               PROVE  q[i] \in Range(Tail(q))
    BY <1>1 DEF Range
  <2>1. i - 1 \in 1 .. (Len(q) - 1) /\ (i - 1) + 1 = i
    BY <1>1
  <2> QED
    BY <1>2, <2>1, Zenon DEF Range
<1>6. Head(q) \in Range(q)
  BY <1>1 DEF Range
<1> QED
  BY <1>1, <1>2, <1>3, <1>4, <1>5, <1>6

-----------------------------------------------------------------------------
(* The invariant is inductive *)

LEMMA InitInv == Init => IInv
<1> SUFFICES ASSUME Init PROVE IInv
  OBVIOUS
<1> USE DEF Init, mutex_init
<1>1. TypeOK
  BY NoThreadAssumption DEF TypeOK, Labels
<1>2. NoLostWakeup
  BY DEF NoLostWakeup, Queued, Range, IsInjective
<1> QED
  BY <1>1, <1>2 DEF IInv, Covered, Locked

LEMMA NextInv == IInv /\ [Next]_vars => IInv'
<1> SUFFICES ASSUME IInv, [Next]_vars PROVE IInv'
  OBVIOUS
<1> USE NoThreadAssumption DEF IInv
<1>1. CASE UNCHANGED vars
  BY <1>1 DEF vars, TypeOK, NoLostWakeup, Queued, Covered, Locked
<1>2. ASSUME NEW t \in Threads, LockCall(t) \/ TryCall(t) \/ Step(t)
      PROVE  IInv'
  <2>1. /\ t \notin Range(wait_list) \/ pc[t] = "lock_wait"
        /\ pc[t] = "lock_wait" /\ t \notin blocked => granted[t]
        /\ waiters_count = 0 <=> wait_list = << >>
    BY DEF TypeOK, NoLostWakeup, Queued
  \* Steps that only move t's pc, or write one word of the mutex.
  <2>2. CASE \/ LockCall(t) \/ TryCall(t) \/ LockLoad(t) \/ LockCas(t)
             \/ LockOwner(t) \/ LockRecursion(t)
             \/ TryOwner(t) \/ TryWaiters(t) \/ TryCas(t)
    <3> USE <2>2 DEF LockCall, TryCall, LockLoad, LockCas, LockOwner,
                     LockRecursion, TryOwner, TryWaiters, TryCas, Goto
    <3>1. TypeOK'
      BY DEF TypeOK, Labels, LockLabels, TryLabels
    <3>2. NoLostWakeup'
      BY DEF TypeOK, NoLostWakeup, Queued
    <3>3. Covered'
      BY DEF TypeOK, Covered
    <3>4. Locked'
      BY DEF TypeOK, Locked
    <3> QED
      BY <3>1, <3>2, <3>3, <3>4
  <2>3. CASE \/ UnlockCall(t) \/ UnlockState(t) \/ UnlockMine(t)
             \/ UnlockFree(t) \/ UnlockLoad(t) \/ UnlockOwner(t)
             \/ UnlockStore(t) \/ UnlockRecheck(t)
    <3> USE <2>3 DEF UnlockCall, UnlockState, UnlockMine, UnlockFree,
                     UnlockLoad, UnlockOwner, UnlockStore, UnlockRecheck, Goto
    <3>1. TypeOK'
      BY DEF TypeOK, Labels, UnlockLabels
    <3>2. NoLostWakeup'
      BY DEF TypeOK, NoLostWakeup, Queued
    <3>3. Covered'
      BY <2>1 DEF TypeOK, Covered
    <3>4. Locked'
      BY DEF TypeOK, Locked
    <3> QED
      BY <3>1, <3>2, <3>3, <3>4
  <2>4. CASE LockSlow(t)
    <3> USE <2>4 DEF LockSlow, Goto
    <3>1. CASE state = 0 /\ wait_list = << >>
      BY <3>1 DEF TypeOK, NoLostWakeup, Queued, Covered, Locked, Labels,
                  LockLabels
    <3>2. CASE ~(state = 0 /\ wait_list = << >>)
      <4>1. /\ wait_list' = Append(wait_list, t)
            /\ wait_list' \in Seq(Threads) /\ wait_list' # << >>
            /\ Len(wait_list') = Len(wait_list) + 1
            /\ IsInjective(wait_list')
            /\ Range(wait_list') = Range(wait_list) \cup {t}
        <5>1. /\ wait_list \in Seq(Threads) /\ IsInjective(wait_list)
              /\ t \notin Range(wait_list)
          BY <2>1 DEF TypeOK, NoLostWakeup
        <5>2. wait_list' = Append(wait_list, t)
          BY <3>2
        <5> HIDE DEF LockSlow
        <5> QED
          BY <5>1, <5>2, AppendQueue
      <4>2. TypeOK'
        <5>1. waiters_count' \in Nat
          BY <3>2 DEF TypeOK
        <5>2. blocked' \in SUBSET Threads
          BY <3>2 DEF TypeOK
        <5>3. granted' \in [Threads -> BOOLEAN]
          BY <3>2, Zenon DEF TypeOK
        <5>4. pc' \in [Threads -> Labels] /\ UNCHANGED <<state, owner_tid>>
          BY <3>2 DEF TypeOK, Labels, LockLabels
        <5> QED
          BY <4>1, <5>1, <5>2, <5>3, <5>4 DEF TypeOK
      <4>3. NoLostWakeup'
        BY <3>2, <4>1 DEF TypeOK, NoLostWakeup, Queued
      <4>4. Covered' /\ Locked'
        BY <3>2 DEF TypeOK, Covered, Locked
      <4> QED
        BY <4>2, <4>3, <4>4
    <3> QED
      BY <3>1, <3>2
  \* A thread that resumes was granted the mutex: the safeguard is not taken.
  <2>5. CASE LockResume(t)
    <3> USE <2>5 DEF LockResume, Goto
    <3>1. /\ granted[t] /\ pc[t] = "lock_wait"
          /\ pc' = [pc EXCEPT ![t] = "critical"]
          /\ UNCHANGED <<state, owner_tid, wait_list, waiters_count, granted,
                         blocked>>
      BY <2>1
    <3> QED
      BY <3>1 DEF TypeOK, NoLostWakeup, Queued, Covered, Locked, Labels,
                  LockLabels
  <2>6. CASE UnlockSlow(t)
    <3> USE <2>6 DEF UnlockSlow, Goto
    <3>1. CASE wait_list = << >>
      BY <2>1, <3>1 DEF TypeOK, NoLostWakeup, Queued, Covered, Locked, Labels,
                        UnlockLabels
    <3>2. CASE wait_list # << >>
      <4> DEFINE h == Head(wait_list)
      <4>1. /\ wait_list' = Tail(wait_list)
            /\ wait_list' \in Seq(Threads)
            /\ h \in Threads /\ h \in Range(wait_list)
            /\ Len(wait_list) > 0
            /\ Len(wait_list') = Len(wait_list) - 1
            /\ IsInjective(wait_list')
            /\ Range(wait_list') = Range(wait_list) \ {h}
        <5>1. wait_list \in Seq(Threads) /\ IsInjective(wait_list)
          BY DEF TypeOK, NoLostWakeup
        <5>2. wait_list' = Tail(wait_list)
          BY <3>2
        <5> HIDE DEF UnlockSlow
        <5> QED
          BY <3>2, <5>1, <5>2, TailQueue
      <4>2. pc[h] = "lock_wait" /\ h # t
        BY <4>1 DEF NoLostWakeup, Queued
      <4>3. TypeOK'
        <5>1. waiters_count' \in Nat
          BY <3>2 DEF TypeOK
        <5>2. blocked' \in SUBSET Threads
          BY <3>2 DEF TypeOK
        <5>3. granted' \in [Threads -> BOOLEAN]
          BY <3>2, Zenon DEF TypeOK
        <5>4. pc' \in [Threads -> Labels] /\ state' = 1 /\ owner_tid' = h
          BY <3>2 DEF TypeOK, Labels, UnlockLabels
        <5> QED
          BY <4>1, <5>1, <5>2, <5>3, <5>4 DEF TypeOK
      <4>4. NoLostWakeup'
        BY <3>2, <4>1, <4>2 DEF TypeOK, NoLostWakeup, Queued
      <4>5. Covered' /\ Locked'
        BY <3>2, <4>1, <4>2, Zenon DEF TypeOK, Covered, Locked
      <4> QED
        BY <4>3, <4>4, <4>5
    <3> QED
      BY <3>1, <3>2
  <2> QED
    BY <1>2, <2>2, <2>3, <2>4, <2>5, <2>6 DEF Step
<1> QED
  BY <1>1, <1>2 DEF Next

\* The strengthening gives the properties of the runs.
LEMMA InvImplies == IInv => TypeOK /\ NoLostWakeup /\ NoOrphanedWaiter
  BY DEF IInv, Covered, Locked, NoOrphanedWaiter, Releasing

-----------------------------------------------------------------------------
\* mutex_lock, mutex_try_lock and mutex_unlock keep every field in range.
THEOREM TypeCorrect == Spec => []TypeOK
  BY InitInv, NextInv, InvImplies, PTL DEF Spec

\* However many threads contend, a thread sleeping in mutex_lock is queued
\* exactly once and is woken exactly when it is dequeued with the grant.
THEOREM WakeupsKept == Spec => []NoLostWakeup
  BY InitInv, NextInv, InvImplies, PTL DEF Spec

\* However many threads contend, a queued waiter always has a thread on its
\* way to the release or hand-over that lets the waiter proceed.
THEOREM WaitersNeverOrphaned == Spec => []NoOrphanedWaiter
  BY InitInv, NextInv, InvImplies, PTL DEF Spec

-----------------------------------------------------------------------------
(* Wait queues and events (kernel/wait.c), for any kind of condition: a      *)
(* waiter is linked, once, exactly where its waker and its timer look, and   *)
(* none sleeps through the wake-up that is meant for it.  The invariant is   *)
(* inductive as it stands.                                                   *)

\* A queue is never longer than there are threads: waiter_count cannot
\* overflow.
LEMMA QueueBounded ==
  ASSUME NEW q \in Seq(Waiters), IsInjective(q)
  PROVE  Len(q) \in 0 .. Cardinality(Waiters)
<1>1. q \in Injection(1 .. Len(q), Waiters)
  BY DEF Injection
<1>2. Cardinality(1 .. Len(q)) <= Cardinality(Waiters)
  BY <1>1, FS_Injection, WaitersAssumption
<1>3. Cardinality(1 .. Len(q)) = Len(q)
  <2>1. Len(q) \in Nat
    OBVIOUS
  <2>2. Cardinality(1 .. Len(q)) = IF 1 > Len(q) THEN 0 ELSE Len(q) - 1 + 1
    BY <2>1, FS_Interval
  <2> QED
    BY <2>1, <2>2
<1>4. Cardinality(Waiters) \in Nat
  BY FS_CardinalityType, WaitersAssumption
<1> QED
  BY <1>2, <1>3, <1>4

\* list_del unlinks one waiter from anywhere in the queue.
LEMMA TakenFromWithin ==
  ASSUME NEW q \in Seq(Waiters), IsInjective(q), NEW n \in DOMAIN q
  PROVE  /\ Unlinked(q, n) \in Seq(Waiters)
         /\ IsInjective(Unlinked(q, n))
         /\ Len(q) > 0 /\ Len(Unlinked(q, n)) = Len(q) - 1
         /\ Range(Unlinked(q, n)) = Range(q) \ {q[n]}
<1> DEFINE r == Unlinked(q, n)
<1>1. Len(q) \in Nat /\ n \in 1 .. Len(q) /\ Len(q) > 0 /\ DOMAIN q = 1 .. Len(q)
  OBVIOUS
<1>2. /\ r \in Seq(Waiters) /\ Len(r) = Len(q) - 1 /\ DOMAIN r = 1 .. (Len(q) - 1)
      /\ \A i \in 1 .. (Len(q) - 1) : r[i] = IF i < n THEN q[i] ELSE q[i + 1]
  <2> DEFINE a == SubSeq(q, 1, n - 1)
             b == SubSeq(q, n + 1, Len(q))
  <2>1. /\ a \in Seq(Waiters) /\ Len(a) = n - 1
        /\ \A i \in 1 .. (n - 1) : a[i] = q[i]
    BY <1>1
  <2>2. /\ b \in Seq(Waiters) /\ Len(b) = Len(q) - n
        /\ \A i \in 1 .. (Len(q) - n) : b[i] = q[n + i]
    <3>1. /\ b \in Seq(Waiters)
          /\ Len(b) = IF n + 1 <= Len(q) THEN Len(q) - (n + 1) + 1 ELSE 0
          /\ \A i \in 1 .. Len(q) - (n + 1) + 1 : b[i] = q[(n + 1) + i - 1]
      BY <1>1
    <3>2. Len(b) = Len(q) - n
      BY <1>1, <3>1
    <3>3. ASSUME NEW i \in 1 .. (Len(q) - n)
          PROVE  b[i] = q[n + i]
      <4>1. i \in 1 .. Len(q) - (n + 1) + 1 /\ (n + 1) + i - 1 = n + i
        BY <1>1
      <4> QED
        BY <3>1, <4>1
    <3> QED
      BY <3>1, <3>2, <3>3
  <2>3. r = a \o b
    BY DEF Unlinked
  <2> HIDE DEF a, b, r
  <2>4. /\ r \in Seq(Waiters) /\ Len(r) = Len(q) - 1 /\ DOMAIN r = 1 .. (Len(q) - 1)
        /\ \A i \in 1 .. Len(r) : r[i] = IF i <= Len(a) THEN a[i] ELSE b[i - Len(a)]
    <3>1. /\ r \in Seq(Waiters) /\ Len(r) = Len(a) + Len(b)
          /\ \A i \in 1 .. Len(a) + Len(b) :
               r[i] = IF i <= Len(a) THEN a[i] ELSE b[i - Len(a)]
      BY <2>1, <2>2, <2>3, Joined
    <3>2. Len(a) + Len(b) = Len(q) - 1
      BY <1>1, <2>1, <2>2
    <3> QED
      BY <3>1, <3>2
  <2>5. ASSUME NEW i \in 1 .. (Len(q) - 1)
        PROVE  r[i] = IF i < n THEN q[i] ELSE q[i + 1]
    <3>1. CASE i < n
      BY <1>1, <2>1, <2>4, <3>1
    <3>2. CASE ~(i < n)
      <4>1. /\ ~(i <= Len(a)) /\ i - Len(a) \in 1 .. (Len(q) - n)
            /\ n + (i - Len(a)) = i + 1
        BY <1>1, <2>1, <3>2
      <4> QED
        BY <2>2, <2>4, <3>2, <4>1
    <3> QED
      BY <3>1, <3>2
  <2> QED
    BY <2>4, <2>5
<1> HIDE DEF r
<1>3. IsInjective(r) /\ Range(r) \subseteq Range(q) \ {q[n]}
  <2> DEFINE from(i) == IF i < n THEN i ELSE i + 1
  <2>1. \A i \in 1 .. (Len(q) - 1) :
          from(i) \in 1 .. Len(q) /\ from(i) # n /\ r[i] = q[from(i)]
    BY <1>1, <1>2
  <2>2. \A i, j \in 1 .. (Len(q) - 1) : from(i) = from(j) => i = j
    BY <1>1
  <2> HIDE DEF from
  <2>3. IsInjective(r)
    <3>1. DOMAIN r = 1 .. (Len(q) - 1) /\ DOMAIN q = 1 .. Len(q)
      BY <1>1, <1>2
    <3>2. ASSUME NEW i \in 1 .. (Len(q) - 1), NEW j \in 1 .. (Len(q) - 1), r[i] = r[j]
          PROVE  i = j
      <4>1. from(i) = from(j)
        BY <2>1, <3>1, <3>2 DEF IsInjective
      <4> QED
        BY <2>2, <4>1
    <3> QED
      BY <3>1, <3>2 DEF IsInjective
  <2>4. \A i \in 1 .. (Len(q) - 1) : r[i] \in Range(q) /\ r[i] # q[n]
    BY <1>1, <2>1 DEF Range, IsInjective
  <2> QED
    BY <1>2, <2>3, <2>4 DEF Range
<1>4. ASSUME NEW i \in 1 .. Len(q), i # n
      PROVE  q[i] \in Range(r)
  <2>1. CASE i < n
    BY <1>1, <1>2, <2>1 DEF Range
  <2>2. CASE i > n
    <3>1. /\ i - 1 \in 1 .. (Len(q) - 1) /\ ~(i - 1 < n) /\ (i - 1) + 1 = i
      BY <1>1, <2>2
    <3> QED
      BY <1>2, <3>1 DEF Range
  <2> QED
    BY <1>1, <1>4, <2>1, <2>2
<1>5. Range(r) = Range(q) \ {q[n]}
  BY <1>1, <1>3, <1>4, Zenon DEF Range
<1> QED
  BY <1>1, <1>2, <1>3, <1>5 DEF r

-----------------------------------------------------------------------------
(* What the queue operations do to the queue and its counter *)

QueueSound == queue \in Seq(Waiters) /\ IsInjective(queue) /\ waiter_count = Len(queue)

LEMMA SoundQueue ==
  ASSUME WaitersTracked
  PROVE  QueueSound /\ waiter_count \in Nat
BY DEF WaitersTracked, WaitTypeOK, NoStaleEntry, QueueSound

LEMMA AddSound ==
  ASSUME QueueSound, NEW t \in Waiters, ~Linked(t), wait_queue_add(t)
  PROVE  QueueSound' /\ Range(queue') = Range(queue) \cup {t}
BY AppendQueue DEF QueueSound, wait_queue_add, Linked

LEMMA RemoveSound ==
  ASSUME QueueSound, NEW t \in Waiters, wait_queue_remove(t)
  PROVE  QueueSound' /\ Range(queue') = Range(queue) \ {t}
<1>1. CASE ~Linked(t)
  BY <1>1 DEF wait_queue_remove, QueueSound, Linked
<1>2. CASE Linked(t)
  <2> DEFINE n == CHOOSE i \in DOMAIN queue : queue[i] = t
  <2>1. n \in DOMAIN queue /\ queue[n] = t
    BY <1>2 DEF Linked, Range
  <2>2. /\ queue' = Unlinked(queue, n)
        /\ waiter_count' = IF waiter_count > 0 THEN waiter_count - 1 ELSE 0
    BY <1>2 DEF wait_queue_remove
  <2> HIDE DEF n
  <2>3. /\ queue' \in Seq(Waiters) /\ IsInjective(queue')
        /\ Len(queue) > 0 /\ Len(queue') = Len(queue) - 1
        /\ Range(queue') = Range(queue) \ {t}
    BY <2>1, <2>2, TakenFromWithin DEF QueueSound
  <2> QED
    BY <2>2, <2>3 DEF QueueSound
<1> QED
  BY <1>1, <1>2

LEMMA WakeOneSound ==
  ASSUME QueueSound, wait_queue_wake_one
  PROVE  /\ QueueSound'
         /\ \A t \in sleeping' : t \in sleeping /\ (t \in Range(queue) => t \in Range(queue'))
         /\ Range(queue') \subseteq Range(queue)
<1>1. CASE queue = << >>
  BY <1>1 DEF wait_queue_wake_one, QueueSound
<1>2. CASE queue # << >>
  <2>1. /\ Tail(queue) \in Seq(Waiters) /\ IsInjective(Tail(queue))
        /\ Len(queue) > 0 /\ Len(Tail(queue)) = Len(queue) - 1
        /\ Range(Tail(queue)) = Range(queue) \ {Head(queue)}
    BY <1>2, TailQueue DEF QueueSound
  <2>2. /\ queue' = Tail(queue) /\ sleeping' = sleeping \ {Head(queue)}
        /\ waiter_count' = IF waiter_count > 0 THEN waiter_count - 1 ELSE 0
    BY <1>2 DEF wait_queue_wake_one
  <2>3. QueueSound'
    BY <2>1, <2>2 DEF QueueSound
  <2> QED
    BY <2>1, <2>2, <2>3, Zenon
<1> QED
  BY <1>1, <1>2

LEMMA WakeAllSound ==
  ASSUME WaitersTracked, wait_queue_wake_all
  PROVE  QueueSound' /\ sleeping' = {} /\ Range(queue') = {}
<1>1. waiter_count = Len(queue) /\ Len(queue) \in Nat
  BY DEF WaitersTracked, WaitTypeOK, NoStaleEntry
<1>2. QueueSound' /\ Range(queue') = {}
  BY <1>1 DEF wait_queue_wake_all, QueueSound, IsInjective, Range
<1>3. sleeping' = {}
  BY DEF wait_queue_wake_all, WaitersTracked, NoMissedWakeup, Linked
<1> QED
  BY <1>2, <1>3

-----------------------------------------------------------------------------
(* The invariant, conjunct by conjunct, without the queue's own soundness *)

WordsTyped == /\ mode \in Modes /\ condition \in BOOLEAN /\ wake_due \in BOOLEAN
              /\ sleeping \subseteq Waiters /\ sleepq \subseteq Waiters
              /\ timed \in [Waiters -> BOOLEAN] /\ expired \in [Waiters -> BOOLEAN]
              /\ success \in [Waiters -> BOOLEAN] /\ wait_pc \in [Waiters -> WaitLabels]

EntriesLive == /\ \A t \in Range(queue) : wait_pc[t] \in {"loop", "wait", "dequeue"}
               /\ \A t \in sleepq : timed[t] /\ wait_pc[t] \in {"wait", "dequeue"}

LEMMA Tracked ==
  WaitersTracked <=> WordsTyped /\ QueueSound /\ EntriesLive /\ NoMissedWakeup
<1>1. QueueSound => waiter_count \in 0 .. Cardinality(Waiters)
  BY QueueBounded DEF QueueSound
<1> QED
  BY <1>1 DEF WaitersTracked, WaitTypeOK, NoStaleEntry, WordsTyped, QueueSound, EntriesLive

LEMMA TrackedNext ==
  WaitersTracked' <=> (WordsTyped /\ QueueSound /\ EntriesLive /\ NoMissedWakeup)'
BY Tracked, PTL

LEMMA InitTracked ==
  ASSUME WaitInit
  PROVE  WaitersTracked
<1>1. QueueSound
  BY DEF WaitInit, QueueSound, IsInjective
<1>2. WordsTyped
  BY Zenon DEF WaitInit, WordsTyped, WaitLabels
<1>3. EntriesLive /\ NoMissedWakeup
  BY DEF WaitInit, EntriesLive, NoMissedWakeup, Range
<1> QED
  BY <1>1, <1>2, <1>3, Tracked

\* Steps of a waiting thread.
LEMMA ThreadTracked ==
  ASSUME WaitersTracked, NEW t \in Waiters,
         (\E b \in BOOLEAN : Call(t, b)) \/ Poll(t) \/ WaiterStep(t) \/ Deadline(t)
  PROVE  WaitersTracked'
<1> SUFFICES (WordsTyped /\ QueueSound /\ EntriesLive /\ NoMissedWakeup)'
  BY TrackedNext
<1>1. WordsTyped /\ QueueSound /\ EntriesLive /\ NoMissedWakeup
  BY Tracked
<1> USE <1>1 DEF WaitGoto, Consume
<1>2. CASE (\E b \in BOOLEAN : Call(t, b)) \/ Poll(t) \/ FirstCheck(t) \/ Resume(t)
           \/ task_sleep_dequeue(t) \/ Deadline(t)
  <2> USE <1>2 DEF Call, Poll, FirstCheck, Resume, task_sleep_dequeue, Deadline
  <2>1. QueueSound' /\ queue' = queue
    BY DEF QueueSound
  <2>2. WordsTyped'
    BY Zenon DEF WordsTyped, WaitLabels
  <2>3. EntriesLive'
    <3>1. \A u \in Waiters : u # t => wait_pc'[u] = wait_pc[u] /\ timed'[u] = timed[u]
      BY DEF WordsTyped
    <3>2. Range(queue) \subseteq Waiters /\ sleepq \subseteq Waiters /\ sleepq' \subseteq sleepq
      BY DEF WordsTyped, QueueSound, Range
    <3>3. t \in Range(queue) => wait_pc'[t] \in {"loop", "wait", "dequeue"}
      BY DEF WordsTyped, EntriesLive
    <3>4. t \in sleepq' => timed'[t] /\ wait_pc'[t] \in {"wait", "dequeue"}
      BY DEF WordsTyped, EntriesLive
    <3> QED
      BY <2>1, <3>1, <3>2, <3>3, <3>4, Zenon DEF EntriesLive
  <2>4. NoMissedWakeup'
    <3>1. sleeping' \subseteq sleeping /\ t \notin sleeping'
      BY DEF NoMissedWakeup
    <3>2. ASSUME NEW u \in sleeping, u # t
          PROVE  /\ wait_pc'[u] = wait_pc[u] /\ timed'[u] = timed[u]
                 /\ expired'[u] = expired[u] /\ (u \in sleepq => u \in sleepq')
      BY <3>2 DEF WordsTyped
    <3>3. wake_due' = wake_due /\ condition' \in {condition, FALSE}
      BY Zenon
    <3> QED
      BY <2>1, <3>1, <3>2, <3>3, Zenon DEF NoMissedWakeup, Linked
  <2> QED
    BY <2>1, <2>2, <2>3, <2>4
<1>3. CASE LoopLeave(t) \/ LoopTimeout(t) \/ Final(t)
  <2>1. QueueSound' /\ Range(queue') = Range(queue) \ {t}
    BY <1>3, RemoveSound DEF LoopLeave, LoopTimeout, Final
  <2> USE <1>3 DEF LoopLeave, LoopTimeout, Final
  <2>2. WordsTyped'
    BY Zenon DEF WordsTyped, WaitLabels
  <2>3. EntriesLive'
    <3>1. \A u \in Waiters : u # t => wait_pc'[u] = wait_pc[u]
      BY DEF WordsTyped
    <3>2. Range(queue) \subseteq Waiters /\ sleepq \subseteq Waiters
      BY DEF WordsTyped, QueueSound, Range
    <3>3. t \notin sleepq /\ sleepq' = sleepq /\ timed' = timed
      BY DEF EntriesLive
    <3> QED
      BY <2>1, <3>1, <3>2, <3>3, Zenon DEF EntriesLive
  <2>4. NoMissedWakeup'
    BY <2>1 DEF WordsTyped, NoMissedWakeup, Linked
  <2> QED
    BY <2>1, <2>2, <2>3, <2>4
<1>4. CASE LoopBlock(t)
  <2>1. QueueSound' /\ Range(queue') = Range(queue) \cup {t}
    BY <1>4, AddSound DEF LoopBlock, QueueSound, Linked
  <2> USE <1>4 DEF LoopBlock
  <2>2. WordsTyped'
    BY DEF WordsTyped, WaitLabels
  <2>3. EntriesLive'
    BY <2>1 DEF WordsTyped, EntriesLive
  <2>4. NoMissedWakeup'
    BY <2>1 DEF WordsTyped, NoMissedWakeup, Linked
  <2> QED
    BY <2>1, <2>2, <2>3, <2>4
<1> QED
  BY <1>2, <1>3, <1>4, Zenon DEF WaiterStep

\* Steps of whoever makes the condition true or false.
LEMMA OwnerTracked ==
  ASSUME WaitersTracked, SetFlag \/ WakeFlag \/ event_signal \/ event_reset
  PROVE  WaitersTracked'
<1> SUFFICES (WordsTyped /\ QueueSound /\ EntriesLive /\ NoMissedWakeup)'
  BY TrackedNext
<1>1. WordsTyped /\ QueueSound /\ EntriesLive /\ NoMissedWakeup
  BY Tracked
<1>2. CASE SetFlag \/ event_reset
  BY <1>1, <1>2, Zenon DEF SetFlag, event_reset, WordsTyped, QueueSound, EntriesLive,
                    NoMissedWakeup, Linked
<1>3. CASE WakeFlag \/ (event_signal /\ mode = "manual")
  <2>1. QueueSound' /\ sleeping' = {} /\ Range(queue') = {}
    BY <1>3, WakeAllSound DEF WakeFlag, event_signal
  <2> QED
    BY <1>1, <1>3, <2>1, Zenon
    DEF WakeFlag, event_signal, WordsTyped, EntriesLive, NoMissedWakeup
<1>4. CASE event_signal /\ mode # "manual"
  <2>1. /\ QueueSound' /\ Range(queue') \subseteq Range(queue)
        /\ \A t \in sleeping' : t \in sleeping /\ (t \in Range(queue) => t \in Range(queue'))
    BY <1>1, <1>4, WakeOneSound DEF event_signal
  <2> QED
    BY <1>1, <1>4, <2>1
    DEF event_signal, WordsTyped, EntriesLive, NoMissedWakeup, Linked
<1> QED
  BY <1>2, <1>3, <1>4

\* For any finite set of threads, timed and untimed waits, flags and events: a
\* waiter is linked once and counted while it waits and nowhere after it has
\* returned, a sleeping one is where its waker and its timer will look, and it
\* sleeps on a true condition only while a wake-up is on its way
\* (wait.c:103-124, 173-206).
THEOREM WaitersStayTracked == WaitSpec => []WaitersTracked
<1>1. WaitInit => WaitersTracked
  BY InitTracked
<1>2. WaitersTracked /\ [WaitNext]_waitVars => WaitersTracked'
  <2>1. ASSUME WaitersTracked, UNCHANGED waitVars
        PROVE  WaitersTracked'
    BY <2>1 DEF waitVars, WaitersTracked, WaitTypeOK, NoStaleEntry, NoMissedWakeup, Linked
  <2> QED
    BY <2>1, ThreadTracked, OwnerTracked, Zenon DEF WaitNext
<1> QED
  BY <1>1, <1>2, PTL DEF WaitSpec
=============================================================================
