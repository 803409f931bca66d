--------------------------- MODULE SchedulerProofs ---------------------------
(* Proofs about kernel/task.c for any number of task slots, any quantum and  *)
(* sleeps of any length: the sleep queue stays sorted and counted, one task  *)
(* is RUNNING at most, the idle task has the CPU only when nothing can run,  *)
(* a spinlock section is never switched out, and a sleep ends with the tick  *)
(* that reaches its deadline.                                                *)
EXTENDS Scheduler, WellFoundedInduction, TLAPS

All == 0 .. TaskCount

Memory ==
  [cur : All, st : [All -> States], quantum : [All -> 1 .. Quantum],
   preempt : [All -> Nat], pending : [All -> BOOLEAN], irq : [All -> BOOLEAN],
   requested : BOOLEAN, sleepq : Seq(Tasks), left : [Tasks -> 0 .. MaxSleep],
   sleeping : Nat]

Sorted(m) == /\ m.sleeping = Len(m.sleepq)
             /\ IsInjective(m.sleepq)
             /\ \A i, j \in DOMAIN m.sleepq :
                  i < j => m.left[m.sleepq[i]] <= m.left[m.sleepq[j]]

\* What the memory satisfies inside as well as between sections.
Sound(m) == /\ m \in Memory
            /\ Sorted(m)
            /\ \A t \in Tasks : m.st[t] = "SLEEPING" => Linked(m, t)
            /\ \A t \in All : m.st[t] = "RUNNING" => m.cur = t

\* A step on the CPU that leaves sleepers alone.
SleepersKept(m, r) ==
  /\ r.sleepq = m.sleepq /\ r.left = m.left /\ r.sleeping = m.sleeping
  /\ \A t \in Tasks : r.st[t] = "SLEEPING" <=> m.st[t] = "SLEEPING"

NoWork(m) == \A t \in Tasks : m.st[t] # "RUNNABLE"
IdleSound(m) == m.cur = idle_task => NoWork(m)

-----------------------------------------------------------------------------
(* Arithmetic *)

LEMMA MinIsMember ==
  ASSUME NEW S \in SUBSET Nat, S # {}
  PROVE  Min(S) \in S /\ \A x \in S : Min(S) <= x
<1>1. \E x \in S : \A y \in S : ~(<<y, x>> \in OpToRel(<, Nat))
  BY NatLessThanWellFounded, WFMin, Zenon
<1>2. PICK x \in S : \A y \in S : ~(<<y, x>> \in OpToRel(<, Nat))
  BY <1>1, Zenon
<1>3. \A y \in S : ~(y < x)
  BY <1>2, Zenon DEF OpToRel
<1>4. \A y \in S : x =< y
  BY <1>3
<1> QED
  BY <1>4, Zenon DEF Min

LEMMA ModOnce ==
  ASSUME NEW a \in Nat, a < 2 * TaskCount
  PROVE  a % TaskCount = IF a < TaskCount THEN a ELSE a - TaskCount
BY SchedulerAssumption

\* The search visits every slot and stops at a runnable one, if there is any
\* (task.c:110-120).
LEMMA FindNext ==
  ASSUME NEW m \in Memory
  PROVE  IF NoWork(m) THEN task_find_next_ready(m) = NoTask
         ELSE /\ task_find_next_ready(m) \in Tasks
              /\ m.st[task_find_next_ready(m)] = "RUNNABLE"
<1> DEFINE start == IF m.cur \in Tasks THEN m.cur ELSE 0
           steps == {s \in 1 .. TaskCount : m.st[(start + s) % TaskCount] = "RUNNABLE"}
<1>1. TaskCount \in Nat /\ TaskCount > 0 /\ start \in Nat /\ start < TaskCount
  BY SchedulerAssumption DEF Tasks
<1>2. task_find_next_ready(m)
        = IF steps = {} THEN NoTask ELSE (start + Min(steps)) % TaskCount
  BY DEF task_find_next_ready
<1> HIDE DEF start
<1>3. \A s \in 1 .. TaskCount : (start + s) % TaskCount \in Tasks
  <2> SUFFICES ASSUME NEW s \in 1 .. TaskCount
               PROVE  (start + s) % TaskCount \in Tasks
    OBVIOUS
  <2>1. start + s \in Nat /\ start + s < 2 * TaskCount
    BY <1>1
  <2>2. (start + s) % TaskCount
          = IF start + s < TaskCount THEN start + s ELSE start + s - TaskCount
    BY <1>1, <2>1, ModOnce
  <2> QED
    BY <1>1, <2>1, <2>2 DEF Tasks
<1>4. ASSUME NEW t \in Tasks
      PROVE  \E s \in 1 .. TaskCount : (start + s) % TaskCount = t
  <2> DEFINE s == IF t > start THEN t - start ELSE t + TaskCount - start
  <2>1. s \in 1 .. TaskCount /\ start + s \in Nat /\ start + s < 2 * TaskCount
        /\ start + s = IF t > start THEN t ELSE t + TaskCount
    BY <1>1 DEF Tasks
  <2>2. (start + s) % TaskCount
          = IF start + s < TaskCount THEN start + s ELSE start + s - TaskCount
    BY <1>1, <2>1, ModOnce
  <2>3. (start + s) % TaskCount = t
    BY <1>1, <2>1, <2>2 DEF Tasks
  <2> QED
    BY <2>1, <2>3
<1>5. steps # {} => Min(steps) \in steps
  <2>1. steps \in SUBSET Nat
    OBVIOUS
  <2> HIDE DEF steps
  <2> QED
    BY <2>1, MinIsMember
<1>6. NoWork(m) <=> steps = {}
  BY <1>3, <1>4 DEF NoWork
<1> QED
  BY <1>2, <1>3, <1>5, <1>6, Zenon

-----------------------------------------------------------------------------
(* Switching *)

LEMMA SwitchFacts ==
  ASSUME NEW m \in Memory, NEW next \in All, next # m.cur
  PROVE  LET r == Switch(m, next)
         IN  /\ r \in Memory /\ r.cur = next
             /\ r.st = [t \in All |-> IF t = next THEN "RUNNING"
                                      ELSE IF t = m.cur /\ m.st[t] = "RUNNING" THEN "RUNNABLE"
                                      ELSE m.st[t]]
             /\ r.preempt = m.preempt /\ r.sleepq = m.sleepq
             /\ r.left = m.left /\ r.sleeping = m.sleeping /\ r.irq = m.irq
<1> DEFINE r == Switch(m, next)
           st == [m.st EXCEPT ![m.cur] = IF @ = "RUNNING" THEN "RUNNABLE" ELSE @,
                              ![next] = "RUNNING"]
<1>1. r = [m EXCEPT !.st = st, !.quantum = [m.quantum EXCEPT ![next] = Quantum], !.cur = next]
  BY DEF Switch
<1>2. st \in [All -> States]
  BY Zenon DEF Memory, States
<1>3. [m.quantum EXCEPT ![next] = Quantum] \in [All -> 1 .. Quantum]
  BY SchedulerAssumption DEF Memory
<1>4. st = [t \in All |-> IF t = next THEN "RUNNING"
                          ELSE IF t = m.cur /\ m.st[t] = "RUNNING" THEN "RUNNABLE"
                          ELSE m.st[t]]
  BY Zenon DEF Memory
<1> HIDE DEF st
<1>5. r \in Memory
  BY <1>1, <1>2, <1>3, Zenon DEF Memory
<1>6. /\ r.cur = next /\ r.st = st /\ r.preempt = m.preempt /\ r.sleepq = m.sleepq
      /\ r.left = m.left /\ r.sleeping = m.sleeping /\ r.irq = m.irq
  BY <1>1 DEF Memory
<1> QED
  BY <1>4, <1>5, <1>6

\* schedule() leaves the idle task on the CPU only when nothing can run, and
\* sleepers asleep (task.c:293-320).
LEMMA ScheduleFacts ==
  ASSUME NEW m, Sound(m)
  PROVE  LET r == schedule(m)
         IN  /\ Sound(r) /\ IdleSound(r) /\ SleepersKept(m, r)
             /\ r.preempt = m.preempt /\ r.irq = m.irq
<1> DEFINE found == task_find_next_ready(m)
           next == IF found = NoTask THEN idle_task ELSE found
           stay == \/ found = NoTask /\ (m.cur = idle_task \/ m.st[m.cur] = "RUNNING")
                   \/ next = m.cur
           m1 == [m EXCEPT !.requested = FALSE]
           r == IF stay THEN m1 ELSE Switch(m1, next)
<1>1. schedule(m) = r
  BY DEF schedule
<1>2. m \in Memory /\ m1 \in Memory
  BY Zenon DEF Sound, Memory
<1>3. /\ m1.cur = m.cur /\ m1.st = m.st /\ m1.preempt = m.preempt /\ m1.irq = m.irq
      /\ m1.sleepq = m.sleepq /\ m1.left = m.left /\ m1.sleeping = m.sleeping
  BY <1>2 DEF Memory
<1> HIDE DEF m1
<1>4. /\ IF NoWork(m) THEN found = NoTask ELSE found \in Tasks /\ m.st[found] = "RUNNABLE"
      /\ NoTask \notin Tasks /\ idle_task \notin Tasks /\ NoTask # idle_task
      /\ idle_task \in All /\ Tasks \subseteq All
  BY <1>2, FindNext, SchedulerAssumption DEF Tasks, NoTask, idle_task, All
<1> HIDE DEF found
<1>5. CASE stay
  <2>1. r = m1
    BY <1>5
  <2>2. Sound(m1) /\ SleepersKept(m, m1)
    BY <1>2, <1>3 DEF Sound, Sorted, SleepersKept, Linked
  <2>3. IdleSound(m1)
    BY <1>3, <1>4, <1>5 DEF IdleSound, NoWork
  <2> QED
    BY <1>1, <1>3, <2>1, <2>2, <2>3
<1>6. CASE ~stay
  <2>1. r = Switch(m1, next) /\ next \in All /\ next # m1.cur
    BY <1>3, <1>4, <1>6
  <2>2. /\ r \in Memory /\ r.cur = next
        /\ r.st = [t \in All |-> IF t = next THEN "RUNNING"
                                 ELSE IF t = m.cur /\ m.st[t] = "RUNNING" THEN "RUNNABLE"
                                 ELSE m.st[t]]
        /\ r.preempt = m.preempt /\ r.sleepq = m.sleepq
        /\ r.left = m.left /\ r.sleeping = m.sleeping /\ r.irq = m.irq
    BY <1>2, <1>3, <2>1, SwitchFacts
  <2>3. next \in Tasks => m.st[next] = "RUNNABLE"
    BY <1>4
  <2>4. IdleSound(r)
    BY <1>4, <1>6, <2>2 DEF IdleSound, NoWork
  <2> HIDE DEF r, next
  <2>5. SleepersKept(m, r)
    BY <1>4, <2>2, <2>3 DEF SleepersKept
  <2>6. Sound(r)
    <3>1. Sorted(r)
      BY <2>2 DEF Sound, Sorted
    <3>2. \A t \in Tasks : r.st[t] = "SLEEPING" => Linked(r, t)
      BY <2>2, <2>5 DEF Sound, Linked, SleepersKept
    <3>3. \A t \in All : r.st[t] = "RUNNING" => r.cur = t
      BY <2>2 DEF Sound
    <3> QED
      BY <2>2, <3>1, <3>2, <3>3 DEF Sound
  <2> QED
    BY <1>1, <2>2, <2>4, <2>5, <2>6
<1> QED
  BY <1>5, <1>6

\* The end of a section: the counter goes down, and the CPU changes hands only
\* when it reaches zero (spinlock.c).
LEMMA EnableFacts ==
  ASSUME NEW m, Sound(m), m.cur \in Tasks, m.preempt[m.cur] > 0
  PROVE  LET r == preempt_enable(m)
         IN  /\ Sound(r) /\ IdleSound(r) /\ SleepersKept(m, r)
             /\ r.preempt = [m.preempt EXCEPT ![m.cur] = @ - 1]
             /\ r.irq = m.irq
             /\ r.cur = m.cur \/ m.preempt[m.cur] = 1
<1> DEFINE m1 == [m EXCEPT !.preempt = [m.preempt EXCEPT ![m.cur] = @ - 1]]
           m2 == [m1 EXCEPT !.pending = [m1.pending EXCEPT ![m.cur] = FALSE]]
           asked == /\ m1.preempt[m.cur] = 0 /\ m1.irq[m.cur]
                    /\ m1.pending[m.cur] \/ m1.requested
           r == preempt_enable(m)
<1>1. m \in Memory /\ m.cur \in All /\ m.cur # idle_task
  BY SchedulerAssumption DEF Sound, Memory, Tasks, idle_task
<1>2. r = IF asked THEN schedule(m2) ELSE m1
  BY <1>1, Zenon DEF preempt_enable, Memory
<1>3. [m.preempt EXCEPT ![m.cur] = @ - 1] \in [All -> Nat]
  BY <1>1 DEF Memory
<1>4. m1 \in Memory /\ m2 \in Memory
  BY <1>1, <1>3, Zenon DEF Memory
<1>5. /\ m1.cur = m.cur /\ m1.st = m.st /\ m1.irq = m.irq
      /\ m1.preempt = [m.preempt EXCEPT ![m.cur] = @ - 1]
      /\ m1.sleepq = m.sleepq /\ m1.left = m.left /\ m1.sleeping = m.sleeping
      /\ m2.cur = m.cur /\ m2.st = m.st /\ m2.irq = m.irq /\ m2.preempt = m1.preempt
      /\ m2.sleepq = m.sleepq /\ m2.left = m.left /\ m2.sleeping = m.sleeping
  BY <1>1, <1>3 DEF Memory
<1> HIDE DEF m1, m2
<1>6. Sound(m1) /\ Sound(m2) /\ SleepersKept(m, m1) /\ SleepersKept(m, m2)
  BY <1>4, <1>5 DEF Sound, Sorted, SleepersKept, Linked
<1>7. IdleSound(m1)
  BY <1>1, <1>5 DEF IdleSound
<1>8. CASE ~asked
  BY <1>2, <1>5, <1>6, <1>7, <1>8
<1>9. CASE asked
  <2>1. r = schedule(m2) /\ m.preempt[m.cur] = 1
    BY <1>1, <1>2, <1>3, <1>5, <1>9 DEF Memory
  <2>2. /\ Sound(r) /\ IdleSound(r) /\ SleepersKept(m2, r)
        /\ r.preempt = m2.preempt /\ r.irq = m2.irq
    BY <1>6, <2>1, ScheduleFacts
  <2>3. SleepersKept(m, r)
    BY <1>6, <2>2 DEF SleepersKept
  <2> QED
    BY <1>5, <2>1, <2>2, <2>3
<1> QED
  BY <1>8, <1>9

-----------------------------------------------------------------------------
(* Sequences *)

\* Elements of a concatenation.
LEMMA Joined ==
  ASSUME NEW S, NEW a \in Seq(S), NEW b \in Seq(S)
  PROVE  /\ a \o b \in Seq(S) /\ Len(a \o b) = Len(a) + Len(b)
         /\ \A i \in 1 .. Len(a) + Len(b) :
              (a \o b)[i] = IF i <= Len(a) THEN a[i] ELSE b[i - Len(a)]
  OBVIOUS

\* list_del_init unlinks one task from anywhere in the queue; the order stays.
LEMMA Removed ==
  ASSUME NEW q \in Seq(Tasks), IsInjective(q), NEW n \in DOMAIN q
  PROVE  /\ list_del_init(q, n) \in Seq(Tasks)
         /\ IsInjective(list_del_init(q, n))
         /\ Len(q) > 0 /\ Len(list_del_init(q, n)) = Len(q) - 1
         /\ Range(list_del_init(q, n)) = Range(q) \ {q[n]}
         /\ \A i \in 1 .. (Len(q) - 1) :
              list_del_init(q, n)[i] = IF i < n THEN q[i] ELSE q[i + 1]
<1> DEFINE r == list_del_init(q, n)
<1>1. Len(q) \in Nat /\ n \in 1 .. Len(q) /\ Len(q) > 0 /\ DOMAIN q = 1 .. Len(q)
  OBVIOUS
<1>2. /\ r \in Seq(Tasks) /\ Len(r) = Len(q) - 1 /\ DOMAIN r = 1 .. (Len(q) - 1)
      /\ \A i \in 1 .. (Len(q) - 1) : r[i] = IF i < n THEN q[i] ELSE q[i + 1]
  <2> DEFINE a == SubSeq(q, 1, n - 1)
             b == SubSeq(q, n + 1, Len(q))
  <2>1. /\ a \in Seq(Tasks) /\ Len(a) = n - 1
        /\ \A i \in 1 .. (n - 1) : a[i] = q[i]
    BY <1>1
  <2>2. /\ b \in Seq(Tasks) /\ Len(b) = Len(q) - n
        /\ \A i \in 1 .. (Len(q) - n) : b[i] = q[n + i]
    <3>1. /\ b \in Seq(Tasks)
          /\ Len(b) = IF n + 1 <= Len(q) THEN Len(q) - (n + 1) + 1 ELSE 0
          /\ \A i \in 1 .. Len(q) - (n + 1) + 1 : b[i] = q[(n + 1) + i - 1]
      BY <1>1
    <3>2. Len(b) = Len(q) - n
      BY <1>1, <3>1
    <3>3. ASSUME NEW i \in 1 .. (Len(q) - n)
          PROVE  b[i] = q[n + i]
      <4>1. i \in 1 .. Len(q) - (n + 1) + 1 /\ (n + 1) + i - 1 = n + i
        BY <1>1
      <4> QED
        BY <3>1, <4>1
    <3> QED
      BY <3>1, <3>2, <3>3
  <2>3. r = a \o b
    BY DEF list_del_init
  <2> HIDE DEF a, b, r
  <2>4. /\ r \in Seq(Tasks) /\ Len(r) = Len(q) - 1 /\ DOMAIN r = 1 .. (Len(q) - 1)
        /\ \A i \in 1 .. Len(r) : r[i] = IF i <= Len(a) THEN a[i] ELSE b[i - Len(a)]
    <3>1. /\ r \in Seq(Tasks) /\ Len(r) = Len(a) + Len(b)
          /\ \A i \in 1 .. Len(a) + Len(b) :
               r[i] = IF i <= Len(a) THEN a[i] ELSE b[i - Len(a)]
      BY <2>1, <2>2, <2>3, Joined
    <3>2. Len(a) + Len(b) = Len(q) - 1
      BY <1>1, <2>1, <2>2
    <3> QED
      BY <3>1, <3>2
  <2>5. ASSUME NEW i \in 1 .. (Len(q) - 1)
        PROVE  r[i] = IF i < n THEN q[i] ELSE q[i + 1]
    <3>1. CASE i < n
      BY <1>1, <2>1, <2>4, <3>1
    <3>2. CASE ~(i < n)
      <4>1. /\ ~(i <= Len(a)) /\ i - Len(a) \in 1 .. (Len(q) - n)
            /\ n + (i - Len(a)) = i + 1
        BY <1>1, <2>1, <3>2
      <4> QED
        BY <2>2, <2>4, <3>2, <4>1
    <3> QED
      BY <3>1, <3>2
  <2> QED
    BY <2>4, <2>5
<1> HIDE DEF r
<1>3. IsInjective(r) /\ Range(r) \subseteq Range(q) \ {q[n]}
  <2> DEFINE from(i) == IF i < n THEN i ELSE i + 1
  <2>1. \A i \in 1 .. (Len(q) - 1) :
          from(i) \in 1 .. Len(q) /\ from(i) # n /\ r[i] = q[from(i)]
    BY <1>1, <1>2
  <2>2. \A i, j \in 1 .. (Len(q) - 1) : from(i) = from(j) => i = j
    BY <1>1
  <2> HIDE DEF from
  <2>3. IsInjective(r)
    <3>1. DOMAIN r = 1 .. (Len(q) - 1) /\ DOMAIN q = 1 .. Len(q)
      BY <1>1, <1>2
    <3>2. ASSUME NEW i \in 1 .. (Len(q) - 1), NEW j \in 1 .. (Len(q) - 1), r[i] = r[j]
          PROVE  i = j
      <4>1. from(i) = from(j)
        BY <2>1, <3>1, <3>2 DEF IsInjective
      <4> QED
        BY <2>2, <4>1
    <3> QED
      BY <3>1, <3>2 DEF IsInjective
  <2>4. \A i \in 1 .. (Len(q) - 1) : r[i] \in Range(q) /\ r[i] # q[n]
    BY <1>1, <2>1 DEF Range, IsInjective
  <2> QED
    BY <1>2, <2>3, <2>4 DEF Range
<1>4. ASSUME NEW i \in 1 .. Len(q), i # n
      PROVE  q[i] \in Range(r)
  <2>1. CASE i < n
    BY <1>1, <1>2, <2>1 DEF Range
  <2>2. CASE i > n
    <3>1. /\ i - 1 \in 1 .. (Len(q) - 1) /\ ~(i - 1 < n) /\ (i - 1) + 1 = i
      BY <1>1, <2>2
    <3> QED
      BY <1>2, <3>1 DEF Range
  <2> QED
    BY <1>1, <1>4, <2>1, <2>2
<1>5. Range(r) = Range(q) \ {q[n]}
  BY <1>1, <1>3, <1>4, Zenon DEF Range
<1> QED
  BY <1>1, <1>2, <1>3, <1>5 DEF r

\* Inserting at n shifts what was at n and after it.
LEMMA Inserted ==
  ASSUME NEW q \in Seq(Tasks), NEW x \in Tasks, NEW n \in 1 .. Len(q) + 1
  PROVE  LET r == SubSeq(q, 1, n - 1) \o <<x>> \o SubSeq(q, n, Len(q))
         IN  /\ r \in Seq(Tasks) /\ Len(r) = Len(q) + 1
             /\ \A i \in 1 .. Len(r) :
                  r[i] = IF i < n THEN q[i] ELSE IF i = n THEN x ELSE q[i - 1]
<1> DEFINE a == SubSeq(q, 1, n - 1)
           b == SubSeq(q, n, Len(q))
           c == a \o <<x>>
           r == c \o b
<1>1. Len(q) \in Nat /\ n \in 1 .. Len(q) + 1
  OBVIOUS
<1>2. /\ a \in Seq(Tasks) /\ Len(a) = n - 1
      /\ \A i \in 1 .. (n - 1) : a[i] = q[i]
  BY <1>1
<1>3. /\ b \in Seq(Tasks) /\ Len(b) = Len(q) - n + 1
      /\ \A i \in 1 .. (Len(q) - n + 1) : b[i] = q[n + i - 1]
  BY <1>1
<1> HIDE DEF a, b
<1>4. /\ c \in Seq(Tasks) /\ Len(c) = n
      /\ \A i \in 1 .. n : c[i] = IF i <= n - 1 THEN a[i] ELSE x
  <2>1. /\ <<x>> \in Seq(Tasks) /\ Len(<<x>>) = 1 /\ <<x>>[1] = x
    OBVIOUS
  <2>2. /\ c \in Seq(Tasks) /\ Len(c) = n - 1 + 1
        /\ \A i \in 1 .. n - 1 + 1 : c[i] = IF i <= n - 1 THEN a[i] ELSE <<x>>[i - (n - 1)]
    BY <1>2, <2>1
  <2> QED
    BY <1>1, <2>1, <2>2
<1> HIDE DEF c
<1>5. /\ r \in Seq(Tasks) /\ Len(r) = n + (Len(q) - n + 1)
      /\ \A i \in 1 .. n + (Len(q) - n + 1) : r[i] = IF i <= n THEN c[i] ELSE b[i - n]
  BY <1>3, <1>4
<1>6. Len(r) = Len(q) + 1
  BY <1>1, <1>5
<1> HIDE DEF r
<1>7. ASSUME NEW i \in 1 .. Len(r)
      PROVE  r[i] = IF i < n THEN q[i] ELSE IF i = n THEN x ELSE q[i - 1]
  <2>1. CASE i <= n
    <3>1. i \in 1 .. n + (Len(q) - n + 1) /\ i \in 1 .. n
      BY <1>1, <1>6, <2>1
    <3>2. r[i] = c[i]
      BY <1>5, <2>1, <3>1
    <3>3. c[i] = IF i <= n - 1 THEN a[i] ELSE x
      BY <1>4, <3>1
    <3>4. i <= n - 1 => i < n /\ a[i] = q[i]
      BY <1>1, <1>2, <3>1
    <3> QED
      BY <1>1, <2>1, <3>1, <3>2, <3>3, <3>4
  <2>2. CASE i > n
    <3>1. /\ i - n \in 1 .. (Len(q) - n + 1) /\ n + (i - n) - 1 = i - 1 /\ ~(i <= n)
          /\ i \in 1 .. n + (Len(q) - n + 1)
      BY <1>1, <1>6, <2>2
    <3>2. r[i] = b[i - n]
      BY <1>5, <3>1
    <3>3. b[i - n] = q[n + (i - n) - 1]
      BY <1>3, <3>1
    <3>4. r[i] = q[i - 1]
      BY <3>1, <3>2, <3>3
    <3> QED
      BY <1>1, <2>2, <3>1, <3>4
  <2> QED
    BY <1>1, <1>6, <2>1, <2>2
<1> QED
  BY <1>5, <1>6, <1>7, Zenon DEF r, c, a, b

-----------------------------------------------------------------------------
(* The sleep queue *)

LEMMA LinkedRange ==
  ASSUME NEW m, NEW t
  PROVE  Linked(m, t) <=> t \in Range(m.sleepq)
BY DEF Linked, Range

\* Nothing but the queue and its count changes.
QueueOnly(m, r) == /\ r.cur = m.cur /\ r.st = m.st /\ r.preempt = m.preempt
                   /\ r.irq = m.irq /\ r.left = m.left

LEMMA UnlinkFacts ==
  ASSUME NEW m \in Memory, Sorted(m), NEW t \in Tasks
  PROVE  LET r == Unlink(m, t)
         IN  /\ r \in Memory /\ Sorted(r) /\ QueueOnly(m, r)
             /\ \A u \in Tasks : Linked(r, u) <=> Linked(m, u) /\ u # t
<1> DEFINE q == m.sleepq
           n == CHOOSE i \in DOMAIN q : q[i] = t
           c == IF m.sleeping > 0 THEN m.sleeping - 1 ELSE 0
           r == Unlink(m, t)
<1>1. q \in Seq(Tasks) /\ IsInjective(q) /\ m.sleeping = Len(q) /\ Len(q) \in Nat
  BY DEF Memory, Sorted
<1>2. CASE ~Linked(m, t)
  BY <1>2 DEF Unlink, QueueOnly
<1>3. CASE Linked(m, t)
  <2>1. n \in DOMAIN q /\ q[n] = t
    BY <1>3 DEF Linked
  <2>2. r = [m EXCEPT !.sleepq = list_del_init(q, n), !.sleeping = c]
    BY <1>3 DEF Unlink
  <2> HIDE DEF n
  <2>3. /\ list_del_init(q, n) \in Seq(Tasks) /\ IsInjective(list_del_init(q, n))
        /\ Len(q) > 0 /\ Len(list_del_init(q, n)) = Len(q) - 1
        /\ Range(list_del_init(q, n)) = Range(q) \ {t}
        /\ \A i \in 1 .. (Len(q) - 1) :
             list_del_init(q, n)[i] = IF i < n THEN q[i] ELSE q[i + 1]
    BY <1>1, <2>1, Removed, Zenon
  <2>4. c \in Nat /\ c = Len(q) - 1
    BY <1>1, <2>3
  <2> DEFINE p == list_del_init(q, n)
  <2> HIDE DEF p
  <2>5. /\ r \in Memory /\ QueueOnly(m, r) /\ r.sleepq = p /\ r.sleeping = Len(p)
        /\ p \in Seq(Tasks)
    BY <2>2, <2>3, <2>4, Zenon DEF Memory, QueueOnly, p
  <2>6. ASSUME NEW i \in DOMAIN p, NEW j \in DOMAIN p, i < j
        PROVE  m.left[p[i]] <= m.left[p[j]]
    <3> DEFINE from(x) == IF x < n THEN x ELSE x + 1
    <3>1. /\ i \in 1 .. (Len(q) - 1) /\ j \in 1 .. (Len(q) - 1)
          /\ n \in Nat /\ DOMAIN q = 1 .. Len(q)
      BY <1>1, <2>1, <2>3 DEF p
    <3>2. /\ from(i) \in DOMAIN q /\ from(j) \in DOMAIN q /\ from(i) < from(j)
      BY <1>1, <2>6, <3>1
    <3>3. p[i] = q[from(i)] /\ p[j] = q[from(j)]
      BY <2>3, <3>1, Zenon DEF p
    <3> QED
      BY <3>2, <3>3 DEF Sorted
  <2>7. Sorted(r)
    BY <2>3, <2>5, <2>6 DEF Sorted, QueueOnly, p
  <2>8. \A u \in Tasks : Linked(r, u) <=> Linked(m, u) /\ u # t
    BY <2>3, <2>5, LinkedRange DEF p
  <2> QED
    BY <2>5, <2>7, <2>8
<1> QED
  BY <1>2, <1>3

\* In order of the deadlines f; where a new entry t belongs; and the queue with
\* t put there.
Ascending(q, f) == \A i, j \in DOMAIN q : i < j => f[q[i]] <= f[q[j]]
Belongs(q, f, t, n) == /\ \A i \in DOMAIN q : i < n => f[q[i]] <= f[t]
                       /\ n <= Len(q) => f[t] < f[q[n]]
InsertionOf(p, q, n, t) ==
  /\ p \in Seq(Tasks) /\ Len(p) = Len(q) + 1
  /\ \A i \in 1 .. Len(p) : p[i] = IF i < n THEN q[i] ELSE IF i = n THEN t ELSE q[i - 1]

\* Where sleep_queue_insert_sorted stops: before the first later deadline.
LEMMA InsertPoint ==
  ASSUME NEW q \in Seq(Tasks), NEW f \in [Tasks -> Nat], NEW t \in Tasks
  PROVE  LET later == {i \in DOMAIN q : f[t] < f[q[i]]}
             at == IF later = {} THEN Len(q) + 1 ELSE Min(later)
         IN  at \in 1 .. Len(q) + 1 /\ Belongs(q, f, t, at)
<1> DEFINE later == {i \in DOMAIN q : f[t] < f[q[i]]}
           at == IF later = {} THEN Len(q) + 1 ELSE Min(later)
<1>1. /\ Len(q) \in Nat /\ DOMAIN q = 1 .. Len(q)
      /\ \A i \in DOMAIN q : q[i] \in Tasks /\ f[q[i]] \in Nat
      /\ f[t] \in Nat
  OBVIOUS
<1>2. /\ later \in SUBSET Nat /\ later \subseteq DOMAIN q
      /\ \A i \in DOMAIN q : i \notin later => f[q[i]] <= f[t]
      /\ \A i \in later : f[t] < f[q[i]]
  BY <1>1
<1> HIDE DEF later
<1> SUFFICES at \in 1 .. Len(q) + 1 /\ Belongs(q, f, t, at)
  BY DEF later
<1>3. CASE later = {}
  BY <1>1, <1>2, <1>3 DEF Belongs
<1>4. CASE later # {}
  <2>1. PICK a \in later : a = Min(later) /\ \A x \in later : a <= x
    BY <1>2, <1>4, MinIsMember, Zenon
  <2>2. at = a /\ a \in Nat /\ a \in DOMAIN q
    BY <1>2, <1>4, <2>1
  <2>3. ASSUME NEW i \in DOMAIN q, i < a
        PROVE  f[q[i]] <= f[t]
    <3>1. i \in Nat
      BY <1>1
    <3>2. i \notin later
      BY <2>1, <2>2, <2>3, <3>1
    <3> QED
      BY <1>2, <3>2
  <2> HIDE DEF at
  <2>4. a \in 1 .. Len(q) + 1
    BY <1>1, <2>2
  <2> QED
    BY <1>2, <2>1, <2>2, <2>3, <2>4 DEF Belongs
<1> QED
  BY <1>3, <1>4

\* The queue after the insertion holds one task more, each once, and is sorted.
LEMMA InsertedSorted ==
  ASSUME NEW q \in Seq(Tasks), NEW f \in [Tasks -> Nat], NEW t \in Tasks,
         NEW n \in 1 .. Len(q) + 1, NEW p,
         IsInjective(q), t \notin Range(q), Ascending(q, f), Belongs(q, f, t, n),
         InsertionOf(p, q, n, t)
  PROVE  IsInjective(p) /\ Range(p) = Range(q) \cup {t} /\ Ascending(p, f)
<1> DEFINE from(i) == IF i < n THEN i ELSE i - 1
<1>1. /\ Len(q) \in Nat /\ DOMAIN q = 1 .. Len(q) /\ DOMAIN p = 1 .. (Len(q) + 1)
      /\ p \in Seq(Tasks) /\ Len(p) = Len(q) + 1 /\ n \in Nat /\ n \in DOMAIN p
  BY DEF InsertionOf
<1>2. f[t] \in Nat /\ \A i \in DOMAIN q : f[q[i]] \in Nat /\ q[i] # t
  BY <1>1 DEF Range
<1>3. \A i \in DOMAIN p : i # n => from(i) \in DOMAIN q
  BY <1>1
<1>4. \A i \in DOMAIN p : i # n => p[i] = q[from(i)]
  BY <1>1 DEF InsertionOf
<1>5. p[n] = t
  BY <1>1 DEF InsertionOf
<1>6. ASSUME NEW i \in DOMAIN p, NEW j \in DOMAIN p, i # n, j # n
      PROVE  i < j <=> from(i) < from(j)
  <2>1. i \in Nat /\ j \in Nat /\ n \in Nat
    BY <1>1
  <2> QED
    BY <1>6, <2>1
<1>7. \A i \in DOMAIN p : from(i) \in Int /\ i \in Nat
  BY <1>1
<1>8. \A i \in DOMAIN p : (i < n => from(i) < n) /\ (i > n => from(i) >= n)
  BY <1>1
<1>9. \A i \in DOMAIN q : \E j \in DOMAIN p : j # n /\ from(j) = i
  <2> SUFFICES ASSUME NEW i \in DOMAIN q
               PROVE  \E j \in DOMAIN p : j # n /\ from(j) = i
    OBVIOUS
  <2>1. CASE i < n
    <3>1. i \in DOMAIN p /\ i # n /\ from(i) = i
      BY <1>1, <2>1
    <3> QED
      BY <3>1
  <2>2. CASE ~(i < n)
    <3>1. i + 1 \in DOMAIN p /\ i + 1 # n /\ from(i + 1) = i
      BY <1>1, <2>2
    <3> QED
      BY <3>1
  <2> QED
    BY <2>1, <2>2
<1> HIDE DEF from
<1>10. IsInjective(p)
  <2> SUFFICES ASSUME NEW i \in DOMAIN p, NEW j \in DOMAIN p, p[i] = p[j]
               PROVE  i = j
    BY DEF IsInjective
  <2>1. i = n <=> j = n
    BY <1>2, <1>3, <1>4, <1>5
  <2>2. CASE i # n /\ j # n
    <3>1. from(i) = from(j)
      BY <1>3, <1>4, <2>2 DEF IsInjective
    <3> QED
      BY <1>6, <1>7, <2>2, <3>1
  <2> QED
    BY <2>1, <2>2
<1>11. ASSUME NEW i \in DOMAIN p, NEW j \in DOMAIN p, i < j
       PROVE  f[p[i]] <= f[p[j]]
  <2>1. CASE i # n /\ j # n
    BY <1>3, <1>4, <1>6, <1>11, <2>1 DEF Ascending
  <2>2. CASE j = n
    BY <1>3, <1>4, <1>5, <1>7, <1>8, <1>11, <2>2 DEF Belongs
  <2>3. CASE i = n
    <3>1. j # n /\ from(j) \in DOMAIN q /\ p[j] = q[from(j)] /\ from(j) >= n
      BY <1>3, <1>4, <1>7, <1>8, <1>11, <2>3
    <3>2. n \in DOMAIN q /\ n <= Len(q)
      BY <1>1, <3>1
    <3>3. f[q[n]] <= f[q[from(j)]]
      <4>1. CASE from(j) = n
        BY <1>2, <3>2, <4>1
      <4>2. CASE from(j) # n
        <5>1. n < from(j)
          BY <1>1, <1>7, <3>1, <4>2
        <5> QED
          BY <3>1, <3>2, <5>1 DEF Ascending
      <4> QED
        BY <4>1, <4>2
    <3>4. f[t] < f[q[n]]
      BY <3>2 DEF Belongs
    <3> QED
      BY <1>2, <1>5, <2>3, <3>1, <3>2, <3>3, <3>4
  <2> QED
    BY <2>1, <2>2, <2>3
<1>12. Range(p) = Range(q) \cup {t}
  <2>1. \A i \in DOMAIN p : p[i] \in Range(q) \cup {t}
    BY <1>3, <1>4, <1>5 DEF Range
  <2>2. \A i \in DOMAIN q : q[i] \in Range(p)
    BY <1>4, <1>9 DEF Range
  <2>3. t \in Range(p)
    BY <1>1, <1>5 DEF Range
  <2> QED
    BY <2>1, <2>2, <2>3 DEF Range
<1> QED
  BY <1>10, <1>11, <1>12 DEF Ascending

\* A new sleeper goes before the first entry with a later deadline, so the
\* queue stays sorted (task.c:370-400).
LEMMA InsertFacts ==
  ASSUME NEW m \in Memory, Sorted(m), NEW t \in Tasks, ~Linked(m, t)
  PROVE  LET r == sleep_queue_insert_sorted(m, t)
         IN  /\ r \in Memory /\ Sorted(r) /\ QueueOnly(m, r)
             /\ \A u \in Tasks : Linked(r, u) <=> Linked(m, u) \/ u = t
<1> DEFINE later == {i \in DOMAIN m.sleepq : m.left[t] < m.left[m.sleepq[i]]}
           at == IF later = {} THEN Len(m.sleepq) + 1 ELSE Min(later)
           r == sleep_queue_insert_sorted(m, t)
<1>1. PICK q \in Seq(Tasks), f \in [Tasks -> Nat] : q = m.sleepq /\ f = m.left
  BY SchedulerAssumption DEF Memory
<1>2. /\ IsInjective(q) /\ m.sleeping = Len(q) /\ t \notin Range(q) /\ Ascending(q, f)
  BY <1>1, LinkedRange DEF Sorted, Ascending
<1>3. PICK n \in 1 .. Len(q) + 1 : n = at /\ Belongs(q, f, t, n)
  BY <1>1, InsertPoint, Zenon
<1>4. InsertionOf(SubSeq(q, 1, n - 1) \o <<t>> \o SubSeq(q, n, Len(q)), q, n, t)
  BY Inserted, Zenon DEF InsertionOf
<1>5. PICK p : InsertionOf(p, q, n, t) /\ r = [m EXCEPT !.sleepq = p, !.sleeping = @ + 1]
  <2>1. r = [m EXCEPT !.sleepq = SubSeq(q, 1, n - 1) \o <<t>> \o SubSeq(q, n, Len(q)),
                      !.sleeping = @ + 1]
    BY <1>1, <1>3 DEF sleep_queue_insert_sorted
  <2> HIDE DEF r
  <2> QED
    BY <1>4, <2>1, Zenon
<1> HIDE DEF r
<1>6. IsInjective(p) /\ Range(p) = Range(q) \cup {t} /\ Ascending(p, f)
  BY <1>2, <1>3, <1>5, InsertedSorted, Zenon
<1>7. p \in Seq(Tasks) /\ Len(p) = Len(q) + 1 /\ Len(q) \in Nat
  BY <1>5 DEF InsertionOf
<1>8. /\ r \in Memory /\ QueueOnly(m, r) /\ r.sleepq = p /\ r.sleeping = Len(p)
  <2>1. m.sleeping + 1 = Len(p) /\ Len(p) \in Nat
    BY <1>2, <1>7
  <2>2. r = [m EXCEPT !.sleepq = p, !.sleeping = Len(p)]
    BY <1>5, <2>1, Zenon
  <2> QED
    BY <1>7, <2>1, <2>2, Zenon DEF Memory, QueueOnly
<1>9. Sorted(r)
  BY <1>1, <1>6, <1>8 DEF Sorted, QueueOnly, Ascending
<1>10. \A u \in Tasks : Linked(r, u) <=> Linked(m, u) \/ u = t
  BY <1>1, <1>6, <1>8, LinkedRange
<1> QED
  BY <1>8, <1>9, <1>10 DEF r

\* Nothing but the queue, its count and t's deadline changes.
DeadlineOnly(m, r, t) ==
  /\ r.cur = m.cur /\ r.st = m.st /\ r.preempt = m.preempt /\ r.irq = m.irq
  /\ \A u \in Tasks \ {t} : r.left[u] = m.left[u]

\* The deadline of a task off the queue may change.
LEMMA LeftFacts ==
  ASSUME NEW m \in Memory, Sorted(m), NEW t \in Tasks, ~Linked(m, t), NEW v \in 0 .. MaxSleep
  PROVE  LET r == [m EXCEPT !.left[t] = v]
         IN  /\ r \in Memory /\ Sorted(r) /\ DeadlineOnly(m, r, t) /\ r.left[t] = v
             /\ \A u \in Tasks : Linked(r, u) <=> Linked(m, u)
<1> DEFINE f == [m.left EXCEPT ![t] = v]
           r == [m EXCEPT !.left = f]
<1>1. f \in [Tasks -> 0 .. MaxSleep] /\ f[t] = v /\ \A u \in Tasks \ {t} : f[u] = m.left[u]
  BY DEF Memory
<1> HIDE DEF f
<1>2. r \in Memory
  BY <1>1, Zenon DEF Memory
<1>3. /\ r.cur = m.cur /\ r.st = m.st /\ r.preempt = m.preempt /\ r.irq = m.irq
      /\ r.left = f /\ r.sleepq = m.sleepq /\ r.sleeping = m.sleeping
  BY DEF Memory
<1> HIDE DEF r
<1>4. \A i \in DOMAIN m.sleepq : m.sleepq[i] \in Tasks \ {t}
  BY DEF Memory, Linked
<1>5. Sorted(r)
  BY <1>1, <1>3, <1>4 DEF Sorted
<1>6. \A u \in Tasks : Linked(r, u) <=> Linked(m, u)
  BY <1>3, LinkedRange
<1>7. r = [m EXCEPT !.left[t] = v]
  BY DEF r, f
<1> QED
  BY <1>1, <1>2, <1>3, <1>5, <1>6, <1>7 DEF DeadlineOnly

LEMMA DequeueFacts ==
  ASSUME NEW m \in Memory, Sorted(m), NEW t \in Tasks
  PROVE  LET r == task_sleep_dequeue(m, t)
         IN  /\ r \in Memory /\ Sorted(r) /\ DeadlineOnly(m, r, t)
             /\ \A u \in Tasks : Linked(r, u) <=> Linked(m, u) /\ u # t
<1>1. PICK n : n = Unlink(m, t)
  OBVIOUS
<1>2. /\ n \in Memory /\ Sorted(n) /\ QueueOnly(m, n)
      /\ \A u \in Tasks : Linked(n, u) <=> Linked(m, u) /\ u # t
  BY <1>1, UnlinkFacts
<1>3. PICK r : r = [n EXCEPT !.left[t] = 0]
  BY Zenon
<1>4. /\ r \in Memory /\ Sorted(r) /\ DeadlineOnly(n, r, t)
      /\ \A u \in Tasks : Linked(r, u) <=> Linked(n, u)
  BY <1>2, <1>3, LeftFacts, SchedulerAssumption
<1>5. r = task_sleep_dequeue(m, t)
  BY <1>1, <1>3 DEF task_sleep_dequeue
<1> QED
  BY <1>2, <1>4, <1>5 DEF DeadlineOnly, QueueOnly

LEMMA EnqueueFacts ==
  ASSUME NEW m \in Memory, Sorted(m), NEW t \in Tasks, NEW v \in 0 .. MaxSleep
  PROVE  LET r == task_sleep_enqueue(m, t, v)
         IN  /\ r \in Memory /\ Sorted(r) /\ DeadlineOnly(m, r, t)
             /\ \A u \in Tasks : Linked(r, u) <=> Linked(m, u) \/ u = t
<1>1. PICK n : n = Unlink(m, t)
  OBVIOUS
<1>2. /\ n \in Memory /\ Sorted(n) /\ QueueOnly(m, n)
      /\ \A u \in Tasks : Linked(n, u) <=> Linked(m, u) /\ u # t
  BY <1>1, UnlinkFacts
<1>3. PICK o : o = [n EXCEPT !.left[t] = v]
  BY Zenon
<1>4. /\ o \in Memory /\ Sorted(o) /\ DeadlineOnly(n, o, t)
      /\ \A u \in Tasks : Linked(o, u) <=> Linked(n, u)
  BY <1>2, <1>3, LeftFacts
<1>5. PICK r : r = sleep_queue_insert_sorted(o, t)
  OBVIOUS
<1>6. /\ r \in Memory /\ Sorted(r) /\ QueueOnly(o, r)
      /\ \A u \in Tasks : Linked(r, u) <=> Linked(o, u) \/ u = t
  BY <1>2, <1>4, <1>5, InsertFacts
<1>7. r = task_sleep_enqueue(m, t, v)
  BY <1>1, <1>3, <1>5 DEF task_sleep_enqueue
<1> QED
  BY <1>2, <1>4, <1>6, <1>7 DEF DeadlineOnly, QueueOnly

-----------------------------------------------------------------------------
(* The timer *)

\* One tick brings every deadline one tick closer.
Closer(m) == [t \in Tasks |-> IF m.left[t] > 0 THEN m.left[t] - 1 ELSE 0]

\* The loop of task_timer_tick stops at the first deadline not yet reached, and
\* on a sorted queue that is after all that have been (task.c:468-495).
LEMMA ExpiredFacts ==
  ASSUME NEW m \in Memory, Sorted(m)
  PROVE  /\ Expired(m) \in 0 .. Len(m.sleepq)
         /\ \A i \in DOMAIN m.sleepq : i <= Expired(m) <=> m.left[m.sleepq[i]] = 0
<1> DEFINE P(n) == /\ \A i \in 1 .. n : m.left[m.sleepq[i]] = 0
                   /\ n < Len(m.sleepq) => m.left[m.sleepq[n + 1]] > 0
<1>1. PICK q \in Seq(Tasks), f \in [Tasks -> Nat] : q = m.sleepq /\ f = m.left
  BY SchedulerAssumption DEF Memory
<1>2. /\ Len(q) \in Nat /\ DOMAIN q = 1 .. Len(q) /\ m.sleeping = Len(q)
      /\ \A i \in DOMAIN q : f[q[i]] \in Nat
  BY <1>1 DEF Sorted
<1>3. \A i, j \in DOMAIN q : i < j => f[q[i]] <= f[q[j]]
  BY <1>1 DEF Sorted
<1>4. \E n \in 0 .. Len(q) : P(n)
  <2> DEFINE late == {i \in DOMAIN q : f[q[i]] > 0}
  <2>1. CASE late = {}
    <3>1. \A i \in 1 .. Len(q) : f[q[i]] = 0
      BY <1>2, <2>1
    <3> QED
      BY <1>1, <1>2, <3>1
  <2>2. CASE late # {}
    <3>1. late \in SUBSET Nat
      BY <1>2
    <3>2. PICK a \in late : \A x \in late : a <= x
      <4> HIDE DEF late
      <4> QED
        BY <2>2, <3>1, MinIsMember, Zenon
    <3>3. a \in DOMAIN q /\ a \in Nat /\ f[q[a]] > 0 /\ a - 1 \in 0 .. Len(q)
      BY <1>2
    <3>4. ASSUME NEW i \in 1 .. (a - 1)
          PROVE  f[q[i]] = 0
      <4>1. i \in DOMAIN q /\ i \in Nat /\ ~(a <= i)
        BY <1>2, <3>3
      <4> QED
        BY <1>2, <3>2, <4>1
    <3>5. (a - 1) + 1 = a
      BY <3>3
    <3>6. P(a - 1)
      BY <1>1, <3>3, <3>4, <3>5
    <3> QED
      BY <3>3, <3>6
  <2> QED
    BY <2>1, <2>2, Zenon
<1>5. /\ Expired(m) \in 0 .. Len(q)
      /\ \A i \in 1 .. Expired(m) : f[q[i]] = 0
      /\ Expired(m) < Len(q) => f[q[Expired(m) + 1]] > 0
  <2>1. CASE m.sleeping = 0
    BY <1>2, <2>1 DEF Expired
  <2>2. CASE m.sleeping # 0
    <3>1. Expired(m) = CHOOSE n \in 0 .. Len(q) : P(n)
      BY <1>1, <2>2, Zenon DEF Expired
    <3>2. Expired(m) \in 0 .. Len(q) /\ P(Expired(m))
      <4> HIDE DEF P
      <4> QED
        BY <1>4, <3>1
    <3> QED
      BY <1>1, <3>2
  <2> QED
    BY <2>1, <2>2
<1>6. PICK e \in 0 .. Len(q) : e = Expired(m)
  BY <1>5
<1>7. ASSUME NEW i \in DOMAIN q, ~(i <= e)
      PROVE  f[q[i]] # 0
  <2>1. e + 1 \in DOMAIN q /\ e < Len(q) /\ e + 1 <= i /\ i \in Nat
    BY <1>2, <1>7
  <2>2. f[q[e + 1]] > 0
    BY <1>5, <1>6, <2>1
  <2>3. f[q[e + 1]] <= f[q[i]]
    <3>1. CASE e + 1 = i
      BY <1>2, <3>1
    <3>2. CASE e + 1 # i
      <4>1. e + 1 < i
        BY <2>1, <3>2
      <4> QED
        BY <1>3, <2>1, <4>1
    <3> QED
      BY <3>1, <3>2
  <2> QED
    BY <1>2, <2>1, <2>2, <2>3
<1>8. ASSUME NEW i \in DOMAIN q, i <= e
      PROVE  f[q[i]] = 0
  BY <1>2, <1>5, <1>6, <1>8
<1> QED
  BY <1>1, <1>5, <1>6, <1>7, <1>8

\* A sorted queue without its first n entries.
LEMMA DropFirst ==
  ASSUME NEW q \in Seq(Tasks), IsInjective(q), NEW n \in 0 .. Len(q)
  PROVE  LET p == SubSeq(q, n + 1, Len(q))
         IN  /\ p \in Seq(Tasks) /\ Len(p) = Len(q) - n /\ IsInjective(p)
             /\ \A i \in DOMAIN p : n + i \in DOMAIN q /\ p[i] = q[n + i]
             /\ \A i \in DOMAIN q : q[i] \in Range(p) <=> i > n
<1> DEFINE p == SubSeq(q, n + 1, Len(q))
<1>1. Len(q) \in Nat /\ n \in Nat /\ n <= Len(q) /\ DOMAIN q = 1 .. Len(q)
  OBVIOUS
<1>2. /\ p \in Seq(Tasks)
      /\ Len(p) = IF n + 1 <= Len(q) THEN Len(q) - (n + 1) + 1 ELSE 0
      /\ \A i \in 1 .. Len(q) - (n + 1) + 1 : p[i] = q[(n + 1) + i - 1]
  BY <1>1
<1> HIDE DEF p
<1>3. Len(p) = Len(q) - n /\ DOMAIN p = 1 .. (Len(q) - n)
  <2>1. CASE n + 1 <= Len(q)
    <3>1. Len(p) = Len(q) - (n + 1) + 1
      BY <1>2, <2>1
    <3>2. Len(q) - (n + 1) + 1 = Len(q) - n
      BY <1>1
    <3> QED
      BY <1>2, <3>1, <3>2
  <2>2. CASE ~(n + 1 <= Len(q))
    <3>1. Len(p) = 0
      BY <1>2, <2>2
    <3>2. n = Len(q)
      <4>1. \A a, b \in Nat : a <= b /\ ~(a + 1 <= b) => a = b
        OBVIOUS
      <4> QED
        BY <1>1, <2>2, <4>1, Zenon
    <3>3. Len(q) - n = 0
      BY <1>1, <3>2
    <3> QED
      BY <1>2, <3>1, <3>3
  <2> QED
    BY <2>1, <2>2
<1>4. ASSUME NEW i \in DOMAIN p
      PROVE  n + i \in DOMAIN q /\ p[i] = q[n + i]
  <2>1. /\ i \in 1 .. Len(q) - (n + 1) + 1 /\ (n + 1) + i - 1 = n + i
        /\ n + i \in DOMAIN q
    BY <1>1, <1>3
  <2> QED
    BY <1>2, <2>1, Zenon
<1>5. \A i \in DOMAIN p : i \in Nat /\ n + i \in Nat /\ n + i > n
  BY <1>1, <1>3
<1>6. IsInjective(p)
  <2> SUFFICES ASSUME NEW i \in DOMAIN p, NEW j \in DOMAIN p, p[i] = p[j]
               PROVE  i = j
    BY DEF IsInjective
  <2>1. n + i = n + j
    BY <1>4 DEF IsInjective
  <2> QED
    BY <1>1, <1>5, <2>1
<1>7. ASSUME NEW i \in DOMAIN q
      PROVE  q[i] \in Range(p) <=> i > n
  <2>1. ASSUME q[i] \in Range(p)
        PROVE  i > n
    <3>1. PICK j \in DOMAIN p : p[j] = q[i]
      BY <2>1 DEF Range
    <3>2. i = n + j
      BY <1>4, <3>1 DEF IsInjective
    <3> QED
      BY <1>5, <3>2
  <2>2. ASSUME i > n
        PROVE  q[i] \in Range(p)
    <3>1. i - n \in DOMAIN p /\ n + (i - n) = i
      BY <1>1, <1>3, <2>2
    <3>2. p[i - n] = q[i]
      BY <1>4, <3>1
    <3> QED
      BY <3>1, <3>2 DEF Range
  <2> QED
    BY <2>1, <2>2
<1> QED
  BY <1>2, <1>3, <1>4, <1>6, <1>7 DEF p

\* The tick wakes exactly the queued tasks whose deadline it reaches.
Woken(m, t) == Linked(m, t) /\ m.left[t] <= 1

LEMMA WakeFacts ==
  ASSUME NEW m, Sound(m)
  PROVE  LET r == WakeExpired(m)
         IN  /\ Sound(r) /\ r.cur = m.cur /\ r.preempt = m.preempt /\ r.irq = m.irq
             /\ \A t \in Tasks :
                  /\ r.st[t] = IF Woken(m, t) THEN "RUNNABLE" ELSE m.st[t]
                  /\ Linked(r, t) <=> Linked(m, t) /\ ~Woken(m, t)
<1> DEFINE m1 == [m EXCEPT !.left = Closer(m)]
           n == Expired(m1)
           q == m.sleepq
           p == SubSeq(q, n + 1, Len(q))
           woken == {q[i] : i \in 1 .. n}
           c == IF m.sleeping > n THEN m.sleeping - n ELSE 0
           st == [t \in All |-> IF t \in woken THEN "RUNNABLE" ELSE m.st[t]]
           qu == [t \in All |-> IF t \in woken THEN Quantum ELSE m.quantum[t]]
           m2 == [m1 EXCEPT !.sleepq = p, !.sleeping = c, !.st = st, !.quantum = qu]
           r == IF n = 0 THEN m2
                ELSE IF m.cur = idle_task \/ m.preempt[m.cur] = 0
                THEN [m2 EXCEPT !.requested = TRUE]
                ELSE [m2 EXCEPT !.pending = [m2.pending EXCEPT ![m.cur] = TRUE]]
<1>1. m \in Memory /\ Sorted(m)
  BY DEF Sound
<1>2. Closer(m) \in [Tasks -> 0 .. MaxSleep]
  BY <1>1, SchedulerAssumption DEF Closer, Memory
<1>3. /\ m1 \in Memory /\ m1.left = Closer(m) /\ m1.sleepq = q /\ m1.st = m.st
      /\ m1.sleeping = m.sleeping /\ m1.cur = m.cur /\ m1.preempt = m.preempt
      /\ m1.irq = m.irq /\ m1.quantum = m.quantum
  BY <1>1, <1>2, Zenon DEF Memory
<1>4. WakeExpired(m) = r
  BY <1>1, <1>3 DEF WakeExpired, Closer, All
<1>5. Sorted(m1)
  <2>1. \A i, j \in DOMAIN q : i < j => m.left[q[i]] <= m.left[q[j]]
    BY <1>1 DEF Sorted
  <2>2. \A i \in DOMAIN q : q[i] \in Tasks /\ m.left[q[i]] \in Nat
    BY <1>1, SchedulerAssumption DEF Memory
  <2>3. \A i, j \in DOMAIN q : i < j => Closer(m)[q[i]] <= Closer(m)[q[j]]
    BY <2>1, <2>2 DEF Closer
  <2> QED
    BY <1>1, <1>3, <2>3 DEF Sorted
<1>6. /\ n \in 0 .. Len(q)
      /\ \A i \in DOMAIN q : i <= n <=> Closer(m)[q[i]] = 0
  BY <1>3, <1>5, ExpiredFacts, Zenon
<1> HIDE DEF m1, n
<1>7. \A t \in Tasks : Closer(m)[t] = 0 <=> m.left[t] <= 1
  BY <1>1, SchedulerAssumption DEF Closer, Memory
<1>8. /\ q \in Seq(Tasks) /\ Len(q) \in Nat /\ DOMAIN q = 1 .. Len(q) /\ IsInjective(q)
      /\ m.sleeping = Len(q) /\ n \in Nat /\ n <= Len(q)
      /\ \A i \in DOMAIN q : q[i] \in Tasks
  BY <1>1, <1>6 DEF Memory, Sorted
<1>9. /\ p \in Seq(Tasks) /\ Len(p) = Len(q) - n /\ IsInjective(p)
      /\ \A i \in DOMAIN p : n + i \in DOMAIN q /\ p[i] = q[n + i]
      /\ \A i \in DOMAIN q : q[i] \in Range(p) <=> i > n
  BY <1>6, <1>8, DropFirst, Zenon
<1> HIDE DEF p
<1>10. c = Len(p) /\ c \in Nat
  BY <1>8, <1>9
<1>11. \A t \in Tasks : t \in woken <=> Woken(m, t)
  <2>1. \A i \in DOMAIN q : i <= n <=> m.left[q[i]] <= 1
    BY <1>6, <1>7, <1>8
  <2>2. \A i \in 1 .. n : i \in DOMAIN q /\ i <= n
    BY <1>8
  <2>3. \A i \in DOMAIN q : i <= n => i \in 1 .. n
    BY <1>8
  <2> QED
    BY <2>1, <2>2, <2>3 DEF Woken, Linked
<1>12. woken \subseteq Tasks
  BY <1>8
<1> HIDE DEF woken, c
<1>13. st \in [All -> States] /\ qu \in [All -> 1 .. Quantum]
  BY <1>1, SchedulerAssumption DEF Memory, States
<1> HIDE DEF st, qu
<1>14. /\ m2 \in Memory /\ m2.sleepq = p /\ m2.sleeping = c /\ m2.st = st
       /\ m2.left = Closer(m) /\ m2.cur = m.cur /\ m2.preempt = m.preempt
       /\ m2.irq = m.irq
  BY <1>3, <1>9, <1>10, <1>13, Zenon DEF Memory
<1> HIDE DEF m2
<1>15. /\ r \in Memory /\ r.sleepq = p /\ r.sleeping = c /\ r.st = st
       /\ r.left = Closer(m) /\ r.cur = m.cur /\ r.preempt = m.preempt
       /\ r.irq = m.irq
  BY <1>14, Zenon DEF Memory
<1> HIDE DEF r
<1>16. Sorted(r)
  <2>1. ASSUME NEW i \in DOMAIN p, NEW j \in DOMAIN p, i < j
        PROVE  Closer(m)[p[i]] <= Closer(m)[p[j]]
    <3>1. n + i < n + j
      BY <1>8, <1>9, <2>1
    <3> QED
      BY <1>3, <1>5, <1>9, <3>1 DEF Sorted
  <2> QED
    BY <1>9, <1>10, <1>15, <2>1 DEF Sorted
<1>17. \A t \in Tasks : r.st[t] = IF Woken(m, t) THEN "RUNNABLE" ELSE m.st[t]
  <2>1. Tasks \subseteq All
    BY SchedulerAssumption DEF Tasks, All
  <2> QED
    BY <1>11, <1>15, <2>1 DEF st
<1>18. \A t \in Tasks : Linked(r, t) <=> Linked(m, t) /\ ~Woken(m, t)
  <2>1. \A i \in DOMAIN q : q[i] \in Range(p) <=> ~(m.left[q[i]] <= 1)
    <3>1. \A i \in DOMAIN q : i > n <=> ~(i <= n)
      BY <1>8
    <3> QED
      BY <1>6, <1>7, <1>8, <1>9, <3>1
  <2>2. Range(p) \subseteq Range(q)
    BY <1>9 DEF Range
  <2>3. Range(q) = {q[i] : i \in DOMAIN q}
    BY DEF Range
  <2> QED
    BY <1>15, <2>1, <2>2, <2>3, LinkedRange DEF Woken
<1>19. \A t \in All : r.st[t] = "RUNNING" => m.st[t] = "RUNNING"
  BY <1>15 DEF st
<1>20. Sound(r)
  <2>1. \A t \in Tasks : r.st[t] = "SLEEPING" => Linked(r, t)
    BY <1>17, <1>18 DEF Sound
  <2>2. \A t \in All : r.st[t] = "RUNNING" => r.cur = t
    BY <1>15, <1>19 DEF Sound
  <2> QED
    BY <1>15, <1>16, <2>1, <2>2 DEF Sound
<1> QED
  BY <1>4, <1>15, <1>17, <1>18, <1>20

\* Charging the quantum only writes counters and requests.
LEMMA ChargeFacts ==
  ASSUME NEW m, Sound(m)
  PROVE  LET r == ChargeQuantum(m)
         IN  /\ Sound(r) /\ SleepersKept(m, r) /\ r.st = m.st
             /\ r.cur = m.cur /\ r.preempt = m.preempt /\ r.irq = m.irq
<1> DEFINE r == ChargeQuantum(m)
<1>1. m \in Memory /\ m.cur \in All /\ m.quantum \in [All -> 1 .. Quantum]
  BY DEF Sound, Memory
<1>2. /\ r \in Memory /\ r.cur = m.cur /\ r.preempt = m.preempt /\ r.irq = m.irq
      /\ r.st = m.st /\ r.sleepq = m.sleepq /\ r.left = m.left /\ r.sleeping = m.sleeping
  <2>1. m.quantum[m.cur] > 1 => [m.quantum EXCEPT ![m.cur] = @ - 1] \in [All -> 1 .. Quantum]
    BY <1>1, SchedulerAssumption
  <2>2. [m.quantum EXCEPT ![m.cur] = Quantum] \in [All -> 1 .. Quantum]
    BY <1>1, SchedulerAssumption
  <2>3. [m.pending EXCEPT ![m.cur] = TRUE] \in [All -> BOOLEAN]
    BY <1>1 DEF Memory
  <2>4. CASE m.cur = idle_task
    BY <1>1, <2>4, Zenon DEF ChargeQuantum, Memory
  <2>5. CASE m.cur # idle_task /\ m.st[m.cur] # "RUNNING"
    BY <1>1, <2>5 DEF ChargeQuantum
  <2>6. CASE m.cur # idle_task /\ m.st[m.cur] = "RUNNING" /\ m.quantum[m.cur] > 1
    <3>1. r = [m EXCEPT !.quantum = [m.quantum EXCEPT ![m.cur] = @ - 1]]
      BY <2>6 DEF ChargeQuantum
    <3> QED
      BY <1>1, <2>1, <2>6, <3>1, Zenon DEF Memory
  <2>7. CASE /\ m.cur # idle_task /\ m.st[m.cur] = "RUNNING" /\ ~(m.quantum[m.cur] > 1)
             /\ m.preempt[m.cur] = 0
    <3>1. r = [m EXCEPT !.quantum = [m.quantum EXCEPT ![m.cur] = Quantum], !.requested = TRUE]
      BY <2>7 DEF ChargeQuantum
    <3> QED
      BY <1>1, <2>2, <3>1, Zenon DEF Memory
  <2>8. CASE /\ m.cur # idle_task /\ m.st[m.cur] = "RUNNING" /\ ~(m.quantum[m.cur] > 1)
             /\ m.preempt[m.cur] # 0
    <3>1. r = [m EXCEPT !.quantum = [m.quantum EXCEPT ![m.cur] = Quantum],
                        !.pending = [m.pending EXCEPT ![m.cur] = TRUE]]
      BY <2>8 DEF ChargeQuantum
    <3> QED
      BY <1>1, <2>2, <2>3, <3>1, Zenon DEF Memory
  <2> QED
    BY <2>4, <2>5, <2>6, <2>7, <2>8
<1> HIDE DEF r
<1>3. Sound(r) /\ SleepersKept(m, r)
  BY <1>2 DEF Sound, Sorted, SleepersKept, Linked
<1> QED
  BY <1>2, <1>3 DEF r

\* The way out of the interrupt: a section keeps the CPU, and the idle task
\* gives it up as soon as anything can run.
LEMMA RescheduleFacts ==
  ASSUME NEW m, Sound(m), m.cur = idle_task => m.preempt[m.cur] = 0
  PROVE  LET r == task_reschedule_if_needed(m)
         IN  /\ Sound(r) /\ IdleSound(r) /\ SleepersKept(m, r)
             /\ r.preempt = m.preempt /\ r.irq = m.irq
             /\ r.cur = m.cur \/ m.preempt[m.cur] = 0
<1> DEFINE r == task_reschedule_if_needed(m)
           m1 == [m EXCEPT !.requested = FALSE]
           m2 == [m1 EXCEPT !.pending = [m1.pending EXCEPT ![m.cur] = FALSE]]
           asked == \/ m.requested \/ m.pending[m.cur]
                    \/ m.cur = idle_task /\ \E t \in Tasks : m.st[t] = "RUNNABLE"
<1>1. m \in Memory /\ m.cur \in All /\ m.preempt[m.cur] \in Nat
  BY DEF Sound, Memory
<1>2. r = IF m.preempt[m.cur] > 0 THEN m ELSE IF asked THEN schedule(m2) ELSE m1
  BY DEF task_reschedule_if_needed
<1>3. m1 \in Memory /\ m2 \in Memory
  BY <1>1, Zenon DEF Memory
<1>4. /\ m1.cur = m.cur /\ m1.st = m.st /\ m1.irq = m.irq /\ m1.preempt = m.preempt
      /\ m1.sleepq = m.sleepq /\ m1.left = m.left /\ m1.sleeping = m.sleeping
      /\ m2.cur = m.cur /\ m2.st = m.st /\ m2.irq = m.irq /\ m2.preempt = m.preempt
      /\ m2.sleepq = m.sleepq /\ m2.left = m.left /\ m2.sleeping = m.sleeping
  BY <1>1 DEF Memory
<1> HIDE DEF m1, m2
<1>5. Sound(m1) /\ Sound(m2) /\ SleepersKept(m, m1) /\ SleepersKept(m, m2)
  BY <1>3, <1>4 DEF Sound, Sorted, SleepersKept, Linked
<1>6. CASE m.preempt[m.cur] > 0
  <2>1. r = m /\ IdleSound(m) /\ SleepersKept(m, m)
    BY <1>2, <1>6 DEF IdleSound, SleepersKept
  <2> QED
    BY <2>1
<1>7. CASE ~(m.preempt[m.cur] > 0) /\ asked
  <2>1. r = schedule(m2) /\ m.preempt[m.cur] = 0
    BY <1>1, <1>2, <1>7
  <2>2. /\ Sound(r) /\ IdleSound(r) /\ SleepersKept(m2, r)
        /\ r.preempt = m2.preempt /\ r.irq = m2.irq
    BY <1>5, <2>1, ScheduleFacts
  <2> QED
    BY <1>4, <1>5, <2>1, <2>2 DEF SleepersKept
<1>8. CASE ~(m.preempt[m.cur] > 0) /\ ~asked
  <2>1. r = m1
    BY <1>2, <1>8
  <2>2. IdleSound(m1)
    BY <1>4, <1>8 DEF IdleSound, NoWork
  <2> QED
    BY <1>4, <1>5, <2>1, <2>2
<1> QED
  BY <1>6, <1>7, <1>8

-----------------------------------------------------------------------------
(* Sections *)

\* One field of the state of one task.
LEMMA StFacts ==
  ASSUME NEW m \in Memory, Sorted(m), NEW t \in Tasks, NEW v \in States
  PROVE  LET r == [m EXCEPT !.st[t] = v]
         IN  /\ r \in Memory /\ Sorted(r) /\ r.st = [m.st EXCEPT ![t] = v]
             /\ r.cur = m.cur /\ r.preempt = m.preempt /\ r.irq = m.irq
             /\ r.left = m.left /\ r.sleepq = m.sleepq
             /\ \A u \in Tasks : Linked(r, u) <=> Linked(m, u)
<1> DEFINE f == [m.st EXCEPT ![t] = v]
           r == [m EXCEPT !.st = f]
<1>1. f \in [All -> States]
  BY Zenon DEF Memory
<1> HIDE DEF f
<1>2. r \in Memory
  BY <1>1, Zenon DEF Memory
<1>3. /\ r.cur = m.cur /\ r.st = f /\ r.preempt = m.preempt /\ r.irq = m.irq
      /\ r.left = m.left /\ r.sleepq = m.sleepq /\ r.sleeping = m.sleeping
  BY DEF Memory
<1> HIDE DEF r
<1>4. Sorted(r) /\ \A u \in Tasks : Linked(r, u) <=> Linked(m, u)
  BY <1>3 DEF Sorted, Linked
<1>5. r = [m EXCEPT !.st[t] = v]
  BY DEF r, f
<1> QED
  BY <1>2, <1>3, <1>4, <1>5 DEF f

LEMMA DisableFacts ==
  ASSUME NEW m, Sound(m)
  PROVE  LET r == preempt_disable(m)
         IN  /\ Sound(r) /\ r.st = m.st /\ r.cur = m.cur /\ r.irq = m.irq
             /\ r.preempt = [m.preempt EXCEPT ![m.cur] = @ + 1]
             /\ SleepersKept(m, r)
<1> DEFINE f == [m.preempt EXCEPT ![m.cur] = @ + 1]
           r == [m EXCEPT !.preempt = f]
<1>1. m \in Memory /\ f \in [All -> Nat]
  BY DEF Sound, Memory
<1> HIDE DEF f
<1>2. r \in Memory
  BY <1>1, Zenon DEF Memory
<1>3. /\ r.cur = m.cur /\ r.st = m.st /\ r.preempt = f /\ r.irq = m.irq
      /\ r.left = m.left /\ r.sleepq = m.sleepq /\ r.sleeping = m.sleeping
  BY <1>1 DEF Memory
<1> HIDE DEF r
<1>4. Sound(r) /\ SleepersKept(m, r)
  BY <1>2, <1>3 DEF Sound, Sorted, SleepersKept, Linked
<1>5. r = preempt_disable(m)
  BY DEF r, f, preempt_disable
<1> QED
  BY <1>3, <1>4, <1>5 DEF f

\* s is the memory at the end of a section that began in m.
Section(m, s) == /\ Sound(s) /\ s.cur = m.cur /\ s.irq = m.irq
                 /\ s.preempt = [m.preempt EXCEPT ![m.cur] = @ + 1]

LEMMA LeaveFacts ==
  ASSUME NEW m, NEW s, Sound(m), m.cur \in Tasks, Section(m, s)
  PROVE  LET r == preempt_enable(s)
         IN  /\ Sound(r) /\ IdleSound(r) /\ SleepersKept(s, r)
             /\ r.preempt = m.preempt
             /\ r.cur = m.cur \/ m.preempt[m.cur] = 0
<1> DEFINE r == preempt_enable(s)
<1>1. m.cur \in All /\ m.preempt \in [All -> Nat]
  BY DEF Sound, Memory
<1>2. Sound(s) /\ s.cur = m.cur /\ s.preempt = [m.preempt EXCEPT ![m.cur] = @ + 1]
  BY DEF Section
<1>3. s.preempt[s.cur] = m.preempt[m.cur] + 1 /\ s.preempt[s.cur] > 0
  BY <1>1, <1>2
<1>4. /\ Sound(r) /\ IdleSound(r) /\ SleepersKept(s, r)
      /\ r.preempt = [s.preempt EXCEPT ![s.cur] = @ - 1]
      /\ r.cur = s.cur \/ s.preempt[s.cur] = 1
  BY <1>2, <1>3, EnableFacts, Zenon
<1> HIDE DEF r
<1>5. r.preempt = m.preempt
  BY <1>1, <1>2, <1>4
<1>6. r.cur = m.cur \/ m.preempt[m.cur] = 0
  BY <1>1, <1>2, <1>3, <1>4
<1> QED
  BY <1>4, <1>5, <1>6 DEF r

-----------------------------------------------------------------------------
(* The inductive invariant *)

Asleep == {"sleep_loop", "sleep_schedule"}
Queued == Asleep \cup {"timed_window", "timed_dequeue"}

\* What the labels say about the memory.
Control(m, p) ==
  /\ p \in [Tasks -> Labels]
  /\ \A t \in All : m.preempt[t] = IF t \in Tasks /\ p[t] = "locked" THEN 1 ELSE 0
  /\ \A t \in Tasks : p[t] = "locked" => m.cur = t
  /\ \A t \in Tasks : Linked(m, t) => p[t] \in Queued
  /\ \A t \in Tasks : p[t] \in Asleep => (Linked(m, t) <=> m.st[t] = "SLEEPING")
  /\ \A t \in Tasks : m.st[t] = "SLEEPING" => p[t] \in Asleep

Inv == Sound(k) /\ IdleSound(k) /\ Control(k, pc)

\* The memory r agrees with m about sleepers other than t, and about t with
\* label.
View(m, r, t, label) ==
  /\ \A u \in Tasks \ {t} :
       (Linked(r, u) <=> Linked(m, u)) /\ (r.st[u] = "SLEEPING" <=> m.st[u] = "SLEEPING")
  /\ Linked(r, t) => label \in Queued
  /\ label \in Asleep => (Linked(r, t) <=> r.st[t] = "SLEEPING")
  /\ r.st[t] = "SLEEPING" => label \in Asleep

\* A step of the current task t to label.
Moved(m, r, t, label) ==
  /\ r.preempt = [m.preempt EXCEPT ![t] = IF label = "locked" THEN 1 ELSE 0]
  /\ label = "locked" => r.cur = t
  /\ View(m, r, t, label)

LEMMA MovedFacts ==
  ASSUME NEW m, NEW r, NEW p, NEW t \in Tasks, NEW label \in Labels,
         m.preempt \in [All -> Nat], Control(m, p), m.cur = t, Moved(m, r, t, label)
  PROVE  Control(r, [p EXCEPT ![t] = label])
<1> DEFINE q == [p EXCEPT ![t] = label]
<1>1. Tasks \subseteq All
  BY SchedulerAssumption DEF Tasks, All
<1>2. p \in [Tasks -> Labels] /\ q \in [Tasks -> Labels]
  BY DEF Control
<1>3. q[t] = label /\ \A u \in Tasks \ {t} : q[u] = p[u]
  BY <1>2
<1> HIDE DEF q
<1>4. \A u \in Tasks \ {t} : p[u] # "locked"
  BY DEF Control
<1>5. \A u \in All : r.preempt[u] = IF u \in Tasks /\ q[u] = "locked" THEN 1 ELSE 0
  <2> SUFFICES ASSUME NEW u \in All
               PROVE  r.preempt[u] = IF u \in Tasks /\ q[u] = "locked" THEN 1 ELSE 0
    OBVIOUS
  <2>1. CASE u = t
    BY <1>1, <1>3, <2>1 DEF Moved
  <2>2. CASE u # t
    BY <1>1, <1>3, <2>2 DEF Moved, Control
  <2> QED
    BY <2>1, <2>2
<1>6. \A u \in Tasks : q[u] = "locked" => r.cur = u
  BY <1>3, <1>4 DEF Moved
<1>7. \A u \in Tasks : Linked(r, u) => q[u] \in Queued
  <2> SUFFICES ASSUME NEW u \in Tasks
               PROVE  Linked(r, u) => q[u] \in Queued
    OBVIOUS
  <2>1. CASE u = t
    BY <1>3, <2>1, Zenon DEF Moved, View
  <2>2. CASE u # t
    <3>1. q[u] = p[u] /\ u \in Tasks \ {t}
      BY <1>3, <2>2
    <3>2. /\ Linked(r, u) <=> Linked(m, u)
          /\ r.st[u] = "SLEEPING" <=> m.st[u] = "SLEEPING"
      BY <3>1 DEF Moved, View
    <3>3. /\ Linked(m, u) => p[u] \in Queued
          /\ p[u] \in Asleep => (Linked(m, u) <=> m.st[u] = "SLEEPING")
          /\ m.st[u] = "SLEEPING" => p[u] \in Asleep
      BY DEF Control
    <3> QED
      BY <3>1, <3>2, <3>3
  <2> QED
    BY <2>1, <2>2
<1>8. \A u \in Tasks : q[u] \in Asleep => (Linked(r, u) <=> r.st[u] = "SLEEPING")
  <2> SUFFICES ASSUME NEW u \in Tasks
               PROVE  q[u] \in Asleep => (Linked(r, u) <=> r.st[u] = "SLEEPING")
    OBVIOUS
  <2>1. CASE u = t
    BY <1>3, <2>1, Zenon DEF Moved, View
  <2>2. CASE u # t
    <3>1. q[u] = p[u] /\ u \in Tasks \ {t}
      BY <1>3, <2>2
    <3>2. /\ Linked(r, u) <=> Linked(m, u)
          /\ r.st[u] = "SLEEPING" <=> m.st[u] = "SLEEPING"
      BY <3>1 DEF Moved, View
    <3>3. /\ Linked(m, u) => p[u] \in Queued
          /\ p[u] \in Asleep => (Linked(m, u) <=> m.st[u] = "SLEEPING")
          /\ m.st[u] = "SLEEPING" => p[u] \in Asleep
      BY DEF Control
    <3> QED
      BY <3>1, <3>2, <3>3
  <2> QED
    BY <2>1, <2>2
<1>9. \A u \in Tasks : r.st[u] = "SLEEPING" => q[u] \in Asleep
  <2> SUFFICES ASSUME NEW u \in Tasks
               PROVE  r.st[u] = "SLEEPING" => q[u] \in Asleep
    OBVIOUS
  <2>1. CASE u = t
    BY <1>3, <2>1, Zenon DEF Moved, View
  <2>2. CASE u # t
    <3>1. q[u] = p[u] /\ u \in Tasks \ {t}
      BY <1>3, <2>2
    <3>2. /\ Linked(r, u) <=> Linked(m, u)
          /\ r.st[u] = "SLEEPING" <=> m.st[u] = "SLEEPING"
      BY <3>1 DEF Moved, View
    <3>3. /\ Linked(m, u) => p[u] \in Queued
          /\ p[u] \in Asleep => (Linked(m, u) <=> m.st[u] = "SLEEPING")
          /\ m.st[u] = "SLEEPING" => p[u] \in Asleep
      BY DEF Control
    <3> QED
      BY <3>1, <3>2, <3>3
  <2> QED
    BY <2>1, <2>2
<1> QED
  BY <1>2, <1>5, <1>6, <1>7, <1>8, <1>9 DEF Control, q

LEMMA ViewKept ==
  ASSUME NEW m, NEW s, NEW r, NEW t \in Tasks, NEW label \in Labels,
         View(m, s, t, label), SleepersKept(s, r)
  PROVE  View(m, r, t, label)
<1>1. \A u \in Tasks : (Linked(r, u) <=> Linked(s, u))
                       /\ (r.st[u] = "SLEEPING" <=> s.st[u] = "SLEEPING")
  BY DEF SleepersKept, Linked
<1> QED
  BY <1>1 DEF View

\* The task's own label is always a view of the memory as it is.
LEMMA OwnView ==
  ASSUME NEW m, NEW p, NEW t \in Tasks, Control(m, p)
  PROVE  View(m, m, t, p[t]) /\ p[t] \in Labels
BY DEF Control, View

\* No step but a tick ends a sleep.
StillAsleep == \A u \in Tasks : k.st[u] = "SLEEPING" => k'.st[u] = "SLEEPING"

\* The current task moves on.
LEMMA Step ==
  ASSUME Inv, NEW t \in Tasks, k.cur = t, NEW label \in Labels,
         pc' = [pc EXCEPT ![t] = label], Sound(k'), IdleSound(k'),
         Moved(k, k', t, label), k.st[t] = "SLEEPING" => k'.st[t] = "SLEEPING"
  PROVE  Inv' /\ StillAsleep
<1>1. k.preempt \in [All -> Nat] /\ Control(k, pc)
  BY DEF Inv, Sound, Memory
<1>2. Control(k', pc')
  BY <1>1, MovedFacts, Zenon
<1>3. \A u \in Tasks \ {t} : k'.st[u] = "SLEEPING" <=> k.st[u] = "SLEEPING"
  BY DEF Moved, View
<1> QED
  BY <1>2, <1>3 DEF Inv, StillAsleep

\* It leaves a section it entered, or stays in its spinlock section.
LEMMA SectionStep ==
  ASSUME Inv, NEW t \in Tasks, k.cur = t, NEW label \in Labels,
         pc' = [pc EXCEPT ![t] = label], label = "locked" <=> pc[t] = "locked",
         NEW s, Section(k, s), k' = preempt_enable(s), View(k, s, t, label),
         k.st[t] = "SLEEPING" => s.st[t] = "SLEEPING"
  PROVE  Inv' /\ StillAsleep
<1>1. /\ Sound(k') /\ IdleSound(k') /\ SleepersKept(s, k')
      /\ k'.preempt = k.preempt
      /\ k'.cur = k.cur \/ k.preempt[k.cur] = 0
  BY LeaveFacts DEF Inv
<1>2. /\ k.preempt \in [All -> Nat] /\ t \in All
      /\ k.preempt[t] = IF label = "locked" THEN 1 ELSE 0
  BY SchedulerAssumption, Zenon DEF Inv, Control, Sound, Memory, Tasks, All
<1>3. k'.preempt = [k.preempt EXCEPT ![t] = IF label = "locked" THEN 1 ELSE 0]
  BY <1>1, <1>2
<1>4. label = "locked" => k'.cur = t
  BY <1>1, <1>2
<1>5. View(k, k', t, label)
  BY <1>1, ViewKept
<1>6. k.st[t] = "SLEEPING" => k'.st[t] = "SLEEPING"
  BY <1>1 DEF SleepersKept
<1> QED
  BY <1>1, <1>3, <1>4, <1>5, <1>6, Step, Zenon DEF Moved

\* It calls schedule() outside any section.
LEMMA ScheduleStep ==
  ASSUME Inv, NEW t \in Tasks, k.cur = t, NEW label \in Labels \ {"locked"},
         pc' = [pc EXCEPT ![t] = label], pc[t] # "locked", k' = schedule(k),
         View(k, k, t, label)
  PROVE  Inv' /\ StillAsleep
<1>1. /\ Sound(k') /\ IdleSound(k') /\ SleepersKept(k, k') /\ k'.preempt = k.preempt
  BY ScheduleFacts DEF Inv
<1>2. k.preempt \in [All -> Nat] /\ t \in All /\ k.preempt[t] = 0
  BY SchedulerAssumption DEF Inv, Control, Sound, Memory, Tasks, All
<1>3. k'.preempt = [k.preempt EXCEPT ![t] = IF label = "locked" THEN 1 ELSE 0]
  BY <1>1, <1>2
<1>4. View(k, k', t, label)
  BY <1>1, ViewKept
<1>5. k.st[t] = "SLEEPING" => k'.st[t] = "SLEEPING"
  BY <1>1 DEF SleepersKept
<1> QED
  BY <1>1, <1>3, <1>4, <1>5, Step, Zenon DEF Moved

-----------------------------------------------------------------------------
(* Every action preserves the invariant *)

LEMMA AwakeView ==
  ASSUME NEW m, NEW p, NEW t \in Tasks, Control(m, p), p[t] \notin Asleep,
         NEW label \in Labels, label \notin Asleep,
         p[t] \in Queued => label \in Queued
  PROVE  View(m, m, t, label) /\ m.st[t] # "SLEEPING"
BY DEF Control, View

LEMMA LabelFacts ==
  /\ \A l \in {"run", "locked", "wait_window"} : l \in Labels /\ l \notin Queued /\ l \notin Asleep
  /\ \A l \in {"timed_window", "timed_dequeue"} : l \in Labels /\ l \in Queued /\ l \notin Asleep
  /\ \A l \in {"sleep_loop", "sleep_schedule"} : l \in Labels /\ l \in Queued /\ l \in Asleep
BY DEF Labels, Queued, Asleep

\* The current task is a slot of tasks[], and it is in the table of labels.
LEMMA CurrentFacts ==
  ASSUME Inv, NEW t \in Tasks
  PROVE  /\ Sound(k) /\ Control(k, pc) /\ pc \in [Tasks -> Labels]
         /\ pc = [pc EXCEPT ![t] = pc[t]] /\ pc[t] \in Labels
         /\ t \in All /\ t # idle_task
BY SchedulerAssumption DEF Inv, Control, Tasks, All, idle_task

LEMMA YieldStep ==
  ASSUME Inv, NEW t \in Tasks, task_yield(t)
  PROVE  Inv' /\ StillAsleep
<1>1. k.cur = t /\ pc[t] = "run" /\ k' = schedule(k) /\ pc' = pc
  BY DEF task_yield, At
<1>2. View(k, k, t, "run")
  BY <1>1, CurrentFacts, OwnView
<1>3. pc' = [pc EXCEPT ![t] = "run"]
  BY <1>1, CurrentFacts
<1> QED
  BY <1>1, <1>2, <1>3, LabelFacts, ScheduleStep, Zenon

LEMMA LockStep ==
  ASSUME Inv, NEW t \in Tasks, spinlock_lock(t)
  PROVE  Inv' /\ StillAsleep
<1>1. k.cur = t /\ pc[t] = "run" /\ k' = preempt_disable(k)
      /\ pc' = [pc EXCEPT ![t] = "locked"]
  BY DEF spinlock_lock, At, Goto
<1>2. Sound(k) /\ Control(k, pc) /\ t \in All /\ t # idle_task
  BY CurrentFacts
<1>3. /\ Sound(k') /\ k'.st = k.st /\ k'.cur = k.cur /\ SleepersKept(k, k')
      /\ k'.preempt = [k.preempt EXCEPT ![t] = @ + 1]
  BY <1>1, <1>2, DisableFacts
<1>4. k.preempt[t] = 0
  BY <1>1, <1>2 DEF Control
<1>5. View(k, k', t, "locked")
  <2>1. View(k, k, t, "locked")
    BY <1>1, <1>2, LabelFacts, AwakeView, Zenon
  <2> QED
    BY <1>3, <2>1, LabelFacts, ViewKept
<1>6. k'.preempt = [k.preempt EXCEPT ![t] = 1] /\ IdleSound(k')
  BY <1>1, <1>2, <1>3, <1>4 DEF IdleSound
<1>7. Moved(k, k', t, "locked")
  BY <1>1, <1>3, <1>5, <1>6 DEF Moved
<1> QED
  BY <1>1, <1>3, <1>6, <1>7, LabelFacts, Step, Zenon

LEMMA UnlockStep ==
  ASSUME Inv, NEW t \in Tasks, spinlock_unlock(t)
  PROVE  Inv' /\ StillAsleep
<1>1. k.cur = t /\ pc[t] = "locked" /\ k' = preempt_enable(k)
      /\ pc' = [pc EXCEPT ![t] = "run"]
  BY DEF spinlock_unlock, At, Goto, Leave
<1>2. Sound(k) /\ Control(k, pc) /\ t \in All /\ t # idle_task
  BY CurrentFacts
<1>3. k.preempt[t] = 1
  BY <1>1, <1>2 DEF Control
<1>4. /\ Sound(k') /\ IdleSound(k') /\ SleepersKept(k, k')
      /\ k'.preempt = [k.preempt EXCEPT ![t] = @ - 1]
  BY <1>1, <1>2, <1>3, EnableFacts
<1>5. View(k, k, t, "run") /\ k.st[t] # "SLEEPING"
  BY <1>1, <1>2, LabelFacts, AwakeView
<1>6. View(k, k', t, "run")
  BY <1>4, <1>5, LabelFacts, ViewKept
<1>7. k'.preempt = [k.preempt EXCEPT ![t] = 0]
  BY <1>2, <1>3, <1>4
<1>8. Moved(k, k', t, "run")
  BY <1>6, <1>7 DEF Moved
<1> QED
  BY <1>1, <1>4, <1>5, <1>8, LabelFacts, Step, Zenon

\* int 0x80 and iret change no more than RFLAGS.IF.
LEMMA IrqStep ==
  ASSUME Inv, NEW t \in Tasks, NEW b \in BOOLEAN, k.cur = t, pc[t] = "run",
         k' = [k EXCEPT !.irq[t] = b], pc' = pc
  PROVE  Inv' /\ StillAsleep
<1>1. Sound(k) /\ Control(k, pc) /\ t \in All /\ t # idle_task /\ k \in Memory
  BY CurrentFacts DEF Sound
<1> DEFINE f == [k.irq EXCEPT ![t] = b]
<1>2. f \in [All -> BOOLEAN] /\ k' = [k EXCEPT !.irq = f]
  BY <1>1 DEF Memory
<1> HIDE DEF f
<1>3. /\ k' \in Memory /\ k'.cur = k.cur /\ k'.st = k.st /\ k'.preempt = k.preempt
      /\ k'.left = k.left /\ k'.sleepq = k.sleepq /\ k'.sleeping = k.sleeping
  BY <1>1, <1>2, Zenon DEF Memory
<1>4. Sound(k') /\ SleepersKept(k, k') /\ IdleSound(k')
  BY <1>1, <1>3 DEF Sound, Sorted, SleepersKept, Linked, IdleSound
<1>5. View(k, k', t, "run")
  BY <1>1, <1>4, LabelFacts, OwnView, ViewKept
<1>6. k.preempt[t] = 0 /\ k.preempt \in [All -> Nat]
  BY <1>1 DEF Control, Memory
<1>7. k'.preempt = [k.preempt EXCEPT ![t] = 0]
  BY <1>1, <1>3, <1>6
<1>8. Moved(k, k', t, "run") /\ pc' = [pc EXCEPT ![t] = "run"]
  BY <1>5, <1>7, CurrentFacts DEF Moved
<1> QED
  BY <1>3, <1>4, <1>8, LabelFacts, Step, Zenon

LEMMA SyscallStep ==
  ASSUME Inv, NEW t \in Tasks, SyscallEnter(t) \/ SyscallReturn(t)
  PROVE  Inv' /\ StillAsleep
BY IrqStep, Zenon DEF SyscallEnter, SyscallReturn, At

\* task_block on the current task.
Blocks(m, r, t) == r = [m EXCEPT !.st[t] = "BLOCKED"]

LEMMA BlockedFacts ==
  ASSUME NEW m, Sound(m), NEW t \in Tasks, NEW r, Blocks(m, r, t)
  PROVE  /\ Sound(r) /\ r.cur = m.cur /\ r.preempt = m.preempt /\ r.irq = m.irq
         /\ r.st[t] = "BLOCKED" /\ \A u \in Tasks \ {t} : r.st[u] = m.st[u]
         /\ \A u \in Tasks : Linked(r, u) <=> Linked(m, u)
<1>1. m \in Memory /\ Sorted(m) /\ m.st \in [All -> States] /\ t \in All /\ Tasks \subseteq All
  <2>1. m \in Memory /\ Sorted(m) /\ m.st \in [All -> States]
    BY DEF Sound, Memory
  <2>2. Tasks \subseteq All
    BY SchedulerAssumption DEF Tasks, All
  <2> QED
    BY <2>1, <2>2
<1>2. /\ r \in Memory /\ Sorted(r) /\ r.st = [m.st EXCEPT ![t] = "BLOCKED"]
      /\ r.cur = m.cur /\ r.preempt = m.preempt /\ r.irq = m.irq
      /\ \A u \in Tasks : Linked(r, u) <=> Linked(m, u)
  BY <1>1, StFacts, Zenon DEF States, Blocks
<1>3. r.st[t] = "BLOCKED" /\ \A u \in All \ {t} : r.st[u] = m.st[u]
  BY <1>1, <1>2
<1>4. Sound(r)
  BY <1>1, <1>2, <1>3 DEF Sound
<1> QED
  BY <1>1, <1>2, <1>3, <1>4

\* The section entered by the current task, before it does anything.
LEMMA EnterFacts ==
  ASSUME Inv, NEW t \in Tasks, k.cur = t
  PROVE  LET d == preempt_disable(k)
         IN  /\ Section(k, d) /\ d.st = k.st
             /\ \A u \in Tasks : Linked(d, u) <=> Linked(k, u)
<1>1. PICK d : d = preempt_disable(k)
  OBVIOUS
<1>2. /\ Sound(d) /\ d.st = k.st /\ d.cur = k.cur /\ d.irq = k.irq
      /\ d.preempt = [k.preempt EXCEPT ![k.cur] = @ + 1]
      /\ SleepersKept(k, d)
  BY <1>1, DisableFacts DEF Inv
<1>3. \A u \in Tasks : Linked(d, u) <=> Linked(k, u)
  BY <1>2 DEF SleepersKept, Linked
<1> QED
  BY <1>1, <1>2, <1>3 DEF Section

LEMMA BlockStep ==
  ASSUME Inv, NEW t \in Tasks, Block(t)
  PROVE  Inv' /\ StillAsleep
<1>1. PICK d : d = preempt_disable(k)
  OBVIOUS
<1>2. PICK s : s = [d EXCEPT !.st[t] = "BLOCKED"]
  BY Zenon
<1>3. k.cur = t /\ pc[t] = "run" /\ k' = preempt_enable(s)
      /\ pc' = [pc EXCEPT ![t] = "wait_window"]
  BY <1>1, <1>2 DEF Block, At, Goto, Leave
<1>4. Control(k, pc) /\ ~Linked(k, t) /\ k.st[t] # "SLEEPING"
  BY <1>3, LabelFacts, CurrentFacts DEF Control
<1>5. Section(k, d) /\ d.st = k.st /\ \A u \in Tasks : Linked(d, u) <=> Linked(k, u)
  BY <1>1, <1>3, EnterFacts
<1>6. /\ Sound(s) /\ s.cur = d.cur /\ s.preempt = d.preempt /\ s.irq = d.irq
      /\ s.st[t] = "BLOCKED" /\ \A u \in Tasks \ {t} : s.st[u] = d.st[u]
      /\ \A u \in Tasks : Linked(s, u) <=> Linked(d, u)
  <2>1. Sound(d)
    BY <1>5 DEF Section
  <2>2. Blocks(d, s, t)
    BY <1>2, Zenon DEF Blocks
  <2> QED
    BY <2>1, <2>2, BlockedFacts
<1>7. Section(k, s)
  BY <1>5, <1>6 DEF Section
<1>8. View(k, s, t, "wait_window")
  BY <1>4, <1>5, <1>6, LabelFacts DEF View
<1> QED
  BY <1>3, <1>4, <1>7, <1>8, LabelFacts, SectionStep, Zenon

LEMMA BlockScheduleStep ==
  ASSUME Inv, NEW t \in Tasks, BlockSchedule(t)
  PROVE  Inv' /\ StillAsleep
<1>1. k.cur = t /\ pc[t] = "wait_window" /\ k' = schedule(k)
      /\ pc' = [pc EXCEPT ![t] = "run"]
  BY DEF BlockSchedule, At, Goto
<1>2. View(k, k, t, "run")
  BY <1>1, CurrentFacts, LabelFacts, AwakeView
<1> QED
  BY <1>1, <1>2, LabelFacts, ScheduleStep, Zenon

\* Joining the sleep queue leaves the rest of the section as it was.
LEMMA EnqueueSection ==
  ASSUME NEW m, NEW d, Section(m, d), NEW t \in Tasks, NEW v \in 0 .. MaxSleep
  PROVE  LET r == task_sleep_enqueue(d, t, v)
         IN  /\ Section(m, r) /\ r.st = d.st
             /\ \A u \in Tasks : Linked(r, u) <=> Linked(d, u) \/ u = t
<1>1. PICK r : r = task_sleep_enqueue(d, t, v)
  OBVIOUS
<1>2. Sound(d) /\ d \in Memory /\ Sorted(d)
  BY DEF Section, Sound
<1>3. /\ r \in Memory /\ Sorted(r) /\ DeadlineOnly(d, r, t)
      /\ \A u \in Tasks : Linked(r, u) <=> Linked(d, u) \/ u = t
  BY <1>1, <1>2, EnqueueFacts
<1>4. Sound(r)
  BY <1>2, <1>3 DEF Sound, DeadlineOnly
<1> QED
  BY <1>1, <1>3, <1>4 DEF Section, DeadlineOnly

LEMMA TimedBlockStep ==
  ASSUME Inv, NEW t \in Tasks, NEW n \in 1 .. MaxSleep, TimedBlock(t, n)
  PROVE  Inv' /\ StillAsleep
<1>1. PICK d : d = preempt_disable(k)
  OBVIOUS
<1>2. PICK e : e = task_sleep_enqueue(d, t, n)
  OBVIOUS
<1>3. PICK s : s = [e EXCEPT !.st[t] = "BLOCKED"]
  BY Zenon
<1>4. k.cur = t /\ pc[t] = "run" /\ k' = preempt_enable(s)
      /\ pc' = [pc EXCEPT ![t] = "timed_window"]
  BY <1>1, <1>2, <1>3 DEF TimedBlock, At, Goto, Leave
<1>5. Control(k, pc) /\ k.st[t] # "SLEEPING"
  BY <1>4, LabelFacts, CurrentFacts DEF Control
<1>6. Section(k, d) /\ d.st = k.st /\ \A u \in Tasks : Linked(d, u) <=> Linked(k, u)
  BY <1>1, <1>4, EnterFacts
<1>7. n \in 0 .. MaxSleep
  BY SchedulerAssumption
<1>8. Section(k, e) /\ e.st = d.st /\ \A u \in Tasks : Linked(e, u) <=> Linked(d, u) \/ u = t
  BY <1>2, <1>6, <1>7, EnqueueSection
<1>9. /\ Sound(s) /\ s.cur = e.cur /\ s.preempt = e.preempt /\ s.irq = e.irq
      /\ s.st[t] = "BLOCKED" /\ \A u \in Tasks \ {t} : s.st[u] = e.st[u]
      /\ \A u \in Tasks : Linked(s, u) <=> Linked(e, u)
  <2>1. Sound(e)
    BY <1>8 DEF Section
  <2>2. Blocks(e, s, t)
    BY <1>3, Zenon DEF Blocks
  <2> QED
    BY <2>1, <2>2, BlockedFacts
<1>10. Section(k, s)
  BY <1>8, <1>9 DEF Section
<1>11. View(k, s, t, "timed_window")
  BY <1>6, <1>8, <1>9, LabelFacts DEF View
<1> QED
  BY <1>4, <1>5, <1>10, <1>11, LabelFacts, SectionStep, Zenon

LEMMA TimedScheduleStep ==
  ASSUME Inv, NEW t \in Tasks, TimedSchedule(t)
  PROVE  Inv' /\ StillAsleep
<1>1. k.cur = t /\ pc[t] = "timed_window" /\ k' = schedule(k)
      /\ pc' = [pc EXCEPT ![t] = "timed_dequeue"]
  BY DEF TimedSchedule, At, Goto
<1>2. View(k, k, t, "timed_dequeue")
  BY <1>1, CurrentFacts, LabelFacts, AwakeView
<1> QED
  BY <1>1, <1>2, LabelFacts, ScheduleStep, Zenon

LEMMA TimedDequeueStep ==
  ASSUME Inv, NEW t \in Tasks, TimedDequeue(t)
  PROVE  Inv' /\ StillAsleep
<1>1. PICK d : d = preempt_disable(k)
  OBVIOUS
<1>2. PICK s : s = task_sleep_dequeue(d, t)
  OBVIOUS
<1>3. k.cur = t /\ pc[t] = "timed_dequeue" /\ k' = preempt_enable(s)
      /\ pc' = [pc EXCEPT ![t] = "run"]
  BY <1>1, <1>2 DEF TimedDequeue, At, Goto, Leave
<1>4. Control(k, pc) /\ k.st[t] # "SLEEPING"
  BY <1>3, LabelFacts, CurrentFacts DEF Control
<1>5. Section(k, d) /\ d.st = k.st /\ \A u \in Tasks : Linked(d, u) <=> Linked(k, u)
  BY <1>1, <1>3, EnterFacts
<1>6. Sound(d) /\ d \in Memory /\ Sorted(d)
  BY <1>5 DEF Section, Sound
<1>7. /\ s \in Memory /\ Sorted(s) /\ DeadlineOnly(d, s, t)
      /\ \A u \in Tasks : Linked(s, u) <=> Linked(d, u) /\ u # t
  BY <1>2, <1>6, DequeueFacts
<1>8. Sound(s)
  BY <1>4, <1>5, <1>6, <1>7 DEF Sound, DeadlineOnly
<1>9. Section(k, s)
  BY <1>5, <1>7, <1>8 DEF Section, DeadlineOnly
<1>10. View(k, s, t, "run")
  BY <1>4, <1>5, <1>7, LabelFacts DEF View, DeadlineOnly
<1> QED
  BY <1>3, <1>4, <1>9, <1>10, LabelFacts, SectionStep, Zenon

LEMMA SleepStep ==
  ASSUME Inv, NEW t \in Tasks, NEW n \in 0 .. MaxSleep, task_sleep(t, n)
  PROVE  Inv' /\ StillAsleep
<1>1. PICK d : d = preempt_disable(k)
  OBVIOUS
<1>2. PICK e : e = [d EXCEPT !.left[t] = n]
  BY Zenon
<1>3. PICK f : f = [e EXCEPT !.st[t] = "SLEEPING"]
  BY Zenon
<1>4. PICK s : s = sleep_queue_insert_sorted(f, t)
  OBVIOUS
<1>5. k.cur = t /\ pc[t] = "run" /\ k' = preempt_enable(s)
      /\ pc' = [pc EXCEPT ![t] = "sleep_loop"]
  BY <1>1, <1>2, <1>3, <1>4 DEF task_sleep, At, Goto, Leave
<1>6. Control(k, pc) /\ ~Linked(k, t) /\ k.st[t] # "SLEEPING"
  BY <1>5, LabelFacts, CurrentFacts DEF Control
<1>7. Section(k, d) /\ d.st = k.st /\ \A u \in Tasks : Linked(d, u) <=> Linked(k, u)
  BY <1>1, <1>5, EnterFacts
<1>8. Sound(d) /\ d \in Memory /\ Sorted(d) /\ d.cur = t /\ d.st \in [All -> States]
  BY <1>5, <1>7 DEF Section, Sound, Memory
<1>9. /\ e \in Memory /\ Sorted(e) /\ DeadlineOnly(d, e, t)
      /\ \A u \in Tasks : Linked(e, u) <=> Linked(d, u)
  BY <1>2, <1>6, <1>7, <1>8, LeftFacts
<1>10. /\ f \in Memory /\ Sorted(f) /\ f.st = [e.st EXCEPT ![t] = "SLEEPING"]
       /\ f.cur = e.cur /\ f.preempt = e.preempt /\ f.irq = e.irq
       /\ \A u \in Tasks : Linked(f, u) <=> Linked(e, u)
  BY <1>3, <1>9, StFacts, Zenon DEF States
<1>11. /\ s \in Memory /\ Sorted(s) /\ QueueOnly(f, s)
       /\ \A u \in Tasks : Linked(s, u) <=> Linked(f, u) \/ u = t
  <2>1. ~Linked(f, t)
    BY <1>6, <1>7, <1>9, <1>10
  <2> QED
    BY <1>4, <1>10, <2>1, InsertFacts
<1>12. /\ s.st = [k.st EXCEPT ![t] = "SLEEPING"] /\ s.cur = d.cur
       /\ s.preempt = d.preempt /\ s.irq = d.irq
  BY <1>7, <1>9, <1>10, <1>11 DEF QueueOnly, DeadlineOnly
<1>13. /\ s.st[t] = "SLEEPING" /\ t \in All /\ Tasks \subseteq All
       /\ \A u \in All \ {t} : s.st[u] = d.st[u]
  <2>1. t \in All /\ Tasks \subseteq All
    BY SchedulerAssumption DEF Tasks, All
  <2> QED
    BY <1>7, <1>8, <1>12, <2>1
<1>14. \A u \in Tasks : Linked(s, u) <=> Linked(k, u) \/ u = t
  BY <1>7, <1>9, <1>10, <1>11
<1>15. Sound(s)
  <2>1. \A u \in Tasks : s.st[u] = "SLEEPING" => Linked(s, u)
    BY <1>7, <1>8, <1>13, <1>14 DEF Sound
  <2>2. \A u \in All : s.st[u] = "RUNNING" => s.cur = u
    BY <1>8, <1>12, <1>13 DEF Sound
  <2> QED
    BY <1>11, <2>1, <2>2 DEF Sound
<1>16. Section(k, s)
  BY <1>7, <1>12, <1>15 DEF Section
<1>17. View(k, s, t, "sleep_loop")
  BY <1>7, <1>13, <1>14, LabelFacts DEF View
<1> QED
  BY <1>5, <1>6, <1>16, <1>17, LabelFacts, SectionStep, Zenon

LEMMA SleepLoopStep ==
  ASSUME Inv, NEW t \in Tasks, SleepLoop(t)
  PROVE  Inv' /\ StillAsleep
<1>1. k.cur = t /\ pc[t] = "sleep_loop"
  BY DEF SleepLoop, At
<1>2. /\ Sound(k) /\ IdleSound(k) /\ Control(k, pc) /\ t \in All /\ t # idle_task
      /\ k \in Memory /\ Sorted(k) /\ k.preempt[t] = 0 /\ k.preempt \in [All -> Nat]
      /\ Linked(k, t) <=> k.st[t] = "SLEEPING"
  BY <1>1, CurrentFacts, LabelFacts, Zenon DEF Inv, Sound, Memory, Control
<1>3. k.preempt = [k.preempt EXCEPT ![t] = 0]
  BY <1>2
<1>4. CASE k.st[t] = "SLEEPING" /\ Goto(t, "sleep_schedule") /\ UNCHANGED k
  <2>1. View(k, k', t, "sleep_schedule")
    BY <1>2, <1>4, LabelFacts DEF View
  <2>2. Moved(k, k', t, "sleep_schedule")
    BY <1>3, <1>4, <2>1 DEF Moved
  <2> QED
    BY <1>1, <1>2, <1>4, <2>2, LabelFacts, Step, Zenon DEF Goto
<1>5. CASE k.st[t] # "SLEEPING" /\ k' = [k EXCEPT !.st[t] = "RUNNING"] /\ Goto(t, "run")
  <2>1. /\ k' \in Memory /\ Sorted(k') /\ k'.st = [k.st EXCEPT ![t] = "RUNNING"]
        /\ k'.cur = k.cur /\ k'.preempt = k.preempt
        /\ \A u \in Tasks : Linked(k', u) <=> Linked(k, u)
    <3>1. PICK r : r = [k EXCEPT !.st[t] = "RUNNING"]
      BY Zenon
    <3>2. "RUNNING" \in States
      BY DEF States
    <3>3. /\ r \in Memory /\ Sorted(r) /\ r.st = [k.st EXCEPT ![t] = "RUNNING"]
          /\ r.cur = k.cur /\ r.preempt = k.preempt
          /\ \A u \in Tasks : Linked(r, u) <=> Linked(k, u)
      BY <1>2, <3>1, <3>2, StFacts
    <3>4. k' = r
      BY <1>5, <3>1
    <3> QED
      BY <3>3, <3>4
  <2>2. k'.st[t] = "RUNNING" /\ \A u \in All \ {t} : k'.st[u] = k.st[u]
    BY <1>2, <2>1 DEF Memory
  <2>3. Tasks \subseteq All
    BY SchedulerAssumption DEF Tasks, All
  <2>4. Sound(k') /\ IdleSound(k')
    BY <1>1, <1>2, <2>1, <2>2, <2>3 DEF Sound, IdleSound
  <2>5. View(k, k', t, "run")
    BY <1>2, <1>5, <2>1, <2>2, <2>3, LabelFacts DEF View
  <2>6. Moved(k, k', t, "run")
    BY <1>3, <2>1, <2>5 DEF Moved
  <2> QED
    BY <1>1, <1>5, <2>4, <2>6, LabelFacts, Step, Zenon DEF Goto
<1> QED
  BY <1>4, <1>5 DEF SleepLoop

LEMMA SleepScheduleStep ==
  ASSUME Inv, NEW t \in Tasks, SleepSchedule(t)
  PROVE  Inv' /\ StillAsleep
<1>1. k.cur = t /\ pc[t] = "sleep_schedule" /\ k' = schedule(k)
      /\ pc' = [pc EXCEPT ![t] = "sleep_loop"]
  BY DEF SleepSchedule, At, Goto
<1>2. Linked(k, t) <=> k.st[t] = "SLEEPING"
  BY <1>1, CurrentFacts, LabelFacts DEF Control
<1>3. View(k, k, t, "sleep_loop")
  BY <1>2, LabelFacts DEF View
<1> QED
  BY <1>1, <1>3, LabelFacts, ScheduleStep, Zenon

\* task_unblock moves a task from BLOCKED to RUNNABLE and does nothing else.
LEMMA UnblockFacts ==
  ASSUME NEW m, NEW d, Section(m, d), NEW u \in Tasks
  PROVE  LET r == task_unblock(d, u)
         IN  /\ Section(m, r)
             /\ \A x \in Tasks : /\ Linked(r, x) <=> Linked(d, x)
                                 /\ r.st[x] = "SLEEPING" <=> d.st[x] = "SLEEPING"
<1> DEFINE v == IF d.st[u] = "BLOCKED" THEN "RUNNABLE" ELSE d.st[u]
<1>1. PICK r : r = [d EXCEPT !.st[u] = v]
  BY Zenon
<1>2. Sound(d) /\ d \in Memory /\ Sorted(d) /\ d.st \in [All -> States]
  BY DEF Section, Sound, Memory
<1>3. Tasks \subseteq All
  BY SchedulerAssumption DEF Tasks, All
<1>4. v \in States /\ (v = "SLEEPING" <=> d.st[u] = "SLEEPING")
      /\ (v = "RUNNING" <=> d.st[u] = "RUNNING")
  BY <1>2, <1>3 DEF States
<1>5. r = task_unblock(d, u)
  BY <1>1, <1>2 DEF task_unblock
<1> HIDE DEF v
<1>6. /\ r \in Memory /\ Sorted(r) /\ r.st = [d.st EXCEPT ![u] = v]
      /\ r.cur = d.cur /\ r.preempt = d.preempt /\ r.irq = d.irq
      /\ \A x \in Tasks : Linked(r, x) <=> Linked(d, x)
  BY <1>1, <1>2, <1>4, StFacts
<1>7. \A x \in All : /\ r.st[x] = "SLEEPING" <=> d.st[x] = "SLEEPING"
                     /\ r.st[x] = "RUNNING" <=> d.st[x] = "RUNNING"
  BY <1>2, <1>3, <1>4, <1>6
<1>8. Sound(r)
  BY <1>2, <1>3, <1>6, <1>7 DEF Sound
<1>9. Section(m, r)
  BY <1>6, <1>8 DEF Section
<1> QED
  BY <1>3, <1>5, <1>6, <1>7, <1>9

LEMMA RequestFacts ==
  ASSUME NEW m, NEW d, Section(m, d)
  PROVE  LET r == task_request_reschedule(d)
         IN  /\ Section(m, r) /\ r.st = d.st
             /\ \A x \in Tasks : Linked(r, x) <=> Linked(d, x)
<1> DEFINE f == [d.pending EXCEPT ![d.cur] = @ \/ d.preempt[d.cur] > 0]
           r == [d EXCEPT !.requested = TRUE, !.pending = f]
<1>1. Sound(d) /\ d \in Memory
  BY DEF Section, Sound
<1>2. f \in [All -> BOOLEAN]
  BY <1>1 DEF Memory
<1>3. r = task_request_reschedule(d)
  BY DEF task_request_reschedule
<1> HIDE DEF f
<1>4. /\ r \in Memory /\ r.st = d.st /\ r.cur = d.cur /\ r.preempt = d.preempt
      /\ r.irq = d.irq /\ r.sleepq = d.sleepq /\ r.sleeping = d.sleeping /\ r.left = d.left
  BY <1>1, <1>2, Zenon DEF Memory
<1> HIDE DEF r
<1>5. Sound(r) /\ \A x \in Tasks : Linked(r, x) <=> Linked(d, x)
  BY <1>1, <1>4 DEF Sound, Sorted, Linked
<1> QED
  BY <1>3, <1>4, <1>5 DEF Section

\* A wake-up from the current task, in or out of its spinlock section.
LEMMA WakingStep ==
  ASSUME Inv, NEW t \in Tasks, k.cur = t, pc[t] \in {"run", "locked"}, pc' = pc,
         NEW s, Section(k, s), k' = preempt_enable(s),
         \A x \in Tasks : /\ Linked(s, x) <=> Linked(k, x)
                          /\ s.st[x] = "SLEEPING" <=> k.st[x] = "SLEEPING"
  PROVE  Inv' /\ StillAsleep
<1>1. Control(k, pc) /\ pc[t] \in Labels /\ pc' = [pc EXCEPT ![t] = pc[t]]
  BY CurrentFacts
<1>2. View(k, s, t, pc[t])
  BY <1>1, OwnView, Zenon DEF View
<1>3. PICK label \in Labels : label = pc[t]
  BY <1>1
<1> QED
  BY <1>1, <1>2, <1>3, SectionStep, Zenon

LEMMA UnblockStep ==
  ASSUME Inv, NEW t \in Tasks, NEW u \in Tasks, Unblock(t, u)
  PROVE  Inv' /\ StillAsleep
<1>1. PICK d : d = preempt_disable(k)
  OBVIOUS
<1>2. PICK s : s = task_unblock(d, u)
  OBVIOUS
<1>3. k.cur = t /\ pc[t] \in {"run", "locked"} /\ pc' = pc /\ k' = preempt_enable(s)
  BY <1>1, <1>2 DEF Unblock, Leave
<1>4. Section(k, d) /\ d.st = k.st /\ \A x \in Tasks : Linked(d, x) <=> Linked(k, x)
  BY <1>1, <1>3, EnterFacts
<1>5. /\ Section(k, s)
      /\ \A x \in Tasks : /\ Linked(s, x) <=> Linked(d, x)
                          /\ s.st[x] = "SLEEPING" <=> d.st[x] = "SLEEPING"
  BY <1>2, <1>4, UnblockFacts
<1> QED
  BY <1>3, <1>4, <1>5, WakingStep

LEMMA WakeStep ==
  ASSUME Inv, NEW t \in Tasks, NEW u \in Tasks, Wake(t, u)
  PROVE  Inv' /\ StillAsleep
<1>1. PICK d : d = preempt_disable(k)
  OBVIOUS
<1>2. PICK e : e = task_unblock(d, u)
  OBVIOUS
<1>3. PICK s : s = task_request_reschedule(e)
  OBVIOUS
<1>4. k.cur = t /\ pc[t] \in {"run", "locked"} /\ pc' = pc /\ k' = preempt_enable(s)
  BY <1>1, <1>2, <1>3 DEF Wake, Leave
<1>5. Section(k, d) /\ d.st = k.st /\ \A x \in Tasks : Linked(d, x) <=> Linked(k, x)
  BY <1>1, <1>4, EnterFacts
<1>6. /\ Section(k, e)
      /\ \A x \in Tasks : /\ Linked(e, x) <=> Linked(d, x)
                          /\ e.st[x] = "SLEEPING" <=> d.st[x] = "SLEEPING"
  BY <1>2, <1>5, UnblockFacts
<1>7. /\ Section(k, s) /\ s.st = e.st
      /\ \A x \in Tasks : Linked(s, x) <=> Linked(e, x)
  BY <1>3, <1>6, RequestFacts
<1> QED
  BY <1>4, <1>5, <1>6, <1>7, WakingStep

\* The timer interrupt ends the sleeps whose deadline it reaches, and no other.
TickWakes == \A t \in Tasks : k.st[t] = "SLEEPING" =>
                                (k'.st[t] # "SLEEPING" <=> k.left[t] <= 1)

LEMMA TickStep ==
  ASSUME Inv, Tick
  PROVE  Inv' /\ TickWakes
<1>1. PICK w : w = WakeExpired(k)
  OBVIOUS
<1>2. PICK c : c = ChargeQuantum(w)
  OBVIOUS
<1>3. k' = task_reschedule_if_needed(c) /\ pc' = pc
  BY <1>1, <1>2 DEF Tick
<1>4. /\ Sound(w) /\ w.cur = k.cur /\ w.preempt = k.preempt
      /\ \A t \in Tasks :
           /\ w.st[t] = IF Woken(k, t) THEN "RUNNABLE" ELSE k.st[t]
           /\ Linked(w, t) <=> Linked(k, t) /\ ~Woken(k, t)
  BY <1>1, WakeFacts DEF Inv
<1>5. /\ Sound(c) /\ SleepersKept(w, c) /\ c.cur = w.cur /\ c.preempt = w.preempt
  BY <1>2, <1>4, ChargeFacts
<1>6. /\ Sound(k) /\ Control(k, pc) /\ k.cur \in All
      /\ \A t \in All : k.preempt[t] = IF t \in Tasks /\ pc[t] = "locked" THEN 1 ELSE 0
  BY DEF Inv, Control, Sound, Memory
<1>7. idle_task \notin Tasks
  BY SchedulerAssumption DEF Tasks, idle_task
<1>8. c.cur = idle_task => c.preempt[c.cur] = 0
  BY <1>4, <1>5, <1>6, <1>7
<1>9. /\ Sound(k') /\ IdleSound(k') /\ SleepersKept(c, k')
      /\ k'.preempt = k.preempt
      /\ k'.cur = k.cur \/ k.preempt[k.cur] = 0
  BY <1>3, <1>4, <1>5, <1>8, RescheduleFacts
<1>10. \A t \in Tasks : Linked(k', t) <=> Linked(k, t) /\ ~Woken(k, t)
  BY <1>4, <1>5, <1>9 DEF SleepersKept, Linked
<1>11. \A t \in Tasks : k'.st[t] = "SLEEPING" <=> k.st[t] = "SLEEPING" /\ ~Woken(k, t)
  BY <1>4, <1>5, <1>9 DEF SleepersKept
<1>12. Control(k', pc)
  <2>1. /\ pc \in [Tasks -> Labels]
        /\ \A t \in All : k'.preempt[t] = IF t \in Tasks /\ pc[t] = "locked" THEN 1 ELSE 0
    <3>1. pc \in [Tasks -> Labels]
      BY <1>6 DEF Control
    <3> QED
      BY <1>6, <1>9, <3>1
  <2>2. \A t \in Tasks : pc[t] = "locked" => k'.cur = t
    BY <1>6, <1>9 DEF Control
  <2>3. \A t \in Tasks : Linked(k', t) => pc[t] \in Queued
    BY <1>6, <1>10 DEF Control
  <2>4. ASSUME NEW t \in Tasks, pc[t] \in Asleep
        PROVE  Linked(k', t) <=> k'.st[t] = "SLEEPING"
    <3>1. Linked(k, t) <=> k.st[t] = "SLEEPING"
      BY <1>6, <2>4 DEF Control
    <3> QED
      BY <1>10, <1>11, <3>1
  <2>5. \A t \in Tasks : k'.st[t] = "SLEEPING" => pc[t] \in Asleep
    BY <1>6, <1>11 DEF Control
  <2> QED
    BY <2>1, <2>2, <2>3, <2>4, <2>5 DEF Control
<1>13. TickWakes
  <2>1. \A t \in Tasks : k.st[t] = "SLEEPING" => Linked(k, t)
    BY <1>6 DEF Sound
  <2> QED
    BY <1>11, <2>1 DEF TickWakes, Woken
<1> QED
  BY <1>3, <1>9, <1>12, <1>13 DEF Inv

LEMMA InitHolds == Init => Inv
<1> SUFFICES ASSUME Init
             PROVE  Inv
  OBVIOUS
<1>1. Tasks \subseteq All /\ 0 \in Tasks /\ 0 # idle_task /\ Quantum \in 1 .. Quantum
      /\ 0 \in 0 .. MaxSleep /\ idle_task \in All
  BY SchedulerAssumption DEF Tasks, All, idle_task
<1>2. /\ k.cur = 0 /\ k.sleepq = << >> /\ k.sleeping = 0 /\ k.requested = FALSE
      /\ k.st = [t \in All |-> IF t = 0 THEN "RUNNING" ELSE "RUNNABLE"]
      /\ k.preempt = [t \in All |-> 0] /\ pc = [t \in Tasks |-> "run"]
  BY DEF Init, task_initialize, All
<1>3. k \in Memory
  <2>1. /\ [t \in All |-> IF t = 0 THEN "RUNNING" ELSE "RUNNABLE"] \in [All -> States]
        /\ [t \in All |-> Quantum] \in [All -> 1 .. Quantum]
        /\ [t \in All |-> 0] \in [All -> Nat] /\ [t \in All |-> FALSE] \in [All -> BOOLEAN]
        /\ [t \in All |-> TRUE] \in [All -> BOOLEAN] /\ << >> \in Seq(Tasks)
        /\ [t \in Tasks |-> 0] \in [Tasks -> 0 .. MaxSleep] /\ 0 \in All
    BY <1>1 DEF States
  <2>2. k = [cur |-> 0, st |-> [t \in All |-> IF t = 0 THEN "RUNNING" ELSE "RUNNABLE"],
             quantum |-> [t \in All |-> Quantum], preempt |-> [t \in All |-> 0],
             pending |-> [t \in All |-> FALSE], irq |-> [t \in All |-> TRUE],
             requested |-> FALSE, sleepq |-> << >>, left |-> [t \in Tasks |-> 0],
             sleeping |-> 0]
    BY DEF Init, task_initialize, All
  <2> QED
    BY <2>1, <2>2 DEF Memory
<1>4. Sorted(k) /\ \A t \in Tasks : ~Linked(k, t)
  BY <1>2 DEF Sorted, Linked, IsInjective
<1>5. Sound(k) /\ IdleSound(k)
  BY <1>1, <1>2, <1>3, <1>4 DEF Sound, IdleSound
<1>6. Control(k, pc)
  BY <1>1, <1>2, <1>4, LabelFacts DEF Control
<1> QED
  BY <1>5, <1>6 DEF Inv

\* Every step but a tick leaves sleepers asleep.
LEMMA NextStep ==
  ASSUME Inv, Next
  PROVE  Inv' /\ (StillAsleep \/ Tick)
<1>1. CASE Tick
  BY <1>1, TickStep
<1>2. ASSUME NEW t \in Tasks, Continue(t)
      PROVE  Inv' /\ StillAsleep
  BY <1>2, UnlockStep, BlockScheduleStep, TimedScheduleStep, TimedDequeueStep,
     SleepLoopStep, SleepScheduleStep, Zenon DEF Continue
<1>3. ASSUME NEW t \in Tasks,
             \/ task_yield(t) \/ spinlock_lock(t) \/ SyscallEnter(t)
             \/ SyscallReturn(t) \/ Block(t)
      PROVE  Inv' /\ StillAsleep
  BY <1>3, YieldStep, LockStep, SyscallStep, BlockStep, Zenon
<1>4. ASSUME NEW t \in Tasks, NEW n \in 1 .. MaxSleep, TimedBlock(t, n)
      PROVE  Inv' /\ StillAsleep
  BY <1>4, TimedBlockStep
<1>5. ASSUME NEW t \in Tasks, NEW n \in 0 .. MaxSleep, task_sleep(t, n)
      PROVE  Inv' /\ StillAsleep
  BY <1>5, SleepStep
<1>6. ASSUME NEW t \in Tasks, NEW u \in Tasks \ {t}, Unblock(t, u) \/ Wake(t, u)
      PROVE  Inv' /\ StillAsleep
  BY <1>6, UnblockStep, WakeStep
<1> QED
  BY <1>1, <1>2, <1>3, <1>4, <1>5, <1>6, Zenon DEF Next

LEMMA StutterStep ==
  ASSUME Inv, UNCHANGED vars
  PROVE  Inv'
BY DEF Inv, vars

LEMMA Invariant == Spec => []Inv
<1>1. Inv /\ [Next]_vars => Inv'
  BY NextStep, StutterStep
<1> QED
  BY <1>1, InitHolds, PTL DEF Spec

\* The sleep queue is ordered and counted, one task at most is RUNNING, the idle
\* task has the CPU only when nothing can run, and a spinlock section is never
\* switched out, after any sequence of ticks, sleeps, timeouts, wake-ups, lock
\* sections and switches of kernel/task.c and kernel/spinlock.c.
THEOREM SchedulerIsSound == Spec => []SchedulerSound
<1>1. Inv => SchedulerSound
  <2> SUFFICES ASSUME Inv
               PROVE  SchedulerSound
    OBVIOUS
  <2>1. Sound(k) /\ IdleSound(k) /\ Control(k, pc) /\ k \in Memory
    BY DEF Inv, Sound
  <2>2. \A t \in All : k.preempt[t] \in {0, 1} /\ (k.preempt[t] > 0 => k.cur = t)
    BY <2>1 DEF Control
  <2>3. k.preempt \in [All -> 0 .. 1]
    BY <2>1, <2>2 DEF Memory
  <2>4. TypeOK
    BY <2>1, <2>3 DEF TypeOK, Memory, Control, All
  <2>5. SleepQueueSound /\ RunningIsCurrent /\ IdleMeansNoWork
    BY <2>1 DEF SleepQueueSound, RunningIsCurrent, IdleMeansNoWork, Sound, Sorted,
                IdleSound, NoWork, All
  <2>6. PreemptOffKeepsCpu
    BY <2>2 DEF PreemptOffKeepsCpu, All
  <2> QED
    BY <2>4, <2>5, <2>6 DEF SchedulerSound
<1> QED
  BY <1>1, Invariant, PTL

\* task_sleep ends with the tick that reaches its deadline: the loop of
\* task_timer_tick skips no expired entry and takes no other, and no wake-up,
\* switch or lock section of another task touches a sleeper.
THEOREM SleepEndsAtDeadline == Spec => SleepsUntilDeadline
<1> DEFINE Kept == \A t \in Tasks : k.st[t] = "SLEEPING" =>
                     (k'.st[t] # "SLEEPING" <=> Tick /\ k.left[t] <= 1)
<1>1. Inv /\ [Next]_vars => [Kept]_vars
  <2> SUFFICES ASSUME Inv, Next
               PROVE  Kept
    OBVIOUS
  <2>1. CASE Tick
    <3>1. TickWakes
      BY <2>1, TickStep
    <3> QED
      BY <2>1, <3>1 DEF TickWakes
  <2>2. CASE ~Tick
    <3>1. StillAsleep
      BY <2>2, NextStep
    <3> QED
      BY <2>2, <3>1 DEF StillAsleep
  <2> QED
    BY <2>1, <2>2
<1> QED
  BY <1>1, Invariant, PTL DEF Spec, SleepsUntilDeadline
=============================================================================
