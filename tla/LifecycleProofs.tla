--------------------------- MODULE LifecycleProofs ---------------------------
(* Proofs about kernel/process.c for any number of task slots and processes. *)
(* They need two premises, which are limits of the code and not of the       *)
(* proofs: one thread creates and destroys (two could claim the same slot,   *)
(* which task_allocate_slot does not reserve), and no slot is claimed while  *)
(* the reaper is at work (ReaperBury makes the slot free before ReaperFree   *)
(* has cleared its stack).                                                   *)
EXTENDS Lifecycle, FiniteSetTheorems, SequenceTheorems, TLAPS

\* The client and its record.
Creator == SlotCount + 2
me == client[Creator]

Labels == {"run", "exit_process", "exit_queue", "gone"}
ClientLabels == {"idle", "fill", "link", "wait", "destroy", "mark"}

ClientRecords == [pc : ClientLabels, slot : TaskSlots \cup {NoSlot},
                  target : Procs \cup {kernel_process}, own : Procs \cup {NoProc}]

Types ==
  /\ LifecycleTypeOK
  /\ pc \in [TaskSlots -> Labels]
  /\ reaper \in [pc : {"pop", "bury", "free", "unlink"},
                 victim : TaskSlots \cup {NoSlot}, blocked : BOOLEAN]
  /\ client \in [Clients -> ClientRecords]

\* The thread on the CPU can run, or is inside its thread_exit.
Current == \A s \in TaskSlots : cpu = s =>
             st[s] = "RUNNABLE" \/ (st[s] = "ZOMBIE" /\ pc[s] \in {"exit_process", "exit_queue"})

\* What can run is nowhere near the reaper.
Running == \A s \in TaskSlots : st[s] = "RUNNABLE" =>
             pc[s] = "run" /\ stack[s] /\ ~InReapersHands(s)

\* The reaper's queue holds zombies that have finished exiting.
Queue == /\ IsInjective(reaper_queue) /\ reaper.victim \notin Range(reaper_queue)
         /\ \A s \in Range(reaper_queue) : st[s] = "ZOMBIE" /\ pc[s] \in {"run", "gone"}
         /\ ReaperAwake

\* Its victim stays dead; process_destroy may have freed the slot meanwhile.
Victim ==
  /\ reaper.pc = "bury" => \/ st[reaper.victim] = "UNUSED"
                           \/ /\ st[reaper.victim] = "ZOMBIE"
                              /\ pc[reaper.victim] \in {"run", "gone"}
  /\ reaper.pc \in {"free", "unlink"} => st[reaper.victim] \in Free

Zombies == \A s \in TaskSlots : st[s] = "ZOMBIE" =>
             /\ pc[s] \in {"run", "gone"} => InReapersHands(s)
             /\ pc[s] # "exit_process" /\ proc[s] \in Procs => pst[proc[s]] # "ACTIVE"

\* What the client is doing; no process exists but its own.
Creating ==
  /\ me.pc = "fill" => me.slot \in TaskSlots /\ st[me.slot] \in Free /\ ~InReapersHands(me.slot)
  /\ me.pc = "link" => me.slot \in TaskSlots /\ proc[me.slot] = me.target
  /\ me.pc \in {"fill", "link"} => me.target \in {kernel_process, me.own}
  /\ me.pc \in {"wait", "destroy", "mark"} => me.own # NoProc
  /\ me.pc \in {"destroy", "mark"} => pst[me.own] = "ZOMBIE"
  /\ me.pc = "mark" => threads[me.own] = {}
  /\ me.own # NoProc => pst[me.own] \in {"ACTIVE", "ZOMBIE"}
  /\ \A q \in Procs : q # me.own => pst[q] \in Free /\ threads[q] = {}

\* s is, or is about to be, on the list of p's threads.
Attached(s, p) == s \in threads[p] \/ (me.pc = "link" /\ me.slot = s /\ me.target = p)

Members == \A s \in TaskSlots : st[s] \in {"RUNNABLE", "ZOMBIE"} /\ proc[s] \in Procs =>
             proc[s] = me.own /\ Attached(s, proc[s])

\* The threads of a process that has not exited run, or are about to report it.
Active == \A p \in Procs, s \in TaskSlots : pst[p] = "ACTIVE" /\ Attached(s, p) =>
            proc[s] = p /\ (st[s] = "RUNNABLE" \/ (st[s] = "ZOMBIE" /\ pc[s] = "exit_process"))

Inv == /\ Types /\ Current /\ Running /\ Queue /\ Victim /\ Zombies /\ Creating
       /\ Members /\ Active

-----------------------------------------------------------------------------
(* Sequences of slots *)

\* The premises of the theorems: any number of slots and processes, one thread
\* that creates and destroys, no slot claimed while the reaper has a victim.
Setting == /\ SlotCount \in Nat /\ ProcCount \in Nat
           /\ ClientCount = 1 /\ CreateDuringReap = FALSE

\* A queue of distinct slots, which are those of S.
Lists(q, S) == q \in Seq(TaskSlots) /\ IsInjective(q) /\ Range(q) = S

LEMMA SlotsFinite ==
  ASSUME Setting, NEW S \in SUBSET TaskSlots
  PROVE  IsFiniteSet(S) /\ Cardinality(S) \in Nat
<1>1. IsFiniteSet(TaskSlots)
  BY FS_Interval DEF Setting, TaskSlots
<1> QED
  BY <1>1, FS_Subset, FS_CardinalityType

\* Any order of a set of threads lists them.
LEMMA OrdersList ==
  ASSUME Setting, NEW S \in SUBSET TaskSlots, NEW q \in Orders(S)
  PROVE  Lists(q, S)
<1> DEFINE n == Cardinality(S)
<1>1. IsFiniteSet(S) /\ n \in Nat
  BY SlotsFinite
<1>2. q \in Injection(1 .. n, S)
  BY DEF Orders
<1>3. q \in [1 .. n -> S] /\ IsInjective(q)
  BY <1>2 DEF Injection
<1>4. Cardinality(1 .. n) = n
  BY <1>1, FS_Interval
<1> HIDE DEF n
<1>5. q \in Surjection(1 .. n, S)
  BY <1>1, <1>2, <1>4, FS_Injection DEF n
<1>6. Range(q) = S
  BY <1>3, <1>5 DEF Range, Surjection
<1>7. q \in Seq(TaskSlots)
  BY <1>1, <1>3, IsASeq
<1> QED
  BY <1>3, <1>6, <1>7 DEF Lists

LEMMA EmptyLists ==
  Lists(<< >>, {})
BY DEF Lists, IsInjective, Range

LEMMA SingleLists ==
  ASSUME NEW s \in TaskSlots
  PROVE  Lists(<<s>>, {s})
<1>1. <<s>> \in Seq(TaskSlots) /\ DOMAIN <<s>> = {1} /\ <<s>>[1] = s
  OBVIOUS
<1> HIDE DEF TaskSlots
<1> QED
  BY <1>1 DEF Lists, IsInjective, Range

LEMMA ConcatLists ==
  ASSUME NEW q, NEW S, Lists(q, S), NEW r, NEW T, Lists(r, T), S \cap T = {}
  PROVE  Lists(q \o r, S \cup T)
<1>1. q \in Seq(TaskSlots) /\ r \in Seq(TaskSlots) /\ Range(q) = S /\ Range(r) = T
  BY DEF Lists
<1>2. q \o r \in Seq(TaskSlots) /\ Range(q \o r) = S \cup T
  BY <1>1, ConcatProperties, RangeConcatenation
<1>3. Len(q) \in Nat /\ Len(r) \in Nat /\ DOMAIN q = 1 .. Len(q)
      /\ DOMAIN r = 1 .. Len(r) /\ DOMAIN (q \o r) = 1 .. Len(q) + Len(r)
  BY <1>1, <1>2, LenProperties, ConcatProperties
<1>4. ASSUME NEW a \in DOMAIN (q \o r), NEW b \in DOMAIN (q \o r), (q \o r)[a] = (q \o r)[b]
      PROVE  a = b
  <2>1. /\ a <= Len(q) => (q \o r)[a] = q[a] /\ a \in DOMAIN q
        /\ b <= Len(q) => (q \o r)[b] = q[b] /\ b \in DOMAIN q
        /\ ~(a <= Len(q)) => (q \o r)[a] = r[a - Len(q)] /\ a - Len(q) \in DOMAIN r
        /\ ~(b <= Len(q)) => (q \o r)[b] = r[b - Len(q)] /\ b - Len(q) \in DOMAIN r
    BY <1>1, <1>3, ConcatProperties
  <2>2. \A i \in DOMAIN q : q[i] \in S
    BY <1>1 DEF Range
  <2>3. \A i \in DOMAIN r : r[i] \in T
    BY <1>1 DEF Range
  <2>4. (a <= Len(q)) <=> (b <= Len(q))
    BY <2>1, <2>2, <2>3, <1>4
  <2>5. CASE a <= Len(q)
    BY <2>1, <2>4, <2>5, <1>4 DEF Lists, IsInjective
  <2>6. CASE ~(a <= Len(q))
    <3>1. a - Len(q) = b - Len(q)
      BY <2>1, <2>4, <2>6, <1>4 DEF Lists, IsInjective
    <3> QED BY <3>1, <1>3
  <2> QED BY <2>5, <2>6
<1> QED
  BY <1>2, <1>4 DEF Lists, IsInjective

LEMMA TailLists ==
  ASSUME NEW q, NEW S, Lists(q, S), q # << >>
  PROVE  Head(q) \in S /\ Lists(Tail(q), S \ {Head(q)})
<1>1. q \in Seq(TaskSlots) /\ IsInjective(q) /\ S = {q[i] : i \in 1 .. Len(q)} /\ Len(q) \in Nat
  BY RangeEquality, LenProperties DEF Lists
<1>2. Tail(q) \in Seq(TaskSlots) /\ Len(Tail(q)) = Len(q) - 1 /\ Len(q) # 0 /\ Head(q) = q[1]
      /\ \A i \in 1 .. Len(Tail(q)) : Tail(q)[i] = q[i + 1]
  BY <1>1, HeadTailProperties, EmptySeq
<1>3. \A x : x \in Range(Tail(q)) <=> \E i \in 1 .. Len(q) - 1 : x = q[i + 1]
  <2>1. Range(Tail(q)) = {Tail(q)[i] : i \in 1 .. Len(Tail(q))}
    BY <1>2, RangeEquality
  <2> QED BY <1>2, <2>1
<1>4. \A i, j \in 1 .. Len(q) : q[i] = q[j] => i = j
  BY <1>1, LenProperties DEF IsInjective
<1>5. Range(Tail(q)) = S \ {Head(q)}
  <2>1. \A i \in 1 .. Len(q) - 1 : i + 1 \in 1 .. Len(q) /\ i + 1 # 1
    BY <1>1
  <2>2. \A i \in 1 .. Len(q) : i # 1 => i - 1 \in 1 .. Len(q) - 1 /\ (i - 1) + 1 = i
    BY <1>1
  <2>3. 1 \in 1 .. Len(q)
    BY <1>1, <1>2
  <2>4. ASSUME NEW x, x \in S, x # Head(q) PROVE x \in Range(Tail(q))
    <3>1. PICK i \in 1 .. Len(q) : x = q[i]
      BY <1>1, <2>4
    <3>2. i - 1 \in 1 .. Len(q) - 1 /\ x = q[(i - 1) + 1]
      BY <1>2, <2>2, <2>4, <3>1
    <3> QED BY <1>3, <3>2
  <2>5. ASSUME NEW x, x \in Range(Tail(q)) PROVE x \in S /\ x # Head(q)
    <3>1. PICK i \in 1 .. Len(q) - 1 : x = q[i + 1]
      BY <1>3, <2>5
    <3> QED BY <1>1, <1>2, <1>4, <2>1, <2>3, <3>1
  <2> QED BY <2>4, <2>5
<1>6. IsInjective(Tail(q))
  BY <1>1, <1>2, <1>4 DEF IsInjective
<1> QED
  BY <1>1, <1>2, <1>5, <1>6 DEF Lists

\* The rank of a kept position numbers the kept positions, so Without keeps
\* each of them once.
LEMMA WithoutLists ==
  ASSUME NEW q, NEW S, Lists(q, S), NEW T
  PROVE  Lists(Without(q, T), S \ T)
<1> DEFINE kept == {i \in DOMAIN q : q[i] \notin T}
           n == Cardinality(kept)
           rank(i) == Cardinality({j \in kept : j <= i})
           Nth(m) == CHOOSE i \in kept : rank(i) = m
           R == [i \in kept |-> rank(i)]
           w == Without(q, T)
<1>1. q \in Seq(TaskSlots) /\ IsInjective(q) /\ S = Range(q) /\ Len(q) \in Nat /\ DOMAIN q = 1 .. Len(q)
  BY LenProperties DEF Lists
<1>2. IsFiniteSet(kept) /\ n \in Nat /\ kept \subseteq Nat
  <2>1. IsFiniteSet(1 .. Len(q))
    BY <1>1, FS_Interval
  <2>2. kept \in SUBSET (1 .. Len(q)) /\ kept \subseteq Nat
    BY <1>1
  <2> QED BY <2>1, <2>2, FS_Subset, FS_CardinalityType
<1>3. ASSUME NEW i \in kept
      PROVE  IsFiniteSet({j \in kept : j <= i}) /\ rank(i) \in 1 .. n
  <2>1. {j \in kept : j <= i} \in SUBSET kept /\ i \in {j \in kept : j <= i}
    BY <1>2
  <2>2. IsFiniteSet({j \in kept : j <= i}) /\ rank(i) <= n /\ rank(i) \in Nat
    <3> HIDE DEF kept
    <3> QED BY <1>2, <2>1, FS_Subset, FS_CardinalityType
  <2>3. rank(i) # 0
    <3> HIDE DEF kept
    <3> QED BY <2>1, <2>2, FS_EmptySet
  <2> HIDE DEF rank, n
  <2> QED BY <1>2, <2>2, <2>3
<1>4. ASSUME NEW i \in kept, NEW j \in kept, i < j PROVE rank(i) # rank(j)
  <2> HIDE DEF kept
  <2>a. \A k \in kept : k \in Nat
    BY <1>2
  <2>b. i \in Nat /\ j \in Nat
    BY <2>a
  <2>c. \A k \in kept : k <= i => k <= j
    BY <1>4, <2>a, <2>b
  <2>d. ~(j <= i) /\ j <= j
    BY <1>4, <2>b
  <2>1. {k \in kept : k <= i} \in SUBSET {k \in kept : k <= j} /\ j \notin {k \in kept : k <= i}
        /\ j \in {k \in kept : k <= j}
    BY <2>c, <2>d
  <2> QED BY <1>3, <2>1, FS_Subset
<1>5. \A i, j \in kept : rank(i) = rank(j) => i = j
  <2> HIDE DEF rank, kept
  <2> QED BY <1>2, <1>4
<1>6. R \in Injection(kept, 1 .. n)
  <2> HIDE DEF rank, n, kept
  <2> QED BY <1>3, <1>5, Zenon DEF Injection, IsInjective
<1>7. \A m \in 1 .. n : \E i \in kept : rank(i) = m
  <2>1. IsFiniteSet(1 .. n) /\ Cardinality(1 .. n) = n
    BY <1>2, FS_Interval
  <2>2. R \in Surjection(kept, 1 .. n)
    <3> HIDE DEF R, kept
    <3> QED BY <1>6, <2>1, FS_Injection
  <2> HIDE DEF rank, n, kept
  <2> QED BY <2>2 DEF Surjection
<1>8. /\ \A m \in 1 .. n : Nth(m) \in kept /\ rank(Nth(m)) = m
      /\ \A i \in kept : Nth(rank(i)) = i
  <2> HIDE DEF rank, n, kept
  <2>1. \A m \in 1 .. n : Nth(m) \in kept /\ rank(Nth(m)) = m
    BY <1>7
  <2> QED BY <1>3, <1>5, <2>1
<1>9. w = [m \in 1 .. n |-> q[Nth(m)]]
  BY DEF Without
<1> HIDE DEF w, Nth, rank, n, R
<1>10. \A i \in kept : i \in DOMAIN q /\ q[i] \in TaskSlots /\ q[i] \in S /\ q[i] \notin T
  BY <1>1, ElementOfSeq DEF Range
<1>11. \A x : x \in S /\ x \notin T => \E i \in kept : x = q[i]
  BY <1>1 DEF Range
<1>12. \A i, j \in kept : q[i] = q[j] => i = j
  BY <1>1, <1>10 DEF IsInjective
<1> HIDE DEF kept
<1>13. w \in [1 .. n -> TaskSlots]
  BY <1>8, <1>9, <1>10
<1>14. w \in Seq(TaskSlots)
  BY <1>2, <1>13, IsASeq
<1>15. IsInjective(w)
  BY <1>8, <1>9, <1>12 DEF IsInjective
<1>16. Range(w) = S \ T
  <2>1. \A x : x \in Range(w) <=> \E m \in 1 .. n : x = w[m]
    BY <1>13 DEF Range
  <2>2. ASSUME NEW x, x \in S, x \notin T PROVE x \in Range(w)
    <3>1. PICK i \in kept : x = q[i]
      BY <1>11, <2>2
    <3> QED BY <1>3, <1>8, <1>9, <2>1, <3>1
  <2>3. ASSUME NEW x, x \in Range(w) PROVE x \in S /\ x \notin T
    BY <1>8, <1>9, <1>10, <2>1, <2>3
  <2> QED BY <2>2, <2>3
<1> QED
  BY <1>14, <1>15, <1>16 DEF Lists, w

LEMMA ListsEmpty ==
  ASSUME NEW q, NEW S, Lists(q, S)
  PROVE  q = << >> <=> S = {}
<1>1. q \in Seq(TaskSlots) /\ S = {q[i] : i \in 1 .. Len(q)} /\ Len(q) \in Nat
  BY RangeEquality, LenProperties DEF Lists
<1>2. q = << >> <=> Len(q) = 0
  BY <1>1, EmptySeq
<1>3. Len(q) # 0 => 1 \in 1 .. Len(q)
  BY <1>1
<1>4. Len(q) = 0 => 1 .. Len(q) = {}
  BY <1>1
<1> QED
  BY <1>1, <1>2, <1>3, <1>4

-----------------------------------------------------------------------------
(* Facts every step uses *)

LEMMA Numbering ==
  ASSUME Setting
  PROVE  /\ Clients = {Creator} /\ Creator \notin TaskSlots /\ Creator # reaper_thread
         /\ reaper_thread \notin TaskSlots /\ idle_task \notin TaskSlots
         /\ NoSlot \notin TaskSlots /\ NoProc \notin Procs /\ kernel_process = NoProc
BY DEF Setting, Clients, Creator, TaskSlots, reaper_thread, idle_task, NoSlot, NoProc,
       Procs, kernel_process

\* A step of the client changes its record and leaves it the CPU.
LEMMA Stepped ==
  ASSUME Setting, Types, NEW c \in Clients, NEW from, NEW to \in ClientRecords,
         ClientStep(c, from, to)
  PROVE  /\ c = Creator /\ me.pc = from /\ me' = to /\ cpu = Creator /\ cpu' = cpu
         /\ client' \in [Clients -> ClientRecords]
<1>1. Clients = {Creator} /\ c = Creator
  BY Numbering
<1>2. client \in [Clients -> ClientRecords]
  BY DEF Types
<1> QED
  BY <1>1, <1>2 DEF ClientStep, me

\* schedule() picks a task that can run.
LEMMA ReadyTask ==
  ASSUME Setting
  PROVE  /\ Ready \subseteq {idle_task, reaper_thread} \cup TaskSlots \cup Clients
         /\ \A s \in TaskSlots : s \in Ready => st[s] = "RUNNABLE"
<1>1. reaper_thread \notin TaskSlots /\ idle_task \notin TaskSlots /\ TaskSlots \cap Clients = {}
  BY Numbering
<1> QED
  BY <1>1 DEF Ready

LEMMA ReadyTaskNext ==
  ASSUME Setting
  PROVE  /\ Ready' \subseteq {idle_task, reaper_thread} \cup TaskSlots \cup Clients
         /\ \A s \in TaskSlots : s \in Ready' => st'[s] = "RUNNABLE"
<1>1. reaper_thread \notin TaskSlots /\ idle_task \notin TaskSlots /\ TaskSlots \cap Clients = {}
  BY Numbering
<1> QED
  BY <1>1 DEF Ready

LEMMA QueueLists ==
  ASSUME Types, Queue
  PROVE  Lists(reaper_queue, Range(reaper_queue))
BY DEF Types, LifecycleTypeOK, Queue, Lists

LEMMA InitInv ==
  ASSUME Setting, LifecycleInit
  PROVE  Inv
<1> USE Numbering DEF LifecycleInit, process_subsystem_init
<1>1. reaper_queue \in Seq(TaskSlots) /\ Range(reaper_queue) = {} /\ IsInjective(reaper_queue)
  BY EmptyLists DEF Lists
<1>2. me = [pc |-> "idle", slot |-> NoSlot, target |-> kernel_process, own |-> NoProc]
  BY DEF me
<1>3. client \in [Clients -> ClientRecords]
  BY DEF ClientRecords, ClientLabels
<1>4. Types
  BY <1>1, <1>3 DEF Types, LifecycleTypeOK, States, Labels
<1>5. Creating /\ Members /\ Active
  BY <1>2 DEF Creating, Members, Active, Attached, Free
<1>6. Current /\ Running /\ Queue /\ Victim /\ Zombies
  BY <1>1 DEF Current, Running, Queue, Victim, Zombies, ReaperAwake
<1> QED
  BY <1>4, <1>5, <1>6 DEF Inv

-----------------------------------------------------------------------------
(* One lemma for each step *)

LEMMA PreemptStep ==
  ASSUME Setting, Inv, Preempt
  PROVE  Inv'
<1> USE DEF Inv, Preempt, slotVars, procVars
<1>1. cpu' \in Ready
  OBVIOUS
<1>2. Types'
  BY <1>1, ReadyTask DEF Types, LifecycleTypeOK
<1>3. Current'
  BY <1>1, ReadyTask DEF Current
<1>4. me' = me
  BY DEF me
<1>5. Running' /\ Queue' /\ Victim' /\ Zombies'
  BY DEF Running, Queue, Victim, Zombies, ReaperAwake, InReapersHands
<1>6. Creating' /\ Members' /\ Active'
  BY <1>4 DEF Creating, Members, Active, Attached, InReapersHands
<1> QED
  BY <1>2, <1>3, <1>5, <1>6

LEMMA CreateStep ==
  ASSUME Setting, Inv, NEW c \in Clients, process_create(c)
  PROVE  Inv'
<1> USE Numbering DEF Inv
<1>1. PICK p \in Procs :
        /\ client[c].own = NoProc /\ ClientStep(c, "idle", [client[c] EXCEPT !.own = p])
        /\ pst[p] \in Free /\ pst' = [pst EXCEPT ![p] = "ACTIVE"]
        /\ threads' = [threads EXCEPT ![p] = {}]
        /\ UNCHANGED <<st, stack, proc, pc, reaper_queue, reaper>>
  BY DEF process_create, slotVars
<1>2. c = Creator /\ me \in ClientRecords /\ me = client[c]
  BY DEF Types, me
<1>3. [me EXCEPT !.own = p] \in ClientRecords
  BY <1>2 DEF ClientRecords
<1>4. me' = [me EXCEPT !.own = p] /\ me.pc = "idle" /\ cpu = Creator /\ cpu' = cpu
      /\ client' \in [Clients -> ClientRecords]
  BY <1>1, <1>2, <1>3, Stepped
<1>5. me.own = NoProc /\ me'.own = p /\ me'.pc = "idle"
  BY <1>1, <1>2, <1>4 DEF ClientRecords
<1>6. Types'
  BY <1>1, <1>4 DEF Types, LifecycleTypeOK
<1>7. \A q \in Procs : pst[q] \in Free /\ threads[q] = {}
  BY <1>5 DEF Creating
<1>8. threads' = threads /\ \A q \in Procs : q # p => pst'[q] = pst[q]
  BY <1>1, <1>7 DEF Types, LifecycleTypeOK
<1>9. pst'[p] = "ACTIVE"
  BY <1>1 DEF Types, LifecycleTypeOK
<1>10. \A s \in TaskSlots : st[s] \in {"RUNNABLE", "ZOMBIE"} => proc[s] \notin Procs
  BY <1>5 DEF Members
<1>11. Current' /\ Running' /\ Queue' /\ Victim'
  BY <1>1, <1>4 DEF Current, Running, Queue, Victim, ReaperAwake, InReapersHands
<1>12. Zombies'
  BY <1>1, <1>10 DEF Zombies, InReapersHands
<1>13. Creating'
  BY <1>5, <1>7, <1>8, <1>9 DEF Creating
<1>14. Members' /\ Active'
  BY <1>1, <1>5, <1>7, <1>8, <1>10 DEF Members, Active, Attached, Free
<1> QED
  BY <1>6, <1>11, <1>12, <1>13, <1>14

LEMMA AllocateStep ==
  ASSUME Setting, Inv, NEW c \in Clients, NEW p \in {kernel_process, client[c].own},
         task_allocate_slot(c, p)
  PROVE  Inv'
<1> USE Numbering DEF Inv
<1>1. PICK s \in TaskSlots :
        /\ reaper.victim = NoSlot /\ st[s] \in Free
        /\ ClientStep(c, "idle", [client[c] EXCEPT !.pc = "fill", !.slot = s, !.target = p])
        /\ UNCHANGED <<st, stack, proc, pc, pst, threads, reaper_queue, reaper>>
  BY Zenon DEF task_allocate_slot, slotVars, procVars, Setting
<1>2. c = Creator /\ me \in ClientRecords /\ me = client[c]
  BY DEF Types, me
<1>3. [me EXCEPT !.pc = "fill", !.slot = s, !.target = p] \in ClientRecords
      /\ p \in {kernel_process, me.own}
  BY <1>2, Zenon DEF ClientRecords, ClientLabels
<1>4. me' = [me EXCEPT !.pc = "fill", !.slot = s, !.target = p] /\ me.pc = "idle"
      /\ cpu = Creator /\ cpu' = cpu /\ client' \in [Clients -> ClientRecords]
  BY <1>1, <1>2, <1>3, Stepped
<1>5. me'.pc = "fill" /\ me'.slot = s /\ me'.target = p /\ me'.own = me.own
  BY <1>2, <1>4 DEF ClientRecords
<1>6. Types'
  BY <1>1, <1>4 DEF Types, LifecycleTypeOK
<1>7. Current' /\ Running' /\ Queue' /\ Victim' /\ Zombies'
  BY <1>1, <1>4 DEF Current, Running, Queue, Victim, Zombies, ReaperAwake, InReapersHands
<1>8. ~InReapersHands(s)'
  BY <1>1 DEF InReapersHands, Queue, Free
<1>9. Creating'
  BY <1>1, <1>3, <1>4, <1>5, <1>8 DEF Creating
<1>10. Members' /\ Active'
  BY <1>1, <1>4, <1>5 DEF Members, Active, Attached
<1> QED
  BY <1>6, <1>7, <1>9, <1>10

LEMMA FillFailsStep ==
  ASSUME Setting, Inv, NEW c \in Clients, FillFails(c)
  PROVE  Inv'
<1> USE Numbering DEF Inv
<1>1. c = Creator /\ me \in ClientRecords /\ me = client[c]
  BY DEF Types, me
<1>2. [me EXCEPT !.pc = "idle", !.slot = NoSlot] \in ClientRecords
  BY <1>1 DEF ClientRecords, ClientLabels
<1>3. /\ ClientStep(c, "fill", [me EXCEPT !.pc = "idle", !.slot = NoSlot])
      /\ st' = [st EXCEPT ![me.slot] = "UNUSED"]
      /\ UNCHANGED <<stack, proc, pc, pst, threads, reaper_queue, reaper>>
  BY <1>1 DEF FillFails, procVars
<1>4. me' = [me EXCEPT !.pc = "idle", !.slot = NoSlot] /\ me.pc = "fill"
      /\ cpu = Creator /\ cpu' = cpu /\ client' \in [Clients -> ClientRecords]
  BY <1>1, <1>2, <1>3, Stepped
<1>5. me'.pc = "idle" /\ me'.own = me.own
  BY <1>1, <1>4 DEF ClientRecords
<1>6. PICK s \in TaskSlots : s = me.slot /\ st[s] \in Free /\ ~InReapersHands(s)
  BY <1>4 DEF Creating
<1>7. st \in [TaskSlots -> States] /\ st'[s] = "UNUSED" /\ \A u \in TaskSlots : u # s => st'[u] = st[u]
  BY <1>3, <1>6 DEF Types, LifecycleTypeOK
<1>8. Types'
  BY <1>3, <1>4, <1>6 DEF Types, LifecycleTypeOK, States
<1>9. Current' /\ Running' /\ Zombies'
  BY <1>3, <1>4, <1>7 DEF Current, Running, Zombies, InReapersHands
<1>10. Queue'
  <2>1. Range(reaper_queue) \subseteq TaskSlots
    BY RangeOfSeq DEF Types, LifecycleTypeOK
  <2> QED BY <1>3, <1>6, <1>7, <2>1 DEF Queue, ReaperAwake, InReapersHands
<1>11. Victim'
  <2>1. reaper.pc # "pop" => reaper.victim \in TaskSlots /\ reaper.victim # s
    BY <1>6 DEF Types, LifecycleTypeOK, InReapersHands
  <2> QED BY <1>3, <1>7, <2>1 DEF Victim
<1>12. Creating'
  BY <1>3, <1>4, <1>5 DEF Creating
<1>13. Members' /\ Active'
  BY <1>3, <1>4, <1>5, <1>6, <1>7 DEF Members, Active, Attached, Free
<1> QED
  BY <1>8, <1>9, <1>10, <1>11, <1>12, <1>13

LEMMA FillStep ==
  ASSUME Setting, Inv, NEW c \in Clients, Fill(c)
  PROVE  Inv'
<1> USE Numbering DEF Inv
<1>1. c = Creator /\ me \in ClientRecords /\ me = client[c]
  BY DEF Types, me
<1>2. [me EXCEPT !.pc = "link"] \in ClientRecords
  BY <1>1 DEF ClientRecords, ClientLabels
<1>3. /\ ClientStep(c, "fill", [me EXCEPT !.pc = "link"])
      /\ st' = [st EXCEPT ![me.slot] = "RUNNABLE"]
      /\ stack' = [stack EXCEPT ![me.slot] = TRUE]
      /\ proc' = [proc EXCEPT ![me.slot] = me.target]
      /\ pc' = [pc EXCEPT ![me.slot] = "run"]
      /\ UNCHANGED <<pst, threads, reaper_queue, reaper>>
  BY <1>1 DEF Fill, procVars
<1>4. me' = [me EXCEPT !.pc = "link"] /\ me.pc = "fill"
      /\ cpu = Creator /\ cpu' = cpu /\ client' \in [Clients -> ClientRecords]
  BY <1>1, <1>2, <1>3, Stepped
<1>5. me'.pc = "link" /\ me'.own = me.own /\ me'.slot = me.slot /\ me'.target = me.target
      /\ me.target \in Procs \cup {kernel_process}
  BY <1>1, <1>4 DEF ClientRecords
<1>6. PICK s \in TaskSlots : s = me.slot /\ st[s] \in Free /\ ~InReapersHands(s)
  BY <1>4 DEF Creating
<1>7. /\ st'[s] = "RUNNABLE" /\ stack'[s] /\ proc'[s] = me.target /\ pc'[s] = "run"
      /\ \A u \in TaskSlots : u # s => st'[u] = st[u] /\ stack'[u] = stack[u]
                                   /\ proc'[u] = proc[u] /\ pc'[u] = pc[u]
  BY <1>3, <1>6 DEF Types, LifecycleTypeOK
<1>8. Types'
  BY <1>3, <1>4, <1>5, <1>6 DEF Types, LifecycleTypeOK, States, Labels
<1>9. Current' /\ Running' /\ Zombies'
  BY <1>3, <1>4, <1>6, <1>7 DEF Current, Running, Zombies, InReapersHands
<1>10. Queue'
  <2>1. Range(reaper_queue) \subseteq TaskSlots
    BY RangeOfSeq DEF Types, LifecycleTypeOK
  <2> QED BY <1>3, <1>6, <1>7, <2>1 DEF Queue, ReaperAwake, InReapersHands
<1>11. Victim'
  <2>1. reaper.pc # "pop" => reaper.victim \in TaskSlots /\ reaper.victim # s
    BY <1>6 DEF Types, LifecycleTypeOK, InReapersHands
  <2>2. reaper' = reaper /\ (reaper.pc # "pop" => st'[reaper.victim] = st[reaper.victim]
                                                  /\ pc'[reaper.victim] = pc[reaper.victim])
    BY <1>3, <1>7, <2>1
  <2> QED BY <2>2 DEF Victim
<1>12. Creating'
  BY <1>3, <1>4, <1>5, <1>6, <1>7 DEF Creating
<1>13. Members'
  BY <1>3, <1>4, <1>5, <1>6, <1>7 DEF Members, Creating, Attached
<1>14. Active'
  BY <1>3, <1>4, <1>5, <1>6, <1>7 DEF Active, Attached, Free
<1> QED
  BY <1>8, <1>9, <1>10, <1>11, <1>12, <1>13, <1>14

LEMMA LinkStep ==
  ASSUME Setting, Inv, NEW c \in Clients, Link(c)
  PROVE  Inv'
<1> USE Numbering DEF Inv
<1>1. c = Creator /\ me \in ClientRecords /\ me = client[c]
  BY DEF Types, me
<1>2. [me EXCEPT !.pc = "idle", !.slot = NoSlot] \in ClientRecords
  BY <1>1 DEF ClientRecords, ClientLabels
<1>3. /\ ClientStep(c, "link", [me EXCEPT !.pc = "idle", !.slot = NoSlot])
      /\ threads' = [threads EXCEPT ![me.target] = @ \cup {me.slot}]
      /\ UNCHANGED <<st, stack, proc, pc, pst, reaper_queue, reaper>>
  BY <1>1 DEF Link, slotVars
<1>4. me' = [me EXCEPT !.pc = "idle", !.slot = NoSlot] /\ me.pc = "link"
      /\ cpu = Creator /\ cpu' = cpu /\ client' \in [Clients -> ClientRecords]
  BY <1>1, <1>2, <1>3, Stepped
<1>5. me'.pc = "idle" /\ me'.own = me.own /\ me.target \in Procs \cup {kernel_process}
      /\ me.slot \in TaskSlots /\ me.target \in {kernel_process, me.own}
  BY <1>1, <1>4 DEF ClientRecords, Creating
<1>6. /\ threads'[me.target] = threads[me.target] \cup {me.slot}
      /\ \A p \in Procs : p # me.target => threads'[p] = threads[p]
  BY <1>3, <1>5 DEF Types, LifecycleTypeOK
<1>7. Types'
  BY <1>3, <1>4, <1>5 DEF Types, LifecycleTypeOK
<1>8. Current' /\ Running' /\ Queue' /\ Victim' /\ Zombies'
  BY <1>3, <1>4 DEF Current, Running, Queue, Victim, Zombies, ReaperAwake, InReapersHands
<1>9. Creating'
  BY <1>3, <1>4, <1>5, <1>6 DEF Creating
<1>10. \A s \in TaskSlots, p \in Procs : Attached(s, p)' <=> Attached(s, p)
  BY <1>4, <1>5, <1>6 DEF Attached
<1>11. Members' /\ Active'
  BY <1>3, <1>5, <1>10 DEF Members, Active
<1> QED
  BY <1>7, <1>8, <1>9, <1>11

LEMMA WaitStep ==
  ASSUME Setting, Inv, NEW c \in Clients, process_wait(c) \/ WaitDone(c)
  PROVE  Inv'
<1> USE Numbering DEF Inv
<1>1. c = Creator /\ me \in ClientRecords /\ me = client[c]
  BY DEF Types, me
<1>2. [me EXCEPT !.pc = "wait"] \in ClientRecords /\ [me EXCEPT !.pc = "destroy"] \in ClientRecords
  BY <1>1 DEF ClientRecords, ClientLabels
<1>3. /\ UNCHANGED <<st, stack, proc, pc, pst, threads, reaper_queue, reaper>>
      /\ \/ me.own # NoProc /\ ClientStep(c, "idle", [me EXCEPT !.pc = "wait"])
         \/ Exited(me.own) /\ ClientStep(c, "wait", [me EXCEPT !.pc = "destroy"])
  BY <1>1 DEF process_wait, WaitDone, slotVars, procVars
<1>4. /\ cpu = Creator /\ cpu' = cpu /\ client' \in [Clients -> ClientRecords]
      /\ \/ me.own # NoProc /\ me' = [me EXCEPT !.pc = "wait"] /\ me.pc = "idle"
         \/ Exited(me.own) /\ me' = [me EXCEPT !.pc = "destroy"] /\ me.pc = "wait"
  BY <1>1, <1>2, <1>3, Stepped
<1>5. /\ me'.own = me.own /\ me'.slot = me.slot /\ me'.target = me.target
      /\ me.pc \in {"idle", "wait"} /\ me'.pc \in {"wait", "destroy"}
      /\ me.own # NoProc /\ (me'.pc = "destroy" => Exited(me.own))
  BY <1>1, <1>4 DEF ClientRecords, Creating
<1>6. Types'
  BY <1>3, <1>4 DEF Types, LifecycleTypeOK
<1>7. Current' /\ Running' /\ Queue' /\ Victim' /\ Zombies'
  BY <1>3, <1>4 DEF Current, Running, Queue, Victim, Zombies, ReaperAwake, InReapersHands
<1>8. Creating'
  BY <1>3, <1>5 DEF Creating, Exited
<1>9. Members' /\ Active'
  BY <1>3, <1>5 DEF Members, Active, Attached
<1> QED
  BY <1>6, <1>7, <1>8, <1>9

LEMMA DestroyThreadsStep ==
  ASSUME Setting, Inv, NEW c \in Clients, DestroyThreads(c)
  PROVE  Inv'
<1> USE Numbering DEF Inv
<1>1. c = Creator /\ me \in ClientRecords /\ me = client[c]
  BY DEF Types, me
<1>2. [me EXCEPT !.pc = "mark"] \in ClientRecords
  BY <1>1 DEF ClientRecords, ClientLabels
<1>3. PICK T : T = threads[me.own]
  OBVIOUS
<1>4. /\ ClientStep(c, "destroy", [me EXCEPT !.pc = "mark"])
      /\ st' = [s \in TaskSlots |-> IF s \in T THEN "UNUSED" ELSE st[s]]
      /\ stack' = [s \in TaskSlots |-> stack[s] /\ s \notin T]
      /\ reaper_queue' = Without(reaper_queue, T)
      /\ threads' = [threads EXCEPT ![me.own] = {}]
      /\ UNCHANGED <<proc, pc, pst, reaper>>
  BY <1>1, <1>3 DEF DestroyThreads
<1>5. me' = [me EXCEPT !.pc = "mark"] /\ me.pc = "destroy"
      /\ cpu = Creator /\ cpu' = cpu /\ client' \in [Clients -> ClientRecords]
  BY <1>1, <1>2, <1>4, Stepped
<1>6. me'.pc = "mark" /\ me'.own = me.own /\ me.own \in Procs /\ pst[me.own] = "ZOMBIE"
  BY <1>1, <1>5 DEF ClientRecords, Creating
<1>7. Lists(reaper_queue', Range(reaper_queue) \ T)
  BY <1>4, QueueLists, WithoutLists
<1>8. reaper_queue' \in Seq(TaskSlots) /\ IsInjective(reaper_queue')
      /\ Range(reaper_queue') = Range(reaper_queue) \ T
  BY <1>7 DEF Lists
<1>9. reaper_queue' # << >> => reaper_queue # << >>
  BY <1>7, QueueLists, ListsEmpty
<1>10. /\ threads'[me.own] = {} /\ \A p \in Procs : p # me.own => threads'[p] = threads[p]
       /\ threads' \in [Procs \cup {kernel_process} -> SUBSET TaskSlots]
  BY <1>4, <1>6 DEF Types, LifecycleTypeOK
<1>11. \A s \in TaskSlots : /\ s \in T => st'[s] = "UNUSED"
                            /\ s \notin T => st'[s] = st[s] /\ (stack[s] => stack'[s])
  BY <1>4, Zenon
<1>12. Types'
  <2>1. st' \in [TaskSlots -> States]
    BY <1>4 DEF Types, LifecycleTypeOK, States
  <2>2. stack' \in [TaskSlots -> BOOLEAN]
    BY <1>4
  <2> QED BY <1>4, <1>5, <1>8, <1>10, <2>1, <2>2 DEF Types, LifecycleTypeOK
<1>13. Current'
  BY <1>5 DEF Current
<1>14. Running' /\ Zombies'
  BY <1>4, <1>8, <1>11 DEF Running, Zombies, InReapersHands
<1>15. Queue'
  <2>1. Range(reaper_queue) \subseteq TaskSlots
    BY RangeOfSeq DEF Types, LifecycleTypeOK
  <2> QED BY <1>4, <1>8, <1>9, <1>11, <2>1 DEF Queue, ReaperAwake
<1>16. Victim'
  <2>1. reaper.pc # "pop" => reaper.victim \in TaskSlots
    BY DEF Types, LifecycleTypeOK
  <2>2. reaper.pc # "pop" => st'[reaper.victim] = "UNUSED" \/ st'[reaper.victim] = st[reaper.victim]
    BY <1>11, <2>1
  <2> QED BY <1>4, <2>2 DEF Victim, Free
<1>17. Creating'
  BY <1>4, <1>6, <1>10 DEF Creating
<1>18. \A s \in TaskSlots : st'[s] \in {"RUNNABLE", "ZOMBIE"} => proc[s] \notin Procs
  BY <1>3, <1>5, <1>11 DEF Members, Attached
<1>19. Members' /\ Active'
  BY <1>4, <1>6, <1>18 DEF Members, Active, Creating, Free
<1> QED
  BY <1>12, <1>13, <1>14, <1>15, <1>16, <1>17, <1>19

LEMMA DestroyMarkStep ==
  ASSUME Setting, Inv, NEW c \in Clients, DestroyMark(c)
  PROVE  Inv'
<1> USE Numbering DEF Inv
<1>1. c = Creator /\ me \in ClientRecords /\ me = client[c]
  BY DEF Types, me
<1>2. [me EXCEPT !.pc = "idle", !.own = NoProc] \in ClientRecords
  BY <1>1, Zenon DEF ClientRecords, ClientLabels
<1>3. /\ ClientStep(c, "mark", [me EXCEPT !.pc = "idle", !.own = NoProc])
      /\ pst' = [pst EXCEPT ![me.own] = "DEAD"]
      /\ UNCHANGED <<st, stack, proc, pc, threads, reaper_queue, reaper>>
  BY <1>1 DEF DestroyMark, slotVars
<1>4. me' = [me EXCEPT !.pc = "idle", !.own = NoProc] /\ me.pc = "mark"
      /\ cpu = Creator /\ cpu' = cpu /\ client' \in [Clients -> ClientRecords]
  BY <1>1, <1>2, <1>3, Stepped
<1>5. me'.pc = "idle" /\ me'.own = NoProc /\ me.own \in Procs /\ threads[me.own] = {}
  BY <1>1, <1>4 DEF ClientRecords, Creating
<1>6. Types'
  BY <1>3, <1>4 DEF Types, LifecycleTypeOK
<1>7. \A s \in TaskSlots : st[s] \in {"RUNNABLE", "ZOMBIE"} => proc[s] \notin Procs
  BY <1>4, <1>5 DEF Members, Attached
<1>8. \A p \in Procs : pst'[p] \in Free /\ threads'[p] = {}
  BY <1>3, <1>5 DEF Creating, Free, Types, LifecycleTypeOK
<1>9. Current' /\ Running' /\ Queue' /\ Victim'
  BY <1>3, <1>4 DEF Current, Running, Queue, Victim, ReaperAwake, InReapersHands
<1>10. Zombies'
  BY <1>3, <1>7 DEF Zombies, InReapersHands
<1>11. Creating'
  BY <1>5, <1>8 DEF Creating
<1>12. Members' /\ Active'
  BY <1>3, <1>7, <1>8 DEF Members, Active, Free
<1> QED
  BY <1>6, <1>9, <1>10, <1>11, <1>12

\* process_exit ends the process and turns the threads of K into zombies, all
\* of them queued for the reaper.
LEMMA KillingStep ==
  ASSUME Setting, Inv, NEW K \in SUBSET TaskSlots, \A t \in K : st[t] = "RUNNABLE",
         me.own \in Procs, pst[me.own] = "ACTIVE",
         pst' = [pst EXCEPT ![me.own] = "ZOMBIE"],
         st' = [t \in TaskSlots |-> IF t \in K THEN "ZOMBIE" ELSE st[t]],
         Lists(reaper_queue', Range(reaper_queue) \cup K),
         (reaper' = reaper /\ K = {}) \/ reaper' = [reaper EXCEPT !.blocked = FALSE],
         UNCHANGED <<stack, proc, pc, threads, client>>,
         cpu' \in {idle_task, reaper_thread} \cup TaskSlots \cup Clients,
         \A s \in TaskSlots : cpu' = s => st'[s] = "RUNNABLE"
  PROVE  Inv'
<1> USE Numbering DEF Inv
<1>1. reaper_queue' \in Seq(TaskSlots) /\ IsInjective(reaper_queue')
      /\ Range(reaper_queue') = Range(reaper_queue) \cup K
  BY DEF Lists
<1>2. /\ reaper' \in [pc : {"pop", "bury", "free", "unlink"},
                      victim : TaskSlots \cup {NoSlot}, blocked : BOOLEAN]
      /\ reaper'.pc = reaper.pc /\ reaper'.victim = reaper.victim
      /\ (reaper' = reaper /\ K = {}) \/ ~reaper'.blocked
  BY Zenon DEF Types
<1>3. \A t \in TaskSlots : /\ t \in K => st[t] = "RUNNABLE" /\ st'[t] = "ZOMBIE" /\ pc[t] = "run"
                                         /\ ~InReapersHands(t)
                           /\ t \notin K => st'[t] = st[t]
  BY DEF Running
<1>4. me' = me
  BY DEF me
<1>5. pst'[me.own] = "ZOMBIE" /\ \A p \in Procs : p # me.own => pst'[p] = pst[p]
  BY DEF Types, LifecycleTypeOK
<1>6. Types'
  <2>1. st' \in [TaskSlots -> States]
    BY DEF Types, LifecycleTypeOK, States
  <2>2. reaper'.pc = "pop" <=> reaper'.victim = NoSlot
    BY <1>2 DEF Types, LifecycleTypeOK
  <2> QED BY <1>1, <1>2, <2>1, <2>2 DEF Types, LifecycleTypeOK
<1>7. Current'
  BY DEF Current
<1>8. Running'
  BY <1>1, <1>2, <1>3 DEF Running, InReapersHands
<1>9. Queue'
  <2>1. Range(reaper_queue) \subseteq TaskSlots
    BY RangeOfSeq DEF Types, LifecycleTypeOK
  <2>2. reaper'.victim \notin Range(reaper_queue')
    BY <1>1, <1>2, <1>3 DEF Queue, InReapersHands
  <2>3. \A s \in Range(reaper_queue') : st'[s] = "ZOMBIE" /\ pc'[s] \in {"run", "gone"}
    BY <1>1, <1>3, <2>1 DEF Queue
  <2>4. reaper_queue' # << >> /\ K = {} => reaper_queue # << >>
    BY QueueLists, ListsEmpty
  <2>5. ReaperAwake'
    BY <1>2, <2>4 DEF Queue, ReaperAwake
  <2> QED BY <1>1, <2>2, <2>3, <2>5 DEF Queue
<1>10. Victim'
  <2>1. reaper.pc # "pop" => reaper.victim \in TaskSlots /\ reaper.victim \notin K
    BY <1>3 DEF Types, LifecycleTypeOK, InReapersHands
  <2>2. reaper.pc # "pop" => st'[reaper.victim] = st[reaper.victim]
    BY <1>3, <2>1
  <2> QED BY <1>2, <2>2 DEF Victim
<1>11. Zombies'
  <2> SUFFICES ASSUME NEW s \in TaskSlots, st'[s] = "ZOMBIE"
               PROVE  /\ pc[s] \in {"run", "gone"} => InReapersHands(s)'
                      /\ pc[s] # "exit_process" /\ proc[s] \in Procs => pst'[proc[s]] # "ACTIVE"
    BY DEF Zombies
  <2>1. pc[s] \in {"run", "gone"} => InReapersHands(s)'
    BY <1>1, <1>2, <1>3 DEF Zombies, InReapersHands
  <2>2. proc[s] \in Procs => proc[s] = me.own
    BY <1>3 DEF Members
  <2> QED BY <1>5, <2>1, <2>2
<1>12. Creating'
  <2>1. me.pc = "fill" => me.slot \in TaskSlots /\ me.slot \notin K /\ st'[me.slot] \in Free
    BY <1>3 DEF Creating, Free
  <2>2. me.pc = "fill" => ~InReapersHands(me.slot)'
    BY <1>1, <1>2, <1>4, <2>1 DEF Creating, InReapersHands
  <2> QED BY <1>4, <1>5, <2>1, <2>2 DEF Creating
<1>13. Members' /\ Active'
  BY <1>3, <1>4, <1>5 DEF Members, Active, Attached, Creating, Free
<1> QED
  BY <1>6, <1>7, <1>8, <1>9, <1>10, <1>11, <1>12, <1>13

LEMMA ProcessExitStep ==
  ASSUME Setting, Inv, NEW c \in Clients, process_exit(c)
  PROVE  Inv'
<1> USE Numbering DEF Inv
<1>1. c = Creator /\ me \in ClientRecords /\ me = client[c]
  BY DEF Types, me
<1>2. PICK K : K = Living(me.own, NoSlot)
  OBVIOUS
<1>3. /\ me.own # NoProc /\ pst[me.own] = "ACTIVE" /\ ClientStep(c, "idle", me)
      /\ pst' = [pst EXCEPT ![me.own] = "ZOMBIE"]
      /\ st' = [t \in TaskSlots |-> IF t \in K THEN "ZOMBIE" ELSE st[t]]
      /\ IF K = {} THEN UNCHANGED <<reaper_queue, reaper>> ELSE \E q \in Orders(K) : ToReaper(q)
      /\ UNCHANGED <<stack, proc, pc, threads>>
  BY <1>1, <1>2 DEF process_exit
<1>4. client' = client /\ cpu' = cpu /\ cpu = Creator
  BY <1>1, <1>3 DEF ClientStep, Types
<1>5. me.own \in Procs /\ threads[me.own] \subseteq TaskSlots
  BY <1>1, <1>3 DEF ClientRecords, Types, LifecycleTypeOK
<1>6. K \in SUBSET TaskSlots /\ \A t \in K : st[t] = "RUNNABLE"
  BY <1>2, <1>3, <1>5 DEF Living, Active, Attached
<1>7. K \cap Range(reaper_queue) = {}
  BY <1>6 DEF Queue
<1>8. Lists(reaper_queue', Range(reaper_queue) \cup K)
  <2>1. CASE K = {}
    <3>1. reaper_queue' = reaper_queue /\ Range(reaper_queue) \cup K = Range(reaper_queue)
      BY <1>3, <2>1
    <3> QED BY <3>1, QueueLists
  <2>2. CASE K # {}
    <3>1. PICK q \in Orders(K) : reaper_queue' = reaper_queue \o q
      BY <1>3, <2>2 DEF ToReaper
    <3> QED BY <1>6, <1>7, <3>1, QueueLists, OrdersList, ConcatLists
  <2> QED BY <2>1, <2>2
<1>9. (reaper' = reaper /\ K = {}) \/ reaper' = [reaper EXCEPT !.blocked = FALSE]
  BY <1>3 DEF ToReaper
<1> QED
  BY <1>3, <1>4, <1>5, <1>6, <1>8, <1>9, KillingStep

LEMMA SysExitStep ==
  ASSUME Setting, Inv, NEW s \in TaskSlots, sys_exit(s)
  PROVE  Inv'
<1> USE Numbering DEF Inv
<1>1. PICK R : R = Living(proc[s], s)
  OBVIOUS
<1>2. PICK K : K = R \cup {s}
  BY Zenon
<1>3. PICK q \in Orders(R) :
      /\ st[s] = "RUNNABLE" /\ proc[s] \in Procs /\ pst[proc[s]] = "ACTIVE"
      /\ pst' = [pst EXCEPT ![proc[s]] = "ZOMBIE"]
      /\ st' = [t \in TaskSlots |-> IF t \in K THEN "ZOMBIE" ELSE st[t]]
      /\ reaper_queue' = reaper_queue \o (q \o <<s>>)
      /\ reaper' = [reaper EXCEPT !.blocked = FALSE]
      /\ UNCHANGED <<stack, proc, pc, threads, client>>
      /\ cpu' \in Ready'
  BY <1>1, <1>2 DEF sys_exit, ToReaper, SwitchFrom
<1>4. proc[s] = me.own
  BY <1>3 DEF Members
<1>5. R \in SUBSET TaskSlots /\ \A t \in R : st[t] = "RUNNABLE"
  BY <1>1, <1>3 DEF Living, Active, Attached, Types, LifecycleTypeOK
<1>6. K \in SUBSET TaskSlots /\ \A t \in K : st[t] = "RUNNABLE"
  BY <1>2, <1>3, <1>5
<1>7. K \cap Range(reaper_queue) = {} /\ R \cap {s} = {}
  BY <1>1, <1>6 DEF Queue, Living
<1>8. Lists(q \o <<s>>, K)
  BY <1>2, <1>5, <1>7, OrdersList, SingleLists, ConcatLists, Zenon
<1>9. Lists(reaper_queue', Range(reaper_queue) \cup K)
  BY <1>3, <1>7, <1>8, QueueLists, ConcatLists
<1>10. cpu' \in {idle_task, reaper_thread} \cup TaskSlots \cup Clients
       /\ \A t \in TaskSlots : cpu' = t => st'[t] = "RUNNABLE"
  BY <1>3, ReadyTaskNext
<1> QED
  BY <1>3, <1>4, <1>6, <1>9, <1>10, KillingStep, Zenon

LEMMA ThreadExitStep ==
  ASSUME Setting, Inv, NEW s \in TaskSlots, thread_exit(s)
  PROVE  Inv'
<1> USE Numbering DEF Inv
<1>1. /\ cpu = s /\ st[s] = "RUNNABLE"
      /\ st' = [st EXCEPT ![s] = "ZOMBIE"] /\ pc' = [pc EXCEPT ![s] = "exit_process"]
      /\ UNCHANGED <<stack, proc, pst, threads, reaper_queue, reaper, client, cpu>>
  BY DEF thread_exit, procVars
<1>2. me' = me
  BY <1>1 DEF me
<1>3. /\ st'[s] = "ZOMBIE" /\ pc'[s] = "exit_process"
      /\ \A u \in TaskSlots : u # s => st'[u] = st[u] /\ pc'[u] = pc[u]
  BY <1>1 DEF Types, LifecycleTypeOK
<1>4. ~InReapersHands(s)
  BY <1>1 DEF Running
<1>5. Types'
  BY <1>1 DEF Types, LifecycleTypeOK, States, Labels
<1>6. Current' /\ Running' /\ Zombies'
  BY <1>1, <1>3 DEF Current, Running, Zombies, InReapersHands
<1>7. Queue'
  <2>1. Range(reaper_queue) \subseteq TaskSlots
    BY RangeOfSeq DEF Types, LifecycleTypeOK
  <2> QED BY <1>1, <1>3, <1>4, <2>1 DEF Queue, ReaperAwake, InReapersHands
<1>8. Victim'
  <2>1. reaper.pc # "pop" => reaper.victim \in TaskSlots /\ reaper.victim # s
    BY <1>4 DEF Types, LifecycleTypeOK, InReapersHands
  <2>2. reaper' = reaper /\ (reaper.pc # "pop" => st'[reaper.victim] = st[reaper.victim]
                                                  /\ pc'[reaper.victim] = pc[reaper.victim])
    BY <1>1, <1>3, <2>1
  <2> QED BY <2>2 DEF Victim
<1>9. Creating'
  <2>1. me.pc = "fill" => me.slot # s
    BY <1>1 DEF Creating, Free
  <2>2. me.pc = "fill" => st'[me.slot] = st[me.slot]
    BY <1>3, <2>1 DEF Creating
  <2>3. InReapersHands(me.slot)' <=> InReapersHands(me.slot)
    BY <1>1, <1>2 DEF InReapersHands
  <2> QED BY <1>1, <1>2, <2>2, <2>3 DEF Creating
<1>10. Members' /\ Active'
  BY <1>1, <1>2, <1>3 DEF Members, Active, Attached
<1> QED
  BY <1>5, <1>6, <1>7, <1>8, <1>9, <1>10

\* A thread inside thread_exit is a zombie the reaper does not have.
LEMMA ExitingThread ==
  ASSUME Setting, Inv, NEW s \in TaskSlots, cpu = s, pc[s] \in {"exit_process", "exit_queue"}
  PROVE  st[s] = "ZOMBIE" /\ ~InReapersHands(s)
<1> USE Numbering DEF Inv
<1>1. st[s] = "ZOMBIE"
  BY DEF Current, Running
<1>2. s \notin Range(reaper_queue)
  BY DEF Queue
<1>3. reaper.victim # s
  <2>1. reaper.pc \in {"pop", "bury", "free", "unlink"} /\ (reaper.pc = "pop" => reaper.victim = NoSlot)
    BY DEF Types, LifecycleTypeOK
  <2> QED BY <1>1, <2>1 DEF Victim, Free
<1> QED
  BY <1>1, <1>2, <1>3 DEF InReapersHands

LEMMA ExitProcessStep ==
  ASSUME Setting, Inv, NEW s \in TaskSlots, ExitProcess(s)
  PROVE  Inv'
<1> USE Numbering DEF Inv
<1>1. /\ cpu = s /\ pc[s] = "exit_process" /\ pc' = [pc EXCEPT ![s] = "exit_queue"]
      /\ UNCHANGED <<st, stack, proc, threads, reaper_queue, reaper, client>>
      /\ pst' = IF proc[s] \in Procs /\ pst[proc[s]] = "ACTIVE"
                THEN [pst EXCEPT ![proc[s]] = "ZOMBIE"] ELSE pst
      /\ cpu' \in Ready' \/ cpu' = cpu
  BY DEF ExitProcess, SwitchFrom
<1>2. me' = me
  BY <1>1 DEF me
<1>3. st[s] = "ZOMBIE" /\ ~InReapersHands(s)
  BY <1>1, ExitingThread
<1>4. pc'[s] = "exit_queue" /\ \A u \in TaskSlots : u # s => pc'[u] = pc[u]
  BY <1>1 DEF Types
<1>5. /\ \A p \in Procs : pst'[p] = pst[p] \/ (p = proc[s] /\ pst[p] = "ACTIVE" /\ pst'[p] = "ZOMBIE")
      /\ proc[s] \in Procs => pst'[proc[s]] # "ACTIVE"
      /\ pst' \in [Procs -> {"UNUSED", "ACTIVE", "ZOMBIE", "DEAD"}]
  BY <1>1 DEF Types, LifecycleTypeOK
<1>6. Types'
  BY <1>1, <1>5, ReadyTaskNext DEF Types, LifecycleTypeOK, Labels
<1>7. Current'
  BY <1>1, <1>3, <1>4, ReadyTaskNext DEF Current
<1>8. Running'
  BY <1>1, <1>3, <1>4 DEF Running, InReapersHands
<1>9. Zombies'
  <2> SUFFICES ASSUME NEW u \in TaskSlots, st[u] = "ZOMBIE"
               PROVE  /\ pc'[u] \in {"run", "gone"} => InReapersHands(u)
                      /\ pc'[u] # "exit_process" /\ proc[u] \in Procs => pst'[proc[u]] # "ACTIVE"
    BY <1>1 DEF Zombies, InReapersHands
  <2>1. CASE u = s
    BY <1>4, <1>5, <2>1
  <2>2. CASE u # s
    BY <1>4, <1>5, <2>2 DEF Zombies
  <2> QED BY <2>1, <2>2
<1>10. Queue'
  <2>1. Range(reaper_queue) \subseteq TaskSlots
    BY RangeOfSeq DEF Types, LifecycleTypeOK
  <2> QED BY <1>1, <1>3, <1>4, <2>1 DEF Queue, ReaperAwake, InReapersHands
<1>11. Victim'
  <2>1. reaper.pc # "pop" => reaper.victim \in TaskSlots /\ reaper.victim # s
    BY <1>3 DEF Types, LifecycleTypeOK, InReapersHands
  <2>2. reaper' = reaper /\ st' = st /\ (reaper.pc # "pop" => pc'[reaper.victim] = pc[reaper.victim])
    BY <1>1, <1>4, <2>1
  <2> QED BY <2>2 DEF Victim
<1>12. Creating'
  <2>1. me.own # NoProc => me.own \in Procs
    BY DEF Types, me, ClientRecords
  <2>2. \A q \in Procs : q # me.own => pst'[q] = pst[q]
    BY <1>5 DEF Creating, Free
  <2>3. /\ me.own # NoProc => pst'[me.own] \in {"ACTIVE", "ZOMBIE"}
        /\ me.pc \in {"destroy", "mark"} => pst'[me.own] = "ZOMBIE"
    BY <1>5, <2>1 DEF Creating
  <2> QED BY <1>1, <1>2, <2>2, <2>3 DEF Creating, InReapersHands
<1>13. Members' /\ Active'
  BY <1>1, <1>2, <1>4, <1>5 DEF Members, Active, Attached
<1> QED
  BY <1>6, <1>7, <1>8, <1>9, <1>10, <1>11, <1>12, <1>13

LEMMA ExitQueueStep ==
  ASSUME Setting, Inv, NEW s \in TaskSlots, ExitQueue(s)
  PROVE  Inv'
<1> USE Numbering DEF Inv
<1>1. /\ cpu = s /\ pc[s] = "exit_queue" /\ pc' = [pc EXCEPT ![s] = "gone"]
      /\ reaper_queue' = reaper_queue \o <<s>> /\ reaper' = [reaper EXCEPT !.blocked = FALSE]
      /\ UNCHANGED <<st, stack, proc, pst, threads, client>>
      /\ cpu' \in Ready'
  BY DEF ExitQueue, ToReaper, SwitchFrom, procVars
<1>2. me' = me
  BY <1>1 DEF me
<1>3. st[s] = "ZOMBIE" /\ ~InReapersHands(s)
  BY <1>1, ExitingThread
<1>4. pc'[s] = "gone" /\ \A u \in TaskSlots : u # s => pc'[u] = pc[u]
  BY <1>1 DEF Types
<1>5. Lists(reaper_queue', Range(reaper_queue) \cup {s})
  <2>1. Range(reaper_queue) \cap {s} = {}
    BY <1>3 DEF InReapersHands
  <2> QED BY <1>1, <2>1, QueueLists, SingleLists, ConcatLists, Zenon
<1>6. reaper_queue' \in Seq(TaskSlots) /\ IsInjective(reaper_queue')
      /\ Range(reaper_queue') = Range(reaper_queue) \cup {s}
  BY <1>5 DEF Lists
<1>7. /\ reaper' \in [pc : {"pop", "bury", "free", "unlink"},
                      victim : TaskSlots \cup {NoSlot}, blocked : BOOLEAN]
      /\ reaper'.pc = reaper.pc /\ reaper'.victim = reaper.victim /\ ~reaper'.blocked
  BY <1>1, Zenon DEF Types
<1>8. Types'
  <2>1. reaper'.pc = "pop" <=> reaper'.victim = NoSlot
    BY <1>7 DEF Types, LifecycleTypeOK
  <2>2. pc' \in [TaskSlots -> Labels]
    BY <1>1 DEF Types, Labels
  <2> QED BY <1>1, <1>6, <1>7, <2>1, <2>2, ReadyTaskNext DEF Types, LifecycleTypeOK
<1>9. Current'
  BY <1>1, ReadyTaskNext DEF Current
<1>10. Running' /\ Zombies'
  BY <1>1, <1>3, <1>4, <1>6, <1>7 DEF Running, Zombies, InReapersHands
<1>11. Queue'
  <2>1. Range(reaper_queue) \subseteq TaskSlots
    BY RangeOfSeq DEF Types, LifecycleTypeOK
  <2> QED BY <1>1, <1>3, <1>4, <1>6, <1>7, <2>1 DEF Queue, ReaperAwake, InReapersHands
<1>12. Victim'
  <2>1. reaper.pc # "pop" => reaper.victim \in TaskSlots /\ reaper.victim # s
    BY <1>3 DEF Types, LifecycleTypeOK, InReapersHands
  <2>2. st' = st /\ (reaper.pc # "pop" => pc'[reaper.victim] = pc[reaper.victim])
    BY <1>1, <1>4, <2>1
  <2> QED BY <1>7, <2>2 DEF Victim
<1>13. Creating'
  <2>1. me.pc = "fill" => me.slot # s /\ ~InReapersHands(me.slot)
    BY <1>3 DEF Creating, Free
  <2>2. me.pc = "fill" => ~InReapersHands(me.slot)'
    BY <1>2, <1>6, <1>7, <2>1 DEF InReapersHands
  <2> QED BY <1>1, <1>2, <2>2 DEF Creating
<1>14. Members' /\ Active'
  BY <1>1, <1>2, <1>3, <1>4 DEF Members, Active, Attached
<1> QED
  BY <1>8, <1>9, <1>10, <1>11, <1>12, <1>13, <1>14

LEMMA ReaperPopStep ==
  ASSUME Setting, Inv, ReaperPop
  PROVE  Inv'
<1> USE Numbering DEF Inv
<1>1. /\ cpu = reaper_thread /\ reaper.pc = "pop"
      /\ UNCHANGED <<st, stack, proc, pc, pst, threads, client>>
  BY DEF ReaperPop, ReaperStep, slotVars, procVars
<1>2. me' = me
  BY <1>1 DEF me
<1>3. reaper.victim = NoSlot
  BY <1>1 DEF Types, LifecycleTypeOK
<1>4. CASE reaper_queue # << >>
  <2>1. /\ reaper' = [reaper EXCEPT !.pc = "bury", !.victim = Head(reaper_queue)]
        /\ reaper_queue' = Tail(reaper_queue) /\ cpu' = cpu
    BY <1>4 DEF ReaperPop
  <2>2. PICK v : v = Head(reaper_queue)
    OBVIOUS
  <2>3. v \in Range(reaper_queue) /\ Lists(reaper_queue', Range(reaper_queue) \ {v})
    BY <1>4, <2>1, <2>2, QueueLists, TailLists
  <2>4. reaper_queue' \in Seq(TaskSlots) /\ IsInjective(reaper_queue')
        /\ Range(reaper_queue') = Range(reaper_queue) \ {v} /\ Range(reaper_queue) \subseteq TaskSlots
    BY <2>3, RangeOfSeq DEF Lists, Types, LifecycleTypeOK
  <2>5. /\ reaper' \in [pc : {"pop", "bury", "free", "unlink"},
                        victim : TaskSlots \cup {NoSlot}, blocked : BOOLEAN]
        /\ reaper'.pc = "bury" /\ reaper'.victim = v /\ reaper'.blocked = reaper.blocked
    BY <2>1, <2>2, <2>3, <2>4, Zenon DEF Types
  <2>6. v \in TaskSlots /\ st[v] = "ZOMBIE" /\ pc[v] \in {"run", "gone"} /\ ~reaper.blocked
    BY <1>4, <2>3, <2>4 DEF Queue, ReaperAwake
  <2>7. \A s \in TaskSlots : InReapersHands(s)' <=> InReapersHands(s)
    BY <1>3, <2>3, <2>4, <2>5 DEF InReapersHands
  <2>8. Types'
    BY <1>1, <2>1, <2>4, <2>5, <2>6 DEF Types, LifecycleTypeOK
  <2>9. Current' /\ Running' /\ Zombies'
    BY <1>1, <2>1, <2>7 DEF Current, Running, Zombies
  <2>10. Queue' /\ Victim'
    BY <1>1, <2>4, <2>5, <2>6 DEF Queue, Victim, ReaperAwake
  <2>11. Creating'
    BY <1>1, <1>2, <2>7 DEF Creating
  <2>12. Members' /\ Active'
    BY <1>1, <1>2 DEF Members, Active, Attached
  <2> QED BY <2>8, <2>9, <2>10, <2>11, <2>12
<1>5. CASE reaper_queue = << >>
  <2>1. /\ reaper' = [reaper EXCEPT !.blocked = TRUE] /\ reaper_queue' = reaper_queue
        /\ cpu' \in Ready'
    BY <1>5 DEF ReaperPop
  <2>2. /\ reaper' \in [pc : {"pop", "bury", "free", "unlink"},
                        victim : TaskSlots \cup {NoSlot}, blocked : BOOLEAN]
        /\ reaper'.pc = "pop" /\ reaper'.victim = reaper.victim
    BY <1>1, <2>1, Zenon DEF Types
  <2>3. Types'
    BY <1>1, <1>3, <2>1, <2>2, ReadyTaskNext DEF Types, LifecycleTypeOK
  <2>4. Current'
    BY <2>1, ReadyTaskNext DEF Current
  <2>5. Running' /\ Zombies'
    BY <1>1, <2>1, <2>2 DEF Running, Zombies, InReapersHands
  <2>6. Queue' /\ Victim'
    BY <1>1, <1>5, <2>1, <2>2 DEF Queue, Victim, ReaperAwake
  <2>7. Creating'
    BY <1>1, <1>2, <2>1, <2>2 DEF Creating, InReapersHands
  <2>8. Members' /\ Active'
    BY <1>1, <1>2 DEF Members, Active, Attached
  <2> QED BY <2>3, <2>4, <2>5, <2>6, <2>7, <2>8
<1> QED
  BY <1>4, <1>5

LEMMA ReaperBuryStep ==
  ASSUME Setting, Inv, ReaperBury
  PROVE  Inv'
<1> USE Numbering DEF Inv
<1>1. PICK v : v = reaper.victim
  OBVIOUS
<1>2. /\ cpu = reaper_thread /\ reaper.pc = "bury" /\ reaper' = [reaper EXCEPT !.pc = "free"]
      /\ st' = [st EXCEPT ![v] = "DEAD"]
      /\ UNCHANGED <<stack, proc, pc, pst, threads, reaper_queue, client, cpu>>
  BY <1>1 DEF ReaperBury, ReaperStep, procVars
<1>3. me' = me
  BY <1>2 DEF me
<1>4. /\ v \in TaskSlots /\ v \notin Range(reaper_queue) /\ InReapersHands(v)
      /\ st[v] = "UNUSED" \/ (st[v] = "ZOMBIE" /\ pc[v] \in {"run", "gone"})
  BY <1>1, <1>2 DEF Types, LifecycleTypeOK, Queue, Victim, InReapersHands
<1>5. /\ reaper' \in [pc : {"pop", "bury", "free", "unlink"},
                      victim : TaskSlots \cup {NoSlot}, blocked : BOOLEAN]
      /\ reaper'.pc = "free" /\ reaper'.victim = v /\ reaper'.blocked = reaper.blocked
  BY <1>1, <1>2 DEF Types
<1>6. st'[v] = "DEAD" /\ \A u \in TaskSlots : u # v => st'[u] = st[u]
  BY <1>2, <1>4 DEF Types, LifecycleTypeOK
<1>7. \A s \in TaskSlots : InReapersHands(s)' <=> InReapersHands(s)
  BY <1>1, <1>2, <1>5 DEF InReapersHands
<1>8. Types'
  BY <1>2, <1>4, <1>5 DEF Types, LifecycleTypeOK, States
<1>9. Current' /\ Running' /\ Zombies'
  BY <1>2, <1>6, <1>7 DEF Current, Running, Zombies
<1>10. Queue' /\ Victim'
  <2>1. Range(reaper_queue) \subseteq TaskSlots
    BY RangeOfSeq DEF Types, LifecycleTypeOK
  <2> QED BY <1>2, <1>4, <1>5, <1>6, <2>1 DEF Queue, Victim, ReaperAwake, Free
<1>11. Creating'
  BY <1>2, <1>3, <1>4, <1>6, <1>7 DEF Creating
<1>12. Members' /\ Active'
  BY <1>2, <1>3, <1>4, <1>6 DEF Members, Active, Attached
<1> QED
  BY <1>8, <1>9, <1>10, <1>11, <1>12

LEMMA ReaperFreeStep ==
  ASSUME Setting, Inv, ReaperFree
  PROVE  Inv'
<1> USE Numbering DEF Inv
<1>1. PICK v : v = reaper.victim
  OBVIOUS
<1>2. /\ cpu = reaper_thread /\ reaper.pc = "free" /\ reaper' = [reaper EXCEPT !.pc = "unlink"]
      /\ stack' = [stack EXCEPT ![v] = FALSE]
      /\ UNCHANGED <<st, proc, pc, pst, threads, reaper_queue, client, cpu>>
  BY <1>1 DEF ReaperFree, ReaperStep, procVars
<1>3. me' = me
  BY <1>2 DEF me
<1>4. v \in TaskSlots /\ st[v] \in Free
  BY <1>1, <1>2 DEF Types, LifecycleTypeOK, Victim
<1>5. /\ reaper' \in [pc : {"pop", "bury", "free", "unlink"},
                      victim : TaskSlots \cup {NoSlot}, blocked : BOOLEAN]
      /\ reaper'.pc = "unlink" /\ reaper'.victim = v /\ reaper'.blocked = reaper.blocked
  BY <1>1, <1>2 DEF Types
<1>6. \A u \in TaskSlots : u # v => stack'[u] = stack[u]
  BY <1>2 DEF Types, LifecycleTypeOK
<1>7. \A s \in TaskSlots : InReapersHands(s)' <=> InReapersHands(s)
  BY <1>1, <1>2, <1>5 DEF InReapersHands
<1>8. Types'
  BY <1>2, <1>4, <1>5 DEF Types, LifecycleTypeOK
<1>9. Current' /\ Running' /\ Zombies'
  BY <1>2, <1>4, <1>6, <1>7 DEF Current, Running, Zombies, Free
<1>10. Queue' /\ Victim'
  BY <1>1, <1>2, <1>4, <1>5 DEF Queue, Victim, ReaperAwake
<1>11. Creating'
  BY <1>2, <1>3, <1>7 DEF Creating
<1>12. Members' /\ Active'
  BY <1>2, <1>3 DEF Members, Active, Attached
<1> QED
  BY <1>8, <1>9, <1>10, <1>11, <1>12

LEMMA ReaperUnlinkStep ==
  ASSUME Setting, Inv, ReaperUnlink
  PROVE  Inv'
<1> USE Numbering DEF Inv
<1>1. PICK v : v = reaper.victim
  OBVIOUS
<1>2. /\ cpu = reaper_thread /\ reaper.pc = "unlink"
      /\ reaper' = [reaper EXCEPT !.pc = "pop", !.victim = NoSlot]
      /\ threads' = [threads EXCEPT ![proc[v]] = @ \ {v}]
      /\ UNCHANGED <<st, stack, proc, pc, pst, reaper_queue, client, cpu>>
  BY <1>1 DEF ReaperUnlink, ReaperStep, slotVars
<1>3. me' = me
  BY <1>2 DEF me
<1>4. v \in TaskSlots /\ st[v] \in Free /\ proc[v] \in Procs \cup {kernel_process}
  BY <1>1, <1>2 DEF Types, LifecycleTypeOK, Victim
<1>5. /\ reaper' \in [pc : {"pop", "bury", "free", "unlink"},
                      victim : TaskSlots \cup {NoSlot}, blocked : BOOLEAN]
      /\ reaper'.pc = "pop" /\ reaper'.victim = NoSlot /\ reaper'.blocked = reaper.blocked
  BY <1>1, <1>2, Zenon DEF Types
<1>6. /\ \A p \in Procs : threads'[p] = threads[p] \/ threads'[p] = threads[p] \ {v}
      /\ threads' \in [Procs \cup {kernel_process} -> SUBSET TaskSlots]
  BY <1>2, <1>4 DEF Types, LifecycleTypeOK
<1>7. \A s \in TaskSlots : s # v => (InReapersHands(s)' <=> InReapersHands(s))
  BY <1>1, <1>2, <1>5 DEF InReapersHands
<1>8. Types'
  BY <1>2, <1>5, <1>6 DEF Types, LifecycleTypeOK
<1>9. Current' /\ Running' /\ Zombies'
  BY <1>2, <1>4, <1>7 DEF Current, Running, Zombies, Free
<1>10. Queue' /\ Victim'
  <2>1. NoSlot \notin Range(reaper_queue)
    BY RangeOfSeq DEF Types, LifecycleTypeOK
  <2> QED BY <1>2, <1>5, <2>1 DEF Queue, Victim, ReaperAwake
<1>11. Creating'
  <2>1. me.pc = "fill" => me.slot \in TaskSlots /\ me.slot # v
    BY <1>1 DEF Creating, InReapersHands
  <2>2. me.own # NoProc => me.own \in Procs
    BY DEF Types, me, ClientRecords
  <2>3. me.pc = "mark" => threads'[me.own] = {}
    BY <1>6, <2>2 DEF Creating
  <2>4. \A q \in Procs : q # me.own => threads'[q] = {}
    BY <1>6 DEF Creating
  <2> QED BY <1>2, <1>3, <1>7, <2>1, <2>3, <2>4 DEF Creating
<1>12. \A s \in TaskSlots, p \in Procs : /\ Attached(s, p)' => Attached(s, p)
                                         /\ s # v /\ Attached(s, p) => Attached(s, p)'
  BY <1>3, <1>6 DEF Attached
<1>13. Members' /\ Active'
  BY <1>2, <1>3, <1>4, <1>12 DEF Members, Active, Free
<1> QED
  BY <1>8, <1>9, <1>10, <1>11, <1>13

-----------------------------------------------------------------------------
(* The theorems *)

LEMMA StepInv ==
  ASSUME Setting, Inv, [LifecycleNext]_lifecycleVars
  PROVE  Inv'
<1>1. CASE Preempt
  BY <1>1, PreemptStep
<1>2. CASE reaper_thread_entry
  BY <1>2, ReaperPopStep, ReaperBuryStep, ReaperFreeStep, ReaperUnlinkStep
     DEF reaper_thread_entry
<1>3. ASSUME NEW c \in Clients, CreatorNext(c) PROVE Inv'
  BY <1>3, CreateStep, AllocateStep, FillFailsStep, FillStep, LinkStep, WaitStep,
     DestroyThreadsStep, DestroyMarkStep, ProcessExitStep DEF CreatorNext
<1>4. ASSUME NEW s \in TaskSlots, ThreadNext(s) PROVE Inv'
  BY <1>4, SysExitStep, ThreadExitStep, ExitProcessStep, ExitQueueStep DEF ThreadNext
<1>5. CASE UNCHANGED lifecycleVars
  <2>1. me' = me
    BY <1>5 DEF me, lifecycleVars
  <2>2. Types' /\ Current'
    BY <1>5 DEF lifecycleVars, Inv, Types, LifecycleTypeOK, Current
  <2>3. Running' /\ Zombies'
    BY <1>5 DEF lifecycleVars, Inv, Running, Zombies, InReapersHands
  <2>5. Queue' /\ Victim'
    BY <1>5 DEF lifecycleVars, Inv, Queue, Victim, ReaperAwake
  <2>4. Creating' /\ Members' /\ Active'
    BY <1>5, <2>1 DEF lifecycleVars, Inv, Creating, Members, Active, Attached, InReapersHands
  <2> QED
    BY <2>2, <2>3, <2>4, <2>5 DEF Inv
<1> QED
  BY <1>1, <1>2, <1>3, <1>4, <1>5 DEF LifecycleNext

LEMMA InvIsSound ==
  ASSUME Setting, Inv
  PROVE  ReapingSound /\ ExitsAccounted
<1> USE Numbering DEF Inv
<1>1. LifecycleTypeOK /\ QueuedOnce /\ ReaperAwake
  BY Zenon DEF Types, Queue, QueuedOnce
<1>2. RunnableHasStack
  BY Zenon DEF Running, RunnableHasStack
<1>3. DeadProcessHasNoThreads
  BY DEF DeadProcessHasNoThreads, Members, Creating, Free
<1>4. ExitsAccounted
  BY DEF ExitsAccounted, ExitReported, OnlyInterruptedExitsAreLost, Zombies
<1> QED
  BY <1>1, <1>2, <1>3, <1>4, Zenon DEF ReapingSound

\* However threads exit, are killed, are reaped and are destroyed with their
\* process, a zombie is on the reaper queue once, the reaper never sleeps on a
\* non-empty queue, and what runs has a stack and a process that has not been
\* destroyed (process.c:188-221, 262-288, 495-520, 557-576).  Setting says
\* under which premises.
THEOREM ReapingIsSound ==
  ASSUME Setting
  PROVE  LifecycleSpec => []ReapingSound
<1>1. LifecycleInit => Inv
  BY InitInv
<1>2. Inv /\ [LifecycleNext]_lifecycleVars => Inv'
  BY StepInv
<1>3. Inv => ReapingSound
  BY InvIsSound
<1> QED
  BY <1>1, <1>2, <1>3, PTL DEF LifecycleSpec

\* When a thread has exited and has left the CPU, its process is no longer
\* ACTIVE for the waiters, and the reaper has it: only a switch inside the
\* thread's own thread_exit can lose one (process.c:557-576).
THEOREM ExitsAreAccounted ==
  ASSUME Setting
  PROVE  LifecycleSpec => []ExitsAccounted
<1>1. LifecycleInit => Inv
  BY InitInv
<1>2. Inv /\ [LifecycleNext]_lifecycleVars => Inv'
  BY StepInv
<1>3. Inv => ExitsAccounted
  BY InvIsSound
<1> QED
  BY <1>1, <1>2, <1>3, PTL DEF LifecycleSpec
=============================================================================
