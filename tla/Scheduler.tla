----------------------------- MODULE Scheduler -----------------------------
(* The single-CPU preemptive scheduler of kernel/task.c, with the preemption *)
(* counting of kernel/spinlock.c and the timer interrupt that drives both.   *)
(*                                                                          *)
(* k is the scheduler's memory; pc says what each task does when it is the   *)
(* current one.  Code that runs with interrupts disabled (a spinlock_*_      *)
(* irqsave section, schedule(), an interrupt handler) is one action, so the  *)
(* functions of task.c are operators from scheduler memory to scheduler      *)
(* memory.  Sleep deadlines are kept relative to the tick counter.           *)
EXTENDS Naturals, Sequences, FiniteSetsExt

CONSTANTS TaskCount,  \* TASK_MAX_COUNT, the size of tasks[]
          Quantum,    \* TASK_DEFAULT_QUANTUM
          MaxSleep    \* bound: longest sleep or timeout, in ticks

ASSUME SchedulerAssumption ==
  TaskCount \in Nat \ {0} /\ Quantum \in Nat \ {0} /\ MaxSleep \in Nat

VARIABLES k, pc

vars == <<k, pc>>

Tasks == 0 .. (TaskCount - 1)
idle_task == TaskCount         \* not a slot of tasks[]
NoTask == TaskCount + 1

\* "run" is ordinary code; "locked" holds a plain spinlock, interrupts on; the
\* "*_window" labels have given up the RUNNING state but not yet the CPU.
Labels == {"run", "locked", "wait_window", "timed_window", "timed_dequeue",
           "sleep_loop", "sleep_schedule"}
States == {"RUNNABLE", "RUNNING", "BLOCKED", "SLEEPING"}

task_initialize ==
  [cur |-> 0,                            \* current_task
   st |-> [t \in 0 .. TaskCount |-> IF t = 0 THEN "RUNNING" ELSE "RUNNABLE"],
   quantum |-> [t \in 0 .. TaskCount |-> Quantum],
   preempt |-> [t \in 0 .. TaskCount |-> 0],       \* preempt_count
   pending |-> [t \in 0 .. TaskCount |-> FALSE],   \* reschedule_pending
   irq |-> [t \in 0 .. TaskCount |-> TRUE],        \* RFLAGS.IF of its context
   requested |-> FALSE,                            \* reschedule_requested
   sleepq |-> << >>,                               \* sleep_queue
   left |-> [t \in Tasks |-> 0],    \* sleep_target_tick minus the tick counter
   sleeping |-> 0]                                 \* sleeping_task_count

Init == k = task_initialize /\ pc = [t \in Tasks |-> "run"]

-----------------------------------------------------------------------------
(* Choosing and switching *)

\* Faulty variant: the search ends one slot early.
find_next_short(m) ==
  LET start == IF m.cur \in Tasks THEN m.cur ELSE 0
      steps == {s \in 1 .. TaskCount - 1 :
                  m.st[(start + s) % TaskCount] = "RUNNABLE"}
  IN  IF steps = {} THEN NoTask ELSE (start + Min(steps)) % TaskCount

\* Round robin: the first runnable slot after the current one, itself last.
task_find_next_ready(m) ==
  LET start == IF m.cur \in Tasks THEN m.cur ELSE 0
      steps == {s \in 1 .. TaskCount :
                  m.st[(start + s) % TaskCount] = "RUNNABLE"}
  IN  IF steps = {} THEN NoTask ELSE (start + Min(steps)) % TaskCount

\* Faulty variants: the outgoing task always becomes runnable; never does.
SwitchAlwaysRunnable(m, next) ==
  [m EXCEPT !.st = [@ EXCEPT ![m.cur] = "RUNNABLE", ![next] = "RUNNING"],
            !.quantum[next] = Quantum,
            !.cur = next]

SwitchKeepsRunning(m, next) ==
  [m EXCEPT !.st[next] = "RUNNING", !.quantum[next] = Quantum, !.cur = next]

Switch(m, next) ==
  [m EXCEPT !.st = [m.st EXCEPT ![m.cur] = IF @ = "RUNNING" THEN "RUNNABLE" ELSE @,
                                ![next] = "RUNNING"],
            !.quantum[next] = Quantum,
            !.cur = next]

schedule(m) ==
  LET found == task_find_next_ready(m)
      next == IF found = NoTask THEN idle_task ELSE found
      stay == \/ found = NoTask /\ (m.cur = idle_task \/ m.st[m.cur] = "RUNNING")
              \/ next = m.cur
      m1 == [m EXCEPT !.requested = FALSE]
  IN  IF stay THEN m1 ELSE Switch(m1, next)

preempt_disable(m) == [m EXCEPT !.preempt[m.cur] = @ + 1]

preempt_enable(m) ==
  LET m1 == [m EXCEPT !.preempt[m.cur] = IF @ > 0 THEN @ - 1 ELSE 0]
  IN  IF /\ m1.preempt[m.cur] = 0
         /\ m1.irq[m.cur]
         /\ m1.pending[m.cur] \/ m1.requested
      THEN schedule([m1 EXCEPT !.pending[m.cur] = FALSE])
      ELSE m1

task_request_reschedule(m) ==
  [m EXCEPT !.requested = TRUE,
            !.pending[m.cur] = @ \/ m.preempt[m.cur] > 0]

task_unblock(m, t) ==
  [m EXCEPT !.st[t] = IF @ = "BLOCKED" THEN "RUNNABLE" ELSE @]

\* Faulty variant: no test of preempt_count.
reschedule_ignoring_preempt(m) ==
  IF m.requested \/ m.pending[m.cur]
  THEN schedule([m EXCEPT !.requested = FALSE, !.pending[m.cur] = FALSE])
  ELSE m

task_reschedule_if_needed(m) ==
  IF m.preempt[m.cur] > 0 THEN m
  ELSE LET m1 == [m EXCEPT !.requested = FALSE]
       IN  IF \/ m.requested \/ m.pending[m.cur]
              \/ /\ m.cur = idle_task
                 /\ \E t \in Tasks : m.st[t] = "RUNNABLE"
           THEN schedule([m1 EXCEPT !.pending[m.cur] = FALSE])
           ELSE m1

-----------------------------------------------------------------------------
(* The sleep queue *)

Linked(m, t) == t \in {m.sleepq[i] : i \in DOMAIN m.sleepq}

\* The queue without its i-th entry.
list_del_init(q, i) == SubSeq(q, 1, i - 1) \o SubSeq(q, i + 1, Len(q))

Unlink(m, t) ==
  IF Linked(m, t)
  THEN [m EXCEPT !.sleepq = list_del_init(@, CHOOSE i \in DOMAIN @ : @[i] = t),
                 !.sleeping = IF @ > 0 THEN @ - 1 ELSE 0]
  ELSE m

\* Faulty variant: a new sleeper always goes to the tail.
sleep_queue_append(m, t) ==
  [m EXCEPT !.sleepq = Append(@, t), !.sleeping = @ + 1]

\* Before the first entry with a later deadline.
sleep_queue_insert_sorted(m, t) ==
  LET later == {i \in DOMAIN m.sleepq : m.left[t] < m.left[m.sleepq[i]]}
      at == IF later = {} THEN Len(m.sleepq) + 1 ELSE Min(later)
  IN  [m EXCEPT !.sleepq = SubSeq(@, 1, at - 1) \o <<t>>
                             \o SubSeq(@, at, Len(@)),
                !.sleeping = @ + 1]

task_sleep_enqueue(m, t, ticks) ==
  sleep_queue_insert_sorted([Unlink(m, t) EXCEPT !.left[t] = ticks], t)

task_sleep_dequeue(m, t) == [Unlink(m, t) EXCEPT !.left[t] = 0]

\* The entries at the front of the queue whose deadline has come.
Expired(m) ==
  IF m.sleeping = 0 THEN 0
  ELSE CHOOSE n \in 0 .. Len(m.sleepq) :
         /\ \A i \in 1 .. n : m.left[m.sleepq[i]] = 0
         /\ n < Len(m.sleepq) => m.left[m.sleepq[n + 1]] > 0

\* timer_interrupt, then the wake-ups of task_timer_tick.
WakeExpired(m) ==
  LET m1 == [m EXCEPT !.left = [t \in Tasks |-> IF @[t] > 0 THEN @[t] - 1
                                                            ELSE 0]]
      n == Expired(m1)
      woken == {m1.sleepq[i] : i \in 1 .. n}
      m2 == [m1 EXCEPT
               !.sleepq = SubSeq(@, n + 1, Len(@)),
               !.sleeping = IF @ > n THEN @ - n ELSE 0,
               !.st = [t \in 0 .. TaskCount |->
                         IF t \in woken THEN "RUNNABLE" ELSE @[t]],
               !.quantum = [t \in 0 .. TaskCount |->
                              IF t \in woken THEN Quantum ELSE @[t]]]
  IN  IF n = 0 THEN m2
      ELSE IF m.cur = idle_task \/ m.preempt[m.cur] = 0
      THEN [m2 EXCEPT !.requested = TRUE]
      ELSE [m2 EXCEPT !.pending[m.cur] = TRUE]

\* Faulty variant: an expired quantum is reloaded without asking for a switch.
ChargeQuantumNoRequest(m) ==
  IF m.cur = idle_task \/ m.st[m.cur] # "RUNNING" THEN m
  ELSE [m EXCEPT !.quantum[m.cur] = IF @ > 1 THEN @ - 1 ELSE Quantum]

\* Only a current task in state RUNNING uses up its quantum.
ChargeQuantum(m) ==
  IF m.cur = idle_task
  THEN [m EXCEPT !.requested =
          @ \/ \E t \in Tasks : m.st[t] = "RUNNABLE"]
  ELSE IF m.st[m.cur] # "RUNNING" THEN m
  ELSE IF m.quantum[m.cur] > 1
  THEN [m EXCEPT !.quantum[m.cur] = @ - 1]
  ELSE IF m.preempt[m.cur] = 0
  THEN [m EXCEPT !.quantum[m.cur] = Quantum, !.requested = TRUE]
  ELSE [m EXCEPT !.quantum[m.cur] = Quantum, !.pending[m.cur] = TRUE]

-----------------------------------------------------------------------------
(* What tasks and the timer do *)

At(t, label) == k.cur = t /\ pc[t] = label
Goto(t, label) == pc' = [pc EXCEPT ![t] = label]

\* preempt_enable ends every section entered with preempt_disable; section is
\* the memory the section leaves behind.
Leave(section) == \E m \in {section} : k' = preempt_enable(m)

task_yield(t) == /\ At(t, "run")
                 /\ k' = schedule(k)
                 /\ UNCHANGED pc

spinlock_lock(t) == /\ At(t, "run")
                    /\ k' = preempt_disable(k)
                    /\ Goto(t, "locked")

spinlock_unlock(t) == /\ At(t, "locked")
                      /\ Leave(k)
                      /\ Goto(t, "run")

\* int 0x80 clears RFLAGS.IF until the iret.
SyscallEnter(t) == /\ At(t, "run") /\ k.irq[t]
                   /\ k' = [k EXCEPT !.irq[t] = FALSE]
                   /\ UNCHANGED pc

SyscallReturn(t) == /\ At(t, "run") /\ ~k.irq[t]
                    /\ k' = [k EXCEPT !.irq[t] = TRUE]
                    /\ UNCHANGED pc

\* The blocking half of wait_event and mutex_lock: task_block under the
\* queue's lock, unlock, then schedule().
Block(t) == /\ At(t, "run")
            /\ Leave([preempt_disable(k) EXCEPT !.st[t] = "BLOCKED"])
            /\ Goto(t, "wait_window")

BlockSchedule(t) == /\ At(t, "wait_window")
                    /\ k' = schedule(k)
                    /\ Goto(t, "run")

\* The blocking half of wait_event_timeout also joins the sleep queue.
TimedBlock(t, ticks) ==
  /\ At(t, "run")
  /\ Leave([task_sleep_enqueue(preempt_disable(k), t, ticks)
             EXCEPT !.st[t] = "BLOCKED"])
  /\ Goto(t, "timed_window")

TimedSchedule(t) == /\ At(t, "timed_window")
                    /\ k' = schedule(k)
                    /\ Goto(t, "timed_dequeue")

TimedDequeue(t) == /\ At(t, "timed_dequeue")
                   /\ Leave(task_sleep_dequeue(preempt_disable(k), t))
                   /\ Goto(t, "run")

\* ticks is 0 when the deadline passes before the queue is locked.  With
\* interrupts off task_sleep spins instead and leaves the scheduler alone.
task_sleep(t, ticks) ==
  /\ At(t, "run") /\ k.irq[t]
  /\ Leave(sleep_queue_insert_sorted(
             [preempt_disable(k) EXCEPT !.left[t] = ticks,
                                        !.st[t] = "SLEEPING"], t))
  /\ Goto(t, "sleep_loop")

SleepLoop(t) ==
  /\ At(t, "sleep_loop")
  /\ \/ /\ k.st[t] = "SLEEPING"
        /\ Goto(t, "sleep_schedule")
        /\ UNCHANGED k
     \/ /\ k.st[t] # "SLEEPING"
        /\ k' = [k EXCEPT !.st[t] = "RUNNING"]
        /\ Goto(t, "run")

SleepSchedule(t) == /\ At(t, "sleep_schedule")
                    /\ k' = schedule(k)
                    /\ Goto(t, "sleep_loop")

\* mutex_unlock wakes a waiter without asking for a reschedule;
\* wait_queue_wake_one and wait_queue_wake_all ask for one.
Unblock(t, u) == /\ k.cur = t /\ pc[t] \in {"run", "locked"}
                 /\ Leave(task_unblock(preempt_disable(k), u))
                 /\ UNCHANGED pc

Wake(t, u) ==
  /\ k.cur = t /\ pc[t] \in {"run", "locked"}
  /\ Leave(task_request_reschedule(task_unblock(preempt_disable(k), u)))
  /\ UNCHANGED pc

\* The timer interrupt, on whatever task it finds with interrupts enabled:
\* task_timer_tick, then the reschedule hook on the way out.
Tick == /\ k.irq[k.cur]
        /\ \E woken \in {WakeExpired(k)} :
             \E charged \in {ChargeQuantum(woken)} :
               k' = task_reschedule_if_needed(charged)
        /\ UNCHANGED pc

\* Steps a task that has started them always gets to.
Continue(t) == \/ spinlock_unlock(t) \/ BlockSchedule(t) \/ TimedSchedule(t)
               \/ TimedDequeue(t) \/ SleepLoop(t) \/ SleepSchedule(t)

Next == \/ Tick
        \/ \E t \in Tasks :
             \/ task_yield(t) \/ spinlock_lock(t) \/ SyscallEnter(t)
             \/ SyscallReturn(t) \/ Block(t) \/ Continue(t)
             \/ \E n \in 1 .. MaxSleep : TimedBlock(t, n)
             \/ \E n \in 0 .. MaxSleep : task_sleep(t, n)
             \/ \E u \in Tasks \ {t} : Unblock(t, u) \/ Wake(t, u)

Spec == Init /\ [][Next]_vars

\* A timer interrupt raised while interrupts are off stays pending and is
\* taken when they are enabled again (SF); a system call that keeps the CPU
\* returns (SF: it may take and release locks meanwhile); whoever is on the
\* CPU goes on (WF).
FairSpec == /\ Spec
            /\ SF_vars(Tick)
            /\ SF_vars(\E t \in Tasks : SyscallReturn(t))
            /\ WF_vars(\E t \in Tasks : Continue(t))

-----------------------------------------------------------------------------
(* Properties *)

\* Types; a task is never in two spinlock sections, and a quantum is never 0.
TypeOK ==
  /\ k.cur \in 0 .. TaskCount
  /\ k.st \in [0 .. TaskCount -> States]
  /\ k.quantum \in [0 .. TaskCount -> 1 .. Quantum]
  /\ k.preempt \in [0 .. TaskCount -> 0 .. 1]
  /\ k.pending \in [0 .. TaskCount -> BOOLEAN]
  /\ k.irq \in [0 .. TaskCount -> BOOLEAN]
  /\ k.requested \in BOOLEAN
  /\ k.left \in [Tasks -> 0 .. MaxSleep]
  /\ pc \in [Tasks -> Labels]

\* The early exit of the wake-up loop at the first unexpired entry and its
\* skip when sleeping_task_count is 0 (task.c:468-495) are right: the queue is
\* ordered by deadline, holds each task once, and counts its entries.
SleepQueueSound ==
  /\ k.sleeping = Len(k.sleepq)
  /\ IsInjective(k.sleepq)
  /\ \A i, j \in DOMAIN k.sleepq :
       i < j => k.left[k.sleepq[i]] <= k.left[k.sleepq[j]]
  /\ \A t \in Tasks : k.st[t] = "SLEEPING" => Linked(k, t)

\* A task marked RUNNING is the one on the CPU: schedule() and the loop of
\* task_sleep, which both write that state, never leave a second one behind
\* that no search for a runnable task would find (task.c:110-120, 293-320, 458).
RunningIsCurrent ==
  \A t \in 0 .. TaskCount : k.st[t] = "RUNNING" => k.cur = t

\* The idle task has the CPU only while no task is runnable: the yield in
\* idle_task_entry (task.c:151-159), left out of Next, never finds one, because
\* every switch to it and every interrupt on it has looked.
IdleMeansNoWork ==
  k.cur = idle_task => \A t \in Tasks : k.st[t] # "RUNNABLE"

\* A sleeping task is resumed by the tick that reaches its deadline: not
\* earlier, whatever else wakes or switches meanwhile, and not later.
SleepsUntilDeadline ==
  [][\A t \in Tasks : k.st[t] = "SLEEPING" =>
       (k'.st[t] # "SLEEPING" <=> Tick /\ k.left[t] <= 1)]_vars

\* A task inside a spinlock section is never switched out: neither the timer
\* nor a wake-up takes the CPU from a task whose preempt_count is above zero.
PreemptOffKeepsCpu ==
  \A t \in 0 .. TaskCount : k.preempt[t] > 0 => k.cur = t

\* The scheduler's state holds together after every tick, switch, sleep and
\* lock section: all of the above at once.
SchedulerSound == /\ TypeOK /\ SleepQueueSound /\ RunningIsCurrent
                  /\ IdleMeansNoWork /\ PreemptOffKeepsCpu

\* Round robin reaches every ready task, unless the CPU is kept by a task
\* that executes in state RUNNABLE and so is never charged for its quantum.
ReadyRunsUnlessStale ==
  \A t \in Tasks : k.st[t] = "RUNNABLE" ~>
                      k.cur = t \/ k.st[k.cur] = "RUNNABLE"
=============================================================================
