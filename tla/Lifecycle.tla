----------------------------- MODULE Lifecycle -----------------------------
(* Birth and death of threads and processes: thread_create, thread_exit, the *)
(* reaper thread, process_create, process_exit and process_wait with         *)
(* process_destroy (kernel/process.c), and the task slots they recycle       *)
(* (kernel/task.c).                                                          *)
(*                                                                          *)
(* cpu is the actor on the one CPU; Preempt takes it away between any two    *)
(* steps.  Clients are kernel threads that create and wait for processes;    *)
(* slots hold the threads they create.  A locked section is one step, and so *)
(* is a system call that exits, which runs with interrupts disabled until    *)
(* its schedule().  The parent of every process is the kernel process, so    *)
(* "destroy if the parent is dead" never applies.                            *)
EXTENDS Naturals, Sequences, FiniteSets, Functions

CONSTANTS ClientCount,       \* kernel threads that create and wait
          SlotCount,         \* usable entries of tasks[]
          ProcCount,         \* PROCESS_MAX_COUNT
          KernelExits,       \* threads may also exit with interrupts enabled
          CreateDuringReap   \* slots may be claimed while the reaper works

VARIABLES st,           \* state of each slot; RUNNABLE includes RUNNING
          stack,        \* the slot's stack pointer is set
          proc,         \* process of the slot's thread
          pc,           \* what the slot's thread is doing
          pst,          \* process states
          threads,      \* proc->threads
          reaper_queue,
          reaper,       \* the reaper's step, victim and BLOCKED state
          client,       \* each client's step, and the slot and process it uses
          cpu

lifecycleVars == <<st, stack, proc, pc, pst, threads, reaper_queue, reaper, client, cpu>>
slotVars == <<st, stack, proc, pc>>
procVars == <<pst, threads>>

\* Tasks are numbered: the idle task, the slots, the reaper, the clients.
idle_task == 0
TaskSlots == 1 .. SlotCount
reaper_thread == SlotCount + 1
Clients == (SlotCount + 2) .. (SlotCount + 1 + ClientCount)

Procs == 1 .. ProcCount
kernel_process == 0
NoSlot == 0
NoProc == 0

Free == {"UNUSED", "DEAD"}

process_subsystem_init ==
  /\ st = [s \in TaskSlots |-> "UNUSED"]
  /\ stack = [s \in TaskSlots |-> FALSE]
  /\ proc = [s \in TaskSlots |-> kernel_process]
  /\ pc = [s \in TaskSlots |-> "run"]
  /\ pst = [p \in Procs |-> "UNUSED"]
  /\ threads = [p \in Procs \cup {kernel_process} |-> {}]
  /\ reaper_queue = << >>
  /\ reaper = [pc |-> "pop", victim |-> NoSlot, blocked |-> TRUE]
  /\ client = [c \in Clients |-> [pc |-> "idle", slot |-> NoSlot,
                                  target |-> kernel_process, own |-> NoProc]]

LifecycleInit == process_subsystem_init /\ cpu = idle_task

-----------------------------------------------------------------------------
(* The CPU *)

\* process_exit_condition, the wake-up condition of a waiting client.
Exited(p) == pst[p] \in {"ZOMBIE", "DEAD"}

Ready == {idle_task} \cup {s \in TaskSlots : st[s] = "RUNNABLE"}
           \cup {c \in Clients : client[c].pc = "wait" => Exited(client[c].own)}
           \cup (IF reaper.blocked THEN {} ELSE {reaper_thread})

\* The timer, or a reschedule request, gives the CPU to another ready task.
\* A current thread that is no longer RUNNABLE does not get it back.
Preempt == /\ cpu' \in Ready \ {cpu}
           /\ UNCHANGED <<slotVars, procVars, reaper_queue, reaper, client>>

-----------------------------------------------------------------------------
(* Clients *)

ClientStep(c, from, to) == /\ cpu = c
                           /\ client[c].pc = from
                           /\ client' = [client EXCEPT ![c] = to]
                           /\ UNCHANGED cpu

process_create(c) ==
  \E p \in Procs :
    /\ client[c].own = NoProc
    /\ ClientStep(c, "idle", [client[c] EXCEPT !.own = p])
    /\ pst[p] \in Free /\ \A q \in Procs : q < p => pst[q] \notin Free
    /\ pst' = [pst EXCEPT ![p] = "ACTIVE"]
    /\ threads' = [threads EXCEPT ![p] = {}]
    /\ UNCHANGED <<slotVars, reaper_queue, reaper>>

\* thread_create, in three steps: find a free slot, without reserving it; fill
\* the slot, which makes the thread runnable; link it to its process.
task_allocate_slot(c, p) ==
  \E s \in TaskSlots :
    /\ CreateDuringReap \/ reaper.victim = NoSlot
    /\ ClientStep(c, "idle",
                  [client[c] EXCEPT !.pc = "fill", !.slot = s, !.target = p])
    /\ st[s] \in Free /\ \A u \in TaskSlots : u < s => st[u] \notin Free
    /\ UNCHANGED <<slotVars, procVars, reaper_queue, reaper>>

\* kmalloc of the stack fails: task_free_slot.
FillFails(c) ==
  LET s == client[c].slot
  IN  /\ ClientStep(c, "fill", [client[c] EXCEPT !.pc = "idle", !.slot = NoSlot])
      /\ st' = [st EXCEPT ![s] = "UNUSED"]
      /\ UNCHANGED <<stack, proc, pc, procVars, reaper_queue, reaper>>

Fill(c) ==
  LET s == client[c].slot
  IN  /\ ClientStep(c, "fill", [client[c] EXCEPT !.pc = "link"])
      /\ st' = [st EXCEPT ![s] = "RUNNABLE"]
      /\ stack' = [stack EXCEPT ![s] = TRUE]
      /\ proc' = [proc EXCEPT ![s] = client[c].target]
      /\ pc' = [pc EXCEPT ![s] = "run"]
      /\ UNCHANGED <<procVars, reaper_queue, reaper>>

Link(c) ==
  LET s == client[c].slot  p == client[c].target
  IN  /\ ClientStep(c, "link", [client[c] EXCEPT !.pc = "idle", !.slot = NoSlot])
      /\ threads' = [threads EXCEPT ![p] = @ \cup {s}]
      /\ UNCHANGED <<slotVars, pst, reaper_queue, reaper>>

\* process_wait without timeout: sleep on exit_wq until the process has exited.
process_wait(c) ==
  /\ client[c].own # NoProc
  /\ ClientStep(c, "idle", [client[c] EXCEPT !.pc = "wait"])
  /\ UNCHANGED <<slotVars, procVars, reaper_queue, reaper>>

WaitDone(c) ==
  /\ client[c].pc = "wait" /\ Exited(client[c].own)
  /\ ClientStep(c, "wait", [client[c] EXCEPT !.pc = "destroy"])
  /\ UNCHANGED <<slotVars, procVars, reaper_queue, reaper>>

\* Faulty variant: threads stay on the reaper queue.
DestroyLeavesQueue(c) ==
  LET p == client[c].own
  IN  /\ ClientStep(c, "destroy", [client[c] EXCEPT !.pc = "mark"])
      /\ st' = [s \in TaskSlots |-> IF s \in threads[p] THEN "UNUSED" ELSE st[s]]
      /\ stack' = [s \in TaskSlots |-> stack[s] /\ s \notin threads[p]]
      /\ threads' = [threads EXCEPT ![p] = {}]
      /\ UNCHANGED <<proc, pc, pst, reaper_queue, reaper>>

\* The queue without the threads of T, in the same order.
Without(q, T) ==
  LET kept == {i \in DOMAIN q : q[i] \notin T}
      Nth(n) == CHOOSE i \in kept : Cardinality({j \in kept : j <= i}) = n
  IN  [n \in 1 .. Cardinality(kept) |-> q[Nth(n)]]

\* process_destroy under proc->lock: take the remaining threads off the reaper
\* queue, free their stacks and their slots.
DestroyThreads(c) ==
  LET p == client[c].own
  IN  /\ ClientStep(c, "destroy", [client[c] EXCEPT !.pc = "mark"])
      /\ st' = [s \in TaskSlots |-> IF s \in threads[p] THEN "UNUSED" ELSE st[s]]
      /\ stack' = [s \in TaskSlots |-> stack[s] /\ s \notin threads[p]]
      /\ reaper_queue' = Without(reaper_queue, threads[p])
      /\ threads' = [threads EXCEPT ![p] = {}]
      /\ UNCHANGED <<proc, pc, pst, reaper>>

\* Under process_lock: the process slot becomes free.
DestroyMark(c) ==
  LET p == client[c].own
  IN  /\ ClientStep(c, "mark", [client[c] EXCEPT !.pc = "idle", !.own = NoProc])
      /\ pst' = [pst EXCEPT ![p] = "DEAD"]
      /\ UNCHANGED <<slotVars, threads, reaper_queue, reaper>>

-----------------------------------------------------------------------------
(* Exiting threads *)

\* Faulty variant: the reaper is not unblocked.
ToReaperSilently(q) == /\ reaper_queue' = reaper_queue \o q
                       /\ UNCHANGED reaper

\* reaper_queue gets the threads and the reaper is unblocked.
ToReaper(q) == /\ reaper_queue' = reaper_queue \o q
               /\ reaper' = [reaper EXCEPT !.blocked = FALSE]

\* schedule() from a thread that is no longer runnable.
SwitchFrom(s) == cpu' \in Ready' \ {s}

\* The threads that process_exit finds alive on the list, its caller apart.
Living(p, s) == {t \in threads[p] \ {s} : st[t] \notin {"ZOMBIE", "DEAD"}}

\* The orders in which the list may hold the threads of S.
Orders(S) == Injection(1 .. Cardinality(S), S)

\* process_exit by another process: a client ends the process it created.
process_exit(c) ==
  LET p == client[c].own
      rest == Living(p, NoSlot)
  IN  /\ p # NoProc /\ pst[p] = "ACTIVE"
      /\ ClientStep(c, "idle", client[c])
      /\ pst' = [pst EXCEPT ![p] = "ZOMBIE"]
      /\ st' = [t \in TaskSlots |-> IF t \in rest THEN "ZOMBIE" ELSE st[t]]
      /\ IF rest = {} THEN UNCHANGED <<reaper_queue, reaper>>
                      ELSE \E q \in Orders(rest) : ToReaper(q)
      /\ UNCHANGED <<stack, proc, pc, threads>>

\* Faulty variant: process_exit kills the other threads without queuing them.
sys_exit_forgets(s) ==
  LET p == proc[s]
      rest == Living(p, s)
  IN  /\ cpu = s /\ st[s] = "RUNNABLE" /\ pc[s] = "run"
      /\ p \in Procs /\ pst[p] = "ACTIVE"
      /\ pst' = [pst EXCEPT ![p] = "ZOMBIE"]
      /\ st' = [t \in TaskSlots |-> IF t \in rest \cup {s} THEN "ZOMBIE" ELSE st[t]]
      /\ ToReaper(<<s>>)
      /\ UNCHANGED <<stack, proc, pc, threads, client>>
      /\ SwitchFrom(s)

\* Faulty variant: the caller is made a zombie, its process is not.
sys_exit_unreported(s) ==
  /\ cpu = s /\ st[s] = "RUNNABLE" /\ pc[s] = "run"
  /\ proc[s] \in Procs /\ pst[proc[s]] = "ACTIVE"
  /\ st' = [st EXCEPT ![s] = "ZOMBIE"]
  /\ ToReaper(<<s>>)
  /\ UNCHANGED <<stack, proc, pc, procVars, client>>
  /\ SwitchFrom(s)

\* SYS_exit, or a fatal user exception: process_exit turns the other threads
\* into zombies and hands them to the reaper, then thread_exit does the same
\* for the caller.  On a process that has exited already it simply returns.
sys_exit(s) ==
  LET p == proc[s]
      rest == Living(p, s)
  IN  /\ cpu = s /\ st[s] = "RUNNABLE" /\ pc[s] = "run"
      /\ p \in Procs /\ pst[p] = "ACTIVE"
      /\ pst' = [pst EXCEPT ![p] = "ZOMBIE"]
      /\ st' = [t \in TaskSlots |-> IF t \in rest \cup {s} THEN "ZOMBIE" ELSE st[t]]
      /\ \E q \in Orders(rest) : ToReaper(q \o <<s>>)
      /\ UNCHANGED <<stack, proc, pc, threads, client>>
      /\ SwitchFrom(s)

\* thread_exit of a thread with interrupts enabled, in its three steps.
thread_exit(s) ==
  /\ KernelExits
  /\ cpu = s /\ st[s] = "RUNNABLE" /\ pc[s] = "run"
  /\ st' = [st EXCEPT ![s] = "ZOMBIE"]
  /\ pc' = [pc EXCEPT ![s] = "exit_process"]
  /\ UNCHANGED <<stack, proc, procVars, reaper_queue, reaper, client, cpu>>

\* Waking a waiter requests a reschedule, which the unlock acts on.
ExitProcess(s) ==
  /\ cpu = s /\ pc[s] = "exit_process"
  /\ pc' = [pc EXCEPT ![s] = "exit_queue"]
  /\ UNCHANGED <<st, stack, proc, threads, reaper_queue, reaper,
                 client>>
  /\ LET p == proc[s]
         reported == p \in Procs /\ pst[p] = "ACTIVE"
         waiters == {c \in Clients : client[c].pc = "wait" /\ client[c].own = p}
     IN  /\ pst' = IF reported THEN [pst EXCEPT ![p] = "ZOMBIE"] ELSE pst
         /\ IF reported /\ waiters # {} THEN SwitchFrom(s) ELSE UNCHANGED cpu

ExitQueue(s) ==
  /\ cpu = s /\ pc[s] = "exit_queue"
  /\ pc' = [pc EXCEPT ![s] = "gone"]
  /\ ToReaper(<<s>>)
  /\ UNCHANGED <<st, stack, proc, procVars, client>>
  /\ SwitchFrom(s)

-----------------------------------------------------------------------------
(* The reaper *)

ReaperStep(from) == cpu = reaper_thread /\ reaper.pc = from

\* Under reaper_lock: take a zombie, or block when there is none.
ReaperPop ==
  /\ ReaperStep("pop")
  /\ UNCHANGED <<slotVars, procVars, client>>
  /\ \/ /\ reaper_queue # << >>
        /\ reaper' = [reaper EXCEPT !.pc = "bury",
                                     !.victim = Head(reaper_queue)]
        /\ reaper_queue' = Tail(reaper_queue)
        /\ UNCHANGED cpu
     \/ /\ reaper_queue = << >>
        /\ reaper' = [reaper EXCEPT !.blocked = TRUE]
        /\ UNCHANGED reaper_queue
        /\ cpu' \in Ready' \ {reaper_thread}

ReaperBury ==
  /\ ReaperStep("bury")
  /\ reaper' = [reaper EXCEPT !.pc = "free"]
  /\ st' = [st EXCEPT ![reaper.victim] = "DEAD"]
  /\ UNCHANGED <<stack, proc, pc, procVars, reaper_queue, client, cpu>>

ReaperFree ==
  /\ ReaperStep("free")
  /\ reaper' = [reaper EXCEPT !.pc = "unlink"]
  /\ stack' = [stack EXCEPT ![reaper.victim] = FALSE]
  /\ UNCHANGED <<st, proc, pc, procVars, reaper_queue, client, cpu>>

ReaperUnlink ==
  LET p == proc[reaper.victim]
  IN  /\ ReaperStep("unlink")
      /\ reaper' = [reaper EXCEPT !.pc = "pop", !.victim = NoSlot]
      /\ threads' = [threads EXCEPT ![p] = @ \ {reaper.victim}]
      /\ UNCHANGED <<slotVars, pst, reaper_queue, client, cpu>>

-----------------------------------------------------------------------------
reaper_thread_entry == ReaperPop \/ ReaperBury \/ ReaperFree \/ ReaperUnlink

CreatorNext(c) == \/ process_create(c)
                  \/ \E p \in {kernel_process, client[c].own} :
                       task_allocate_slot(c, p)
                  \/ FillFails(c) \/ Fill(c) \/ Link(c)
                  \/ process_exit(c) \/ process_wait(c) \/ WaitDone(c)
                  \/ DestroyThreads(c) \/ DestroyMark(c)

ThreadNext(s) == \/ sys_exit(s) \/ thread_exit(s) \/ ExitProcess(s)
                 \/ ExitQueue(s)

LifecycleNext == \/ Preempt
                 \/ reaper_thread_entry
                 \/ \E c \in Clients : CreatorNext(c)
                 \/ \E s \in TaskSlots : ThreadNext(s)

LifecycleSpec == LifecycleInit /\ [][LifecycleNext]_lifecycleVars

-----------------------------------------------------------------------------
(* Properties *)

States == {"UNUSED", "RUNNABLE", "ZOMBIE", "DEAD"}

LifecycleTypeOK ==
  /\ st \in [TaskSlots -> States]
  /\ stack \in [TaskSlots -> BOOLEAN]
  /\ proc \in [TaskSlots -> Procs \cup {kernel_process}]
  /\ pst \in [Procs -> {"UNUSED", "ACTIVE", "ZOMBIE", "DEAD"}]
  /\ threads \in [Procs \cup {kernel_process} -> SUBSET TaskSlots]
  /\ reaper_queue \in Seq(TaskSlots)
  /\ reaper.pc = "pop" <=> reaper.victim = NoSlot
  /\ cpu \in {idle_task, reaper_thread} \cup TaskSlots \cup Clients

\* A thread that has exited and left the CPU is in the reaper's hands, so its
\* stack will be reclaimed (process.c:570-576, task.h:36).
InReapersHands(s) == s \in Range(reaper_queue) \/ reaper.victim = s
ZombiesReachReaper ==
  \A s \in TaskSlots : st[s] = "ZOMBIE" /\ cpu # s => InReapersHands(s)

\* The one way a zombie escapes the reaper is a switch inside its own
\* thread_exit, before line 571: process_exit hands over every thread it ends
\* (process.c:269-286, 557-576).
OnlyInterruptedExitsAreLost ==
  \A s \in TaskSlots : st[s] = "ZOMBIE" /\ cpu # s /\ pc[s] \in {"run", "gone"} =>
                      InReapersHands(s)

\* When a thread of a process has exited, waiters can see it: the process is
\* no longer ACTIVE once the thread has got past that step and has left the
\* CPU (process.c:559-568).
ExitReported ==
  \A s \in TaskSlots : st[s] = "ZOMBIE" /\ cpu # s /\ pc[s] # "exit_process"
                        /\ proc[s] \in Procs => pst[proc[s]] # "ACTIVE"

\* A thread that can run has a stack: the reaper and process_destroy free only
\* stacks of threads that never run again (process.c:512-516, 211-217).
RunnableHasStack == \A s \in TaskSlots : st[s] = "RUNNABLE" => stack[s]

\* A thread is on the reaper queue at most once, and not while the reaper holds
\* it: reaper_node is one intrusive link, which list_add_tail overwrites
\* (process.c:278-288, 495-499, 571-572).
QueuedOnce == IsInjective(reaper_queue) /\ reaper.victim \notin Range(reaper_queue)

\* A destroyed process leaves no thread that could still run in it
\* (process.c:196-221).
DeadProcessHasNoThreads ==
  \A s \in TaskSlots : st[s] = "RUNNABLE" /\ proc[s] \in Procs =>
                      pst[proc[s]] \notin Free

\* The reaper never sleeps on a non-empty queue: it blocks itself only under
\* reaper_lock, and everyone who queues a zombie unblocks it under that lock
\* (process.c:495-506, 571-576).
ReaperAwake == reaper_queue # << >> => ~reaper.blocked

\* A thread's exit ends its process for waiters once the thread has left the
\* CPU, and the one way a zombie escapes the reaper is a switch inside its own
\* thread_exit (process.c:557-576).
ExitsAccounted == ExitReported /\ OnlyInterruptedExitsAreLost

\* The reaper's queue holds a thread once and keeps the reaper awake; what
\* runs has a stack and a process that was not destroyed.
ReapingSound == /\ LifecycleTypeOK /\ QueuedOnce /\ DeadProcessHasNoThreads
                /\ ReaperAwake /\ RunnableHasStack
=============================================================================
