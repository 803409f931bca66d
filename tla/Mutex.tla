------------------------------- MODULE Mutex -------------------------------
(* The sleeping mutex of kernel/mutex.c.                                    *)
(*                                                                          *)
(* Threads run on one CPU and are preempted between any two memory accesses *)
(* made with interrupts enabled, so one action here is one access to the    *)
(* mutex.  A section under wait_lock runs with interrupts disabled and is   *)
(* one action.  A thread is its own TID; NoThread stands for TID 0.         *)
(* The early-boot branch of mutex_lock (multitasking not yet active) has a  *)
(* single thread and cannot contend; it is left out.                        *)
EXTENDS Naturals, Sequences, Functions

CONSTANTS Threads, NoThread

ASSUME NoThreadAssumption == NoThread \notin Threads

VARIABLES state,          \* mutex->state: 0 unlocked, 1 locked
          owner_tid,      \* mutex->owner_tid
          wait_list,      \* mutex->wait_list, head first
          waiters_count,  \* mutex->waiters_count
          granted,        \* waiter.granted on each thread's stack
          blocked,        \* threads whose task state is BLOCKED
          pc              \* where each thread is

vars == <<state, owner_tid, wait_list, waiters_count, granted, blocked, pc>>

LockLabels == {"lock_load", "lock_cas", "lock_owner", "lock_recursion",
               "lock_slow", "lock_wait"}
TryLabels == {"try_owner", "try_waiters", "try_cas"}
UnlockLabels == {"unlock_state", "unlock_mine", "unlock_free", "unlock_load",
                 "unlock_owner", "unlock_store", "unlock_recheck",
                 "unlock_slow"}
Labels == {"idle", "critical"} \cup LockLabels \cup TryLabels \cup UnlockLabels

Goto(t, from, to) == /\ pc[t] = from
                     /\ pc' = [pc EXCEPT ![t] = to]

mutex_init == /\ state = 0
              /\ owner_tid = NoThread
              /\ wait_list = << >>
              /\ waiters_count = 0

Init == /\ mutex_init
        /\ granted = [t \in Threads |-> FALSE]
        /\ blocked = {}
        /\ pc = [t \in Threads |-> "idle"]

-----------------------------------------------------------------------------
(* mutex_lock *)

LockCall(t) == /\ Goto(t, "idle", "lock_load")
               /\ UNCHANGED <<state, owner_tid, wait_list, waiters_count,
                              granted, blocked>>

\* The fast path is tried only when nobody is queued.
LockLoad(t) ==
  /\ Goto(t, "lock_load", IF waiters_count = 0 THEN "lock_cas"
                                               ELSE "lock_recursion")
  /\ UNCHANGED <<state, owner_tid, wait_list, waiters_count, granted, blocked>>

\* Compare-and-exchange of state from 0 to 1; the owner is written afterwards.
LockCas(t) ==
  /\ Goto(t, "lock_cas", IF state = 0 THEN "lock_owner" ELSE "lock_recursion")
  /\ state' = 1
  /\ UNCHANGED <<owner_tid, wait_list, waiters_count, granted, blocked>>

LockOwner(t) ==
  /\ Goto(t, "lock_owner", "critical")
  /\ owner_tid' = t
  /\ UNCHANGED <<state, wait_list, waiters_count, granted, blocked>>

\* A thread that finds itself recorded as owner returns at once.
LockRecursion(t) ==
  /\ Goto(t, "lock_recursion", IF owner_tid = t THEN "critical"
                                                ELSE "lock_slow")
  /\ UNCHANGED <<state, owner_tid, wait_list, waiters_count, granted, blocked>>

\* Under wait_lock: take a free mutex nobody queues for, or queue and block.
LockSlow(t) ==
  IF state = 0 /\ wait_list = << >>
  THEN /\ Goto(t, "lock_slow", "critical")
       /\ state' = 1
       /\ owner_tid' = t
       /\ UNCHANGED <<wait_list, waiters_count, granted, blocked>>
  ELSE /\ Goto(t, "lock_slow", "lock_wait")
       /\ wait_list' = Append(wait_list, t)
       /\ waiters_count' = waiters_count + 1
       /\ granted' = [granted EXCEPT ![t] = FALSE]
       /\ blocked' = blocked \cup {t}
       /\ UNCHANGED <<state, owner_tid>>

\* Under wait_lock again, once the scheduler runs the thread: leave when the
\* mutex was handed over.  The safeguard (reclaim a free mutex whose queue is
\* empty or headed by this thread) and the second sleep follow the code.
LockResume(t) ==
  /\ t \notin blocked
  /\ IF granted[t]
     THEN /\ Goto(t, "lock_wait", "critical")
          /\ UNCHANGED <<state, owner_tid, wait_list, waiters_count, granted,
                         blocked>>
     ELSE IF state = 0 /\ (wait_list = << >> \/ Head(wait_list) = t)
     THEN /\ Goto(t, "lock_wait", "critical")
          /\ wait_list' = IF wait_list = << >> THEN << >> ELSE Tail(wait_list)
          /\ waiters_count' = IF waiters_count > 0 THEN waiters_count - 1 ELSE 0
          /\ state' = 1
          /\ owner_tid' = t
          /\ granted' = [granted EXCEPT ![t] = TRUE]
          /\ UNCHANGED blocked
     ELSE /\ Goto(t, "lock_wait", "lock_wait")
          /\ blocked' = blocked \cup {t}
          /\ UNCHANGED <<state, owner_tid, wait_list, waiters_count, granted>>

-----------------------------------------------------------------------------
(* mutex_try_lock *)

TryCall(t) == /\ Goto(t, "idle", "try_owner")
              /\ UNCHANGED <<state, owner_tid, wait_list, waiters_count,
                             granted, blocked>>

TryOwner(t) ==
  /\ Goto(t, "try_owner", IF owner_tid = t THEN "idle" ELSE "try_waiters")
  /\ UNCHANGED <<state, owner_tid, wait_list, waiters_count, granted, blocked>>

TryWaiters(t) ==
  /\ Goto(t, "try_waiters", IF waiters_count = 0 THEN "try_cas" ELSE "idle")
  /\ UNCHANGED <<state, owner_tid, wait_list, waiters_count, granted, blocked>>

TryCas(t) ==
  /\ Goto(t, "try_cas", IF state = 0 THEN "lock_owner" ELSE "idle")
  /\ state' = 1
  /\ UNCHANGED <<owner_tid, wait_list, waiters_count, granted, blocked>>

-----------------------------------------------------------------------------
(* mutex_unlock *)

UnlockCall(t) ==
  /\ Goto(t, "critical", "unlock_state")
  /\ UNCHANGED <<state, owner_tid, wait_list, waiters_count, granted, blocked>>

UnlockState(t) ==
  /\ Goto(t, "unlock_state", IF state = 0 THEN "idle" ELSE "unlock_mine")
  /\ UNCHANGED <<state, owner_tid, wait_list, waiters_count, granted, blocked>>

\* owner_tid is read twice: against the caller's TID, then against 0.
UnlockMine(t) ==
  /\ Goto(t, "unlock_mine", IF owner_tid = t THEN "unlock_load"
                                             ELSE "unlock_free")
  /\ UNCHANGED <<state, owner_tid, wait_list, waiters_count, granted, blocked>>

UnlockFree(t) ==
  /\ Goto(t, "unlock_free", IF owner_tid = NoThread THEN "unlock_load"
                                                    ELSE "idle")
  /\ UNCHANGED <<state, owner_tid, wait_list, waiters_count, granted, blocked>>

UnlockLoad(t) ==
  /\ Goto(t, "unlock_load", IF waiters_count = 0 THEN "unlock_owner"
                                                 ELSE "unlock_slow")
  /\ UNCHANGED <<state, owner_tid, wait_list, waiters_count, granted, blocked>>

UnlockOwner(t) ==
  /\ Goto(t, "unlock_owner", "unlock_store")
  /\ owner_tid' = NoThread
  /\ UNCHANGED <<state, wait_list, waiters_count, granted, blocked>>

UnlockStore(t) ==
  /\ Goto(t, "unlock_store", "unlock_recheck")
  /\ state' = 0
  /\ UNCHANGED <<owner_tid, wait_list, waiters_count, granted, blocked>>

\* Faulty variant: no double check after the release.
UnlockNoRecheck(t) ==
  /\ Goto(t, "unlock_recheck", "idle")
  /\ UNCHANGED <<state, owner_tid, wait_list, waiters_count, granted, blocked>>

\* The double check: did a waiter queue while the mutex was being released?
UnlockRecheck(t) ==
  /\ Goto(t, "unlock_recheck", IF waiters_count = 0 THEN "idle"
                                                    ELSE "unlock_slow")
  /\ UNCHANGED <<state, owner_tid, wait_list, waiters_count, granted, blocked>>

\* Faulty variant of the slow path: the waiter is not woken.
UnlockSlowNoWake(t) ==
  /\ Goto(t, "unlock_slow", "idle")
  /\ wait_list # << >>
  /\ wait_list' = Tail(wait_list)
  /\ waiters_count' = waiters_count - 1
  /\ owner_tid' = Head(wait_list)
  /\ state' = 1
  /\ granted' = [granted EXCEPT ![Head(wait_list)] = TRUE]
  /\ UNCHANGED blocked

\* Faulty variant: the mutex goes to the waiter that came last.
UnlockSlowToLast(t) ==
  LET last == wait_list[Len(wait_list)]
  IN  /\ Goto(t, "unlock_slow", "idle")
      /\ IF wait_list = << >>
         THEN /\ state' = 0 /\ owner_tid' = NoThread /\ waiters_count' = 0
              /\ UNCHANGED <<wait_list, granted, blocked>>
         ELSE /\ state' = 1 /\ owner_tid' = last
              /\ wait_list' = SubSeq(wait_list, 1, Len(wait_list) - 1)
              /\ waiters_count' = waiters_count - 1
              /\ granted' = [granted EXCEPT ![last] = TRUE]
              /\ blocked' = blocked \ {last}

\* Under wait_lock: free the mutex, or hand it to the head of the queue.
UnlockSlow(t) ==
  /\ Goto(t, "unlock_slow", "idle")
  /\ \/ /\ wait_list = << >>
        /\ owner_tid' = NoThread
        /\ waiters_count' = 0
        /\ state' = 0
        /\ UNCHANGED <<wait_list, granted, blocked>>
     \/ /\ wait_list # << >>
        /\ wait_list' = Tail(wait_list)
        /\ waiters_count' = IF waiters_count > 0 THEN waiters_count - 1 ELSE 0
        /\ owner_tid' = Head(wait_list)
        /\ state' = 1
        /\ granted' = [granted EXCEPT ![Head(wait_list)] = TRUE]
        /\ blocked' = blocked \ {Head(wait_list)}

-----------------------------------------------------------------------------
\* What a thread must do once it has called into the mutex or holds it.
Step(t) == \/ LockLoad(t) \/ LockCas(t) \/ LockOwner(t) \/ LockRecursion(t)
           \/ LockSlow(t) \/ LockResume(t)
           \/ TryOwner(t) \/ TryWaiters(t) \/ TryCas(t)
           \/ UnlockCall(t) \/ UnlockState(t) \/ UnlockMine(t) \/ UnlockFree(t)
           \/ UnlockLoad(t) \/ UnlockOwner(t) \/ UnlockStore(t)
           \/ UnlockRecheck(t) \/ UnlockSlow(t)

Next == \E t \in Threads : LockCall(t) \/ TryCall(t) \/ Step(t)

Spec == Init /\ [][Next]_vars

\* The scheduler runs every runnable thread again and again, and critical
\* sections end.  Nothing obliges a thread to ask for the mutex.
FairSpec == Spec /\ \A t \in Threads : WF_vars(Step(t))

-----------------------------------------------------------------------------
(* Properties *)

Queued == Range(wait_list)

TypeOK ==
  /\ state \in {0, 1}
  /\ owner_tid \in Threads \cup {NoThread}
  /\ wait_list \in Seq(Threads)
  /\ waiters_count \in Nat
  /\ granted \in [Threads -> BOOLEAN]
  /\ blocked \in SUBSET Threads
  /\ pc \in [Threads -> Labels]

\* No wake-up is lost: a thread sleeping inside mutex_lock is queued exactly
\* once, and the moment it leaves the queue it is both runnable and owner by
\* hand-over.  waiters_count, which the lock-free paths read, never disagrees
\* with the queue (mutex.c:109-110, 193-219).
NoLostWakeup ==
  /\ waiters_count = Len(wait_list)
  /\ IsInjective(wait_list)
  /\ \A t \in Threads :
       /\ t \in blocked <=> t \in Queued
       /\ t \in Queued => pc[t] = "lock_wait" /\ ~granted[t]
       /\ pc[t] = "lock_wait" /\ t \notin Queued => granted[t]

\* Threads that go on to release the mutex or pass it to a waiter.
Releasing(t) ==
  \/ pc[t] \in {"lock_owner", "unlock_store", "unlock_recheck", "unlock_slow"}
  \/ /\ owner_tid = t
     /\ \/ pc[t] \in {"critical", "unlock_state", "unlock_mine", "unlock_load",
                      "unlock_owner"}
        \/ pc[t] = "lock_wait" /\ granted[t]

\* A queue with a waiter is never abandoned: whatever the interleaving of fast
\* and slow paths, some thread is still on its way to the release or hand-over
\* that the waiter depends on (mutex.c:172-180 with its double check).
NoOrphanedWaiter == wait_list # << >> => \E t \in Threads : Releasing(t)

\* At most one thread is inside the critical section, the invariant the
\* mutextest workers count violations of (command.c:3244-3257).
MutualExclusion ==
  \A t, u \in Threads : pc[t] = "critical" /\ pc[u] = "critical" => t = u

\* A thread that queued for the mutex gets it (mutex.c:113, 200-219).
WaiterGetsMutex ==
  \A t \in Threads : pc[t] = "lock_wait" ~> pc[t] = "critical"
=============================================================================
