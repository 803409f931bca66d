----------------------------- MODULE WaitQueue -----------------------------
(* Wait queues and event objects, kernel/wait.c: threads wait for a          *)
(* condition, with or without a timeout, while another party makes it true   *)
(* and wakes them.                                                           *)
(*                                                                          *)
(* mode says what the condition is.  "flag": a word that its owner sets and  *)
(* only then calls wait_queue_wake_all, as process.c and socket.c do.        *)
(* "manual" and "auto": the signaled word of an event object, tested by      *)
(* event_check_condition and set by event_signal.                            *)
(*                                                                          *)
(* A section under wq->lock or ev->lock runs with interrupts disabled and is *)
(* one action.  A wait_queue_entry lives on the waiting thread's stack, so   *)
(* the queue holds threads.                                                  *)
EXTENDS Naturals, Sequences, FiniteSets, Functions

CONSTANTS Waiters,
          Modes   \* what is waited for: a flag, a manual or an auto-reset event

ASSUME WaitersAssumption == IsFiniteSet(Waiters)

VARIABLES mode,         \* one of Modes, for the life of the queue
          condition,    \* the flag, or ev->signaled
          queue,        \* wq->head
          waiter_count, \* wq->waiter_count
          sleeping,      \* threads in state BLOCKED
          sleepq,       \* threads on the scheduler's sleep queue
          timed,        \* the wait in progress has a timeout
          expired,      \* its deadline has passed
          success,      \* what the wait returns
          wake_due,     \* flag mode: set, wait_queue_wake_all still to come
          wait_pc

waitVars == <<mode, condition, queue, waiter_count, sleeping, sleepq, timed, expired,
          success, wake_due, wait_pc>>

WaitLabels == {"idle", "check", "loop", "wait", "dequeue", "final"}

\* event_create's initial_state may be either value.
WaitInit ==
  /\ mode \in Modes
  /\ condition \in BOOLEAN
  /\ queue = << >>
  /\ waiter_count = 0
  /\ sleeping = {}
  /\ sleepq = {}
  /\ timed = [t \in Waiters |-> FALSE]
  /\ expired = [t \in Waiters |-> FALSE]
  /\ success = [t \in Waiters |-> FALSE]
  /\ wake_due = FALSE
  /\ wait_pc = [t \in Waiters |-> "idle"]

WaitGoto(t, from, to) == wait_pc[t] = from /\ wait_pc' = [wait_pc EXCEPT ![t] = to]

-----------------------------------------------------------------------------
(* Queue operations, called with wq->lock held *)

Linked(t) == t \in Range(queue)

\* A list without its n-th entry.
Unlinked(q, n) == SubSeq(q, 1, n - 1) \o SubSeq(q, n + 1, Len(q))

wait_queue_add(t) == /\ queue' = Append(queue, t)
                     /\ waiter_count' = waiter_count + 1

\* list_del of the thread's entry, if it is linked.
wait_queue_remove(t) ==
  IF Linked(t)
  THEN /\ queue' = Unlinked(queue, CHOOSE i \in DOMAIN queue : queue[i] = t)
       /\ waiter_count' = IF waiter_count > 0 THEN waiter_count - 1 ELSE 0
  ELSE UNCHANGED <<queue, waiter_count>>

wait_queue_wake_one ==
  IF queue # << >>
  THEN /\ queue' = Tail(queue)
       /\ waiter_count' = IF waiter_count > 0 THEN waiter_count - 1 ELSE 0
       /\ sleeping' = sleeping \ {Head(queue)}
  ELSE UNCHANGED <<queue, waiter_count, sleeping>>

wait_queue_wake_all ==
  /\ queue' = << >>
  /\ waiter_count' = IF waiter_count > Len(queue)
                     THEN waiter_count - Len(queue) ELSE 0
  /\ sleeping' = sleeping \ Range(queue)

\* The condition callback; an auto-reset event consumes the signal it sees.
Consume == condition' = (condition /\ mode # "auto")

-----------------------------------------------------------------------------
(* wait_event and wait_event_timeout *)

Call(t, with_timeout) ==
  /\ WaitGoto(t, "idle", "check")
  /\ timed' = [timed EXCEPT ![t] = with_timeout]
  /\ expired' = [expired EXCEPT ![t] = FALSE]
  /\ success' = [success EXCEPT ![t] = FALSE]
  /\ UNCHANGED <<mode, condition, queue, waiter_count, sleeping, sleepq, wake_due>>

\* event_wait with timeout 0 only polls.
Poll(t) == /\ wait_pc[t] = "idle"
           /\ success' = [success EXCEPT ![t] = condition]
           /\ Consume
           /\ UNCHANGED <<mode, queue, waiter_count, sleeping, sleepq, timed, expired,
                          wake_due, wait_pc>>

\* The test before the queue is locked.
FirstCheck(t) ==
  /\ IF condition THEN WaitGoto(t, "check", "idle") ELSE WaitGoto(t, "check", "loop")
  /\ success' = [success EXCEPT ![t] = condition]
  /\ Consume
  /\ UNCHANGED <<mode, queue, waiter_count, sleeping, sleepq, timed, expired, wake_due>>

\* Faulty variant: only the loop of wait_event_timeout has its break.
LoopLeaveTimedOnly(t) ==
  /\ condition /\ timed[t]
  /\ WaitGoto(t, "loop", "final")
  /\ success' = [success EXCEPT ![t] = TRUE]
  /\ Consume
  /\ wait_queue_remove(t)
  /\ UNCHANGED <<mode, sleeping, sleepq, timed, expired, wake_due>>

\* One turn of the loop, under wq->lock: leave, time out, or queue and block.
LoopLeave(t) ==
  /\ condition
  /\ WaitGoto(t, "loop", "final")
  /\ success' = [success EXCEPT ![t] = TRUE]
  /\ Consume
  /\ wait_queue_remove(t)
  /\ UNCHANGED <<mode, sleeping, sleepq, timed, expired, wake_due>>

\* Faulty variant: the deadline does not end the loop.
LoopTimeoutRetries(t) ==
  /\ ~condition /\ timed[t] /\ expired[t]
  /\ WaitGoto(t, "loop", "loop")
  /\ UNCHANGED <<mode, condition, queue, waiter_count, sleeping, sleepq, timed,
                 expired, success, wake_due>>

LoopTimeout(t) ==
  /\ ~condition /\ timed[t] /\ expired[t]
  /\ WaitGoto(t, "loop", "final")
  /\ wait_queue_remove(t)
  /\ UNCHANGED <<mode, condition, sleeping, sleepq, timed, expired, success, wake_due>>

\* Faulty variant: the condition is not tested again under the lock.
LoopBlockUntested(t) ==
  /\ ~(timed[t] /\ expired[t])
  /\ WaitGoto(t, "loop", "wait")
  /\ IF Linked(t) THEN UNCHANGED <<queue, waiter_count>> ELSE wait_queue_add(t)
  /\ sleeping' = sleeping \cup {t}
  /\ sleepq' = IF timed[t] THEN sleepq \cup {t} ELSE sleepq
  /\ UNCHANGED <<mode, condition, timed, expired, success, wake_due>>

LoopBlock(t) ==
  /\ ~condition /\ ~(timed[t] /\ expired[t])
  /\ WaitGoto(t, "loop", "wait")
  /\ IF Linked(t) THEN UNCHANGED <<queue, waiter_count>> ELSE wait_queue_add(t)
  /\ sleeping' = sleeping \cup {t}
  /\ sleepq' = IF timed[t] THEN sleepq \cup {t} ELSE sleepq
  /\ UNCHANGED <<mode, condition, timed, expired, success, wake_due>>

\* schedule() returns once the thread is no longer BLOCKED.
Resume(t) ==
  /\ t \notin sleeping
  /\ WaitGoto(t, "wait", IF timed[t] THEN "dequeue" ELSE "loop")
  /\ UNCHANGED <<mode, condition, queue, waiter_count, sleeping, sleepq, timed, expired,
                 success, wake_due>>

\* Faulty variant: the thread stays on the sleep queue after its wait.
DequeueForgotten(t) ==
  /\ WaitGoto(t, "dequeue", "loop")
  /\ UNCHANGED <<mode, condition, queue, waiter_count, sleeping, sleepq, timed, expired,
                 success, wake_due>>

task_sleep_dequeue(t) ==
  /\ WaitGoto(t, "dequeue", "loop")
  /\ sleepq' = sleepq \ {t}
  /\ UNCHANGED <<mode, condition, queue, waiter_count, sleeping, timed, expired,
                 success, wake_due>>

\* After the loop the entry is removed once more before it goes out of scope;
\* the second task_sleep_dequeue of a timed wait finds nothing to do.
Final(t) ==
  /\ WaitGoto(t, "final", "idle")
  /\ wait_queue_remove(t)
  /\ UNCHANGED <<mode, condition, sleeping, sleepq, timed, expired, success, wake_due>>

\* Time reaches the deadline; the timer interrupt makes a thread it finds on
\* the sleep queue runnable, whatever state the thread is in.
Deadline(t) ==
  /\ timed[t] /\ ~expired[t] /\ wait_pc[t] # "idle"
  /\ expired' = [expired EXCEPT ![t] = TRUE]
  /\ sleeping' = IF t \in sleepq THEN sleeping \ {t} ELSE sleeping
  /\ sleepq' = sleepq \ {t}
  /\ UNCHANGED <<mode, condition, queue, waiter_count, timed, success, wake_due, wait_pc>>

-----------------------------------------------------------------------------
(* The other side *)

\* Flag mode: the owner stores the flag, then wakes everyone.
SetFlag == /\ mode = "flag" /\ ~wake_due
           /\ condition' = TRUE
           /\ wake_due' = TRUE
           /\ UNCHANGED <<mode, queue, waiter_count, sleeping, sleepq, timed, expired,
                          success, wait_pc>>

WakeFlag == /\ wake_due
            /\ wake_due' = FALSE
            /\ wait_queue_wake_all
            /\ UNCHANGED <<mode, condition, sleepq, timed, expired, success, wait_pc>>

\* signaled is cleared again for an auto-reset event, still under ev->lock.
event_signal ==
  /\ mode \in {"manual", "auto"}
  /\ condition' = (mode = "manual")
  /\ IF mode = "manual" THEN wait_queue_wake_all ELSE wait_queue_wake_one
  /\ UNCHANGED <<mode, sleepq, timed, expired, success, wake_due, wait_pc>>

event_reset == /\ mode \in {"manual", "auto"}
               /\ condition' = FALSE
               /\ UNCHANGED <<mode, queue, waiter_count, sleeping, sleepq, timed,
                              expired, success, wake_due, wait_pc>>

WaiterStep(t) ==
  \/ FirstCheck(t) \/ LoopLeave(t) \/ LoopTimeout(t) \/ LoopBlock(t)
  \/ Resume(t) \/ task_sleep_dequeue(t) \/ Final(t)

WaitNext ==
  \/ \E t \in Waiters : \/ \E b \in BOOLEAN : Call(t, b)
                        \/ Poll(t) \/ WaiterStep(t) \/ Deadline(t)
  \/ SetFlag \/ WakeFlag \/ event_signal \/ event_reset

WaitSpec == WaitInit /\ [][WaitNext]_waitVars

\* The scheduler runs every runnable thread, time passes, and the code that
\* stores the flag goes on to its wake_all.
WaitFairSpec ==
  /\ WaitSpec
  /\ \A t \in Waiters : WF_waitVars(WaiterStep(t)) /\ WF_waitVars(Deadline(t))
  /\ WF_waitVars(WakeFlag)

\* The event is signalled again and again.
SignalledSpec == WaitFairSpec /\ WF_waitVars(event_signal)

-----------------------------------------------------------------------------
(* Properties *)

WaitTypeOK ==
  /\ mode \in Modes
  /\ condition \in BOOLEAN
  /\ queue \in Seq(Waiters)
  /\ waiter_count \in 0 .. Cardinality(Waiters)
  /\ sleeping \subseteq Waiters
  /\ sleepq \subseteq Waiters
  /\ timed \in [Waiters -> BOOLEAN]
  /\ expired \in [Waiters -> BOOLEAN]
  /\ success \in [Waiters -> BOOLEAN]
  /\ wake_due \in BOOLEAN
  /\ wait_pc \in [Waiters -> WaitLabels]

\* The entry on a waiter's stack is linked at most once, is counted, and is
\* gone from the wait queue and the sleep queue when the wait returns: a later
\* wake-up or tick never touches a dead stack frame or an unrelated sleep
\* (wait.c:122-124, 199-206).
NoStaleEntry ==
  /\ waiter_count = Len(queue)
  /\ IsInjective(queue)
  /\ \A t \in Range(queue) : wait_pc[t] \in {"loop", "wait", "dequeue"}
  /\ \A t \in sleepq : timed[t] /\ wait_pc[t] \in {"wait", "dequeue"}

\* No wake-up falls between the test of the condition and the sleep: a thread
\* that sleeps is linked where the waker and, with a timeout, the timer will
\* find it, and it sleeps on a true condition only while the wake-up that goes
\* with it is still to come (wait.c:103-119, 173-197).
NoMissedWakeup ==
  \A t \in sleeping :
    /\ wait_pc[t] = "wait" /\ Linked(t)
    /\ timed[t] => t \in sleepq /\ ~expired[t]
    /\ condition => wake_due

\* Waiters are linked exactly while they wait, and none sleeps through its
\* wake-up.
WaitersTracked == WaitTypeOK /\ NoStaleEntry /\ NoMissedWakeup

\* wait_event_timeout returns, woken or not (wait.c:175-183).
TimedWaitReturns ==
  \A t \in Waiters : timed[t] /\ wait_pc[t] # "idle" ~> wait_pc[t] = "idle"

\* A condition that becomes and stays true lets every waiter go.
WaitersReleased ==
  \A t \in Waiters : <>[]condition => []<>(wait_pc[t] = "idle")

\* Signalling an event over and over releases a thread that waits for it.
SignalReleasesWaiter ==
  \A t \in Waiters : wait_pc[t] = "wait" ~> wait_pc[t] = "idle"
=============================================================================
