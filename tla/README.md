# A formal model of KOS

KOS (the repository's name is vinoS) is a monolithic x86_64 kernel written in C.
This directory holds TLA+ modules that model parts of it, TLC configurations that
check them on small instances, and proofs checked by TLAPS. Paths such as
`kernel/mutex.c` are relative to `src/`. `PROJECT.json` maps every definition to
the lines it models and lists components, hazards, findings and theorems.

## 1. The system

### How the kernel runs

Tasks are scheduled on one CPU; the other CPUs are started and idle. A timer
interrupt may take the CPU from a task between any two instructions unless
interrupts are disabled (inside `spinlock_lock_irqsave` sections, in interrupt
handlers and in system calls) or `preempt_count` is not zero (inside any spinlock
section). The models follow this: a section under a spinlock, or with interrupts
disabled, is one step; code outside is cut at every access to shared state.

### Inventory

| Part | State | Operations | What is hard |
|---|---|---|---|
| Scheduler (`kernel/task.c`) | task states, quantum, `preempt_count`, `need_resched`, sleep queue | `schedule`, yield, tick, sleep, block/unblock | wake-up between BLOCKED and `schedule()`; deferred reschedule; sleep order |
| Mutex (`kernel/mutex.c`) | `state`, `owner_tid`, `waiters_count`, wait list | lock, try-lock, unlock | lock-free fast path against a queued slow path |
| Wait queues, events (`kernel/wait.c`) | queue of stack-allocated entries, `signaled` | wait with and without timeout, wake one/all, signal, reset | missed wake-up, timeout against wake-up |
| Processes, threads, reaper (`kernel/process.c`) | slots of `tasks[]`, processes, reaper queue | create, exit, wait, destroy, reap | preemption inside exit; recycling of slots |
| Objects, handles (`kernel/object.c`, `handle.c`) | reference counts, tables of (object, rights, generation) | create, close, duplicate, destroy table | references dropped after the lock; generations wrap |
| Physical memory (`mm/pmm.c`) | two bitmaps, counters, hint, limit | boot from the memory map, allocate, free | overlapping map entries; search from a hint |
| Heap, virtual memory (`mm/heap.c`, `vmm.c`) | block list; page-table tree | allocate, free, resize; map, unmap, destroy | growth and trimming; shared and owned tables |
| Block layer, cache (`drivers/block.c`, `fs/block_cache.c`) | device list; slots with dirty flags | read, write, flush, invalidate | eviction with a failing device |
| FAT32, VFS, volumes (`fs/`) | FAT, directories, descriptors, mounts | open, write, truncate, unlink | power loss between two metadata writes |
| Disk drivers (`drivers/ahci.c`, `nvme.c`, `virtio_blk.c`) | rings, slots | submit, poll, time out | completion after the timeout |
| TCP, sockets (`net/tcp.c`, `socket*.c`) | connection table, sequence numbers, backlog | connect, listen, accept, send, receive, close, poll | loss, duplication, reordering, wrap-around |
| Link and network layer (`drivers/e1000.c`, `net/`) | rings, ARP cache, leases, DNS answers | transmit, receive, resolve, renew | late and duplicate answers |
| SMP (`arch/x86_64/smp.c`) | shootdown counter | TLB shootdown | acknowledgement after the timeout |
| Loader, packages, installer, TLS, crypto, terminal | | | sequential code and data conversion |

Who uses whom: everything locks with spinlocks and mutexes; mutexes and wait
queues block and unblock tasks of the scheduler; processes end through wait
queues, handle tables and the reaper; the heap takes frames from the physical
allocator and maps them through the page tables; files go through VFS, FAT32,
the block cache, the block layer and a driver; sockets go through TCP, IPv4,
ARP and the network driver.

## 2. Modules

**Mutex.tla** (`kernel/mutex.c`). Variables are the mutex's fields (`state`,
`owner`, `waiters_count`, `wait_list`) and, per thread, a program counter, the
run state and the `granted` mark of its wait entry. One action per shared access
of `mutex_lock`, `mutex_try_lock` and `mutex_unlock`; the sections under
`wait_lock` (`LockSlow`, `UnlockSlow`) are one action each. The owner's check for
recursion, the early returns of `mutex_unlock` and the second look at the waiters
after the release are actions of their own.

**Scheduler.tla** (`kernel/task.c`, `spinlock.c`, the tick of `interrupts.c`, the
blocking steps of `wait.c`). `k` is the scheduler's memory, `pc` says what each task is
in the middle of: a spinlock section, a system call, or the gap between marking
itself BLOCKED and calling `schedule()`. `Tick` is the whole timer handler: it wakes
expired sleepers, charges the quantum and reschedules on return when allowed. Time
is kept relative: `left` counts down, so no clock grows without bound.

**WaitQueue.tla** (`kernel/wait.c`). Threads call the wait operations on a flag (a
process's exit state), a manual-reset or an auto-reset event; `mode` is chosen in
`WaitInit`. A waker sets the condition and wakes in the order of the code: one step for
an event (it holds the lock), two for `thread_exit`.

**Lifecycle.tla** (`kernel/process.c`, slots of `task.c`). Clients create processes
and wait for them; their threads end by the exit system call (one step: interrupts
are off), by returning (three steps: ZOMBIE, process state, reaper queue) or when
their process is destroyed. The reaper pops, buries, frees and unlinks in four
steps. `cpu` and `Preempt` are the scheduler, reduced to who may run.
`CreateDuringReap = FALSE` restricts thread creation to moments when the reaper
holds no victim; it separates the defect of section 5 from everything else.

**HandleTable.tla** (`kernel/handle.c`, `object.c`), with **HandleClient.tla** (a
program that remembers one handle value and what it was made for). Tables are
functions from slots to (object, rights, generation). The reference dropped after
the lock is a separate step (`Unref`, `Drain`).

**Elf.tla** (`fs/elf.c`) validates, maps and copies a program and lays out its
stack; memory may run out at every frame. **Log.tla** (`kernel/log.c`) is the
formatter, the ring buffer with its readers, and the path a panic takes past a
lock. **Smp.tla** (`arch/x86_64/smp.c`) starts the processors and flushes their
TLBs, with acknowledgements that may come after the timeout.

**Pmm.tla** (`mm/pmm.c`) boots from a memory map one entry at a time, then allocates
and frees runs of frames. **FrameAllocator.tla** is what it promises: a set of free
frames, from which an allocation takes any run of the right length and fails only
if there is none, and a release changes nothing unless every frame was handed out.
`KeepsPromise` in Pmm.tla is the refinement.

**Heap.tla** (`mm/heap.c`) is the list of blocks in address order with splitting,
merging, growth and trimming. **Vmm.tla** (`mm/vmm.c`) keeps page tables in frames
like any other data, so that a frame freed while a table points to it is visible;
its TLB is that of the one CPU.

**BlockCache.tla** (`fs/block_cache.c`, and from `drivers/block.c` the bounds checks
and the partition's offset). Slots hold (device, block, data); `valid`, `dirty` and
`hashed` are sets of slots, and `pos` is each slot's place in `lru_list`. All calls
run under one lock; `call` is the one in progress, cut into a step per block or slot
so that the power may fail between two. Claiming a slot is one step when one is free
and two (`Evict`, then the fill) when none is. `accepted` is what the device answers
to a write. A write beyond the device is accepted by the cache, as in the code, and
refused by the device later. **CachedDisk.tla** is what the cache promises: contents
(`cur`) change only as a write in progress asks, the device catches up in any order,
and contents are lost only by a power failure or a refused write-back.
`CacheKeepsPromise` is the refinement; `View` maps the cache to `cur`.

**Fat32.tla** (`fs/fat32.c`): a call is one step, because it holds the volume's lock,
but it makes every sector write in the code's order, and a power loss leaves on the
medium any content written since the last flush. **Volumes.tla** (`drivers/block.c`,
`ramdisk.c`, `fs/partition.c`, `volume.c`, `vfs.c`) is the path from devices to drive
letters. **Ramfs.tla** (`fs/ramfs.c`, `initramfs.c`) is the RAM file system and the
boot archive, with archives cut off at every length. **Disks.tla** (`drivers/ahci.c`,
`nvme.c`, `virtio_blk.c`) submits commands to a device that completes them in its own
time, or after the timeout. **Packages.tla** (`lib/kpkg.c`, `kernel/installer.c`,
`pkg_db.c`) installs, updates and removes with every write that may fail.

**Tcp.tla** (`net/tcp.c`) runs on two hosts over a network that loses, repeats and
reorders; a blocking call is cut at every release of `tcp_lock`. **Sockets.tla**
(`net/socket.c`, `socket_subsystem.c`) is the pool with its reference counts and the
UDP table. **Arp.tla**, **Ipv4.tla**, **Icmp.tla**, **Dhcp.tla** and **Dns.tla** are the
protocols of the same names under `net/`, each with late, lost and repeated answers.
The scans of the ARP and DNS caches stop at the first hit: **Scan.tla** has that hit as a
set of at most one slot, so that "nothing found" is the empty set and not a made-up index.
**E1000.tla** (`drivers/e1000.c`, `net/ethernet.c`) has the two descriptor rings and the
device between any two steps. **Tls.tla** takes cryptography as ideal; **Http.tla** and
**Httpd.tla** are the client and the server, whose polls nest.

**MCProcesses.tla**, **MCMemory.tla**, **MCStorage.tla** and **MCNetwork.tla** put related
components side by side: the variable `part` says which of them a behaviour is
about, the others stay as they start. Components with a theorem are extended, so that
the run checks the very formula the theorem is about; the others are instances, with one
property for each question (`ProgramLoaded` is `part = "elf" => E!ImageExact /\
E!StackLaidOut`). The modules also give the constants that are not plain values.

Operators that differ from an action by a plausible mistake (`UnlockNoRecheck`,
`sleep_queue_append`, `DestroyLeavesQueue`, ...) stand before the definition they
vary. They are not used by the specifications; `PROJECT.json` says which property
each would break.

## 3. Runs

`tlc -workers 2 -config <cfg> <module>`

| Run | Module, cfg | Checks | Instance |
|---|---|---|---|
| mutex | Mutex, MCMutex | no lost wake-up, no orphaned waiter, every waiter gets the mutex | 3 threads: 86,246 states |
| mutex_exclusion | Mutex, MCMutexExclusion | mutual exclusion: **violated**, section 5 | 3 threads |
| scheduler | Scheduler, MCScheduler | sleep queue, RUNNING is current, idle means no work, preemption rule, deadlines, progress | 3 tasks, quantum 1, sleeps of 1 tick: 62,864 states |
| wait | WaitQueue, MCWaitQueue | no stale entry, no missed wake-up, timed waits end, waiters are released | 3 threads, all three kinds: 68,686 states |
| wait_signal | WaitQueue, MCWaitSignal | an auto-reset event releases a waiter: **violated** | 1 thread |
| lifecycle_exit | Lifecycle, MCLifecycleExit | every zombie reaches the reaper: **violated** | 2 slots |
| lifecycle_stack | Lifecycle, MCLifecycleStack | a runnable thread has its stack: **violated** when slots are claimed while the reaper works | 2 slots |
| handle_stale | HandleClient, MCHandleStale | a stale handle never resolves: **violated** by wrap-around | 1 table, 3 generations |
| processes | MCProcesses, MCProcesses | references, rights, generations; exits and reaping; program images; log; TLB shootdown | 822,718 states |
| memory | MCMemory, MCMemory | frame counters and the refinement of FrameAllocator; heap contents and tiling; page tables and TLB | 71,306 states |
| storage | MCStorage, MCStorage | cache entries, flushes, reads and the refinement of CachedDisk; FAT32 with power loss; devices and letters; RAM files; drivers; packages | 844,888 states |
| network | MCNetwork, MCNetwork | TCP streams, sockets, ARP, reassembly and pings, leases, names, rings, TLS and HTTP | 882,169 states |

### Why the bounds are enough

* *Mutex, WaitQueue*: three threads are a holder, a waiter and an intruder; the
  counterexample of `mutex_exclusion` needs exactly these, and with two threads it
  does not exist.
* *Scheduler*: `MCScheduler` has the smallest quantum and sleep that let a tick
  expire both at once, which keeps the liveness check short. The safety properties
  were also checked with 3 tasks, quantum 2 and sleeps of 2 (748,002 states), and
  the liveness property with 2 tasks, quantum 2 and sleeps of 2 (8,804 states) and
  with 3 tasks and quantum 2 (242,928 states). The theorems cover every size.
* *Lifecycle*: two slots allow one thread to die while another is created in the
  slot just freed. Also checked, with the inductive invariant of the proof, on 3
  slots and 2 processes (9.8 million states). The theorems cover every size.
* *HandleTable*: two slots make a table full; generation arithmetic modulo 3
  wraps within the run; two tables let a duplicate cross. The theorems cover every
  size.
* *Pmm*: eight frames and requests of up to three allow fragmentation that
  leaves only a run across the hint. The theorems cover every size.
* *Heap, Vmm*: three pages, and requests that fit many times, once and never, make
  the heap grow, split, merge and trim; eight frames run out while a tree is built.
* *BlockCache*: two slots are full after two blocks, so that a call of two blocks
  evicts a dirty block, a clean one, or the one it has just read; the second
  partition has one block, so that calls also reach beyond it. The theorems cover
  every size.
* *Fat32*: three calls on four clusters fill the volume, chain two clusters and
  reuse a freed one.
* *Disks*: two transfers let the completion of a timed-out command meet the next
  one. They do not bring the NVMe completion queue or the virtio index round.
* *Network*: TCP meets one lost or repeated segment, with two in flight in either
  order, and the client's sequence numbers wrap. The ARP and DNS caches have one
  place less than there are peers and names.

Deadlock is checked in the runs of Mutex, Scheduler and WaitQueue that pass. In the
others the bounded number of calls, or a thread that was preempted inside
`thread_exit` (section 5), leaves nothing to do.

### Fairness

* *Mutex*: weak fairness of each thread's steps inside lock and unlock. The
  scheduler is round robin and spinlock sections end; nothing obliges a thread to
  call lock. The owner is assumed to unlock in the end.
* *Scheduler*: strong fairness of the tick (an interrupt raised while they are off
  stays pending) and of the return from a system call, weak fairness of the steps
  out of a spinlock section, a blocking gap or the sleep loop. A task in ordinary code
  is not assumed to do anything: the tick must take the CPU away.
* *WaitQueue*: weak fairness of each thread's steps inside the wait functions, of
  the deadline, and of the second half of a waker (`WakeFlag`). `SignalledSpec` adds
  that an event is signalled again and again.

## 4. What is proved

All obligations of the eight proof modules are checked by TLAPS. The constants are
constrained only by the `ASSUME` of each component's module, which says that
capacities are natural numbers and that special values are not ordinary ones, and
where a theorem says so. The inductive invariants of all of them were checked with TLC
before they were proved.

**SyncProofs.tla**, for every set of threads: of the mutex `TypeCorrect`, `WakeupsKept`
(`Spec => []NoLostWakeup`) and `WaitersNeverOrphaned` (`Spec => []NoOrphanedWaiter`), of
the wait queues `WaitersStayTracked` (`WaitSpec => []WaitersTracked`, for finite sets).
The mutex's inductive invariant `IInv` adds two facts to the type invariant and
NoLostWakeup. `Covered`: when the list is not empty, the mutex is held or a thread
is between its release and its second look. `Locked`: when `state` is 1, some
thread holds it or is about to release it. NoOrphanedWaiter alone is not
inductive, because it does not say who set `state`. WaitersTracked is inductive as it
stands: an entry is linked once and counted, a sleeper is where its waker and its
timer look, and it sleeps on a true condition only while a wake-up is on its way.

**SchedulerProofs.tla**, for every number of tasks, quantum and length of sleeps:
`SchedulerIsSound` (`Spec => []SchedulerSound`) and the action property
`SleepEndsAtDeadline` (`Spec => SleepsUntilDeadline`). The inductive invariant has
three parts. `Sound` holds even inside a section: the sleep queue is sorted, free of
repetitions and as long as `sleeping` says, every sleeper is linked, and only the
current task is RUNNING. `IdleSound` (the idle task has the CPU only when nothing can
run) holds between sections only, since a wake-up breaks it until the section ends.
`Control` relates the memory to where each task is in the code: `preempt_count` is 1
exactly in a spinlock section, whose task is the current one, and a task is linked
into the sleep queue only inside the calls that put it there; without it the tick
could not be shown to leave a section alone or to wake every expired sleeper.
The lemmas below it say what one insertion, one unlinking, one search for the next
task and one `schedule()` do, and that the tick's loop takes exactly the expired
entries from the head of the queue.

**HandleProofs.tla**, for all finite sets of tables and threads, any objects, capacity
and width of the generation: `HandlesAreAccounted`, `RightsAreNeverAmplified` and, for
the program that keeps handles, `KeptHandleDenotesItsObject`. The inductive invariant
adds to the properties that a thread between two steps of a call has the reference,
the table and the rights the next step relies on (`ThreadsSound`), and that a slot
never holds an entry and a pending reference at once (`EntriesSound`); without the
latter a reference would be counted once where there are two. The third theorem needs
that a slot's generation is the kept one advanced by the number of closings.

**LifecycleProofs.tla**, for every number of slots and processes: `ReapingIsSound`
(`[]ReapingSound`) and `ExitsAreAccounted` (`[]ExitsAccounted`) from `LifecycleSpec`, under
the premises `Setting`: one client creates and destroys (`ClientCount = 1`), and no slot
is claimed while the reaper has a victim (`~CreateDuringReap`). Both premises are
needed. Without the second the run `lifecycle_stack` has a counterexample; with two
clients TLC shows both properties violated, because `task_allocate_slot` does not
reserve the slot it finds and two callers fill the same one. The inductive invariant
says of each thread where it may be: what runs is not in the reaper's hands, what is
queued has finished exiting, the victim never runs again (`Running`, `Queue`,
`Victim`); what each step of the client relies on (`Creating`); and which threads
belong to a process, the one about to be linked included (`Members`, `Active`). The
last is needed because `process_exit` finds only threads that are linked already.
The lemmas on sequences (`OrdersList`, `ConcatLists`, `TailLists`, `WithoutLists`) say
that queuing, popping and removing keep the reaper queue free of repetitions.

**MemoryProofs.tla**, of the frame allocator, for every number of frames, frame size
and memory map: `TypeCorrect`, `FramesAlwaysCounted`, `SearchesCoverUsable` and the
refinement `PmmKeepsPromise` (`Spec => KeepsPromise`). The inductive invariant is the
conjunction of the three safety properties with `Booted` (allocation starts after
the last map entry). The search limit is needed in the refinement: a search that
stops at the limit fails only when there is really no run, because every usable
frame lies below it. The proofs rest on `Cardinality` lemmas for adding and
removing runs, and on the existence of a least element for the first-fit search.
Of the TLB shootdown, for every number of processors and pages: `ShootdownsComplete`
(`SmpSpec => []ShootdownComplete`). The initiator counts answers without asking whose
they are, so the inductive invariant must: `CountExact` (the online counter is the number
of processors that counted themselves), `AnswersFromIdle` (only an idle processor is in
the handler, and none starts during a request), `FlushedGone` (a page flushed everywhere
is unmapped and in no TLB) and `RequestSound` (while a request without stray answers is
under way each processor has still to take the interrupt, to flush, to answer, or is one
of those counted and has lost the page). TLC checks it on 3 processors (31,861 states).

**BlockCacheProofs.tla**, for every capacity, disk, set of non-overlapping partitions
and call size: `TypeCorrect`, `EntriesStayUnique`, `FlushesReachDisk`,
`ReadsStayCurrent` and the refinement `CacheImplementsDisk` (`Spec =>
CacheKeepsPromise`). The inductive invariant `Inv` adds to the type invariant and
`OneEntryPerBlock` two facts. `EntriesSound`: a valid entry belongs to a device, and a
clean one equals the disk; without it an eviction of a clean entry might be seen.
`CallSound`: how far the call's loop is; in particular a flush that is all right so
far has left no dirty entry of its device behind it. `DropView` and `FillView` then
say how `View` changes when a slot is given up or filled, and every action is one
of the two or leaves `View` alone. The assumption is that the partitions lie on the
disk and do not overlap (`BlockCacheAssumption`).

**LinkProofs.tla**. `RingsAreSound` (`NicSpec => []RingsSound`), for every ring size and
any number of frames. `TxRow` says where each unsent frame is: in a row of descriptors from
the card's head to the one before `tx_next`, in order and each once, the last of them in
`tx_last_submitted`. `RxRow` says that the frames not yet read are exactly those from
`rx_next` up to the card's head, in the order of arrival and after everything handed up;
the tail stays just behind `rx_next`, so that the head cannot run into it. TLC checks them
on rings of 3 with 6 frames (1.24 million states). `ArpCacheAnswersNewest` (`ArpSpec =>
[]ArpAnswersNewest`), for any peers, number of slots and time to live. That the first entry
found is the newest is not inductive: entries expire, and `arp_remember` takes the first
vacant slot even if the peer has an entry behind it. `ArpInv` adds what keeps this
harmless: of two entries of a peer the one further back is strictly the older
(`OlderLater`), which holds because an entry made in the current tick has no vacant slot
before it (`NoGapsBefore`); the first of a peer is then what was learned last
(`FirstIsNewest`).

**NetworkProofs.tla**. `PingsAreAnswered` (`IcmpSpec => []PingsSound`), for any peers and
sequence numbers: `IcmpInv` ties the waiter to the ping in progress (`WaiterIsPing`), each
reply on its way to a request that was sent (`RepliesAnswer`), and a reply recorded, or
reported, to one heard from that peer with that number (`ReplyHeard`, `ResultHeard`).
`LeasesAreGranted` (`DhcpSpec => []LeaseGranted`), for any callers, servers and leases:
`DhcpInv` says that the one call in progress holds port 68 (`OneCall`), that transaction
numbers on the wire have been issued (`XidsFresh`), that a transaction asks one server for one
address (`OneRequest`) and that an acknowledgement was granted to such a request
(`AcksGranted`): an acknowledgement that passes the test is then the answer to this call.
`NamesAreResolved` (`DnsSpec => []NamesResolved`), for any threads, names and ports and
fewer than 65,536 queries: identifiers on the wire have been issued (`IdsIssued`), one
identifier means one name (`IdMeansName`), and the cache is filled from the front
(`SlotsFilledInOrder`), without which a name could be inserted twice. With more queries
the identifiers repeat and the property is that of the code only if no answer is that
late.

Only model-checked:

* Liveness under fairness (`WaiterGetsMutex`, `ReadyRunsUnlessStale`,
  `TimedWaitReturns`, `WaitersReleased`): TLAPS has no rules for fairness and ENABLED
  that its back ends could use.
* Whatever a recursive definition computes for every input (the formatter of the log,
  the heap's and FAT32's walks, archives in Ramfs, TLS and HTTP framing, the loader's
  copying in Elf): that is induction over data, which the installed provers cannot do.
  Several of these modules use RECURSIVE operators.
* Vmm, Volumes, Disks, Packages, Tcp, Sockets, Ipv4 and Httpd: no inductive invariant has
  been worked out.

## 5. What the models found

* `mutex_unlock` publishes the mutex as free, looks at the waiters again and hands
  the mutex to one of them without testing whether a third thread has taken it
  meanwhile. Two threads hold it.
* `event_signal` on an auto-reset event wakes a thread and clears the event in the
  same call; the woken thread finds it clear and sleeps again.
* `thread_exit` can be preempted between ZOMBIE and the reaper queue, and is then
  never reaped. `OnlyInterruptedExitsAreLost` shows that this is the only way a
  zombie is lost.
* The reaper marks a slot DEAD, hence free, before it frees the slot's stack.
* Handle generations wrap after 65,535 closings of a slot, so the comment that they
  prevent stale access holds only up to that number.
* A task woken between marking itself BLOCKED and calling `schedule()` continues as
  RUNNABLE although it has the CPU, and the tick charges no quantum to a task that
  is not RUNNING. `ReadyRunsUnlessStale` says that this is the only way a task can
  keep others from the CPU.

## 6. What is not modelled

`PROJECT.json` lists every component with its status. Left out as a whole are
hardware set-up, table parsing, cryptography, the console and the in-kernel test
commands, which hold no protocol a model checker would help with. Inside the modelled
parts these are left out: the debug fields of locks and spinning before multitasking
starts; spinlocks contended by several CPUs; task creation in Scheduler (the set of
tasks is fixed); the process tree and address spaces in Lifecycle, and the order of a
process's list of threads, which is any; `thread_count`, which the code lets drift;
byte statistics in Pmm; the boot-time direct map in Vmm; the device's own write cache
and cache statistics in BlockCache; time stamps and the boot sector in Fat32; register
set-up in Disks; RTT estimation in Tcp; packet layouts and frame headers in the network
modules.
