---------------------------- MODULE BlockCache ----------------------------
(* The write-back block cache (fs/block_cache.c) over the block layer        *)
(* (drivers/block.c).                                                        *)
(*                                                                          *)
(* The devices are partitions of one disk: partition_write_blocks adds the   *)
(* partition's start to the block number.  Every function holds g_cache.lock *)
(* with interrupts off, so calls do not interleave; call is the one in       *)
(* progress and its loops take a step per block or slot, because the power   *)
(* may fail between two of them.  The device may refuse any access.  Its own *)
(* write cache is not modelled: an acknowledged write is on the disk.        *)
EXTENDS Naturals, Sequences

CONSTANTS Capacity,     \* BLOCK_CACHE_CAPACITY
          DiskBlocks,   \* blocks of the disk
          Devices, NoDevice,
          Start, Total, \* start_lba and total_blocks of each device
          Values, NoValue,
          MaxLba,       \* bound: first block of a call
          MaxCount      \* bound: blocks per call

Slots == 1 .. Capacity

\* The volumes mounted at one time lie on partitions that do not overlap.
ASSUME BlockCacheAssumption ==
  /\ Capacity \in Nat \ {0} /\ DiskBlocks \in Nat
  /\ MaxLba \in Nat /\ MaxCount \in Nat \ {0}
  /\ NoDevice \notin Devices
  /\ Start \in [Devices -> Nat] /\ Total \in [Devices -> Nat]
  /\ \A d \in Devices : Start[d] + Total[d] <= DiskBlocks
  /\ \A d, e \in Devices :
       d # e => \/ Start[d] + Total[d] <= Start[e]
                \/ Start[e] + Total[e] <= Start[d]

VARIABLES entry,    \* dev, lba and data of each slot
          valid,    \* the slots whose entry is valid
          dirty,    \* the slots whose entry is dirty
          hashed,   \* the slots linked in hash_table
          pos,      \* place of each slot in lru_list, the head being 1
          call,     \* the call in progress
          disk,     \* contents of the device
          failed    \* the device has refused a write

cache == <<entry, valid, dirty, hashed, pos>>
vars == <<entry, valid, dirty, hashed, pos, call, disk, failed>>

Locations == 0 .. DiskBlocks - 1
Location(d, lba) == Start[d] + lba

\* op; the device and first block; the blocks of a write, or those read so
\* far; how many blocks are wanted; blocks done (read, write) or slots done
\* (flush, invalidate); and the result so far.
Call(op, d, lba, buf, count) ==
  [op |-> op, dev |-> d, lba |-> lba, buf |-> buf, count |-> count,
   done |-> 0, ok |-> TRUE]

idle == Call("none", NoDevice, 0, << >>, 0)

NoEntry == [dev |-> NoDevice, lba |-> 0, data |-> NoValue]

block_cache_init ==
  /\ entry = [s \in Slots |-> NoEntry]
  /\ valid = {} /\ dirty = {} /\ hashed = {}
  /\ pos = [s \in Slots |-> s]

Init == /\ block_cache_init
        /\ call = idle
        /\ disk \in [Locations -> Values]
        /\ failed = FALSE

-----------------------------------------------------------------------------
(* Cache entries *)

cache_lookup_locked(d, lba) ==
  {s \in hashed \cap valid : entry[s].dev = d /\ entry[s].lba = lba}

\* list_del and list_add: to the head of lru_list.
cache_touch_locked(s) ==
  pos' = [t \in Slots |-> IF t = s THEN 1
                          ELSE IF pos[t] < pos[s] THEN pos[t] + 1 ELSE pos[t]]

\* block_read and block_write refuse what lies beyond the device.
InBounds(d, lba) == lba < Total[d]

\* Writes an entry back if it is dirty; accepted is what block_write returns.
cache_flush_entry_locked(s, accepted) ==
  IF s \in valid \cap dirty
  THEN IF accepted
       THEN /\ InBounds(entry[s].dev, entry[s].lba)
            /\ disk' = [disk EXCEPT
                          ![Location(entry[s].dev, entry[s].lba)] =
                             entry[s].data]
            /\ UNCHANGED failed
       ELSE failed' = TRUE /\ UNCHANGED disk
  ELSE accepted /\ UNCHANGED <<disk, failed>>

-----------------------------------------------------------------------------
(* Reading and writing *)

block_cache_read(d, lba, n) ==
  /\ call = idle
  /\ call' = Call("read", d, lba, << >>, n)
  /\ UNCHANGED <<cache, disk, failed>>

\* No bound is checked: a write beyond the device is taken, and refused later.
block_cache_write(d, lba, src) ==
  /\ call = idle
  /\ call' = Call("write", d, lba, src, Len(src))
  /\ UNCHANGED <<cache, disk, failed>>

Looping(op) == call.op = op /\ call.done < call.count /\ call.ok
Block == call.lba + call.done
Hits == cache_lookup_locked(call.dev, Block)

\* Faulty variant: every block is copied to the start of the buffer.
BlockReadAtStart(value) == call' = [call EXCEPT !.done = @ + 1,
                                                !.buf = <<value>> \o @]

BlockRead(value) == call' = [call EXCEPT !.done = @ + 1,
                                         !.buf = Append(@, value)]
BlockWritten == call' = [call EXCEPT !.done = @ + 1]

ReadHit(s) ==
  /\ Looping("read") /\ s \in Hits
  /\ BlockRead(entry[s].data)
  /\ cache_touch_locked(s)
  /\ UNCHANGED <<entry, valid, dirty, hashed, disk, failed>>

WriteHit(s) ==
  /\ Looping("write") /\ s \in Hits
  /\ entry' = [entry EXCEPT ![s].data = call.buf[call.done + 1]]
  /\ dirty' = dirty \cup {s}
  /\ BlockWritten
  /\ cache_touch_locked(s)
  /\ UNCHANGED <<valid, hashed, disk, failed>>

Missing == /\ Looping("read") \/ Looping("write")
           /\ Hits = {}

\* Faulty variant: the victim is dropped without being written back.
EvictDirty(s, accepted) ==
  /\ Missing /\ valid = Slots /\ accepted
  /\ \A t \in Slots : pos[t] <= pos[s]
  /\ valid' = valid \ {s} /\ hashed' = hashed \ {s} /\ dirty' = dirty \ {s}
  /\ UNCHANGED <<entry, pos, call, disk, failed>>

\* No slot is free: the one at the tail is written back if dirty, and given up
\* whether or not the device takes it.
Evict(s, accepted) ==
  /\ Missing /\ valid = Slots
  /\ \A t \in Slots : pos[t] <= pos[s]
  /\ cache_flush_entry_locked(s, accepted)
  /\ valid' = valid \ {s} /\ hashed' = hashed \ {s} /\ dirty' = dirty \ {s}
  /\ UNCHANGED <<entry, pos, call>>

\* The invalid slot nearest to the tail.
FreeSlot(s) == s \notin valid /\ \A t \in Slots \ valid : pos[t] <= pos[s]

\* Faulty variant: the entry is not put into the hash table.
allocate_unhashed(s, value) ==
  /\ entry' = [entry EXCEPT ![s] = [dev |-> call.dev, lba |-> Block,
                                    data |-> value]]
  /\ valid' = valid \cup {s}
  /\ UNCHANGED hashed
  /\ cache_touch_locked(s)

\* The slot is given to the block, filled, and moved to the head.
cache_allocate_slot_locked(s, value) ==
  /\ entry' = [entry EXCEPT ![s] = [dev |-> call.dev, lba |-> Block,
                                    data |-> value]]
  /\ valid' = valid \cup {s} /\ hashed' = hashed \cup {s}
  /\ cache_touch_locked(s)

WriteMiss(s) ==
  /\ Looping("write") /\ Missing /\ FreeSlot(s)
  /\ cache_allocate_slot_locked(s, call.buf[call.done + 1])
  /\ dirty' = dirty \cup {s}
  /\ BlockWritten
  /\ UNCHANGED <<disk, failed>>

ReadMiss(s) ==
  /\ Looping("read") /\ Missing /\ FreeSlot(s)
  /\ InBounds(call.dev, Block)
  /\ LET value == disk[Location(call.dev, Block)]
     IN  cache_allocate_slot_locked(s, value) /\ BlockRead(value)
  /\ UNCHANGED <<dirty, disk, failed>>

\* block_read fails: the slot has been claimed and moved, and is given up.
\* What the driver left in its data does not matter, as it is not valid.
ReadFails(s) ==
  /\ Looping("read") /\ Missing /\ FreeSlot(s)
  /\ entry' = [entry EXCEPT ![s].dev = call.dev, ![s].lba = Block]
  /\ cache_touch_locked(s)
  /\ call' = [call EXCEPT !.ok = FALSE]
  /\ UNCHANGED <<valid, dirty, hashed, disk, failed>>

-----------------------------------------------------------------------------
(* Writing back and forgetting *)

\* d is NoDevice for block_cache_sync, which writes back every device.
block_cache_flush_device(d) ==
  /\ call = idle
  /\ call' = Call("flush", d, 0, << >>, Capacity)
  /\ UNCHANGED <<cache, disk, failed>>

block_cache_invalidate_device(d) ==
  /\ call = idle
  /\ call' = Call("invalidate", d, 0, << >>, Capacity)
  /\ UNCHANGED <<cache, disk, failed>>

Slot == call.done + 1
Concerned == Slot \in valid /\ call.dev \in {NoDevice, entry[Slot].dev}

\* Faulty variant: only the last write-back counts.
LastOk(accepted) == accepted

AllOk(accepted) == call.ok /\ accepted

FlushSlot(accepted) ==
  /\ call.op = "flush" /\ call.done < call.count
  /\ IF Concerned
     THEN /\ cache_flush_entry_locked(Slot, accepted)
          /\ dirty' = IF accepted THEN dirty \ {Slot} ELSE dirty
     ELSE accepted /\ UNCHANGED <<dirty, disk, failed>>
  /\ call' = [call EXCEPT !.done = @ + 1, !.ok = AllOk(accepted)]
  /\ UNCHANGED <<entry, valid, hashed, pos>>

InvalidateSlot(accepted) ==
  /\ Looping("invalidate")
  /\ IF Concerned
     THEN /\ cache_flush_entry_locked(Slot, accepted)
          /\ valid' = valid \ {Slot} /\ hashed' = hashed \ {Slot}
          /\ dirty' = dirty \ {Slot}
          /\ entry' = [entry EXCEPT ![Slot].dev = NoDevice]
     ELSE accepted /\ UNCHANGED <<entry, valid, dirty, hashed, disk, failed>>
  /\ call' = [call EXCEPT !.done = @ + 1]
  /\ UNCHANGED pos

\* The loop is over, or a read has failed: unlock and return.
Return == /\ call # idle
          /\ call.done = call.count \/ (call.op = "read" /\ ~call.ok)
          /\ call' = idle
          /\ UNCHANGED <<cache, disk, failed>>

\* Power fails and the machine boots again.
PowerLoss == /\ entry' = [s \in Slots |-> NoEntry]
             /\ valid' = {} /\ dirty' = {} /\ hashed' = {}
             /\ pos' = [s \in Slots |-> s]
             /\ call' = idle
             /\ UNCHANGED <<disk, failed>>

Buffers == UNION {[1 .. n -> Values] : n \in 1 .. MaxCount}

Next ==
  \/ \E d \in Devices, lba \in 0 .. MaxLba :
       \/ \E n \in 1 .. MaxCount : block_cache_read(d, lba, n)
       \/ \E src \in Buffers : block_cache_write(d, lba, src)
  \/ \E d \in Devices \cup {NoDevice} : block_cache_flush_device(d)
  \/ \E d \in Devices : block_cache_invalidate_device(d)
  \/ \E s \in Slots : \/ ReadHit(s) \/ ReadMiss(s) \/ ReadFails(s)
                      \/ WriteHit(s) \/ WriteMiss(s)
                      \/ \E accepted \in BOOLEAN : Evict(s, accepted)
  \/ \E accepted \in BOOLEAN : FlushSlot(accepted) \/ InvalidateSlot(accepted)
  \/ Return
  \/ PowerLoss

Spec == Init /\ [][Next]_vars

-----------------------------------------------------------------------------
(* Properties *)

Entry == [dev : Devices \cup {NoDevice}, lba : Nat, data : Values \cup {NoValue}]
Calls == [op : {"none", "read", "write", "flush", "invalidate"},
          dev : Devices \cup {NoDevice}, lba : Nat, buf : Seq(Values),
          count : Nat, done : Nat, ok : BOOLEAN]

\* Type invariant of the cache, the call in progress and the disk; the places
\* in lru_list stay within the list.
TypeOK ==
  /\ entry \in [Slots -> Entry]
  /\ valid \subseteq Slots /\ dirty \subseteq valid /\ hashed \subseteq Slots
  /\ pos \in [Slots -> Slots]
  /\ call \in Calls
  /\ disk \in [Locations -> Values]
  /\ failed \in BOOLEAN

\* The hash table links exactly the valid entries, no block has two of them
\* (the second would go stale or overwrite the first on the disk), and
\* lru_list holds every slot once.
OneEntryPerBlock ==
  /\ hashed = valid
  /\ \A s, t \in valid : entry[s].dev = entry[t].dev
                         /\ entry[s].lba = entry[t].lba => s = t
  /\ \A s, t \in Slots : pos[s] = pos[t] => s = t

\* The slots that cache location l of the disk.
Caching(l) == {s \in valid : /\ entry[s].dev \in Devices
                             /\ InBounds(entry[s].dev, entry[s].lba)
                             /\ Location(entry[s].dev, entry[s].lba) = l}

\* What a read of location l returns: the cached data before the disk's.
View == [l \in Locations |-> IF Caching(l) = {} THEN disk[l]
                             ELSE entry[CHOOSE s \in Caching(l) : TRUE].data]

OnDevice(d, l) == Start[d] <= l /\ l < Start[d] + Total[d]

\* When block_cache_flush_device or block_cache_sync returns true, the disk
\* holds the current contents of the device, or of all of them.
FlushReachesDisk ==
  (call.op = "flush" /\ call.done = call.count /\ call.ok) =>
     \A d \in Devices, l \in Locations :
        (call.dev \in {NoDevice, d} /\ OnDevice(d, l)) => disk[l] = View[l]

\* A read over several blocks returns their current contents, although it may
\* evict the blocks it has just read, or dirty ones, to make room.  (Once the
\* device has refused a write, an eviction may lose contents.  A block beyond
\* the device can be read back only while a write to it is cached.)
ReadsAreCurrent ==
  (call.op = "read" /\ ~failed) =>
     \A i \in 1 .. Len(call.buf) :
        InBounds(call.dev, call.lba + i - 1) =>
          call.buf[i] = View[Location(call.dev, call.lba + i - 1)]

\* The blocks on the device that the write in progress has still to do.
Writing ==
  IF call.op # "write" THEN {}
  ELSE {<<Location(call.dev, call.lba + i), call.buf[i + 1]>> :
          i \in {j \in call.done .. call.count - 1 :
                   InBounds(call.dev, call.lba + j)}}

\* The cache behaves as a disk that takes every write at once, changes nothing
\* else, and forgets a write only when the power fails or the device refuses
\* it: an eviction, a flush or an invalidation is not seen by the readers.
Cached == INSTANCE CachedDisk WITH cur <- View, writing <- Writing
CacheKeepsPromise == Cached!Spec
=============================================================================
