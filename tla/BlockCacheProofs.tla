------------------------- MODULE BlockCacheProofs -------------------------
(* Proofs about the block cache, for every capacity, disk, partitioning and *)
(* size of call.  Inv is inductive: besides uniqueness it says that a clean *)
(* entry agrees with the disk, and that a flush so far all right has left   *)
(* nothing dirty behind it.  View, the contents readers see, is then traced *)
(* through every action, which gives the refinement of CachedDisk.          *)
EXTENDS BlockCache, TLAPS

\* A valid entry belongs to a device and, unless it is dirty, agrees with the
\* disk.
EntriesSound ==
  /\ \A s \in valid : entry[s].dev \in Devices /\ entry[s].data \in Values
  /\ \A s \in valid \ dirty :
       /\ InBounds(entry[s].dev, entry[s].lba)
       /\ entry[s].data = disk[Location(entry[s].dev, entry[s].lba)]

\* How far the call in progress has come.
CallSound ==
  /\ call.done <= call.count
  /\ call.op = "none" => call = idle
  /\ call.op \in {"read", "write", "invalidate"} => call.dev \in Devices
  /\ call.op = "read" => Len(call.buf) = call.done
  /\ call.op = "write" => Len(call.buf) = call.count /\ call.ok
  /\ call.op = "invalidate" => call.ok
  /\ call.op \in {"flush", "invalidate"} => call.count = Capacity
  /\ call.op = "flush" /\ call.ok =>
       \A s \in valid \cap dirty :
          call.dev \in {NoDevice, entry[s].dev} => s > call.done

Inv == TypeOK /\ OneEntryPerBlock /\ EntriesSound /\ CallSound

-----------------------------------------------------------------------------
(* Initial states *)

LEMMA IdleSound == idle \in Calls /\ idle.op = "none" /\ idle.done = 0
                   /\ idle.count = 0
  BY DEF idle, Call, Calls

LEMMA InitInv == Init => Inv
PROOF
<1>. SUFFICES ASSUME Init PROVE Inv
  OBVIOUS
<1>. USE IdleSound DEF Init, block_cache_init
<1>1. TypeOK
  BY BlockCacheAssumption DEF TypeOK, Entry, NoEntry
<1>2. OneEntryPerBlock
  BY DEF OneEntryPerBlock
<1>3. EntriesSound /\ CallSound
  BY DEF EntriesSound, CallSound
<1>4. QED BY <1>1, <1>2, <1>3 DEF Inv

-----------------------------------------------------------------------------
(* Moving a slot to the head keeps lru_list a list of all the slots. *)

LEMMA TouchKeepsList ==
  ASSUME TypeOK, OneEntryPerBlock, NEW s \in Slots, cache_touch_locked(s)
  PROVE  /\ pos' \in [Slots -> Slots]
         /\ \A t, u \in Slots : pos'[t] = pos'[u] => t = u
PROOF
<1>1. \A t \in Slots : pos[t] \in 1 .. Capacity
  BY DEF TypeOK, Slots
<1>2. \A t \in Slots : pos'[t] = IF t = s THEN 1
                                 ELSE IF pos[t] < pos[s] THEN pos[t] + 1
                                 ELSE pos[t]
  BY DEF cache_touch_locked
<1>3. \A t \in Slots : pos'[t] \in 1 .. Capacity
  BY <1>1, <1>2, BlockCacheAssumption
<1>4. pos' \in [Slots -> Slots]
  BY <1>3 DEF cache_touch_locked, Slots
<1>5. ASSUME NEW t \in Slots, NEW u \in Slots, pos'[t] = pos'[u]
      PROVE  t = u
  <2>1. pos[t] = pos[s] => t = s
    BY DEF OneEntryPerBlock
  <2>2. pos[u] = pos[s] => u = s
    BY DEF OneEntryPerBlock
  <2>3. pos[t] = pos[u] => t = u
    BY DEF OneEntryPerBlock
  <2>4. QED BY <1>1, <1>2, <1>5, <2>1, <2>2, <2>3
<1>6. QED BY <1>4, <1>5

LEMMA LocationOnDisk ==
  ASSUME NEW d \in Devices, NEW lba \in Nat, InBounds(d, lba)
  PROVE  Location(d, lba) \in Locations
  BY BlockCacheAssumption DEF InBounds, Location, Locations

-----------------------------------------------------------------------------
(* Starting a call, and returning from it *)

LEMMA CallTyped ==
  ASSUME NEW op \in {"read", "write", "flush", "invalidate"},
         NEW d \in Devices \cup {NoDevice}, NEW lba \in Nat,
         NEW buf \in Seq(Values), NEW n \in Nat
  PROVE  Call(op, d, lba, buf, n) \in Calls
  BY DEF Call, Calls

LEMMA DoneTyped ==
  ASSUME NEW c \in Calls, NEW n \in Nat
  PROVE  [c EXCEPT !.done = n] \in Calls
  BY DEF Calls

LEMMA DoneBufTyped ==
  ASSUME NEW c \in Calls, NEW n \in Nat, NEW b \in Seq(Values)
  PROVE  [c EXCEPT !.done = n, !.buf = b] \in Calls
PROOF
<1>1. [c EXCEPT !.done = n, !.buf = b] =
        [[c EXCEPT !.done = n] EXCEPT !.buf = b]
  BY DEF Calls
<1>2. ASSUME NEW e \in Calls PROVE [e EXCEPT !.buf = b] \in Calls
  BY DEF Calls
<1>3. QED BY <1>1, <1>2, DoneTyped

LEMMA DoneOkTyped ==
  ASSUME NEW c \in Calls, NEW n \in Nat, NEW k \in BOOLEAN
  PROVE  [c EXCEPT !.done = n, !.ok = k] \in Calls
PROOF
<1>1. [c EXCEPT !.done = n, !.ok = k] =
        [[c EXCEPT !.done = n] EXCEPT !.ok = k]
  BY DEF Calls
<1>2. ASSUME NEW e \in Calls PROVE [e EXCEPT !.ok = k] \in Calls
  BY DEF Calls
<1>3. QED BY <1>1, <1>2, DoneTyped

LEMMA BufferTyped ==
  ASSUME NEW src \in Buffers
  PROVE  src \in Seq(Values) /\ Len(src) \in Nat
PROOF
<1>1. PICK n \in 1 .. MaxCount : src \in [1 .. n -> Values]
  BY DEF Buffers
<1>2. n \in Nat
  BY BlockCacheAssumption
<1>3. QED BY <1>1, <1>2

LEMMA CacheKept ==
  ASSUME Inv, UNCHANGED <<cache, disk, failed>>, call' \in Calls, CallSound'
  PROVE  Inv'
PROOF
<1>. USE DEF Inv, cache
<1>1. TypeOK'
  BY DEF TypeOK
<1>2. OneEntryPerBlock'
  BY DEF OneEntryPerBlock
<1>3. EntriesSound'
  BY DEF EntriesSound
<1>4. QED BY <1>1, <1>2, <1>3

LEMMA BeginInv ==
  ASSUME Inv,
         \/ \E d \in Devices, lba \in 0 .. MaxLba :
              \/ \E n \in 1 .. MaxCount : block_cache_read(d, lba, n)
              \/ \E src \in Buffers : block_cache_write(d, lba, src)
         \/ \E d \in Devices \cup {NoDevice} : block_cache_flush_device(d)
         \/ \E d \in Devices : block_cache_invalidate_device(d)
  PROVE  Inv'
PROOF
<1>. USE BlockCacheAssumption
<1>0. << >> \in Seq(Values) /\ Len(<< >>) = 0
  OBVIOUS
<1>1. CASE \E d \in Devices, lba \in 0 .. MaxLba, n \in 1 .. MaxCount :
              block_cache_read(d, lba, n)
  <2>1. PICK d \in Devices, lba \in 0 .. MaxLba, n \in 1 .. MaxCount :
          block_cache_read(d, lba, n)
    BY <1>1
  <2>2. call' = Call("read", d, lba, << >>, n)
    BY <2>1 DEF block_cache_read
  <2>3. lba \in Nat /\ n \in Nat
    OBVIOUS
  <2>4. call' \in Calls
    BY <1>0, <2>2, <2>3, CallTyped
  <2>5. CallSound'
    BY <1>0, <2>2 DEF CallSound, Call
  <2>6. QED BY <2>1, <2>4, <2>5, CacheKept DEF block_cache_read
<1>2. CASE \E d \in Devices, lba \in 0 .. MaxLba, src \in Buffers :
              block_cache_write(d, lba, src)
  <2>1. PICK d \in Devices, lba \in 0 .. MaxLba, src \in Buffers :
          block_cache_write(d, lba, src)
    BY <1>2
  <2>2. call' = Call("write", d, lba, src, Len(src))
    BY <2>1 DEF block_cache_write
  <2>3. call' \in Calls
    <3>1. src \in Seq(Values) /\ Len(src) \in Nat /\ lba \in Nat
      BY BufferTyped
    <3>2. QED BY <2>2, <3>1, CallTyped
  <2>4. CallSound'
    BY <2>2, BufferTyped DEF CallSound, Call
  <2>5. QED BY <2>1, <2>3, <2>4, CacheKept DEF block_cache_write
<1>3. CASE \E d \in Devices \cup {NoDevice} : block_cache_flush_device(d)
  <2>1. PICK d \in Devices \cup {NoDevice} : block_cache_flush_device(d)
    BY <1>3
  <2>2. call' = Call("flush", d, 0, << >>, Capacity)
    BY <2>1 DEF block_cache_flush_device
  <2>3. call' \in Calls
    BY <1>0, <2>2, CallTyped
  <2>4. valid' \subseteq Slots
    BY <2>1 DEF block_cache_flush_device, cache, Inv, TypeOK
  <2>5. CallSound'
    BY <2>2, <2>4 DEF CallSound, Call, Slots
  <2>6. QED BY <2>1, <2>3, <2>5, CacheKept DEF block_cache_flush_device
<1>4. CASE \E d \in Devices : block_cache_invalidate_device(d)
  <2>1. PICK d \in Devices : block_cache_invalidate_device(d)
    BY <1>4
  <2>2. call' = Call("invalidate", d, 0, << >>, Capacity)
    BY <2>1 DEF block_cache_invalidate_device
  <2>3. call' \in Calls
    BY <1>0, <2>2, CallTyped
  <2>4. CallSound'
    BY <2>2 DEF CallSound, Call
  <2>5. QED BY <2>1, <2>3, <2>4, CacheKept DEF block_cache_invalidate_device
<1>5. QED BY <1>1, <1>2, <1>3, <1>4

LEMMA ReturnInv == ASSUME Inv, Return PROVE Inv'
PROOF
<1>1. call' = idle /\ UNCHANGED <<cache, disk, failed>>
  BY DEF Return
<1>2. CallSound'
  BY <1>1, IdleSound DEF CallSound
<1>3. QED BY <1>1, <1>2, IdleSound, CacheKept

LEMMA PowerLossInv == ASSUME Inv, PowerLoss PROVE Inv'
PROOF
<1>. USE IdleSound DEF PowerLoss
<1>1. TypeOK'
  BY BlockCacheAssumption DEF Inv, TypeOK, Entry, NoEntry
<1>2. OneEntryPerBlock'
  BY DEF OneEntryPerBlock
<1>3. EntriesSound' /\ CallSound'
  BY DEF EntriesSound, CallSound
<1>4. QED BY <1>1, <1>2, <1>3 DEF Inv

-----------------------------------------------------------------------------
(* Reading and writing *)

\* What the guards and the invariant give for the block a call is about to do.
LEMMA LoopFacts ==
  ASSUME Inv, Looping("read") \/ Looping("write")
  PROVE  /\ call \in Calls /\ call.dev \in Devices /\ Block \in Nat
         /\ call.done \in Nat /\ call.count \in Nat /\ call.done < call.count
         /\ call.buf \in Seq(Values)
         /\ call.op = "write" => call.buf[call.done + 1] \in Values
PROOF
<1>1. call \in Calls /\ call.dev \in Devices
  BY DEF Inv, TypeOK, CallSound, Looping
<1>2. /\ call.done \in Nat /\ call.count \in Nat /\ call.lba \in Nat
      /\ call.buf \in Seq(Values)
  BY <1>1 DEF Calls
<1>3. call.op = "write" => call.done + 1 \in 1 .. Len(call.buf)
  BY <1>2 DEF Inv, CallSound, Looping
<1>4. call.op = "write" => call.buf[call.done + 1] \in Values
  BY <1>2, <1>3
<1>5. QED BY <1>1, <1>2, <1>4 DEF Block, Looping

LEMMA BlockReadSound ==
  ASSUME Inv, Looping("read"), NEW v \in Values, BlockRead(v)
  PROVE  call' \in Calls /\ CallSound'
PROOF
<1>1. /\ call \in Calls /\ call.dev \in Devices
      /\ call.done \in Nat /\ call.count \in Nat /\ call.done < call.count
      /\ call.buf \in Seq(Values)
  BY LoopFacts
<1>. DEFINE buf == Append(call.buf, v)
<1>2. buf \in Seq(Values) /\ Len(buf) = Len(call.buf) + 1
  BY <1>1
<1>3. call' = [call EXCEPT !.done = call.done + 1, !.buf = buf]
  BY DEF BlockRead
<1>. HIDE DEF buf
<1>4. call' \in Calls
  <2>1. call.done + 1 \in Nat
    BY <1>1
  <2>2. QED BY Zenon, <1>1, <1>2, <1>3, <2>1, DoneBufTyped
<1>5. /\ call'.op = "read" /\ call'.dev = call.dev /\ call'.count = call.count
      /\ call'.done = call.done + 1 /\ call'.buf = buf
  BY <1>1, <1>3 DEF Calls, Looping
<1>6. Len(call.buf) = call.done
  BY DEF Inv, CallSound, Looping
<1>7. QED BY <1>1, <1>2, <1>4, <1>5, <1>6 DEF CallSound

LEMMA BlockWrittenSound ==
  ASSUME Inv, Looping("write"), BlockWritten
  PROVE  call' \in Calls /\ CallSound'
PROOF
<1>1. /\ call \in Calls /\ call.dev \in Devices
      /\ call.done \in Nat /\ call.count \in Nat /\ call.done < call.count
  BY LoopFacts
<1>2. call' = [call EXCEPT !.done = call.done + 1]
  BY DEF BlockWritten
<1>3. call' \in Calls
  BY <1>1, <1>2 DEF Calls
<1>4. /\ call'.op = "write" /\ call'.dev = call.dev /\ call'.count = call.count
      /\ call'.done = call.done + 1 /\ call'.buf = call.buf
      /\ call'.ok = call.ok
  BY <1>1, <1>2 DEF Calls, Looping
<1>5. Len(call.buf) = call.count /\ call.ok
  BY DEF Inv, CallSound, Looping
<1>6. QED BY <1>1, <1>3, <1>4, <1>5 DEF CallSound

LEMMA HitFacts ==
  ASSUME Inv, NEW s \in Hits
  PROVE  s \in valid /\ entry[s].dev = call.dev /\ entry[s].lba = Block
  BY DEF Hits, cache_lookup_locked

LEMMA ReadHitInv == ASSUME Inv, NEW s \in Slots, ReadHit(s) PROVE Inv'
PROOF
<1>. USE DEF ReadHit
<1>1. s \in valid /\ entry[s].data \in Values
  BY HitFacts DEF Inv, EntriesSound
<1>2. call' \in Calls /\ CallSound'
  BY <1>1, BlockReadSound
<1>3. /\ pos' \in [Slots -> Slots]
      /\ \A t, u \in Slots : pos'[t] = pos'[u] => t = u
  BY TouchKeepsList DEF Inv
<1>4. TypeOK' /\ OneEntryPerBlock'
  BY <1>2, <1>3 DEF Inv, TypeOK, OneEntryPerBlock
<1>5. EntriesSound'
  BY DEF Inv, EntriesSound
<1>6. QED BY <1>2, <1>4, <1>5 DEF Inv

LEMMA WriteHitInv == ASSUME Inv, NEW s \in Slots, WriteHit(s) PROVE Inv'
PROOF
<1>. USE DEF WriteHit
<1>1. s \in valid
  BY HitFacts
<1>2. call' \in Calls /\ CallSound'
  BY BlockWrittenSound
<1>3. /\ pos' \in [Slots -> Slots]
      /\ \A t, u \in Slots : pos'[t] = pos'[u] => t = u
  BY TouchKeepsList DEF Inv
<1>4. call.buf[call.done + 1] \in Values
  BY LoopFacts DEF Looping
<1>5. /\ entry' \in [Slots -> Entry]
      /\ \A t \in Slots : /\ entry'[t].dev = entry[t].dev
                          /\ entry'[t].lba = entry[t].lba
                          /\ t # s => entry'[t] = entry[t]
      /\ entry'[s].data \in Values
  BY <1>4 DEF Inv, TypeOK, Entry
<1>6. TypeOK'
  BY <1>1, <1>2, <1>3, <1>5 DEF Inv, TypeOK
<1>7. OneEntryPerBlock'
  BY <1>3, <1>5 DEF Inv, TypeOK, OneEntryPerBlock
<1>8. EntriesSound'
  BY <1>1, <1>5 DEF Inv, TypeOK, EntriesSound
<1>9. QED BY <1>2, <1>6, <1>7, <1>8 DEF Inv

-----------------------------------------------------------------------------
(* Writing back *)

LEMMA DisjointBlocks ==
  ASSUME NEW d \in Devices, NEW e \in Devices, NEW a \in Nat, NEW b \in Nat,
         InBounds(d, a), InBounds(e, b), Location(d, a) = Location(e, b)
  PROVE  d = e /\ a = b
  BY BlockCacheAssumption DEF InBounds, Location

LEMMA EntryFacts ==
  ASSUME Inv, NEW s \in valid
  PROVE  /\ s \in Slots /\ entry[s].dev \in Devices /\ entry[s].lba \in Nat
         /\ entry[s].data \in Values
  BY DEF Inv, TypeOK, EntriesSound, Entry

\* The disk changes at most where the entry belongs, to what it holds; and
\* the clean entries still agree with it.
LEMMA WriteBackFacts ==
  ASSUME Inv, NEW s \in valid, NEW accepted \in BOOLEAN,
         cache_flush_entry_locked(s, accepted)
  PROVE  /\ disk' \in [Locations -> Values] /\ failed' \in BOOLEAN
         /\ \A t \in valid \ dirty :
              entry[t].data = disk'[Location(entry[t].dev, entry[t].lba)]
         /\ accepted =>
              /\ InBounds(entry[s].dev, entry[s].lba)
              /\ entry[s].data = disk'[Location(entry[s].dev, entry[s].lba)]
              /\ failed' = failed
         /\ ~accepted => failed' /\ disk' = disk /\ s \in dirty
         /\ \A l \in Locations :
              disk'[l] # disk[l] => /\ l = Location(entry[s].dev, entry[s].lba)
                                    /\ s \in Caching(l)
PROOF
<1>. DEFINE loc == Location(entry[s].dev, entry[s].lba)
<1>1. /\ entry[s].dev \in Devices /\ entry[s].lba \in Nat
      /\ entry[s].data \in Values
  BY EntryFacts
<1>2. disk \in [Locations -> Values] /\ failed \in BOOLEAN
  BY DEF Inv, TypeOK
<1>3. s \notin dirty => /\ InBounds(entry[s].dev, entry[s].lba)
                        /\ entry[s].data = disk[loc]
  BY DEF Inv, EntriesSound
<1>4. CASE s \in dirty /\ accepted
  <2>1. /\ InBounds(entry[s].dev, entry[s].lba)
        /\ disk' = [disk EXCEPT ![loc] = entry[s].data]
        /\ failed' = failed
    BY <1>4 DEF cache_flush_entry_locked
  <2>2. loc \in Locations
    BY <1>1, <2>1, LocationOnDisk
  <2>3. /\ disk'[loc] = entry[s].data
        /\ \A l \in Locations : l # loc => disk'[l] = disk[l]
        /\ disk' \in [Locations -> Values]
    BY <1>1, <1>2, <2>1, <2>2
  <2>4. ASSUME NEW t \in valid \ dirty
        PROVE  entry[t].data = disk'[Location(entry[t].dev, entry[t].lba)]
    <3>1. /\ entry[t].dev \in Devices /\ entry[t].lba \in Nat
          /\ InBounds(entry[t].dev, entry[t].lba)
          /\ entry[t].data = disk[Location(entry[t].dev, entry[t].lba)]
      BY EntryFacts DEF Inv, EntriesSound
    <3>2. Location(entry[t].dev, entry[t].lba) \in Locations
      BY <3>1, LocationOnDisk
    <3>3. Location(entry[t].dev, entry[t].lba) # loc
      <4>1. SUFFICES ASSUME Location(entry[t].dev, entry[t].lba) = loc
                     PROVE  FALSE
        OBVIOUS
      <4>2. entry[t].dev = entry[s].dev /\ entry[t].lba = entry[s].lba
        BY <1>1, <2>1, <3>1, <4>1, DisjointBlocks
      <4>3. t = s
        BY <4>2 DEF Inv, OneEntryPerBlock
      <4>4. QED BY <1>4, <4>3
    <3>4. QED BY <2>3, <3>1, <3>2, <3>3
  <2>5. s \in Caching(loc)
    BY <1>1, <2>1 DEF Caching
  <2>6. QED BY <1>2, <1>4, <2>1, <2>3, <2>4, <2>5
<1>5. CASE s \in dirty /\ ~accepted
  <2>1. failed' = TRUE /\ disk' = disk
    BY <1>5 DEF cache_flush_entry_locked
  <2>2. QED BY <1>2, <1>5, <2>1 DEF Inv, EntriesSound
<1>6. CASE s \notin dirty
  <2>1. accepted /\ failed' = failed /\ disk' = disk
    BY <1>6 DEF cache_flush_entry_locked
  <2>2. QED BY <1>2, <1>3, <1>6, <2>1 DEF Inv, EntriesSound
<1>7. QED BY <1>4, <1>5, <1>6

LEMMA EvictInv ==
  ASSUME Inv, NEW s \in Slots, NEW accepted \in BOOLEAN, Evict(s, accepted)
  PROVE  Inv'
PROOF
<1>. USE DEF Evict
<1>1. s \in valid
  OBVIOUS
<1>2. /\ disk' \in [Locations -> Values] /\ failed' \in BOOLEAN
      /\ \A t \in valid \ dirty :
           entry[t].data = disk'[Location(entry[t].dev, entry[t].lba)]
  BY <1>1, WriteBackFacts
<1>3. TypeOK'
  BY <1>2 DEF Inv, TypeOK
<1>4. OneEntryPerBlock'
  BY DEF Inv, OneEntryPerBlock
<1>5. EntriesSound'
  BY <1>2 DEF Inv, EntriesSound
<1>6. CallSound'
  BY DEF Inv, CallSound, Missing, Looping
<1>7. QED BY <1>3, <1>4, <1>5, <1>6 DEF Inv

LEMMA FlushSlotInv ==
  ASSUME Inv, NEW accepted \in BOOLEAN, FlushSlot(accepted)
  PROVE  Inv'
PROOF
<1>. USE DEF FlushSlot
<1>1. /\ call \in Calls /\ call.done \in Nat /\ call.count = Capacity
      /\ call.done < Capacity /\ Slot \in Slots
  BY BlockCacheAssumption DEF Inv, TypeOK, Calls, CallSound, Slot, Slots
<1>2. call' = [call EXCEPT !.done = call.done + 1, !.ok = call.ok /\ accepted]
  BY DEF AllOk
<1>3. call.ok \in BOOLEAN /\ call.op = "flush"
  BY <1>1 DEF Calls
<1>4. /\ call' \in Calls /\ call'.op = "flush" /\ call'.dev = call.dev
      /\ call'.count = Capacity /\ call'.done = call.done + 1
      /\ call'.ok = (call.ok /\ accepted)
  <2>. DEFINE k == call.ok /\ accepted
  <2>1. k \in BOOLEAN /\ call.done + 1 \in Nat
    BY <1>1, <1>3
  <2>2. call' = [call EXCEPT !.done = call.done + 1, !.ok = k]
    BY <1>2
  <2>. HIDE DEF k, FlushSlot
  <2>3. call' \in Calls
    BY <1>1, <2>1, <2>2, DoneOkTyped, Zenon
  <2>4. /\ call'.op = "flush" /\ call'.dev = call.dev
        /\ call'.count = Capacity /\ call'.done = call.done + 1
        /\ call'.ok = k
    BY <1>1, <1>3, <2>2 DEF Calls
  <2>5. QED BY <2>3, <2>4 DEF k
<1>5. /\ disk' \in [Locations -> Values] /\ failed' \in BOOLEAN
      /\ dirty' \subseteq dirty
      /\ \A t \in valid \ dirty' :
           /\ InBounds(entry[t].dev, entry[t].lba)
           /\ entry[t].data = disk'[Location(entry[t].dev, entry[t].lba)]
      /\ Concerned /\ accepted => Slot \notin dirty'
  <2>1. CASE Concerned
    <3>1. Slot \in valid /\ cache_flush_entry_locked(Slot, accepted)
      BY <2>1 DEF Concerned
    <3>2. QED BY <2>1, <3>1, WriteBackFacts DEF Inv, EntriesSound
  <2>2. CASE ~Concerned
    BY <2>2 DEF Inv, TypeOK, EntriesSound
  <2>3. QED BY <2>1, <2>2
<1>6. TypeOK'
  BY <1>4, <1>5 DEF Inv, TypeOK
<1>7. OneEntryPerBlock'
  BY DEF Inv, OneEntryPerBlock
<1>8. EntriesSound'
  BY <1>5 DEF Inv, EntriesSound
<1>9. CallSound'
  <2>1. ASSUME call'.ok, NEW s \in valid \cap dirty',
               call.dev \in {NoDevice, entry[s].dev}
        PROVE  s > call.done + 1
    <3>1. s \in Slots /\ s \in dirty /\ call.ok /\ accepted
      BY <1>3, <1>4, <1>5, <2>1 DEF Inv, TypeOK
    <3>2. s > call.done
      BY <1>3, <2>1, <3>1 DEF Inv, CallSound
    <3>3. s # Slot
      BY <1>5, <2>1, <3>1 DEF Concerned
    <3>4. QED BY <1>1, <3>1, <3>2, <3>3 DEF Slot, Slots
  <2>2. QED BY <1>1, <1>4, <2>1, BlockCacheAssumption DEF CallSound
<1>10. QED BY <1>6, <1>7, <1>8, <1>9 DEF Inv

LEMMA InvalidateSlotInv ==
  ASSUME Inv, NEW accepted \in BOOLEAN, InvalidateSlot(accepted)
  PROVE  Inv'
PROOF
<1>. USE DEF InvalidateSlot, Looping
<1>1. /\ call \in Calls /\ call.done \in Nat /\ call.count = Capacity
      /\ call.done < Capacity /\ Slot \in Slots
  BY BlockCacheAssumption DEF Inv, TypeOK, Calls, CallSound, Slot, Slots
<1>2. /\ call' \in Calls /\ call'.op = "invalidate" /\ call'.dev = call.dev
      /\ call'.count = Capacity /\ call'.done = call.done + 1
      /\ call'.ok = call.ok
  <2>1. call' = [call EXCEPT !.done = call.done + 1]
    OBVIOUS
  <2>2. call' \in Calls
    BY <1>1, <2>1, DoneTyped
  <2>3. QED BY <1>1, <2>1, <2>2 DEF Calls
<1>3. CallSound'
  BY <1>1, <1>2, BlockCacheAssumption DEF Inv, CallSound
<1>4. CASE Concerned
  <2>1. Slot \in valid /\ cache_flush_entry_locked(Slot, accepted)
    BY <1>4 DEF Concerned
  <2>2. /\ disk' \in [Locations -> Values] /\ failed' \in BOOLEAN
        /\ \A t \in valid \ dirty :
             entry[t].data = disk'[Location(entry[t].dev, entry[t].lba)]
    BY <2>1, WriteBackFacts
  <2>3. /\ entry' \in [Slots -> Entry]
        /\ \A t \in Slots : t # Slot => entry'[t] = entry[t]
    BY <1>1, <1>4 DEF Inv, TypeOK, Entry
  <2>4. TypeOK'
    BY <1>2, <1>4, <2>2, <2>3 DEF Inv, TypeOK
  <2>5. OneEntryPerBlock'
    <3>1. valid' \subseteq valid /\ Slot \notin valid' /\ hashed' = valid'
      BY <1>4 DEF Inv, OneEntryPerBlock
    <3>2. \A t \in valid' : entry'[t] = entry[t]
      BY <2>3, <3>1 DEF Inv, TypeOK
    <3>3. \A u, v \in valid' : entry'[u].dev = entry'[v].dev
                               /\ entry'[u].lba = entry'[v].lba => u = v
      BY <3>1, <3>2 DEF Inv, OneEntryPerBlock
    <3>4. QED BY <3>1, <3>3 DEF Inv, OneEntryPerBlock
  <2>6. EntriesSound'
    BY <1>4, <2>2, <2>3 DEF Inv, TypeOK, EntriesSound
  <2>7. QED BY <1>3, <2>4, <2>5, <2>6 DEF Inv
<1>5. CASE ~Concerned
  BY <1>2, <1>3, <1>5, CacheKept DEF cache
<1>6. QED BY <1>4, <1>5

-----------------------------------------------------------------------------
(* Filling a slot *)

\* The slot given to a block that no valid entry holds.
LEMMA AllocateFacts ==
  ASSUME Inv, Missing, NEW s \in Slots, FreeSlot(s), NEW v \in Values,
         cache_allocate_slot_locked(s, v)
  PROVE  /\ entry' \in [Slots -> Entry]
         /\ entry'[s] = [dev |-> call.dev, lba |-> Block, data |-> v]
         /\ \A t \in Slots : t # s => entry'[t] = entry[t]
         /\ pos' \in [Slots -> Slots]
         /\ OneEntryPerBlock'
PROOF
<1>1. call.dev \in Devices /\ Block \in Nat
  BY LoopFacts DEF Missing
<1>2. entry \in [Slots -> Entry] /\ valid \subseteq Slots
  BY DEF Inv, TypeOK
<1>3. [dev |-> call.dev, lba |-> Block, data |-> v] \in Entry
  BY <1>1 DEF Entry
<1>4. /\ entry' \in [Slots -> Entry]
      /\ entry'[s] = [dev |-> call.dev, lba |-> Block, data |-> v]
      /\ \A t \in Slots : t # s => entry'[t] = entry[t]
  BY <1>2, <1>3 DEF cache_allocate_slot_locked
<1>5. /\ pos' \in [Slots -> Slots]
      /\ \A t, u \in Slots : pos'[t] = pos'[u] => t = u
  BY TouchKeepsList DEF Inv, cache_allocate_slot_locked
<1>6. hashed' = valid' /\ valid' = valid \cup {s}
  BY DEF Inv, OneEntryPerBlock, cache_allocate_slot_locked
<1>7. \A t \in valid : ~(entry[t].dev = call.dev /\ entry[t].lba = Block)
  BY DEF Missing, Hits, cache_lookup_locked, Inv, OneEntryPerBlock
<1>8. ASSUME NEW t \in valid', NEW u \in valid',
             entry'[t].dev = entry'[u].dev, entry'[t].lba = entry'[u].lba
      PROVE  t = u
  <2>1. entry'[s].dev = call.dev /\ entry'[s].lba = Block
    BY <1>4
  <2>2. CASE t = s \/ u = s
    BY <1>2, <1>4, <1>6, <1>7, <1>8, <2>1, <2>2
  <2>3. CASE t # s /\ u # s
    BY <1>2, <1>4, <1>6, <1>8, <2>3 DEF Inv, OneEntryPerBlock
  <2>4. QED BY <2>2, <2>3
<1>9. OneEntryPerBlock'
  BY <1>5, <1>6, <1>8 DEF OneEntryPerBlock
<1>10. QED BY <1>4, <1>5, <1>9

LEMMA WriteMissInv == ASSUME Inv, NEW s \in Slots, WriteMiss(s) PROVE Inv'
PROOF
<1>. USE DEF WriteMiss
<1>1. call' \in Calls /\ CallSound'
  BY BlockWrittenSound
<1>2. call.buf[call.done + 1] \in Values /\ call.dev \in Devices
  BY LoopFacts DEF Looping
<1>3. /\ entry' \in [Slots -> Entry]
      /\ entry'[s] = [dev |-> call.dev, lba |-> Block,
                      data |-> call.buf[call.done + 1]]
      /\ \A t \in Slots : t # s => entry'[t] = entry[t]
      /\ pos' \in [Slots -> Slots]
      /\ OneEntryPerBlock'
  BY <1>2, AllocateFacts
<1>4. /\ valid' = valid \cup {s} /\ hashed' = hashed \cup {s}
      /\ dirty' = dirty \cup {s}
  BY DEF cache_allocate_slot_locked
<1>5. TypeOK'
  BY <1>1, <1>3, <1>4 DEF Inv, TypeOK
<1>6. entry'[s].dev \in Devices /\ entry'[s].data \in Values
  BY <1>2, <1>3
<1>7. EntriesSound'
  BY <1>3, <1>4, <1>6 DEF Inv, TypeOK, EntriesSound
<1>8. QED BY <1>1, <1>3, <1>5, <1>7 DEF Inv

LEMMA ReadMissInv == ASSUME Inv, NEW s \in Slots, ReadMiss(s) PROVE Inv'
PROOF
<1>. DEFINE v == disk[Location(call.dev, Block)]
<1>. USE DEF ReadMiss
<1>1. call.dev \in Devices /\ Block \in Nat
  BY LoopFacts DEF Looping
<1>2. v \in Values
  BY <1>1, LocationOnDisk DEF Inv, TypeOK
<1>3. call' \in Calls /\ CallSound'
  BY <1>2, BlockReadSound
<1>4. /\ entry' \in [Slots -> Entry]
      /\ entry'[s] = [dev |-> call.dev, lba |-> Block, data |-> v]
      /\ \A t \in Slots : t # s => entry'[t] = entry[t]
      /\ pos' \in [Slots -> Slots]
      /\ OneEntryPerBlock'
  BY <1>2, AllocateFacts
<1>5. /\ valid' = valid \cup {s} /\ hashed' = hashed \cup {s}
      /\ dirty' = dirty /\ disk' = disk
  BY DEF cache_allocate_slot_locked
<1>6. TypeOK'
  BY <1>3, <1>4, <1>5 DEF Inv, TypeOK
<1>7. /\ entry'[s].dev = call.dev /\ entry'[s].lba = Block
      /\ entry'[s].data = disk'[Location(call.dev, Block)]
  BY <1>4, <1>5
<1>8. EntriesSound'
  BY <1>1, <1>2, <1>4, <1>5, <1>7 DEF Inv, TypeOK, EntriesSound
<1>9. QED BY <1>3, <1>4, <1>6, <1>8 DEF Inv

LEMMA ReadFailsInv == ASSUME Inv, NEW s \in Slots, ReadFails(s) PROVE Inv'
PROOF
<1>. USE DEF ReadFails
<1>1. call \in Calls /\ call.dev \in Devices /\ Block \in Nat
  BY LoopFacts DEF Looping
<1>2. call' \in Calls
  BY <1>1 DEF Calls
<1>3. CallSound'
  BY <1>1, <1>2 DEF Inv, CallSound, Looping, Calls
<1>4. /\ pos' \in [Slots -> Slots]
      /\ \A t, u \in Slots : pos'[t] = pos'[u] => t = u
  BY TouchKeepsList DEF Inv
<1>5. /\ entry' \in [Slots -> Entry]
      /\ \A t \in valid : entry'[t] = entry[t]
  BY <1>1 DEF Inv, TypeOK, Entry, FreeSlot
<1>6. TypeOK'
  BY <1>2, <1>4, <1>5 DEF Inv, TypeOK
<1>7. OneEntryPerBlock'
  <2>1. valid' = valid /\ hashed' = hashed
    OBVIOUS
  <2>. HIDE DEF ReadFails
  <2>2. \A t, u \in valid' : entry'[t].dev = entry'[u].dev
                             /\ entry'[t].lba = entry'[u].lba => t = u
    BY <1>5, <2>1 DEF Inv, OneEntryPerBlock
  <2>3. QED BY <1>4, <2>1, <2>2 DEF Inv, OneEntryPerBlock
<1>8. EntriesSound'
  BY <1>5 DEF Inv, EntriesSound
<1>9. QED BY <1>3, <1>6, <1>7, <1>8 DEF Inv

-----------------------------------------------------------------------------
(* The invariant *)

LEMMA NextInv == Inv /\ [Next]_vars => Inv'
PROOF
<1>. SUFFICES ASSUME Inv, [Next]_vars PROVE Inv'
  OBVIOUS
<1>1. CASE UNCHANGED vars
  <2>1. UNCHANGED <<cache, disk, failed>> /\ call' = call
    BY <1>1 DEF vars, cache
  <2>2. call' \in Calls /\ CallSound'
    BY <2>1 DEF Inv, TypeOK, CallSound, cache
  <2>3. QED BY <2>1, <2>2, CacheKept
<1>2. CASE Next
  BY <1>2, BeginInv, ReadHitInv, ReadMissInv, ReadFailsInv, WriteHitInv,
     WriteMissInv, EvictInv, FlushSlotInv, InvalidateSlotInv, ReturnInv,
     PowerLossInv, Zenon DEF Next
<1>3. QED BY <1>1, <1>2

\* The inductive invariant holds throughout: the entries of block_cache.c are
\* sound and the call in progress is where its loops say.
THEOREM CacheInvariant == Spec => []Inv
  BY InitInv, NextInv, PTL DEF Spec

-----------------------------------------------------------------------------
(* What readers see *)

LEMMA CachedOnce ==
  ASSUME Inv, NEW l \in Locations, NEW s \in Caching(l), NEW t \in Caching(l)
  PROVE  s = t
PROOF
<1>1. /\ s \in valid /\ t \in valid
      /\ InBounds(entry[s].dev, entry[s].lba)
      /\ InBounds(entry[t].dev, entry[t].lba)
      /\ Location(entry[s].dev, entry[s].lba)
           = Location(entry[t].dev, entry[t].lba)
  BY DEF Caching
<1>2. /\ entry[s].dev \in Devices /\ entry[s].lba \in Nat
      /\ entry[t].dev \in Devices /\ entry[t].lba \in Nat
  BY <1>1, EntryFacts
<1>3. entry[s].dev = entry[t].dev /\ entry[s].lba = entry[t].lba
  BY <1>1, <1>2, DisjointBlocks
<1>4. QED BY <1>1, <1>3 DEF Inv, OneEntryPerBlock

\* What View is, without its CHOOSE.
ViewShown ==
  \A l \in Locations : /\ \A s \in Caching(l) : View[l] = entry[s].data
                       /\ Caching(l) = {} => View[l] = disk[l]

LEMMA ViewAt == Inv => ViewShown
PROOF
<1>. SUFFICES ASSUME Inv, NEW l \in Locations
              PROVE /\ \A s \in Caching(l) : View[l] = entry[s].data
                    /\ Caching(l) = {} => View[l] = disk[l]
  BY DEF ViewShown
<1>1. View[l] = IF Caching(l) = {} THEN disk[l]
                ELSE entry[CHOOSE s \in Caching(l) : TRUE].data
  BY DEF View
<1>2. \A s, t \in Caching(l) : s = t
  BY CachedOnce
<1>3. QED BY <1>1, <1>2

LEMMA ViewAtNext ==
  Inv' => \A l \in Locations :
             /\ \A s \in Caching(l)' : View'[l] = entry'[s].data
             /\ Caching(l)' = {} => View'[l] = disk'[l]
PROOF
<1>1. Inv' => ViewShown'
  BY ViewAt, PTL
<1>2. QED BY <1>1 DEF ViewShown

LEMMA Uncached ==
  ASSUME Inv, NEW l \in Locations,
         \A s \in Caching(l) : s \notin dirty
  PROVE  View[l] = disk[l]
PROOF
<1>1. CASE Caching(l) = {}
  BY <1>1, ViewAt DEF ViewShown
<1>2. ASSUME NEW s \in Caching(l) PROVE View[l] = disk[l]
  <2>1. s \in valid \ dirty /\ Location(entry[s].dev, entry[s].lba) = l
    BY DEF Caching
  <2>2. entry[s].data = disk[l]
    BY <2>1 DEF Inv, EntriesSound
  <2>3. QED BY <2>2, ViewAt DEF ViewShown
<1>3. QED BY <1>1, <1>2

LEMMA FlushedClean == Inv => FlushReachesDisk
PROOF
<1>. SUFFICES ASSUME Inv, call.op = "flush", call.done = call.count, call.ok,
                     NEW d \in Devices, NEW l \in Locations,
                     call.dev \in {NoDevice, d}, OnDevice(d, l)
              PROVE  disk[l] = View[l]
  BY DEF FlushReachesDisk
<1>1. ASSUME NEW s \in Caching(l) PROVE s \notin dirty
  <2>1. /\ s \in valid /\ InBounds(entry[s].dev, entry[s].lba)
        /\ Location(entry[s].dev, entry[s].lba) = l
    BY DEF Caching
  <2>2. /\ entry[s].dev \in Devices /\ entry[s].lba \in Nat /\ s \in Slots
    BY <2>1, EntryFacts
  <2>3. l \in Nat /\ Start[d] \in Nat /\ l - Start[d] \in Nat
    BY BlockCacheAssumption DEF Locations, OnDevice
  <2>4. InBounds(d, l - Start[d]) /\ Location(d, l - Start[d]) = l
    BY <2>3, BlockCacheAssumption DEF InBounds, Location, OnDevice
  <2>5. entry[s].dev = d
    BY <2>1, <2>2, <2>3, <2>4, DisjointBlocks
  <2>6. s \in dirty => s > Capacity
    BY <2>1, <2>5 DEF Inv, CallSound
  <2>7. QED BY <2>2, <2>6, BlockCacheAssumption DEF Slots
<1>2. QED BY <1>1, Uncached

\* Giving up a slot: nothing is seen of it, unless the device refuses.
LEMMA DropView ==
  ASSUME Inv, Inv', NEW s \in valid, NEW accepted \in BOOLEAN,
         cache_flush_entry_locked(s, accepted),
         valid' = valid \ {s}, \A t \in valid' : entry'[t] = entry[t]
  PROVE  \A l \in Locations :
           View'[l] = IF s \in Caching(l) /\ ~accepted THEN disk[l] ELSE View[l]
PROOF
<1>. SUFFICES ASSUME NEW l \in Locations
              PROVE  View'[l] = IF s \in Caching(l) /\ ~accepted
                                THEN disk[l] ELSE View[l]
  OBVIOUS
<1>1. Caching(l)' = Caching(l) \ {s}
  BY DEF Caching, InBounds, Location
<1>2. /\ accepted => entry[s].data = disk'[Location(entry[s].dev, entry[s].lba)]
      /\ ~accepted => disk' = disk
      /\ disk'[l] # disk[l] => s \in Caching(l)
  BY WriteBackFacts
<1>3. CASE s \in Caching(l)
  <2>1. Caching(l)' = {}
    BY <1>1, <1>3, CachedOnce
  <2>2. View'[l] = disk'[l] /\ View[l] = entry[s].data
    BY <1>3, <2>1, ViewAt, ViewAtNext DEF ViewShown
  <2>3. Location(entry[s].dev, entry[s].lba) = l
    BY <1>3 DEF Caching
  <2>4. QED BY <1>2, <1>3, <2>2, <2>3
<1>4. CASE s \notin Caching(l)
  <2>1. Caching(l)' = Caching(l)
    BY <1>1, <1>4
  <2>2. ASSUME NEW t \in Caching(l) PROVE View'[l] = View[l]
    <3>1. t \in valid'
      BY <1>4 DEF Caching
    <3>2. View'[l] = entry'[t].data /\ View[l] = entry[t].data
      BY <2>1, ViewAt, ViewAtNext DEF ViewShown
    <3>3. QED BY <3>1, <3>2
  <2>3. ASSUME Caching(l) = {} PROVE View'[l] = View[l]
    BY <1>2, <1>4, <2>1, <2>3, ViewAt, ViewAtNext DEF ViewShown
  <2>4. QED BY <1>4, <2>2, <2>3
<1>5. QED BY <1>3, <1>4

\* Filling a slot, or overwriting it: its block alone is seen to change.
LEMMA FillView ==
  ASSUME Inv, Inv', NEW s \in Slots, NEW d \in Devices, NEW b \in Nat, NEW v,
         valid' = valid \cup {s}, disk' = disk,
         entry'[s].dev = d, entry'[s].lba = b, entry'[s].data = v,
         s \in valid => entry[s].dev = d /\ entry[s].lba = b,
         \A t \in valid \ {s} : entry'[t] = entry[t]
  PROVE  \A l \in Locations :
           View'[l] = IF InBounds(d, b) /\ l = Location(d, b) THEN v ELSE View[l]
PROOF
<1>. SUFFICES ASSUME NEW l \in Locations
              PROVE  View'[l] = IF InBounds(d, b) /\ l = Location(d, b)
                                THEN v ELSE View[l]
  OBVIOUS
<1>1. CASE InBounds(d, b) /\ l = Location(d, b)
  <2>1. s \in Caching(l)'
    BY <1>1 DEF Caching, InBounds, Location
  <2>2. QED BY <1>1, <2>1, ViewAtNext
<1>2. CASE ~(InBounds(d, b) /\ l = Location(d, b))
  <2>1. s \notin Caching(l)' /\ s \notin Caching(l)
    BY <1>2 DEF Caching, InBounds, Location
  <2>2. Caching(l)' = Caching(l)
    BY <2>1 DEF Caching, InBounds, Location
  <2>3. ASSUME NEW t \in Caching(l) PROVE View'[l] = View[l]
    <3>1. t \in valid \ {s}
      BY <2>1 DEF Caching
    <3>2. View'[l] = entry'[t].data /\ View[l] = entry[t].data
      BY <2>2, ViewAt, ViewAtNext DEF ViewShown
    <3>3. QED BY <3>1, <3>2
  <2>4. ASSUME Caching(l) = {} PROVE View'[l] = View[l]
    BY <2>2, <2>4, ViewAt, ViewAtNext DEF ViewShown
  <2>5. QED BY <1>2, <2>3, <2>4
<1>3. QED BY <1>1, <1>2

-----------------------------------------------------------------------------
(* The cache implements CachedDisk *)

Seen == <<View, disk, Writing, failed>>
Implements == Cached!Next \/ UNCHANGED Seen

LEMMA ViewKept ==
  ASSUME UNCHANGED <<entry, valid, disk>> PROVE View' = View
  BY DEF View, Caching, InBounds, Location

LEMMA ViewFunction == View = [l \in Locations |-> View[l]]
  BY DEF View

LEMMA SameView ==
  ASSUME \A l \in Locations : View'[l] = View[l] PROVE View' = View
PROOF
<1>1. View' = [l \in Locations |-> View'[l]] /\ View = [l \in Locations |-> View[l]]
  BY DEF View
<1>2. QED BY <1>1

LEMMA ViewUpdated ==
  ASSUME NEW k \in Locations, NEW v,
         \A l \in Locations : View'[l] = IF l = k THEN v ELSE View[l]
  PROVE  View' = [View EXCEPT ![k] = v]
PROOF
<1>1. View' = [l \in Locations |-> View'[l]] /\ View = [l \in Locations |-> View[l]]
  BY DEF View
<1>2. QED BY <1>1

LEMMA NotWriting ==
  ASSUME call.op # "write" PROVE Writing = {}
  BY DEF Writing

LEMMA WritingStep ==
  ASSUME Inv, Looping("write"), BlockWritten
  PROVE  LET w == <<Location(call.dev, Block), call.buf[call.done + 1]>>
         IN  IF InBounds(call.dev, Block)
             THEN w \in Writing /\ Writing' = Writing \ {w}
             ELSE Writing' = Writing
PROOF
<1>. DEFINE W(i) == <<Location(call.dev, call.lba + i), call.buf[i + 1]>>
            In(i) == InBounds(call.dev, call.lba + i)
<1>1. /\ call \in Calls /\ call.dev \in Devices /\ call.lba \in Nat
      /\ call.done \in Nat /\ call.count \in Nat /\ call.done < call.count
  BY LoopFacts DEF Calls
<1>2. /\ call'.op = "write" /\ call'.dev = call.dev /\ call'.count = call.count
      /\ call'.done = call.done + 1 /\ call'.buf = call.buf
      /\ call'.lba = call.lba
  BY <1>1 DEF BlockWritten, Calls, Looping
<1>3. Writing = {W(i) : i \in {j \in call.done .. call.count - 1 : In(j)}}
  BY DEF Writing, Looping
<1>4. Writing' = {W(i) : i \in {j \in call.done + 1 .. call.count - 1 : In(j)}}
  BY <1>2 DEF Writing, Location, InBounds
<1>5. \A i, j \in Nat : W(i) = W(j) => i = j
  BY <1>1, BlockCacheAssumption DEF Location
<1>6. \A i \in call.done .. call.count - 1 :
        i = call.done \/ i \in call.done + 1 .. call.count - 1
  BY <1>1
<1>7. \A i \in call.done + 1 .. call.count - 1 :
        i # call.done /\ i \in call.done .. call.count - 1 /\ i \in Nat
  BY <1>1
<1>8. call.done \in call.done .. call.count - 1
  BY <1>1
<1>9. <<Location(call.dev, Block), call.buf[call.done + 1]>> = W(call.done)
      /\ InBounds(call.dev, Block) = In(call.done)
  BY DEF Block
<1>. HIDE DEF W, In
<1>10. CASE In(call.done)
  <2>1. W(call.done) \in Writing
    BY <1>3, <1>8, <1>10
  <2>2. Writing' = Writing \ {W(call.done)}
    BY <1>1, <1>3, <1>4, <1>5, <1>6, <1>7
  <2>3. QED BY <1>9, <1>10, <2>1, <2>2
<1>11. CASE ~In(call.done)
  <2>1. Writing' = Writing
    BY <1>3, <1>4, <1>6, <1>7, <1>11
  <2>2. QED BY <1>9, <1>11, <2>1
<1>12. QED BY <1>10, <1>11

LEMMA BlockWriteImplements ==
  ASSUME Inv, Looping("write"), BlockWritten, UNCHANGED <<disk, failed>>,
         \A l \in Locations :
           View'[l] = IF InBounds(call.dev, Block) /\ l = Location(call.dev, Block)
                      THEN call.buf[call.done + 1] ELSE View[l]
  PROVE  Implements
PROOF
<1>. DEFINE k == Location(call.dev, Block)
            v == call.buf[call.done + 1]
<1>1. call.dev \in Devices /\ Block \in Nat /\ v \in Values
  BY LoopFacts DEF Looping
<1>2. CASE InBounds(call.dev, Block)
  <2>1. k \in Locations
    BY <1>1, <1>2, LocationOnDisk
  <2>2. View' = [View EXCEPT ![k] = v]
    BY <1>2, <2>1, ViewUpdated
  <2>3. <<k, v>> \in Writing /\ Writing' = Writing \ {<<k, v>>}
    BY <1>2, WritingStep
  <2>4. Cached!Write(k, v)
    BY <2>2, <2>3 DEF Cached!Write
  <2>5. QED BY <1>1, <2>1, <2>4 DEF Implements, Cached!Next, Cached!Locations, Locations
<1>3. CASE ~InBounds(call.dev, Block)
  <2>1. View' = View
    BY <1>3, SameView
  <2>2. Writing' = Writing
    BY <1>3, WritingStep
  <2>3. QED BY <2>1, <2>2 DEF Implements, Seen
<1>4. QED BY <1>2, <1>3

LEMMA WriteHitImplements ==
  ASSUME Inv, Inv', NEW s \in Slots, WriteHit(s) PROVE Implements
PROOF
<1>. USE DEF WriteHit
<1>1. call.dev \in Devices /\ Block \in Nat
  BY LoopFacts
<1>2. s \in valid /\ entry[s].dev = call.dev /\ entry[s].lba = Block
  BY HitFacts
<1>3. /\ entry'[s].dev = call.dev /\ entry'[s].lba = Block
      /\ entry'[s].data = call.buf[call.done + 1]
      /\ \A t \in valid \ {s} : entry'[t] = entry[t]
  BY <1>2 DEF Inv, TypeOK, Entry
<1>4. valid' = valid \cup {s} /\ disk' = disk
  BY <1>2
<1>5. QED BY <1>1, <1>2, <1>3, <1>4, FillView, BlockWriteImplements

LEMMA WriteMissImplements ==
  ASSUME Inv, Inv', NEW s \in Slots, WriteMiss(s) PROVE Implements
PROOF
<1>. USE DEF WriteMiss
<1>1. /\ call.dev \in Devices /\ Block \in Nat
      /\ call.buf[call.done + 1] \in Values
  BY LoopFacts DEF Looping
<1>2. /\ entry'[s] = [dev |-> call.dev, lba |-> Block,
                      data |-> call.buf[call.done + 1]]
      /\ \A t \in Slots : t # s => entry'[t] = entry[t]
  BY <1>1, AllocateFacts
<1>3. /\ entry'[s].dev = call.dev /\ entry'[s].lba = Block
      /\ entry'[s].data = call.buf[call.done + 1]
      /\ \A t \in valid \ {s} : entry'[t] = entry[t]
  BY <1>2 DEF Inv, TypeOK
<1>4. valid' = valid \cup {s} /\ disk' = disk /\ s \notin valid
  BY DEF cache_allocate_slot_locked, FreeSlot
<1>5. QED BY <1>1, <1>3, <1>4, FillView, BlockWriteImplements

\* A read changes nothing that is seen; a refused eviction may.
LEMMA ReadMissImplements ==
  ASSUME Inv, Inv', NEW s \in Slots, ReadMiss(s)
  PROVE  View' = View /\ disk' = disk /\ failed' = failed
PROOF
<1>. DEFINE k == Location(call.dev, Block)
<1>. USE DEF ReadMiss
<1>1. call.dev \in Devices /\ Block \in Nat /\ InBounds(call.dev, Block)
  BY LoopFacts
<1>2. k \in Locations /\ disk[k] \in Values
  BY <1>1, LocationOnDisk DEF Inv, TypeOK
<1>3. /\ entry'[s] = [dev |-> call.dev, lba |-> Block, data |-> disk[k]]
      /\ \A t \in Slots : t # s => entry'[t] = entry[t]
  BY <1>2, AllocateFacts
<1>4. /\ entry'[s].dev = call.dev /\ entry'[s].lba = Block
      /\ entry'[s].data = disk[k]
      /\ \A t \in valid \ {s} : entry'[t] = entry[t]
  BY <1>3 DEF Inv, TypeOK
<1>5. valid' = valid \cup {s} /\ disk' = disk /\ s \notin valid
  BY Zenon DEF cache_allocate_slot_locked, FreeSlot
<1>6. \A l \in Locations :
         View'[l] = IF InBounds(call.dev, Block) /\ l = k THEN disk[k] ELSE View[l]
  BY <1>1, <1>4, <1>5, FillView
<1>7. Caching(k) = {}
  <2>1. ASSUME NEW t \in Caching(k) PROVE FALSE
    <3>1. /\ t \in valid /\ InBounds(entry[t].dev, entry[t].lba)
          /\ Location(entry[t].dev, entry[t].lba) = k
      BY DEF Caching
    <3>2. entry[t].dev \in Devices /\ entry[t].lba \in Nat
      BY <3>1, EntryFacts
    <3>3. entry[t].dev = call.dev /\ entry[t].lba = Block
      BY <1>1, <3>1, <3>2, DisjointBlocks
    <3>4. t \in Hits
      BY <3>1, <3>3, Zenon DEF Hits, cache_lookup_locked, Inv, OneEntryPerBlock
    <3>5. QED BY <3>4 DEF Missing
  <2>2. QED BY <2>1
<1>8. View[k] = disk[k]
  BY <1>2, <1>7, ViewAt DEF ViewShown
<1>9. View' = View
  BY <1>6, <1>8, SameView
<1>10. QED BY <1>9

LEMMA ReadFailsImplements ==
  ASSUME Inv, Inv', NEW s \in Slots, ReadFails(s)
  PROVE  View' = View /\ disk' = disk /\ failed' = failed
PROOF
<1>1. /\ valid' = valid /\ disk' = disk /\ failed' = failed
      /\ \A t \in valid : entry'[t] = entry[t]
  BY DEF ReadFails, FreeSlot, Inv, TypeOK
<1>2. \A l \in Locations : Caching(l)' = Caching(l)
  BY <1>1 DEF Caching, InBounds, Location
<1>3. \A l \in Locations : \A t \in Caching(l) : entry'[t] = entry[t]
  BY <1>1 DEF Caching
<1>4. ASSUME NEW l \in Locations PROVE View'[l] = View[l]
  <2>1. CASE Caching(l) = {}
    BY <1>1, <1>2, <2>1, ViewAt, ViewAtNext DEF ViewShown
  <2>2. ASSUME NEW t \in Caching(l) PROVE View'[l] = View[l]
    BY <1>2, <1>3, ViewAt, ViewAtNext DEF ViewShown
  <2>3. QED BY <2>1, <2>2
<1>5. QED BY <1>1, <1>4, SameView

LEMMA DropImplements ==
  ASSUME Inv, Inv', NEW s \in valid, NEW accepted \in BOOLEAN,
         cache_flush_entry_locked(s, accepted),
         valid' = valid \ {s}, \A t \in valid' : entry'[t] = entry[t],
         Writing' = Writing
  PROVE  Implements
PROOF
<1>. DEFINE k == Location(entry[s].dev, entry[s].lba)
<1>1. entry[s].dev \in Devices /\ entry[s].lba \in Nat
  BY EntryFacts
<1>2. \A l \in Locations :
         View'[l] = IF s \in Caching(l) /\ ~accepted THEN disk[l] ELSE View[l]
  BY DropView
<1>3. /\ accepted => failed' = failed /\ InBounds(entry[s].dev, entry[s].lba)
      /\ ~accepted => failed' /\ disk' = disk
      /\ \A l \in Locations : disk'[l] # disk[l] => l = k
      /\ disk' \in [Locations -> Values] /\ failed' \in BOOLEAN
      /\ accepted => disk'[k] = entry[s].data
  BY WriteBackFacts
<1>4. CASE accepted
  <2>1. View' = View
    BY <1>2, <1>4, SameView
  <2>2. k \in Locations /\ s \in Caching(k)
    BY <1>1, <1>3, <1>4, LocationOnDisk DEF Caching
  <2>3. View[k] = disk'[k]
    BY <1>3, <1>4, <2>2, ViewAt DEF ViewShown
  <2>4. disk \in [Locations -> Values]
    BY DEF Inv, TypeOK
  <2>5. disk' = [disk EXCEPT ![k] = View[k]]
    BY <1>3, <2>2, <2>3, <2>4
  <2>6. Cached!WriteBack(k)
    BY <1>3, <1>4, <2>1, <2>5 DEF Cached!WriteBack
  <2>7. QED BY <2>2, <2>6 DEF Implements, Cached!Next, Cached!Locations, Locations
<1>5. CASE ~accepted /\ InBounds(entry[s].dev, entry[s].lba)
  <2>1. k \in Locations /\ s \in Caching(k)
    BY <1>1, <1>5, LocationOnDisk DEF Caching
  <2>2. \A l \in Locations : s \in Caching(l) => l = k
    BY DEF Caching
  <2>3. View' = [View EXCEPT ![k] = disk[k]]
    BY <1>2, <1>5, <2>1, <2>2, ViewUpdated
  <2>4. Cached!Lose(k)
    BY <1>3, <1>5, <2>3 DEF Cached!Lose
  <2>5. QED BY <2>1, <2>4 DEF Implements, Cached!Next, Cached!Locations, Locations
<1>6. CASE ~accepted /\ ~InBounds(entry[s].dev, entry[s].lba)
  <2>1. \A l \in Locations : s \notin Caching(l)
    BY <1>6 DEF Caching
  <2>2. View' = View
    BY <1>2, <2>1, SameView
  <2>3. Cached!Refuse
    BY <1>3, <1>6, <2>2 DEF Cached!Refuse
  <2>4. QED BY <2>3 DEF Implements, Cached!Next
<1>7. QED BY <1>4, <1>5, <1>6

LEMMA EvictImplements ==
  ASSUME Inv, Inv', NEW s \in Slots, NEW accepted \in BOOLEAN,
         Evict(s, accepted)
  PROVE  Implements
PROOF
<1>1. /\ s \in valid /\ cache_flush_entry_locked(s, accepted)
      /\ valid' = valid \ {s} /\ \A t \in valid' : entry'[t] = entry[t]
      /\ call' = call
  BY DEF Evict
<1>2. Writing' = Writing
  BY <1>1 DEF Writing, Location, InBounds
<1>3. QED BY <1>1, <1>2, DropImplements

LEMMA InvalidateSlotImplements ==
  ASSUME Inv, Inv', NEW accepted \in BOOLEAN, InvalidateSlot(accepted)
  PROVE  Implements
PROOF
<1>. USE DEF InvalidateSlot
<1>1. call \in Calls /\ call.op = "invalidate" /\ call'.op = "invalidate"
  BY DEF Inv, TypeOK, Calls, Looping
<1>2. Writing' = Writing
  BY <1>1 DEF Writing
<1>3. CASE Concerned
  <2>1. /\ Slot \in valid /\ cache_flush_entry_locked(Slot, accepted)
        /\ valid' = valid \ {Slot}
    BY <1>3 DEF Concerned
  <2>2. \A t \in valid' : entry'[t] = entry[t]
    BY <1>3, <2>1 DEF Inv, TypeOK
  <2>3. QED BY <1>2, <2>1, <2>2, DropImplements
<1>4. CASE ~Concerned
  <2>1. View' = View
    BY <1>4, ViewKept
  <2>2. QED BY <1>2, <1>4, <2>1 DEF Implements, Seen
<1>5. QED BY <1>3, <1>4

LEMMA FlushSlotImplements ==
  ASSUME Inv, Inv', NEW accepted \in BOOLEAN, FlushSlot(accepted)
  PROVE  Implements
PROOF
<1>. USE DEF FlushSlot
<1>1. call \in Calls /\ call.op = "flush" /\ call'.op = "flush"
  BY DEF Inv, TypeOK, Calls
<1>2. Writing' = Writing
  BY <1>1 DEF Writing
<1>3. CASE ~Concerned
  <2>1. View' = View
    BY <1>3, ViewKept
  <2>2. QED BY <1>2, <1>3, <2>1 DEF Implements, Seen
<1>4. CASE Concerned
  <2>. DEFINE k == Location(entry[Slot].dev, entry[Slot].lba)
  <2>1. /\ Slot \in valid /\ cache_flush_entry_locked(Slot, accepted)
        /\ valid' = valid /\ entry' = entry
    BY <1>4 DEF Concerned
  <2>2. entry[Slot].dev \in Devices /\ entry[Slot].lba \in Nat
    BY <2>1, EntryFacts
  <2>3. /\ accepted => /\ failed' = failed
                       /\ InBounds(entry[Slot].dev, entry[Slot].lba)
                       /\ disk'[k] = entry[Slot].data
        /\ ~accepted => failed' /\ disk' = disk
        /\ \A l \in Locations :
             disk'[l] # disk[l] => l = k /\ Slot \in Caching(l)
        /\ disk' \in [Locations -> Values] /\ failed' \in BOOLEAN
    BY <2>1, WriteBackFacts
  <2>4. \A l \in Locations : Caching(l)' = Caching(l)
    BY <2>1 DEF Caching, InBounds, Location
  <2>5. ASSUME NEW l \in Locations PROVE View'[l] = View[l]
    <3>1. CASE Caching(l) = {}
      BY <2>3, <2>4, <3>1, ViewAt, ViewAtNext DEF ViewShown
    <3>2. ASSUME NEW t \in Caching(l) PROVE View'[l] = View[l]
      BY <2>1, <2>4, ViewAt, ViewAtNext DEF ViewShown
    <3>3. QED BY <3>1, <3>2
  <2>6. View' = View
    BY <2>5, SameView
  <2>7. CASE accepted
    <3>1. k \in Locations /\ Slot \in Caching(k)
      BY <2>1, <2>2, <2>3, <2>7, LocationOnDisk DEF Caching
    <3>2. View[k] = disk'[k]
      BY <2>3, <2>7, <3>1, ViewAt DEF ViewShown
    <3>3. disk \in [Locations -> Values]
      BY DEF Inv, TypeOK
    <3>4. disk' = [disk EXCEPT ![k] = View[k]]
      BY <2>3, <3>1, <3>2, <3>3
    <3>5. Cached!WriteBack(k)
      BY <1>2, <2>3, <2>6, <2>7, <3>4 DEF Cached!WriteBack
    <3>6. QED BY <3>1, <3>5 DEF Implements, Cached!Next, Cached!Locations, Locations
  <2>8. CASE ~accepted
    <3>1. Cached!Refuse
      BY <1>2, <2>3, <2>6, <2>8 DEF Cached!Refuse
    <3>2. QED BY <3>1 DEF Implements, Cached!Next
  <2>9. QED BY <2>7, <2>8
<1>5. QED BY <1>3, <1>4

LEMMA BeginWriteImplements ==
  ASSUME Inv, NEW d \in Devices, NEW lba \in 0 .. MaxLba, NEW src \in Buffers,
         block_cache_write(d, lba, src)
  PROVE  Implements
PROOF
<1>1. call = idle /\ call' = Call("write", d, lba, src, Len(src))
      /\ UNCHANGED <<cache, disk, failed>>
  BY DEF block_cache_write
<1>2. Writing = {}
  BY <1>1, IdleSound, NotWriting
<1>3. View' = View
  BY <1>1, ViewKept DEF cache
<1>4. src \in Seq(Values) /\ Len(src) \in Nat /\ lba \in Nat
  BY BufferTyped, BlockCacheAssumption
<1>5. Writing' = {<<Location(d, lba + i), src[i + 1]>> :
                    i \in {j \in 0 .. Len(src) - 1 : InBounds(d, lba + j)}}
  BY <1>1 DEF Writing, Call, Location, InBounds
<1>6. ASSUME NEW i \in {j \in 0 .. Len(src) - 1 : InBounds(d, lba + j)}
      PROVE  Location(d, lba + i) \in Locations /\ src[i + 1] \in Values
  <2>1. i + 1 \in 1 .. Len(src) /\ lba + i \in Nat /\ InBounds(d, lba + i)
    BY <1>4
  <2>2. QED BY <1>4, <2>1, LocationOnDisk
<1>7. Writing' \in SUBSET (Locations \X Values)
  BY <1>5, <1>6
<1>8. Cached!Begin(Writing')
  BY <1>1, <1>2, <1>3 DEF Cached!Begin
<1>9. QED BY <1>7, <1>8 DEF Implements, Cached!Next, Cached!Locations, Locations

\* Steps that only start or end a call that is not a write.
LEMMA QuietImplements ==
  ASSUME UNCHANGED <<cache, disk, failed>>, Writing = {}, Writing' = {}
  PROVE  Implements
PROOF
<1>1. View' = View
  BY ViewKept DEF cache
<1>2. QED BY <1>1 DEF Implements, Seen

LEMMA BeginImplements ==
  ASSUME Inv,
         \/ \E d \in Devices, lba \in 0 .. MaxLba, n \in 1 .. MaxCount :
              block_cache_read(d, lba, n)
         \/ \E d \in Devices \cup {NoDevice} : block_cache_flush_device(d)
         \/ \E d \in Devices : block_cache_invalidate_device(d)
  PROVE  Implements
PROOF
<1>1. call = idle /\ UNCHANGED <<cache, disk, failed>>
  BY DEF block_cache_read, block_cache_flush_device, block_cache_invalidate_device
<1>2. call'.op # "write"
  BY DEF block_cache_read, block_cache_flush_device,
         block_cache_invalidate_device, Call
<1>3. Writing = {} /\ Writing' = {}
  BY <1>1, <1>2, IdleSound DEF Writing
<1>4. QED BY <1>1, <1>3, QuietImplements

LEMMA ReturnImplements == ASSUME Inv, Return PROVE Implements
PROOF
<1>1. call' = idle /\ UNCHANGED <<cache, disk, failed>>
  BY DEF Return
<1>2. call \in Calls /\ call.done \in Nat /\ call.count \in Nat
  BY DEF Inv, TypeOK, Calls
<1>3. Writing = {}
  <2>1. CASE call.op # "write"
    BY <2>1, NotWriting
  <2>2. CASE call.op = "write"
    <3>1. call.done = call.count
      BY <2>2 DEF Return
    <3>2. call.done .. call.count - 1 = {}
      BY <1>2, <3>1
    <3>3. QED BY <2>2, <3>2 DEF Writing
  <2>3. QED BY <2>1, <2>2
<1>4. Writing' = {}
  BY <1>1, IdleSound DEF Writing
<1>5. QED BY <1>1, <1>3, <1>4, QuietImplements

LEMMA PowerLossImplements == ASSUME Inv, Inv', PowerLoss PROVE Implements
PROOF
<1>1. valid' = {} /\ disk' = disk /\ failed' = failed /\ call' = idle
  BY DEF PowerLoss
<1>2. \A l \in Locations : View'[l] = disk[l]
  BY <1>1, ViewAtNext DEF Caching
<1>3. View' = disk
  <2>1. View' = [l \in Locations |-> View'[l]]
    BY DEF View
  <2>2. QED BY <1>2, <2>1 DEF Inv, TypeOK
<1>4. Writing' = {}
  BY <1>1, IdleSound DEF Writing
<1>5. QED BY <1>1, <1>3, <1>4 DEF Implements, Cached!Next, Cached!PowerLoss

LEMMA ReadStepImplements ==
  ASSUME Inv, Inv', NEW s \in Slots, ReadHit(s) \/ ReadMiss(s) \/ ReadFails(s)
  PROVE  View' = View /\ Implements
PROOF
<1>1. Looping("read") /\ call \in Calls
  BY DEF ReadHit, ReadMiss, ReadFails, Inv, TypeOK
<1>2. call'.op = "read"
  BY <1>1 DEF ReadHit, ReadMiss, ReadFails, BlockRead, Looping, Calls
<1>3. Writing = {} /\ Writing' = {}
  BY <1>1, <1>2 DEF Writing, Looping
<1>4. View' = View /\ disk' = disk /\ failed' = failed
  <2>1. CASE ReadHit(s)
    BY <2>1, ViewKept DEF ReadHit
  <2>2. QED BY <2>1, ReadMissImplements, ReadFailsImplements
<1>5. QED BY <1>3, <1>4 DEF Implements, Seen

LEMMA NextImplements == Inv /\ Inv' /\ [Next]_vars => Implements
PROOF
<1>. SUFFICES ASSUME Inv, Inv', [Next]_vars PROVE Implements
  OBVIOUS
<1>1. CASE UNCHANGED vars
  <2>1. View' = View /\ Writing' = Writing
    BY <1>1 DEF vars, View, Writing, Caching, InBounds, Location
  <2>2. QED BY <1>1, <2>1 DEF Implements, Seen, vars
<1>2. CASE Next
  BY <1>2, BeginImplements, BeginWriteImplements, ReadStepImplements,
     WriteHitImplements, WriteMissImplements, EvictImplements,
     FlushSlotImplements, InvalidateSlotImplements, ReturnImplements,
     PowerLossImplements, Zenon DEF Next
<1>3. QED BY <1>1, <1>2

LEMMA InitImplements == Init => Cached!Init
PROOF
<1>. SUFFICES ASSUME Init PROVE Cached!Init
  OBVIOUS
<1>1. Inv
  BY InitInv
<1>2. \A l \in Locations : Caching(l) = {}
  BY DEF Init, block_cache_init, Caching
<1>3. \A l \in Locations : View[l] = disk[l]
  BY <1>1, <1>2, ViewAt DEF ViewShown
<1>4. View = disk /\ disk \in [Locations -> Values]
  BY <1>1, <1>3, ViewFunction DEF Inv, TypeOK
<1>5. Writing = {} /\ failed = FALSE
  BY IdleSound DEF Init, Writing
<1>6. QED BY <1>4, <1>5 DEF Cached!Init, Cached!Locations, Locations

-----------------------------------------------------------------------------
(* Reads return what is seen *)

LEMMA SeenByRead ==
  ASSUME Inv, Inv', NEW s \in Slots, ReadHit(s) \/ ReadMiss(s)
  PROVE  \E v \in Values :
           /\ BlockRead(v)
           /\ InBounds(call.dev, Block) => v = View'[Location(call.dev, Block)]
PROOF
<1>1. call.dev \in Devices /\ Block \in Nat
  BY LoopFacts DEF ReadHit, ReadMiss
<1>2. View' = View
  BY ReadStepImplements
<1>3. CASE ReadHit(s)
  <2>1. s \in valid /\ entry[s].dev = call.dev /\ entry[s].lba = Block
    BY <1>3, HitFacts DEF ReadHit
  <2>2. ASSUME InBounds(call.dev, Block)
        PROVE  entry[s].data = View[Location(call.dev, Block)]
    <3>1. /\ Location(call.dev, Block) \in Locations
          /\ s \in Caching(Location(call.dev, Block))
      BY <1>1, <2>1, <2>2, LocationOnDisk DEF Caching
    <3>2. QED BY <3>1, ViewAt DEF ViewShown
  <2>3. entry[s].data \in Values
    BY <2>1, EntryFacts
  <2>4. QED BY <1>2, <1>3, <2>2, <2>3 DEF ReadHit
<1>4. CASE ReadMiss(s)
  <2>0. PICK k \in Locations : k = Location(call.dev, Block)
    BY <1>1, <1>4, LocationOnDisk DEF ReadMiss
  <2>1. disk[k] \in Values
    BY DEF Inv, TypeOK
  <2>2. s \in valid' /\ entry'[s] = [dev |-> call.dev, lba |-> Block,
                                       data |-> disk[k]]
    BY <1>4, <2>0, <2>1, AllocateFacts DEF ReadMiss, cache_allocate_slot_locked
  <2>3. entry'[s].dev = call.dev /\ entry'[s].lba = Block /\ entry'[s].data = disk[k]
    BY <2>2 DEF Inv, TypeOK
  <2>4. s \in Caching(k)'
    BY <1>1, <1>4, <2>0, <2>2, <2>3 DEF Caching, ReadMiss, InBounds, Location
  <2>5. View'[k] = disk[k]
    BY <2>3, <2>4, ViewAtNext
  <2>6. QED BY <1>4, <2>0, <2>1, <2>5 DEF ReadMiss
<1>5. QED BY <1>3, <1>4

LEMMA EvictQuiet ==
  ASSUME Inv, Inv', NEW s \in Slots, NEW accepted \in BOOLEAN,
         Evict(s, accepted), ~failed'
  PROVE  View' = View /\ ~failed
PROOF
<1>1. /\ s \in valid /\ cache_flush_entry_locked(s, accepted)
      /\ valid' = valid \ {s} /\ \A t \in valid' : entry'[t] = entry[t]
  BY DEF Evict
<1>2. accepted /\ failed' = failed
  BY <1>1, WriteBackFacts
<1>3. \A l \in Locations : View'[l] = View[l]
  BY <1>1, <1>2, DropView
<1>4. QED BY <1>2, <1>3, SameView

LEMMA NextReads == Inv /\ Inv' /\ ReadsAreCurrent /\ [Next]_vars
                     => ReadsAreCurrent'
PROOF
<1>. SUFFICES ASSUME Inv, Inv', ReadsAreCurrent, [Next]_vars,
                     call'.op = "read", ~failed',
                     NEW i \in 1 .. Len(call'.buf),
                     InBounds(call'.dev, call'.lba + i - 1)
              PROVE  call'.buf[i] = View'[Location(call'.dev, call'.lba + i - 1)]
  BY DEF ReadsAreCurrent, InBounds, Location
<1>. DEFINE Done == /\ call.op = "read" /\ ~failed /\ View' = View
                    /\ call'.buf = call.buf /\ call'.dev = call.dev
                    /\ call'.lba = call.lba
<1>1. ASSUME Done
      PROVE  call'.buf[i] = View'[Location(call'.dev, call'.lba + i - 1)]
  BY <1>1 DEF ReadsAreCurrent
<1>2. call \in Calls
  BY DEF Inv, TypeOK
<1>3. CASE UNCHANGED vars
  <2>1. View' = View
    BY <1>3, ViewKept DEF vars
  <2>2. QED BY <1>1, <1>3, <2>1 DEF vars
<1>4. ASSUME NEW d \in Devices, NEW lba \in 0 .. MaxLba, NEW n \in 1 .. MaxCount,
             block_cache_read(d, lba, n)
      PROVE  FALSE
  <2>1. call'.buf = << >>
    BY <1>4 DEF block_cache_read, Call
  <2>2. QED BY <2>1
<1>5. ASSUME NEW s \in Slots, NEW accepted \in BOOLEAN, Evict(s, accepted)
      PROVE  Done
  BY <1>5, EvictQuiet DEF Evict
<1>6. ASSUME NEW s \in Slots, ReadFails(s)
      PROVE  Done
  <2>1. View' = View
    BY <1>6, ReadStepImplements
  <2>2. QED BY <1>2, <1>6, <2>1 DEF ReadFails, Looping, Calls
<1>7. ASSUME NEW s \in Slots, ReadHit(s) \/ ReadMiss(s)
      PROVE  call'.buf[i] = View'[Location(call'.dev, call'.lba + i - 1)]
  <2>1. View' = View /\ Looping("read") /\ failed' = failed
    BY <1>7, ReadStepImplements, Zenon DEF ReadHit, ReadMiss
  <2>2. PICK v \in Values :
          /\ BlockRead(v)
          /\ InBounds(call.dev, Block) => v = View'[Location(call.dev, Block)]
    BY <1>7, SeenByRead, Zenon
  <2>3. /\ call'.buf = Append(call.buf, v) /\ call'.dev = call.dev
        /\ call'.lba = call.lba
    BY <1>2, <2>2 DEF BlockRead, Calls
  <2>4. /\ Len(call.buf) = call.done /\ call.done \in Nat /\ call.lba \in Nat
        /\ call.buf \in Seq(Values)
    BY <1>2, <2>1 DEF Inv, CallSound, Looping, Calls
  <2>5. i \in 1 .. call.done + 1
    BY <2>3, <2>4
  <2>6. CASE i = call.done + 1
    <3>1. call'.buf[i] = v
      BY <2>3, <2>4, <2>6
    <3>2. call'.lba + i - 1 = Block
      BY <2>3, <2>4, <2>6 DEF Block
    <3>3. QED BY <2>2, <2>3, <3>1, <3>2
  <2>7. CASE i \in 1 .. Len(call.buf)
    <3>1. call'.buf[i] = call.buf[i]
      BY <2>3, <2>4, <2>7
    <3>2. QED BY <2>1, <2>3, <2>7, <3>1 DEF ReadsAreCurrent, Looping
  <2>8. QED BY <2>4, <2>5, <2>6, <2>7
<1>8. ASSUME \/ \E d \in Devices, lba \in 0 .. MaxLba, src \in Buffers :
                  block_cache_write(d, lba, src)
             \/ \E d \in Devices \cup {NoDevice} : block_cache_flush_device(d)
             \/ \E d \in Devices : block_cache_invalidate_device(d)
             \/ Return \/ PowerLoss
      PROVE  FALSE
  <2>1. CASE \E d \in Devices, lba \in 0 .. MaxLba, src \in Buffers :
               block_cache_write(d, lba, src)
    BY <2>1 DEF block_cache_write, Call
  <2>2. CASE \/ \E d \in Devices \cup {NoDevice} : block_cache_flush_device(d)
             \/ \E d \in Devices : block_cache_invalidate_device(d)
    BY <2>2 DEF block_cache_flush_device, block_cache_invalidate_device, Call
  <2>3. CASE Return \/ PowerLoss
    BY <2>3, IdleSound DEF Return, PowerLoss
  <2>4. QED BY <1>8, <2>1, <2>2, <2>3, Zenon
<1>9. ASSUME \/ \E s \in Slots : WriteHit(s) \/ WriteMiss(s)
             \/ \E accepted \in BOOLEAN :
                  FlushSlot(accepted) \/ InvalidateSlot(accepted)
      PROVE  FALSE
  <2>1. call.op \in {"write", "flush", "invalidate"}
    BY <1>9, Zenon DEF WriteHit, WriteMiss, FlushSlot, InvalidateSlot, Looping
  <2>2. call'.op = call.op
    BY <1>2, <1>9 DEF WriteHit, WriteMiss, FlushSlot, InvalidateSlot,
                      BlockWritten, Calls
  <2>3. QED BY <2>1, <2>2
<1>. HIDE DEF Done
<1>10. CASE Next
  BY <1>10, <1>1, <1>4, <1>5, <1>6, <1>7, <1>8, <1>9, Zenon DEF Next
<1>11. QED BY <1>3, <1>10

-----------------------------------------------------------------------------
(* Theorems *)

\* The cache, the call in progress and the disk stay of their types, and
\* lru_list keeps its places.
THEOREM TypeCorrect == Spec => []TypeOK
  BY CacheInvariant, PTL DEF Inv

\* No block ever has two valid entries, whatever is evicted, refused by the
\* device, flushed or invalidated.
THEOREM EntriesStayUnique == Spec => []OneEntryPerBlock
  BY CacheInvariant, PTL DEF Inv

\* A flush or a sync that returns true leaves nothing of the device's current
\* contents in the cache alone.
THEOREM FlushesReachDisk == Spec => []FlushReachesDisk
  BY CacheInvariant, FlushedClean, PTL

\* A read over several blocks returns the current contents of each.
THEOREM ReadsStayCurrent == Spec => []ReadsAreCurrent
PROOF
<1>1. Init => ReadsAreCurrent
  BY IdleSound DEF Init, ReadsAreCurrent
<1>2. QED BY <1>1, CacheInvariant, NextReads, PTL DEF Spec

\* The cache implements the disk that takes every write at once.
THEOREM CacheImplementsDisk == Spec => CacheKeepsPromise
PROOF
<1>1. Implements => [Cached!Next]_<<View, disk, Writing, failed>>
  BY DEF Implements, Seen
<1>2. QED BY <1>1, InitImplements, CacheInvariant, NextImplements, PTL
          DEF Spec, CacheKeepsPromise, Cached!Spec

=============================================================================
