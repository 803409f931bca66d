-------------------------------- MODULE Pmm --------------------------------
(* The physical memory manager, mm/pmm.c: a bitmap of free frames with a     *)
(* search hint.                                                              *)
(*                                                                          *)
(* Every function runs under pmm_lock and is one action.  A bitmap is the    *)
(* set of frames whose bit is 1, so the word-wise searches are minima of     *)
(* sets.  Addresses count units of which FrameSize make a frame.  The byte   *)
(* statistics are left out.                                                  *)
EXTENDS Naturals, Sequences, FiniteSets, FiniteSetsExt

CONSTANTS MaxFrames,  \* MAX_TRACKED_FRAMES
          FrameSize,  \* FRAME_SIZE, in address units
          MemoryMap,  \* base and length of the usable entries of the memory map
          MaxCount    \* bound: pages asked for or given back in one call

ASSUME PmmAssumption ==
  /\ MaxFrames \in Nat \ {0} /\ FrameSize \in Nat \ {0}
  /\ MaxCount \in Nat \ {0}
  /\ MemoryMap \in Seq([base : Nat, length : Nat])

VARIABLES todo,         \* memory map entries pmm_initialize has still to see
          usable,       \* usable_bitmap
          free,         \* free_bitmap
          free_frames,
          tracked_usable_frames,
          frame_search_limit,
          allocation_hint,
          initialized,
          answer        \* the last call and its result, in frames; 0 is failure

vars == <<todo, usable, free, free_frames, tracked_usable_frames,
          frame_search_limit, allocation_hint, initialized, answer>>

Run(s, n) == s .. (s + n - 1)

\* A record of a call: what was asked, and what was returned.
Answer(op, s, n, r) == [op |-> op, start |-> s, count |-> n, result |-> r]

Init == /\ todo = MemoryMap
        /\ usable = {} /\ free = {}
        /\ free_frames = 0 /\ tracked_usable_frames = 0
        /\ frame_search_limit = 1
        /\ allocation_hint = 1
        /\ initialized = FALSE
        /\ answer = Answer("none", 0, 0, 0)

-----------------------------------------------------------------------------
(* pmm_initialize *)

Smaller(a, b) == IF a < b THEN a ELSE b

align_up_frame(a) == a \div FrameSize + (IF a % FrameSize # 0 THEN 1 ELSE 0)
align_down_frame(a) == a \div FrameSize

\* Faulty variant: frames of overlapping entries are counted again.
mark_usable_recounting(first, end) ==
  LET frames == first .. (end - 1)
  IN  /\ usable' = usable \cup frames
      /\ free' = free \cup frames
      /\ tracked_usable_frames' = tracked_usable_frames + Cardinality(frames)
      /\ free_frames' = free_frames + Cardinality(frames)

mark_usable_frames(first, end) ==
  LET newly_usable == (first .. (end - 1)) \ usable
  IN  /\ usable' = usable \cup newly_usable
      /\ free' = free \cup newly_usable
      /\ tracked_usable_frames' = tracked_usable_frames + Cardinality(newly_usable)
      /\ free_frames' = free_frames + Cardinality(newly_usable)


\* Only whole frames below the tracked maximum count, and never frame 0.
mark_usable_range(base, length) ==
  LET first == align_up_frame(base)
      end == align_down_frame(Smaller(base + length, MaxFrames * FrameSize))
  IN  IF length = 0 \/ base >= MaxFrames * FrameSize
      THEN UNCHANGED <<usable, free, free_frames, tracked_usable_frames,
                       frame_search_limit>>
      ELSE /\ frame_search_limit' =
                IF end > frame_search_limit THEN end ELSE frame_search_limit
           /\ mark_usable_frames(IF first = 0 THEN 1 ELSE first, end)

\* One turn of pmm_initialize's loop.
MapEntry == /\ todo # << >>
            /\ todo' = Tail(todo)
            /\ mark_usable_range(Head(todo).base, Head(todo).length)
            /\ UNCHANGED <<allocation_hint, initialized, answer>>

\* Its end.
pmm_initialize ==
  /\ todo = << >> /\ ~initialized
  /\ frame_search_limit' = Smaller(frame_search_limit, MaxFrames)
  /\ initialized' = (free_frames # 0)
  /\ UNCHANGED <<todo, usable, free, free_frames, tracked_usable_frames,
                 allocation_hint, answer>>

-----------------------------------------------------------------------------
(* Allocation *)

\* The first free frame of start .. end - 1, or 0.
find_free_frame(start, end) ==
  LET candidates == {f \in free : start <= f /\ f < end}
  IN  IF candidates = {} THEN 0 ELSE Min(candidates)

Fail(op, s, n) ==
  /\ answer' = Answer(op, s, n, 0)
  /\ UNCHANGED <<todo, usable, free, free_frames, tracked_usable_frames,
                 frame_search_limit, allocation_hint, initialized>>

\* Frames s .. s + n - 1 are handed out, and the hint moves past them.
Take(s, n) ==
  /\ free' = free \ Run(s, n)
  /\ free_frames' = free_frames - n
  /\ allocation_hint' = IF s + n >= frame_search_limit THEN 1 ELSE s + n
  /\ answer' = Answer("allocate", 0, n, s)
  /\ UNCHANGED <<todo, usable, tracked_usable_frames, frame_search_limit,
                 initialized>>

pmm_allocate_frame ==
  LET ahead == find_free_frame(allocation_hint, frame_search_limit)
      frame == IF ahead = 0 /\ allocation_hint > 1
               THEN find_free_frame(1, allocation_hint) ELSE ahead
  IN  IF ~initialized \/ frame = 0
      THEN Fail("allocate", 0, 1) ELSE Take(frame, 1)

\* The starts of runs of n free frames that lie in from .. to - 1: the loops of
\* pmm_alloc_pages stop at the first.
FreeRuns(from, to, n) ==
  {s \in free : from <= s /\ s + n <= to /\ Run(s, n) \subseteq free}

\* Faulty variant: the second pass stops at the hint itself.
pmm_alloc_pages_short(n) ==
  LET ahead == FreeRuns(allocation_hint, frame_search_limit, n)
      behind == FreeRuns(1, Smaller(allocation_hint, frame_search_limit), n)
  IN  IF n < 2 THEN IF n = 0 THEN Fail("allocate", 0, 0) ELSE pmm_allocate_frame
      ELSE IF ~initialized \/ free_frames < n THEN Fail("allocate", 0, n)
      ELSE IF ahead # {} THEN Take(Min(ahead), n)
      ELSE IF allocation_hint > 1 /\ behind # {} THEN Take(Min(behind), n)
      ELSE Fail("allocate", 0, n)

pmm_alloc_pages(n) ==
  LET ahead == FreeRuns(allocation_hint, frame_search_limit, n)
      behind == FreeRuns(1, Smaller(allocation_hint + n, frame_search_limit), n)
  IN  IF n < 2 THEN IF n = 0 THEN Fail("allocate", 0, 0) ELSE pmm_allocate_frame
      ELSE IF ~initialized \/ free_frames < n THEN Fail("allocate", 0, n)
      ELSE IF ahead # {} THEN Take(Min(ahead), n)
      ELSE IF allocation_hint > 1 /\ behind # {} THEN Take(Min(behind), n)
      ELSE Fail("allocate", 0, n)

-----------------------------------------------------------------------------
(* Giving frames back *)

frame_is_tracked(f) == f < MaxFrames

\* The frame at an address, 0 when there is none.
FrameOf(a) == IF a % FrameSize = 0 THEN a \div FrameSize ELSE 0

\* Every frame is validated before the first is set free.
GiveBack(address, n) ==
  LET s == address \div FrameSize
  IN  IF \/ ~initialized \/ address = 0 \/ address % FrameSize # 0 \/ n = 0
         \/ \E f \in Run(s, n) : ~frame_is_tracked(f) \/ f \notin usable \/ f \in free
      THEN Fail("free", FrameOf(address), n)
      ELSE /\ free' = free \cup Run(s, n)
           /\ free_frames' = free_frames + n
           /\ allocation_hint' = Smaller(s, allocation_hint)
           /\ answer' = Answer("free", s, n, 1)
           /\ UNCHANGED <<todo, usable, tracked_usable_frames,
                          frame_search_limit, initialized>>

pmm_free_frame(address) == GiveBack(address, 1)

pmm_free_pages(address, n) == GiveBack(address, n)

-----------------------------------------------------------------------------
\* Callers may ask for any count and give back any address.
Next == \/ MapEntry \/ pmm_initialize
        \/ pmm_allocate_frame
        \/ \E n \in 0 .. MaxCount : pmm_alloc_pages(n)
        \/ \E a \in 0 .. (MaxFrames * FrameSize) :
             \/ pmm_free_frame(a)
             \/ \E n \in 0 .. MaxCount : pmm_free_pages(a, n)

Spec == Init /\ [][Next]_vars

-----------------------------------------------------------------------------
(* Properties *)

TypeOK == /\ todo \in Seq([base : Nat, length : Nat])
          /\ usable \subseteq 1 .. (MaxFrames - 1)
          /\ free \subseteq usable
          /\ free_frames \in Nat
          /\ tracked_usable_frames \in Nat
          /\ frame_search_limit \in 1 .. MaxFrames
          /\ allocation_hint \in Nat \ {0}
          /\ initialized \in BOOLEAN
          /\ answer \in [op : {"none", "allocate", "free"}, start : Nat,
                         count : Nat, result : Nat]

\* The counters are the number of bits set in the bitmaps after any sequence
\* of overlapping map entries, allocations and releases, refused ones included;
\* pmm_allocated_frame_count subtracts one from the other (pmm.c:98-101, 228,
\* 253, 323, 357, 413).
FramesCounted == /\ free_frames = Cardinality(free)
                 /\ tracked_usable_frames = Cardinality(usable)

\* Every usable frame lies where the searches look (pmm.c:144-146, 222-225).
SearchCoversUsable == \A f \in usable : f < frame_search_limit

\* The memory manager keeps the promise of FrameAllocator: it hands out free
\* frames only, finds a run of free frames whenever there is one, wherever the
\* hint stands, and takes back exactly the frames it has handed out.
Promise == INSTANCE FrameAllocator WITH Frames <- 0 .. MaxFrames,
                                        Counts <- 0 .. MaxCount
KeepsPromise == Promise!Spec
=============================================================================
