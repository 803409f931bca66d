-------------------------------- MODULE Heap --------------------------------
(* The kernel heap of mm/heap.c: a list of blocks in address order, each
   with its header in front, first fit with splitting, merging on free, and
   whole pages mapped at the end and given back from the end.  Addresses are
   offsets from HEAP_BASE; every operation but krealloc runs under heap_lock
   and is one step. *)
EXTENDS Naturals, FiniteSets, SequencesExt

CONSTANTS PageSize, HeapMaximum,   \* bytes of a page, of the whole heap
          HeapAlignment, Header,   \* HEAP_ALIGNMENT, sizeof(struct heap_block)
          UintMax,                 \* the largest uint64_t
          Requests,                \* sizes callers ask for
          Arrays,                  \* <<num, size>> pairs given to kcalloc
          PoolPages,               \* frames the page allocator has left
          Tags                     \* what callers write, at most one each

VARIABLES blocks,      \* the list: address of the header, size, free
          mapped_bytes,
          active_allocations,
          pages,       \* frames left in the page allocator
          content,     \* what each heap byte holds; 0 for headers and free space
          live,        \* pointers callers hold: bytes asked for and the tag in them
          realloc      \* a krealloc between its unlock and its copy
heapVars == <<blocks, mapped_bytes, active_allocations, pages, content, live, realloc>>

NoPointer == HeapMaximum
Block(addr, size, free) == [addr |-> addr, size |-> size, free |-> free]
NoRealloc == [from |-> NoPointer, to |-> NoPointer, size |-> 0]

HeapInit ==
  /\ blocks = <<>> /\ mapped_bytes = 0 /\ active_allocations = 0 /\ pages = PoolPages
  /\ content = [b \in 0 .. HeapMaximum - 1 |-> 0]
  /\ live = << >> /\ realloc = NoRealloc

-----------------------------------------------------------------------------
(* The block list *)

(* 0 when the rounded value does not fit in 64 bits. *)
align_up(value) ==
  IF value > UintMax - (HeapAlignment - 1) THEN 0
  ELSE ((value + HeapAlignment - 1) \div HeapAlignment) * HeapAlignment

EndOf(block) == block.addr + Header + block.size
blocks_are_adjacent(left, right) == EndOf(left) = right.addr

merge_with_next(list, k) ==
  IF k \in 1 .. Len(list) - 1 /\ list[k + 1].free /\ blocks_are_adjacent(list[k], list[k + 1])
  THEN [RemoveAt(list, k + 1) EXCEPT ![k].size = @ + Header + list[k + 1].size]
  ELSE list

find_free_block(list, size) ==
  SelectInSeq(list, LAMBDA b : b.free /\ b.size >= size)

(* The heap with a new free block of whole pages at its end; the same heap
   when the frames or the mappings run out, the pages mapped so far then
   being unmapped and freed again. *)
grow_heap(heap, size, mappings) ==
  LET count == (size + Header + PageSize - 1) \div PageSize
  IN IF size > HeapMaximum - Header \/ count * PageSize > HeapMaximum - heap.mapped THEN heap
     ELSE IF heap.pages < count \/ mappings < count THEN heap
     ELSE [blocks |-> Append(heap.blocks,
                             Block(heap.mapped, (count * PageSize) - Header, TRUE)),
           mapped |-> heap.mapped + (count * PageSize), pages |-> heap.pages - count]

reclaim_trailing_block(heap) ==
  LET block == Last(heap.blocks)
      bytes == Header + block.size
  IN IF /\ heap.blocks # <<>> /\ block.free /\ block.addr % PageSize = 0
        /\ bytes % PageSize = 0 /\ block.addr + bytes = heap.mapped
     THEN [blocks |-> Front(heap.blocks), mapped |-> heap.mapped - bytes,
           pages |-> heap.pages + (bytes \div PageSize)]
     ELSE heap

Split(list, k, size) ==
  LET block == list[k]
      rest == Block(block.addr + Header + size, block.size - size - Header, TRUE)
  IN IF block.size >= size + Header + HeapAlignment
     THEN InsertAt([list EXCEPT ![k] = Block(block.addr, size, FALSE)], k + 1, rest)
     ELSE [list EXCEPT ![k].free = FALSE]

Heap == [blocks |-> blocks, mapped |-> mapped_bytes, pages |-> pages]
SetHeap(h) == blocks' = h.blocks /\ mapped_bytes' = h.mapped /\ pages' = h.pages

(* The list after an allocation and the pointer it gives. *)
Allocation(request, mappings) ==
  LET size == align_up(request)
      grown == IF find_free_block(blocks, size) # 0 THEN Heap
               ELSE grow_heap(Heap, size, mappings)
      k == find_free_block(grown.blocks, size)
  IN IF request = 0 \/ size = 0 THEN [heap |-> Heap, pointer |-> NoPointer]
     ELSE IF k = 0 THEN [heap |-> grown, pointer |-> NoPointer]
     ELSE [heap |-> [grown EXCEPT !.blocks = Split(grown.blocks, k, size)],
           pointer |-> grown.blocks[k].addr + Header]

(* The list after a free, if the pointer is one of an allocated block. *)
Indices(pointer) == {k \in DOMAIN blocks : blocks[k].addr + Header = pointer /\ ~blocks[k].free}

\* Mutant: the block before it is left apart.
ReleasedForward(k) ==
  reclaim_trailing_block([Heap EXCEPT !.blocks =
    merge_with_next([blocks EXCEPT ![k].free = TRUE], k)])

Released(k) ==
  LET forward == merge_with_next([blocks EXCEPT ![k].free = TRUE], k)
      both == IF k > 1 /\ blocks[k - 1].free THEN merge_with_next(forward, k - 1) ELSE forward
  IN reclaim_trailing_block([Heap EXCEPT !.blocks = both])

-----------------------------------------------------------------------------
(* Operations *)

Bytes(pointer, size) == {b \in DOMAIN content : pointer <= b /\ b < pointer + size}
Filled(c, pointer, size, tag) ==
  [b \in DOMAIN c |-> IF b \in Bytes(pointer, size) THEN tag ELSE c[b]]
FreeTags == Tags \ {live[p].tag : p \in DOMAIN live}

(* A caller fills what it asked for with a tag of its own. *)
Hand(pointer, request, tag) ==
  /\ live' = [p \in DOMAIN live \cup {pointer} |->
                IF p = pointer THEN [size |-> request, tag |-> tag] ELSE live[p]]
  /\ content' = Filled(content, pointer, request, tag)

Allocate(allocated, request, tag) ==
  /\ SetHeap(allocated.heap)
  /\ IF allocated.pointer = NoPointer THEN UNCHANGED <<active_allocations, content, live>>
     ELSE /\ active_allocations' = active_allocations + 1
          /\ Hand(allocated.pointer, request, tag)
  /\ UNCHANGED realloc

kmalloc(request, mappings) ==
  \E tag \in FreeTags :
    tag = (CHOOSE t \in FreeTags : TRUE) /\ Allocate(Allocation(request, mappings), request, tag)

\* Mutant: the product is taken without looking for overflow.
Total(num, size) == (num * size) % (UintMax + 1)
kcalloc_unchecked(num, size, mappings) ==
  \E tag \in FreeTags :
    /\ tag = (CHOOSE t \in FreeTags : TRUE)
    /\ Allocate(Allocation(Total(num, size), mappings), num * size, tag)

kcalloc(num, size, mappings) ==
  \E tag \in FreeTags :
    /\ tag = (CHOOSE t \in FreeTags : TRUE)
    /\ num # 0 => size <= UintMax \div num
    /\ Allocate(Allocation(num * size, mappings), num * size, tag)

(* A pointer that is not an allocated block's changes nothing. *)
kfree(pointer) ==
  /\ pointer # realloc.from /\ pointer # realloc.to
  /\ \E k \in Indices(pointer) :
       /\ active_allocations > 0
       /\ SetHeap(Released(k))
       /\ active_allocations' = active_allocations - 1
       /\ live' = [p \in DOMAIN live \ {pointer} |-> live[p]]
       /\ content' = Filled(content, pointer, blocks[k].size, 0)
  /\ UNCHANGED realloc

(* krealloc: the size is read under the lock, the rest happens after it. *)
krealloc(pointer, request) ==
  /\ realloc = NoRealloc /\ request # 0 /\ pointer \in DOMAIN live
  /\ \E k \in Indices(pointer) :
       IF request <= blocks[k].size
       THEN Hand(pointer, request, live[pointer].tag) /\ UNCHANGED realloc
       ELSE /\ realloc' = [from |-> pointer, to |-> NoPointer, size |-> request]
            /\ UNCHANGED <<live, content>>
  /\ UNCHANGED <<blocks, mapped_bytes, active_allocations, pages>>

krealloc_allocate(mappings) ==
  LET allocated == Allocation(realloc.size, mappings)
  IN /\ realloc.from # NoPointer /\ realloc.to = NoPointer
     /\ SetHeap(allocated.heap)
     /\ IF allocated.pointer = NoPointer
        THEN realloc' = NoRealloc /\ UNCHANGED active_allocations
        ELSE /\ realloc' = [realloc EXCEPT !.to = allocated.pointer]
             /\ active_allocations' = active_allocations + 1
     /\ UNCHANGED <<content, live>>

(* The old block's bytes are copied and the old block freed. *)
krealloc_copy ==
  LET from == realloc.from
      to == realloc.to
      k == CHOOSE i \in Indices(from) : TRUE
      copied == [b \in DOMAIN content |->
                   IF b \in Bytes(to, blocks[k].size) THEN content[from + (b - to)] ELSE content[b]]
  IN /\ to # NoPointer
     /\ SetHeap(Released(k)) /\ active_allocations' = active_allocations - 1
     /\ content' = Filled(copied, from, blocks[k].size, 0)
     /\ live' = [p \in (DOMAIN live \ {from}) \cup {to} |-> IF p = to THEN live[from] ELSE live[p]]
     /\ realloc' = NoRealloc

HeapNext ==
  \/ \E r \in Requests, m \in 0 .. PoolPages : kmalloc(r, m)
  \/ \E a \in Arrays, m \in {PoolPages} : kcalloc(a[1], a[2], m)
  \/ \E p \in DOMAIN content : kfree(p)
  \/ \E p \in DOMAIN live, r \in Requests : krealloc(p, r)
  \/ krealloc_allocate(PoolPages)
  \/ krealloc_copy

-----------------------------------------------------------------------------
(* Properties *)

(* Nobody's memory is handed to anybody else: whatever was allocated, freed,
   split, merged, mapped or unmapped meanwhile, an allocation holds what its
   caller wrote, and a krealloc carries it over. *)
AllocationsIntact ==
  \A p \in DOMAIN live : /\ p + live[p].size <= mapped_bytes
                         /\ \A b \in Bytes(p, live[p].size) : content[b] = live[p].tag

(* The list covers the mapped pages without a gap and without two free
   neighbours, the count of allocations is right, every frame is either
   mapped or with the page allocator, and a heap with no allocation left
   has given every page back. *)
HeapTiled ==
  /\ mapped_bytes = IF blocks = <<>> THEN 0 ELSE EndOf(Last(blocks))
  /\ blocks # <<>> => Head(blocks).addr = 0
  /\ \A k \in 1 .. Len(blocks) - 1 :
       blocks_are_adjacent(blocks[k], blocks[k + 1]) /\ ~(blocks[k].free /\ blocks[k + 1].free)
  /\ active_allocations = Cardinality({k \in DOMAIN blocks : ~blocks[k].free})
  /\ active_allocations = 0 => mapped_bytes = 0
  /\ pages + (mapped_bytes \div PageSize) = PoolPages
=============================================================================
