------------------------------ MODULE MCMemory ------------------------------
(* The page allocator, the kernel heap and the page tables, side by side: a
   behaviour is that of one part, the others staying as they start. *)
EXTENDS Pmm

CONSTANTS PageSize, HeapMaximum, HeapAlignment, Header, UintMax, Requests, Arrays,
          PoolPages, Tags,
          FrameCount, UserVas, KernelVas, SpaceMax

VARIABLES part,
          blocks, mapped_bytes, active_allocations, pages, content, live, realloc,
          mem, spaces, cr3, tlb, mapped

H == INSTANCE Heap
V == INSTANCE Vmm

heapVars == <<blocks, mapped_bytes, active_allocations, pages, content, live, realloc>>
vmmVars == <<mem, spaces, cr3, tlb, mapped>>

(* Overlapping, unaligned and out-of-range entries. *)
MCMemoryMap == << [base |-> 9, length |-> 90], [base |-> 0, length |-> 5],
                  [base |-> 3, length |-> 0], [base |-> 1, length |-> 8],
                  [base |-> 90, length |-> 4] >>
MCArrays == {<<8, 9>>, <<3, 2>>}  \* 8 * 9 does not fit in UintMax
MCUser == {<<0,0,0,0>>, <<0,0,0,1>>, <<0,0,1,0>>}
MCKernel == {<<1,0,0,0>>, <<1,1,0,0>>}

(* The value of the variables of a part that is not running. *)
Off == "off"
NoHeap == /\ blocks = Off /\ mapped_bytes = Off /\ active_allocations = Off
          /\ pages = Off /\ content = Off /\ live = Off /\ realloc = Off
NoTables == /\ mem = Off /\ spaces = Off /\ cr3 = Off /\ tlb = Off
            /\ mapped = Off

MemoryInit ==
  /\ part \in {"pmm", "heap", "vmm"}
  /\ Init
  /\ IF part = "heap" THEN H!HeapInit ELSE NoHeap
  /\ IF part = "vmm" THEN V!VmmInit ELSE NoTables

MemoryNext ==
  \/ part = "pmm" /\ Next /\ UNCHANGED <<part, heapVars, vmmVars>>
  \/ part = "heap" /\ H!HeapNext /\ UNCHANGED <<part, vars, vmmVars>>
  \/ part = "vmm" /\ V!VmmNext /\ UNCHANGED <<part, vars, heapVars>>

MemorySpec == MemoryInit /\ [][MemoryNext]_<<part, vars, heapVars, vmmVars>>

-----------------------------------------------------------------------------
(* Properties *)

(* kmalloc, kcalloc, krealloc and kfree: what a caller holds is his alone
   and keeps its contents, and the block list tiles the mapped heap. *)
HeapSound == part = "heap" => H!AllocationsIntact /\ H!HeapTiled

(* Every frame is a page table of one tree, a mapped page or free, and every
   address translates as it was last mapped. *)
PageTablesSound == part = "vmm" => V!FramesAccounted /\ V!TranslationExact

(* The processor never uses a user translation that was taken away. *)
TlbCoherent == part = "vmm" => V!TlbCoherent
=============================================================================
