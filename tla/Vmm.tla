--------------------------------- MODULE Vmm ---------------------------------
(***************************************************************************)
(* Address spaces and page tables (mm/vmm.c).  Page tables live in frames  *)
(* like any other data, so the model can see a frame freed while a table   *)
(* still points to it, or one that nobody can free any more.  Every public *)
(* function holds vmm_lock with interrupts off: a call is a step.          *)
(*                                                                         *)
(* An address is its four table indices.  The first index tells the lower  *)
(* (user) half from the upper (kernel) half; the upper half of a new       *)
(* address space is a copy of the kernel's top entries.  The TLB of the    *)
(* one CPU caches translations of the loaded space until invlpg or a write *)
(* to cr3.  Callers follow the pattern of the heap and the ELF loader:     *)
(* a frame is allocated to be mapped, and freed when it was unmapped.      *)
(***************************************************************************)
EXTENDS Integers, Sequences, FiniteSets, SequencesExt, FiniteSetsExt

CONSTANTS FrameCount,   \* frames are 1 .. FrameCount; 1 and 2 are the boot loader's
          UserVas,      \* addresses <<0, i3, i2, i1>>
          KernelVas,    \* addresses <<1, i3, i2, i1>>
          SpaceMax      \* bound on the live address spaces

VARIABLES mem,       \* the frames: page tables and the set of free frames
          spaces,    \* roots of the live address spaces
          cr3,       \* the root in use
          tlb,       \* translations the CPU has cached
          mapped     \* [<<root, va>> -> what the caller mapped there]

vmmVars == <<mem, spaces, cr3, tlb, mapped>>

VmFrames == 1 .. FrameCount
KernelRoot == 1
BootTable == 2
Index == {0, 1}
Vas == UserVas \cup KernelVas
IsUser(va) == va[1] = 0
HugeVas == {va \in KernelVas : va[2] = 1}   \* under the boot loader's huge page

NoEntry == [to |-> 0, user |-> FALSE, writable |-> FALSE, owned |-> FALSE, huge |-> FALSE]
EmptyTable == [i \in Index |-> NoEntry]
EntryAt(m, slot) == m.tables[slot[1]][slot[2]]
SetEntry(m, slot, e) == [m EXCEPT !.tables[slot[1]][slot[2]] = e]

(* The boot loader's tables: the kernel's top entry, and a huge page. *)
VmmInit ==
  /\ mem = [tables |-> [f \in VmFrames |->
              CASE f = KernelRoot -> [EmptyTable EXCEPT ![1] =
                     [NoEntry EXCEPT !.to = BootTable, !.writable = TRUE]]
                [] f = BootTable -> [EmptyTable EXCEPT ![1] =
                     [NoEntry EXCEPT !.to = BootTable, !.writable = TRUE, !.huge = TRUE]]
                [] OTHER -> EmptyTable],
            free |-> VmFrames \ {KernelRoot, BootTable}]
  /\ spaces = {} /\ cr3 = KernelRoot /\ tlb = {}
  /\ mapped = [k \in {<<KernelRoot, va>> : va \in HugeVas} |->
                 [frame |-> BootTable, user |-> FALSE, writable |-> TRUE]]

pmm_allocate_frame(m) == IF m.free = {} THEN 0 ELSE Min(m.free)
pmm_free_frame(m, f) == [m EXCEPT !.free = @ \cup {f}]

-----------------------------------------------------------------------------
(* Walking and building tables *)

(* The table behind a slot, 0 when there is none to be had. *)
next_table(m, slot, user) ==
  LET e == EntryAt(m, slot)
      f == pmm_allocate_frame(m)
      fresh == [m EXCEPT !.free = @ \ {f}, !.tables[f] = EmptyTable]
  IN IF e.to # 0
     THEN IF e.huge THEN [mem |-> m, table |-> 0, created |-> FALSE]
          ELSE [mem |-> SetEntry(m, slot, [e EXCEPT !.user = @ \/ user]),
                table |-> e.to, created |-> FALSE]
     ELSE IF f = 0 THEN [mem |-> m, table |-> 0, created |-> FALSE]
     ELSE [mem |-> SetEntry(fresh, slot, [NoEntry EXCEPT !.to = f, !.user = user,
                                            !.writable = TRUE, !.owned = TRUE]),
           table |-> f, created |-> TRUE]

page_table_is_empty(m, f) == \A i \in Index : m.tables[f][i].to = 0

Releasable(m, slot) ==
  LET e == EntryAt(m, slot) IN e.to # 0 /\ e.owned /\ page_table_is_empty(m, e.to)

release_owned_empty_table(m, slot) ==
  IF Releasable(m, slot)
  THEN pmm_free_frame(SetEntry(m, slot, NoEntry), EntryAt(m, slot).to) ELSE m

(* Down to the last level, creating tables; made holds the slots of the
   tables this walk created, the deepest first. *)
Descend(m, root, va, user) ==
  FoldLeft(LAMBDA w, level :
      IF w.at = 0 THEN w
      ELSE LET got == next_table(w.mem, <<w.at, va[level]>>, user)
           IN [mem |-> got.mem, at |-> got.table,
               made |-> IF got.created THEN <<<<w.at, va[level]>>>> \o w.made ELSE w.made],
    [mem |-> m, at |-> root, made |-> <<>>], <<1, 2, 3>>)

(* The tables created for a mapping that failed are given back. *)
Rollback(w) == FoldLeft(release_owned_empty_table, w.mem, w.made)

(* The slots of an address from the root down to its leaf, a huge page being
   one; empty when a table on the way is missing. *)
Path(m, root, va) ==
  FoldLeft(LAMBDA p, level :
      IF p = <<>> THEN <<>>
      ELSE LET e == EntryAt(m, Last(p))
           IN IF e.to = 0 THEN <<>> ELSE IF e.huge THEN p ELSE Append(p, <<e.to, va[level]>>),
    <<<<root, va[1]>>>>, <<2, 3, 4>>)

(* vmm_query_page_in: the frame and the effective rights; an upper level
   can only take rights away. *)
Translate(m, root, va) ==
  LET path == Path(m, root, va)
      e == EntryAt(m, Last(path))
      All(right(_)) == \A k \in DOMAIN path : right(EntryAt(m, path[k]))
  IN IF path = <<>> \/ e.to = 0 THEN [frame |-> 0, user |-> FALSE, writable |-> FALSE]
     ELSE [frame |-> e.to, user |-> All(LAMBDA x : x.user),
           writable |-> All(LAMBDA x : x.writable)]

-----------------------------------------------------------------------------
(* Operations *)

\* Mutant: the kernel half of a new space starts empty.
vmm_create_empty_space ==
  LET root == pmm_allocate_frame(mem)
  IN /\ root # 0 /\ Cardinality(spaces) < SpaceMax
     /\ mem' = [mem EXCEPT !.free = @ \ {root}, !.tables[root] = EmptyTable]
     /\ spaces' = spaces \cup {root}
     /\ UNCHANGED <<cr3, tlb, mapped>>

vmm_create_address_space ==
  LET root == pmm_allocate_frame(mem)
      top == [i \in Index |-> IF i = 0 THEN NoEntry ELSE mem.tables[KernelRoot][i]]
  IN /\ root # 0 /\ Cardinality(spaces) < SpaceMax
     /\ mem' = [mem EXCEPT !.free = @ \ {root}, !.tables[root] = top]
     /\ spaces' = spaces \cup {root}
     /\ UNCHANGED <<cr3, tlb, mapped>>

cpu_invalidate_page(va) == {t \in tlb : t.va # va}
InvalidateIfLoaded(root, va) == IF cr3 = root THEN cpu_invalidate_page(va) ELSE tlb

(* A frame is allocated and mapped; when the mapping fails it is freed. *)
vmm_map_page_in(root, va, user, writable) ==
  LET f == pmm_allocate_frame(mem)
      down == Descend([mem EXCEPT !.free = @ \ {f}], root, va, IsUser(va) \/ user)
      leaf == <<down.at, va[4]>>
      fails == down.at = 0 \/ EntryAt(down.mem, leaf).to # 0
      entry == [NoEntry EXCEPT !.to = f, !.user = user, !.writable = writable, !.owned = TRUE]
  IN /\ f # 0 /\ (user => IsUser(va))
     /\ IF fails
        THEN mem' = pmm_free_frame(Rollback(down), f) /\ UNCHANGED <<tlb, mapped>>
        ELSE /\ mem' = SetEntry(down.mem, leaf, entry)
             /\ tlb' = InvalidateIfLoaded(root, va)
             /\ mapped' = [k \in DOMAIN mapped \cup {<<root, va>>} |->
                  IF k = <<root, va>>
                  THEN [frame |-> f, user |-> user, writable |-> writable] ELSE mapped[k]]
     /\ UNCHANGED <<spaces, cr3>>

Without(map, keys) == [k \in DOMAIN map \ keys |-> map[k]]

(* Tables left empty are freed upwards as long as each one could be. *)
Prune(m, path) ==
  LET one == release_owned_empty_table(m, path[3])
      two == release_owned_empty_table(one, path[2])
  IN IF ~Releasable(m, path[3]) THEN m
     ELSE IF ~Releasable(one, path[2]) THEN one
     ELSE release_owned_empty_table(two, path[1])

\* Mutant: the stale translation is left in the TLB.
vmm_unmap_page_in_stale(root, va) ==
  LET path == Path(mem, root, va)
      e == EntryAt(mem, Last(path))
  IN /\ Len(path) = 4 /\ e.to # 0 /\ e.owned
     /\ mem' = pmm_free_frame(Prune(SetEntry(mem, Last(path), NoEntry), path), e.to)
     /\ mapped' = Without(mapped, {<<root, va>>})
     /\ UNCHANGED <<spaces, cr3, tlb>>

vmm_unmap_page_in(root, va) ==
  LET path == Path(mem, root, va)
      e == EntryAt(mem, Last(path))
  IN /\ Len(path) = 4 /\ e.to # 0 /\ e.owned
     /\ mem' = pmm_free_frame(Prune(SetEntry(mem, Last(path), NoEntry), path), e.to)
     /\ tlb' = InvalidateIfLoaded(root, va)
     /\ mapped' = Without(mapped, {<<root, va>>})
     /\ UNCHANGED <<spaces, cr3>>

(* The rights of a kernel page; the address is invalidated whatever cr3 is. *)
vmm_set_page_permissions(va, writable) ==
  LET path == Path(mem, KernelRoot, va)
      e == EntryAt(mem, Last(path))
  IN /\ path # <<>> /\ e.to # 0
     /\ mem' = SetEntry(mem, Last(path), [e EXCEPT !.writable = writable])
     /\ mapped' = [mapped EXCEPT ![<<KernelRoot, va>>].writable = writable]
     /\ tlb' = cpu_invalidate_page(va)
     /\ UNCHANGED <<spaces, cr3>>

(* Every table and page of the lower half, freed and cleared. *)
RECURSIVE Subtree(_, _, _)
Subtree(m, f, level) ==
  LET below == {m.tables[f][i].to : i \in Index} \ {0}
  IN IF level = 4 THEN below ELSE below \cup UNION {Subtree(m, g, level + 1) : g \in below}

UserFrames(m, root) ==
  LET top == m.tables[root][0].to IN IF top = 0 THEN {} ELSE {top} \cup Subtree(m, top, 2)

ClearUser(m, root) ==
  LET gone == UserFrames(m, root)
  IN [tables |-> [f \in VmFrames |-> IF f \in gone THEN EmptyTable
                    ELSE IF f = root THEN [m.tables[f] EXCEPT ![0] = NoEntry]
                    ELSE m.tables[f]],
      free |-> m.free \cup gone]

(* The loaded space is left before its tables go. *)
LeaveSpace(root) ==
  /\ cr3' = IF cr3 = root THEN KernelRoot ELSE cr3
  /\ tlb' = IF cr3 = root THEN {} ELSE tlb
  /\ mapped' = Without(mapped, {<<root, va>> : va \in Vas})

vmm_clear_user_address_space(root) ==
  /\ root \in spaces
  /\ mem' = ClearUser(mem, root)
  /\ LeaveSpace(root) /\ UNCHANGED spaces

vmm_destroy_address_space(root) ==
  /\ root \in spaces
  /\ mem' = pmm_free_frame([ClearUser(mem, root) EXCEPT !.tables[root] = EmptyTable], root)
  /\ LeaveSpace(root) /\ spaces' = spaces \ {root}

(* The scheduler loads the space of the thread it switches to. *)
cpu_write_cr3(root) ==
  /\ cr3' = root /\ tlb' = {} /\ UNCHANGED <<mem, spaces, mapped>>

(* The CPU uses an address: the translation may be cached from then on. *)
Access(va) ==
  LET t == Translate(mem, cr3, va)
  IN /\ t.frame # 0 /\ ~\E c \in tlb : c.va = va
     /\ tlb' = tlb \cup {[va |-> va, frame |-> t.frame, writable |-> t.writable]}
     /\ UNCHANGED <<mem, spaces, cr3, mapped>>

VmmNext ==
  \/ vmm_create_address_space
  \/ \E root \in spaces, va \in UserVas, writable \in BOOLEAN :
       vmm_map_page_in(root, va, TRUE, writable)
  \/ \E va \in KernelVas, writable \in BOOLEAN :
       vmm_map_page_in(KernelRoot, va, FALSE, writable) \/ vmm_set_page_permissions(va, writable)
  \/ \E root \in spaces, va \in UserVas : vmm_unmap_page_in(root, va)
  \/ \E va \in KernelVas : vmm_unmap_page_in(KernelRoot, va)
  \/ \E root \in spaces : \/ vmm_clear_user_address_space(root)
                          \/ vmm_destroy_address_space(root)
                          \/ cpu_write_cr3(root)
  \/ \E va \in Vas : Access(va)

-----------------------------------------------------------------------------
(* Properties *)

(* Every frame is free or has exactly one owner: an address space, a table
   entry above it, or the boot loader; and a table of the kernel's making is
   never left empty.  No mapping that failed half way, no unmapping and no
   destroyed address space loses a frame, keeps one for nothing, or frees
   one that a table still points to. *)
FramesAccounted ==
  LET slots == {s \in (VmFrames \ mem.free) \X Index :
                  EntryAt(mem, s).to # 0 /\ ~(s[1] \in spaces /\ s[2] = 1)}
      real == {s \in slots : ~EntryAt(mem, s).huge}
  IN /\ {EntryAt(mem, s).to : s \in real} \cup spaces \cup {KernelRoot}
          = VmFrames \ mem.free
     /\ Cardinality(real) + Cardinality(spaces) + 1 = FrameCount - Cardinality(mem.free)
     /\ \A root \in spaces \cup {KernelRoot}, va \in Vas :
          LET Leads(s) == EntryAt(mem, s).to # 0 /\ ~EntryAt(mem, s).huge
              pml4 == <<root, va[1]>>
              pdpt == <<EntryAt(mem, pml4).to, va[2]>>
              directory == <<EntryAt(mem, pdpt).to, va[3]>>
          IN /\ ~Releasable(mem, pml4)
             /\ Leads(pml4) => ~Releasable(mem, pdpt)
             /\ Leads(pml4) /\ Leads(pdpt) => ~Releasable(mem, directory)

(* A page translates to the frame and the rights its caller asked for, in
   the space it was mapped in, and nothing else translates; and a kernel
   page is the same in every address space, whenever the space was made. *)
TranslationExact ==
  \A root \in spaces \cup {KernelRoot}, va \in Vas :
    LET t == Translate(mem, root, va)
        key == <<IF IsUser(va) THEN root ELSE KernelRoot, va>>
    IN t = IF key \in DOMAIN mapped THEN mapped[key]
           ELSE [frame |-> 0, user |-> FALSE, writable |-> FALSE]

(* The CPU never uses a stale translation of a user page, nor of a kernel
   page while the kernel's own tables are loaded: whatever the TLB holds
   agrees with the tables.  (Under a user space's cr3 a kernel page can be
   unmapped without invlpg.) *)
TlbCoherent ==
  \A c \in tlb :
    LET t == Translate(mem, cr3, c.va)
    IN \/ t.frame = c.frame /\ t.writable = c.writable
       \/ ~IsUser(c.va) /\ cr3 # KernelRoot
=============================================================================
