-------------------------------- MODULE Elf --------------------------------
(* Loading a program: the ELF loader and the initial user stack of
   fs/elf.c, as kernel/process.c uses them.  Addresses, pages, words and the
   stack are scaled down; a byte is named by where it comes from: the file and
   its offset, a word of the argument table, an argument's string. *)
EXTENDS Naturals, FiniteSets, SequencesExt

CONSTANTS ElfFiles,      \* files: entry, size, segments (program headers)
          ArgumentLists, \* sequences of argument lengths
          ElfPage,       \* KOS_PAGE_SIZE
          UserBase,      \* 0x00200000
          StackBottom, StackTop,  \* USER_STACK_BOTTOM, USER_STACK_TOP
          UserEnd,       \* 0x0000800000000000
          Word, StackAlign, Slack, \* 8, 16 and the 64 bytes kept spare
          ArgumentMax, LengthMax, \* 64 arguments of 4096 bytes
          FrameSupply    \* numbers of free frames to start with

VARIABLES file, arguments, supply,
          stage,    \* "start", "map", "stack", "args", "ready", "failed"
          segment, page,   \* where the mapping loop is
          bytes,    \* the mapped user memory
          rights,   \* of every mapped page
          frames,   \* free frames
          rsp
elfVars == <<file, arguments, supply, stage, segment, page, bytes, rights, frames, rsp>>

ElfInit ==
  /\ file \in ElfFiles /\ arguments \in ArgumentLists /\ supply \in FrameSupply
  /\ stage = "start" /\ segment = 1 /\ page = 0 /\ rsp = 0
  /\ bytes = << >> /\ rights = << >> /\ frames = supply

-----------------------------------------------------------------------------
(* Validation *)

range_is_valid(offset, length, total) == offset <= total /\ length <= total - offset
is_power_of_two(value) == value \in {1, 2, 4, 8, 16}

Loadable == SelectSeq(file.segments, LAMBDA s : s.type = "load")

ValidSegment(s) ==
  /\ s.memsz >= s.filesz /\ range_is_valid(s.offset, s.filesz, file.size)
  /\ s.vaddr >= UserBase
  /\ s.memsz > 0 => s.vaddr + s.memsz < UserEnd
  /\ s.align > 1 => is_power_of_two(s.align) /\ s.vaddr % s.align = s.offset % s.align

\* Mutant: segments are compared by where they start only.
DisjointStarts(a, b) == a.vaddr # b.vaddr

Disjoint(a, b) ==
  LET Larger(x, y) == IF x > y THEN x ELSE y
      Smaller(x, y) == IF x < y THEN x ELSE y
  IN ~(Larger(a.vaddr, b.vaddr) < Smaller(a.vaddr + a.memsz, b.vaddr + b.memsz))

ValidFile ==
  /\ file.header /\ file.entry >= UserBase /\ file.entry < UserEnd
  /\ \A i \in DOMAIN file.segments : /\ file.segments[i].type # "interp"
                                     /\ file.segments[i].type = "load" => ValidSegment(file.segments[i])
  /\ Loadable # <<>>
  /\ \A i, j \in DOMAIN Loadable : i < j => Disjoint(Loadable[i], Loadable[j])
  /\ \E i \in DOMAIN Loadable : /\ Loadable[i].exec /\ file.entry >= Loadable[i].vaddr
                                /\ file.entry < Loadable[i].vaddr + Loadable[i].memsz

-----------------------------------------------------------------------------
(* Memory *)

Zero == <<"zero", 0>>
FromFile(at) == <<"file", at>>

PageOf(address) == (address \div ElfPage) * ElfPage
BytesOf(p) == p .. p + ElfPage - 1
Mapped(p) == p \in DOMAIN rights

(* Memory with one more page, zeroed. *)
WithPage(m, p, how) ==
  [bytes |-> [b \in DOMAIN m.bytes \cup BytesOf(p) |-> IF b \in BytesOf(p) THEN Zero ELSE m.bytes[b]],
   rights |-> [q \in DOMAIN m.rights \cup {p} |-> IF q = p THEN how ELSE m.rights[q]],
   frames |-> m.frames - 1]
WithoutPages(m, pages, freed) ==
  [bytes |-> [b \in {x \in DOMAIN m.bytes : PageOf(x) \notin pages} |-> m.bytes[b]],
   rights |-> [q \in DOMAIN m.rights \ pages |-> m.rights[q]],
   frames |-> m.frames + freed]
Zeroed(m, p) == [m EXCEPT !.bytes = [b \in DOMAIN @ |-> IF b \in BytesOf(p) THEN Zero ELSE @[b]]]

Memory == [bytes |-> bytes, rights |-> rights, frames |-> frames]
SetMemory(m) == bytes' = m.bytes /\ rights' = m.rights /\ frames' = m.frames

vmm_clear_user_address_space(m) == WithoutPages(m, DOMAIN m.rights, Cardinality(DOMAIN m.rights))

-----------------------------------------------------------------------------
(* The segments *)

elf_load_binary ==
  /\ stage = "start"
  /\ stage' = IF ValidFile THEN "map" ELSE "failed"
  /\ page' = IF ValidFile THEN PageOf(Loadable[1].vaddr) ELSE 0
  /\ UNCHANGED <<file, arguments, supply, segment, bytes, rights, frames, rsp>>

(* The part of a segment's file contents that falls in page p. *)
\* Mutant: the contents of every page start at the segment's offset.
CopiedFromStart(m, s, p) ==
  [m EXCEPT !.bytes = [b \in DOMAIN @ |->
     IF b \in BytesOf(p) /\ s.vaddr <= b /\ b < s.vaddr + s.filesz
     THEN FromFile(s.offset + (b - (IF p > s.vaddr THEN p ELSE s.vaddr))) ELSE @[b]]]

Copied(m, s, p) ==
  [m EXCEPT !.bytes = [b \in DOMAIN @ |->
     IF b \in BytesOf(p) /\ s.vaddr <= b /\ b < s.vaddr + s.filesz
     THEN FromFile(s.offset + (b - s.vaddr)) ELSE @[b]]]

(* One page of the mapping loop; a page an earlier segment mapped keeps
   that segment's rights. *)
MapPage ==
  LET s == Loadable[segment]
      end == PageOf(s.vaddr + s.memsz + ElfPage - 1)
      fresh == WithPage(Memory, page, [write |-> s.write, exec |-> s.exec])
  IN /\ stage = "map" /\ segment <= Len(Loadable)
     /\ IF s.memsz = 0 \/ page >= end
        THEN /\ segment' = segment + 1
             /\ page' = IF segment < Len(Loadable) THEN PageOf(Loadable[segment + 1].vaddr) ELSE 0
             /\ UNCHANGED <<stage, bytes, rights, frames>>
        ELSE IF ~Mapped(page) /\ frames = 0
        THEN /\ SetMemory(vmm_clear_user_address_space(Memory))
             /\ stage' = "failed" /\ page' = 0 /\ UNCHANGED segment
        ELSE /\ SetMemory(Copied(IF Mapped(page) THEN Memory ELSE fresh, s, page))
             /\ page' = page + ElfPage /\ UNCHANGED <<stage, segment>>
     /\ UNCHANGED <<file, arguments, supply, rsp>>

-----------------------------------------------------------------------------
(* The stack *)

StackPages == {StackBottom + (i * ElfPage) : i \in 0 .. ((StackTop - StackBottom) \div ElfPage) - 1}
GuardPage == StackBottom - ElfPage

StringBytes(lengths) == FoldSeq(LAMBDA length, sum : sum + length + 1, 0, lengths)

TableBytes(argc) == (1 + argc + 1 + 1 + 2) * Word

(* Where the i-th string goes: each below the one before it. *)
StringAt(lengths, i) == StackTop - StringBytes(SubSeq(lengths, 1, i))

(* The strings and the table written to a mapped stack; 0 words stand for
   the terminators. *)
Table(lengths) ==
  <<Len(lengths)>> \o [i \in DOMAIN lengths |-> StringAt(lengths, i)] \o <<0, 0, 0, 0>>
Written(m, lengths, sp) ==
  LET table == Table(lengths)
  IN [m EXCEPT !.bytes = [b \in DOMAIN @ |->
        IF \E i \in DOMAIN table : b \in sp + ((i - 1) * Word) .. sp + (i * Word) - 1
        THEN <<"word", table[((b - sp) \div Word) + 1]>>
        ELSE IF b < StackTop /\ \E i \in DOMAIN lengths :
                  b \in StringAt(lengths, i) .. StringAt(lengths, i) + lengths[i]
        THEN <<"string", CHOOSE i \in DOMAIN lengths :
                 b \in StringAt(lengths, i) .. StringAt(lengths, i) + lengths[i]>>
        ELSE @[b]]]

(* The result: memory, and the stack pointer or 0 for a failure, which
   gives back the pages this call mapped. *)
process_setup_user_stack(m0, lengths) ==
  LET m1 == WithoutPages(m0, {GuardPage}, 0)
      missing == StackPages \ DOMAIN m1.rights
      mapped == FoldSet(LAMBDA p, m : Zeroed(IF p \in missing
                          THEN WithPage(m, p, [write |-> TRUE, exec |-> FALSE]) ELSE m, p),
                        m1, StackPages)
      table == TableBytes(Len(lengths))
      fits == /\ \A i \in DOMAIN lengths : lengths[i] <= LengthMax
              /\ StringBytes(lengths) + table + Slack <= StackTop - StackBottom
      sp == ((StringAt(lengths, Len(lengths)) - table) \div StackAlign) * StackAlign
  IN IF Len(lengths) > ArgumentMax
     THEN [memory |-> m0, rsp |-> 0]
     ELSE IF Cardinality(missing) > m1.frames
     THEN [memory |-> m1, rsp |-> 0]
     ELSE IF ~fits \/ sp < StackBottom
     THEN [memory |-> WithoutPages(mapped, missing, Cardinality(missing)), rsp |-> 0]
     ELSE [memory |-> Written(mapped, lengths, sp), rsp |-> sp]

(* elf_load_binary ends with a stack without arguments. *)
FirstStack ==
  LET made == process_setup_user_stack(Memory, <<>>)
  IN /\ stage = "map" /\ segment > Len(Loadable)
     /\ IF made.rsp = 0
        THEN SetMemory(vmm_clear_user_address_space(made.memory)) /\ stage' = "failed"
        ELSE SetMemory(made.memory) /\ stage' = "args"
     /\ rsp' = made.rsp
     /\ UNCHANGED <<file, arguments, supply, segment, page>>

(* process_exec lays the stack out again with the arguments, and
   destroys the address space when that fails. *)
ArgumentStack ==
  LET made == process_setup_user_stack(Memory, arguments)
  IN /\ stage = "args"
     /\ IF made.rsp = 0
        THEN SetMemory(vmm_clear_user_address_space(made.memory)) /\ stage' = "failed"
        ELSE SetMemory(made.memory) /\ stage' = "ready"
     /\ rsp' = made.rsp
     /\ UNCHANGED <<file, arguments, supply, segment, page>>

ElfNext == elf_load_binary \/ MapPage \/ FirstStack \/ ArgumentStack

-----------------------------------------------------------------------------
(* Properties *)

(* Segments that leave the stack and its guard page alone. *)
BelowStack == \A i \in DOMAIN Loadable :
                PageOf(Loadable[i].vaddr + Loadable[i].memsz + ElfPage - 1) <= GuardPage

SharesPage(s, t) == {PageOf(b) : b \in s.vaddr .. s.vaddr + s.memsz - 1}
                      \cap {PageOf(b) : b \in t.vaddr .. t.vaddr + t.memsz - 1} # {}

(* A loaded program finds in memory exactly its segments: the bytes of the
   file, zeros after them, with the rights its headers ask for unless two
   segments share a page; and a load that failed has mapped nothing and
   kept no frame.  (Segments reaching into the stack area excepted.) *)
ImageExact ==
  /\ stage = "ready" /\ BelowStack =>
       \A i \in DOMAIN Loadable : LET s == Loadable[i] IN
         /\ \A b \in s.vaddr .. s.vaddr + s.memsz - 1 :
              bytes[b] = IF b < s.vaddr + s.filesz THEN FromFile(s.offset + (b - s.vaddr)) ELSE Zero
         /\ (\A j \in DOMAIN Loadable : j # i => ~SharesPage(s, Loadable[j])) =>
              \A b \in s.vaddr .. s.vaddr + s.memsz - 1 :
                rights[PageOf(b)] = [write |-> s.write, exec |-> s.exec]
  /\ stage = "failed" => rights = << >> /\ (BelowStack => frames = supply)

(* What the program's entry code finds on its stack: an aligned stack
   pointer at the argument count, then a pointer to each argument's string,
   none of them damaged, then the terminators; nothing below the stack. *)
StackLaidOut ==
  stage = "ready" =>
    /\ rsp % StackAlign = 0 /\ rsp >= StackBottom /\ ~Mapped(GuardPage)
    /\ \A k \in 1 .. Len(arguments) + 5, w \in 0 .. Word - 1 :
         bytes[rsp + ((k - 1) * Word) + w] = <<"word", Table(arguments)[k]>>
    /\ \A i \in DOMAIN arguments :
         /\ \A b \in StringAt(arguments, i) .. StringAt(arguments, i) + arguments[i] :
              bytes[b] = <<"string", i>>
         /\ Table(arguments)[i + 1] = StringAt(arguments, i)
=============================================================================
