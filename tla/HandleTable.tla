---------------------------- MODULE HandleTable ----------------------------
(* Per-process handle tables (kernel/handle.c) over reference-counted kernel *)
(* objects (kernel/object.c), as event objects use them (kernel/wait.c).     *)
(*                                                                          *)
(* A section under table->lock is one step, and so is each atomic change of  *)
(* a refcount made outside it.  A thread holds at most one reference of its  *)
(* own at a time (ref): the creator's, the one a closed handle leaves         *)
(* behind, or the temporary one of handle_duplicate.  Tables stand for       *)
(* processes: a process has one table from process_create to process_exit.   *)
(* in_use is object # NoObject, the two being set together.                  *)
EXTENDS Naturals, FiniteSets, FiniteSetsExt

CONSTANTS Tables, NoTable, Objects, NoObject, Threads,
          Capacity,     \* KOS_HANDLE_TABLE_CAPACITY
          GenModulus,   \* 2^16, the width of generation
          Rights,       \* the bits of a rights mask
          Granted       \* the rights event_create gives to its handle

ASSUME HandleAssumption ==
  /\ IsFiniteSet(Tables) /\ IsFiniteSet(Threads)
  /\ NoTable \notin Tables /\ NoObject \notin Objects
  /\ Threads \cap (Tables \X (0 .. (Capacity - 1))) = {}
  /\ Capacity \in Nat /\ GenModulus \in Nat \ {0, 1}
  /\ Granted \subseteq Rights

VARIABLES tstate,     \* proc->handles: "none", "open", or "draining"
          object,     \* entries[].object of each table
          rights,     \* entries[].rights
          generation, \* entries[].generation
          count,      \* table->count
          pend,       \* objs_to_unref[] of a table being destroyed
          refcount,   \* hdr->refcount of each object
          live,       \* the object is initialised and not yet destructed
          thr         \* each thread's step, reference, table and rights

vars == <<tstate, object, rights, generation, count, pend, refcount, live, thr>>
entryVars == <<object, rights, generation>>

Indices == 0 .. (Capacity - 1)
Slots == Tables \X Indices
Generations == 1 .. (GenModulus - 1)

\* handle_table_create, for a new process.
FreshTable(p) ==
  /\ tstate' = [tstate EXCEPT ![p] = "open"]
  /\ generation' = [x \in Slots |-> IF x[1] = p THEN 1 ELSE generation[x]]
  /\ count' = [count EXCEPT ![p] = 0]

Init ==
  /\ tstate = [p \in Tables |-> "none"]
  /\ object = [x \in Slots |-> NoObject]
  /\ rights = [x \in Slots |-> {}]
  /\ generation = [x \in Slots |-> 1]
  /\ count = [p \in Tables |-> 0]
  /\ pend = [x \in Slots |-> NoObject]
  /\ refcount = [o \in Objects |-> 0]
  /\ live = [o \in Objects |-> FALSE]
  /\ thr = [t \in Threads |-> [pc |-> "idle", ref |-> NoObject,
                               table |-> NoTable, rights |-> {}]]

-----------------------------------------------------------------------------
(* Objects *)

\* kos_object_init: the creator holds the first reference.
kos_object_init(o) == /\ refcount' = [refcount EXCEPT ![o] = 1]
                      /\ live' = [live EXCEPT ![o] = TRUE]

kos_object_ref(o) == /\ refcount' = [refcount EXCEPT ![o] = @ + 1]
                     /\ UNCHANGED live

\* Faulty variant: the destructor runs one reference too early.
unref_early(o) == /\ refcount' = [refcount EXCEPT ![o] = @ - 1]
                  /\ live' = [live EXCEPT ![o] = @ /\ refcount[o] > 2]

\* atomic_dec_and_test, then the destructor on the last reference.
kos_object_unref(o) == /\ refcount' = [refcount EXCEPT ![o] = @ - 1]
                       /\ live' = [live EXCEPT ![o] = refcount[o] # 1]

-----------------------------------------------------------------------------
(* Handles *)

Idle(t) == thr[t].pc = "idle"
Goto(t, pc, o, p, r) ==
  thr' = [thr EXCEPT ![t] = [pc |-> pc, ref |-> o, table |-> p, rights |-> r]]

\* ++generation on 16 bits, skipping 0.
NextGeneration(g) == IF (g + 1) % GenModulus = 0 THEN 1 ELSE g + 1

\* The entry a handle (x, g) denotes is in use and of that generation.
Valid(x, g) == object[x] # NoObject /\ generation[x] = g

\* Faulty variant: the generation of a closed entry is not advanced.
clear_same_generation(S) ==
  /\ object' = [x \in Slots |-> IF x \in S THEN NoObject ELSE object[x]]
  /\ rights' = [x \in Slots |-> IF x \in S THEN {} ELSE rights[x]]
  /\ UNCHANGED generation

\* Entries that give up their object.
Clear(S) ==
  /\ object' = [x \in Slots |-> IF x \in S THEN NoObject ELSE object[x]]
  /\ rights' = [x \in Slots |-> IF x \in S THEN {} ELSE rights[x]]
  /\ generation' = [x \in Slots |-> IF x \in S THEN NextGeneration(generation[x])
                                             ELSE generation[x]]

\* handle_lookup: the object, if the handle is valid and has the rights.
handle_lookup(x, g, required) ==
  IF tstate[x[1]] = "open" /\ Valid(x, g) /\ required \subseteq rights[x]
  THEN object[x] ELSE NoObject

handle_table_create(t, p) ==
  /\ Idle(t) /\ tstate[p] = "none"
  /\ FreshTable(p)
  /\ UNCHANGED <<object, rights, pend, refcount, live, thr>>

\* event_create: a new object, then handle_create, then the creator's unref.
event_create(t, p, o) ==
  /\ Idle(t) /\ ~live[o]
  /\ kos_object_init(o)
  /\ Goto(t, "create", o, p, Granted)
  /\ UNCHANGED <<tstate, entryVars, count, pend>>

\* handle_create takes the first free entry and a reference for it; it fails
\* without effect when the process has no table any more or the table is full.
handle_create(t) ==
  LET p == thr[t].table
      free == {i \in Indices : object[<<p, i>>] = NoObject}
  IN  /\ thr[t].pc = "create"
      /\ Goto(t, "unref", thr[t].ref, NoTable, {})
      /\ IF tstate[p] = "open" /\ free # {}
         THEN LET x == <<p, Min(free)>>
              IN  /\ object' = [object EXCEPT ![x] = thr[t].ref]
                  /\ rights' = [rights EXCEPT ![x] = thr[t].rights]
                  /\ count' = [count EXCEPT ![p] = @ + 1]
                  /\ kos_object_ref(thr[t].ref)
         ELSE UNCHANGED <<object, rights, count, refcount, live>>
      /\ UNCHANGED <<tstate, generation, pend>>

\* The reference held outside a table is dropped, at the end of event_create,
\* handle_close and handle_duplicate.
Unref(t) ==
  /\ thr[t].pc = "unref"
  /\ kos_object_unref(thr[t].ref)
  /\ Goto(t, "idle", NoObject, NoTable, {})
  /\ UNCHANGED <<tstate, entryVars, count, pend>>

\* Faulty variant: count is left as it was.
handle_close_uncounted(t, x, g) ==
  /\ Idle(t) /\ tstate[x[1]] = "open" /\ Valid(x, g)
  /\ Goto(t, "unref", object[x], NoTable, {})
  /\ Clear({x})
  /\ UNCHANGED <<tstate, count, pend, refcount, live>>

\* handle_close passes the entry's reference to the thread.
handle_close(t, x, g) ==
  /\ Idle(t) /\ tstate[x[1]] = "open" /\ Valid(x, g)
  /\ Goto(t, "unref", object[x], NoTable, {})
  /\ Clear({x})
  /\ count' = [count EXCEPT ![x[1]] = IF @ > 0 THEN @ - 1 ELSE 0]
  /\ UNCHANGED <<tstate, pend, refcount, live>>

\* Faulty variants: the temporary reference is forgotten; rights are not
\* compared with those of the source.
duplicate_unreferenced(t, x, g, q, new) ==
  LET target == IF new # {} THEN new ELSE rights[x]
  IN  /\ Idle(t) /\ tstate[x[1]] = "open" /\ tstate[q] = "open" /\ Valid(x, g)
      /\ "duplicate" \in rights[x] /\ target \subseteq rights[x]
      /\ Goto(t, "create", object[x], q, target)
      /\ UNCHANGED <<tstate, entryVars, count, pend, refcount, live>>

duplicate_amplifies(t, x, g, q, new) ==
  LET target == IF new # {} THEN new ELSE rights[x]
  IN  /\ Idle(t) /\ tstate[x[1]] = "open" /\ tstate[q] = "open" /\ Valid(x, g)
      /\ "duplicate" \in rights[x]
      /\ kos_object_ref(object[x])
      /\ Goto(t, "create", object[x], q, target)
      /\ UNCHANGED <<tstate, entryVars, count, pend>>

\* handle_duplicate: under the source table's lock, check and take a temporary
\* reference; handle_create and Unref follow.
handle_duplicate(t, x, g, q, new) ==
  LET target == IF new # {} THEN new ELSE rights[x]
  IN  /\ Idle(t) /\ tstate[x[1]] = "open" /\ tstate[q] = "open" /\ Valid(x, g)
      /\ "duplicate" \in rights[x] /\ target \subseteq rights[x]
      /\ kos_object_ref(object[x])
      /\ Goto(t, "create", object[x], q, target)
      /\ UNCHANGED <<tstate, entryVars, count, pend>>

\* handle_table_destroy: empty the table under its lock, ...
handle_table_destroy(t, p) ==
  LET used == {x \in Slots : x[1] = p /\ object[x] # NoObject}
  IN  /\ Idle(t) /\ tstate[p] = "open"
      /\ tstate' = [tstate EXCEPT ![p] = "draining"]
      /\ Goto(t, "drain", NoObject, p, {})
      /\ pend' = [x \in Slots |-> IF x \in used THEN object[x] ELSE pend[x]]
      /\ Clear(used)
      /\ count' = [count EXCEPT ![p] = 0]
      /\ UNCHANGED <<refcount, live>>

\* ... then drop the collected references one by one, ...
Drain(t) ==
  LET p == thr[t].table
      left == {i \in Indices : pend[<<p, i>>] # NoObject}
  IN  /\ thr[t].pc = "drain" /\ left # {}
      /\ kos_object_unref(pend[<<p, Min(left)>>])
      /\ pend' = [pend EXCEPT ![<<p, Min(left)>>] = NoObject]
      /\ UNCHANGED <<tstate, entryVars, count, thr>>

\* ... and free the table.
FreeTable(t) ==
  LET p == thr[t].table
  IN  /\ thr[t].pc = "drain"
      /\ \A i \in Indices : pend[<<p, i>>] = NoObject
      /\ tstate' = [tstate EXCEPT ![p] = "none"]
      /\ Goto(t, "idle", NoObject, NoTable, {})
      /\ UNCHANGED <<entryVars, count, pend, refcount, live>>

-----------------------------------------------------------------------------
Step(t) ==
  \/ handle_create(t) \/ Unref(t) \/ Drain(t) \/ FreeTable(t)
  \/ \E p \in Tables : handle_table_create(t, p) \/ handle_table_destroy(t, p)
  \/ \E p \in Tables, o \in Objects : event_create(t, p, o)
  \/ \E x \in Slots, g \in Generations :
       \/ handle_close(t, x, g)
       \/ \E q \in Tables, new \in SUBSET Rights : handle_duplicate(t, x, g, q, new)

Next == \E t \in Threads : Step(t)

Spec == Init /\ [][Next]_vars

-----------------------------------------------------------------------------
(* Properties *)

Steps == {"idle", "create", "unref", "drain"}
OptObject == Objects \cup {NoObject}

TypeOK ==
  /\ tstate \in [Tables -> {"none", "open", "draining"}]
  /\ object \in [Slots -> OptObject]
  /\ rights \in [Slots -> SUBSET Rights]
  /\ generation \in [Slots -> Generations]
  /\ count \in [Tables -> Nat]
  /\ pend \in [Slots -> OptObject]
  /\ refcount \in [Objects -> Nat]
  /\ live \in [Objects -> BOOLEAN]
  /\ thr \in [Threads -> [pc : Steps, ref : OptObject,
                          table : Tables \cup {NoTable}, rights : SUBSET Rights]]

\* Where references are kept: a table's entry (or its place in objs_to_unref),
\* and the reference a thread holds.
Holders(o) == {x \in Slots : object[x] = o \/ pend[x] = o}
                \cup {t \in Threads : thr[t].ref = o}

\* Every reference counted is held somewhere and every one held is counted,
\* whatever interleaving of creating, duplicating, closing and destroying
\* (handle.c:82, 187, 240-247, 54-57; object.c:20-36).
RefsAccounted == \A o \in Objects : refcount[o] = Cardinality(Holders(o))

\* No table entry, no pending unref and no thread holds an object whose
\* destructor has run, and an object nobody holds has been destructed: the
\* destructor runs exactly at the last unref (object.c:31-35).
NoDangling == \A o \in Objects : live[o] <=> Holders(o) # {}

\* table->count is the number of entries in use (handle.c:81, 180-182, 51).
TableCounted ==
  \A p \in Tables : count[p] = Cardinality({i \in Indices : object[<<p, i>>] # NoObject})

\* Handles, objects and tables agree across threads that create, duplicate,
\* close and resolve handles and destroy tables (handle.c, object.c).
HandlesAccounted == TypeOK /\ RefsAccounted /\ NoDangling /\ TableCounted

\* No chain of duplications gives a handle more rights than event_create gave
\* the first one (handle.c:225-230).
RightsNeverAmplified == \A x \in Slots : rights[x] \subseteq Granted
=============================================================================
