---------------------------- MODULE HandleProofs ----------------------------
(* For any number of processes, threads and objects, any capacity of the     *)
(* tables and any width of the generation: references, entries and counters  *)
(* agree, no chain of duplications amplifies a right, and a kept handle      *)
(* denotes the object it was made for until its generation has come round.   *)
EXTENDS HandleClient, FiniteSetTheorems, WellFoundedInduction, TLAPS

\* Between the steps of a call a thread has what the next step takes for
\* granted: a reference exactly when it must drop one, the table it works on,
\* rights it was allowed, and for handle_table_destroy a table nobody else has.
ThreadsSound ==
  \A t \in Threads :
    /\ thr[t].ref = NoObject <=> thr[t].pc \in {"idle", "drain"}
    /\ thr[t].pc \in {"create", "drain"} => thr[t].table \in Tables
    /\ thr[t].rights \subseteq Granted
    /\ thr[t].pc = "drain" => tstate[thr[t].table] = "draining"
    /\ \A u \in Threads :
         thr[t].pc = "drain" /\ thr[u].pc = "drain" /\ thr[t].table = thr[u].table => t = u

\* Entries are in use only in an open table, and references wait to be dropped
\* only in one being destroyed: a slot never holds two references.
EntriesSound ==
  \A x \in Slots : /\ object[x] # NoObject => tstate[x[1]] = "open"
                   /\ pend[x] # NoObject => tstate[x[1]] = "draining"

Inv == /\ TypeOK /\ ThreadsSound /\ EntriesSound
       /\ RefsAccounted /\ NoDangling /\ TableCounted /\ RightsNeverAmplified

-----------------------------------------------------------------------------
(* Sets *)

\* The search for a free entry returns one (handle_create).
LEMMA MinIsMember ==
  ASSUME NEW S \in SUBSET Nat, S # {}
  PROVE  Min(S) \in S
<1>1. \E x \in S : \A y \in S : ~(<<y, x>> \in OpToRel(<, Nat))
  BY NatLessThanWellFounded, WFMin, Zenon
<1>2. PICK x \in S : \A y \in S : ~(<<y, x>> \in OpToRel(<, Nat))
  BY <1>1
<1>3. \A y \in S : ~(y < x)
  BY <1>2, Zenon DEF OpToRel
<1>4. \A y \in S : x =< y
  BY <1>3
<1> QED
  BY <1>4 DEF Min

\* A slot is a table and an index, and is no thread.
LEMMA SlotFacts ==
  /\ \A x \in Slots : x[1] \in Tables /\ x \notin Threads
  /\ \A p \in Tables, i \in Indices : <<p, i>> \in Slots /\ <<p, i>>[1] = p
  /\ IsFiniteSet(Slots) /\ IsFiniteSet(Indices)
<1>1. IsFiniteSet(Indices)
  BY FS_Interval, HandleAssumption DEF Indices
<1>2. IsFiniteSet(Slots)
  BY <1>1, FS_Product, HandleAssumption DEF Slots
<1> QED
  BY <1>1, <1>2, HandleAssumption DEF Slots, Indices

\* Whoever holds an object is a slot or a thread, so the holders can be counted.
LEMMA HoldersFinite ==
  ASSUME NEW o
  PROVE  IsFiniteSet(Holders(o)) /\ Cardinality(Holders(o)) \in Nat
<1>1. Holders(o) \subseteq Slots \cup Threads
  BY DEF Holders
<1>2. IsFiniteSet(Slots \cup Threads)
  BY SlotFacts, FS_Union, HandleAssumption
<1> QED
  BY <1>1, <1>2, FS_Subset, FS_CardinalityType

\* One holder more, one less, one replaced by another.
LEMMA OneMore ==
  ASSUME NEW S, IsFiniteSet(S), NEW e, e \notin S
  PROVE  Cardinality(S \cup {e}) = Cardinality(S) + 1
BY FS_AddElement, FS_CardinalityType

LEMMA OneLess ==
  ASSUME NEW S, IsFiniteSet(S), NEW e \in S
  PROVE  /\ Cardinality(S) \in Nat \ {0}
         /\ Cardinality(S \ {e}) = Cardinality(S) - 1
         /\ S \ {e} # {} <=> Cardinality(S) # 1
<1>1. /\ IsFiniteSet(S \ {e}) /\ Cardinality(S \ {e}) = Cardinality(S) - 1
      /\ Cardinality(S) \in Nat /\ Cardinality(S \ {e}) \in Nat
  BY FS_RemoveElement, FS_CardinalityType
<1>2. Cardinality(S \ {e}) = 0 <=> S \ {e} = {}
  BY <1>1, FS_EmptySet
<1> QED
  BY <1>1, <1>2

LEMMA OneMoved ==
  ASSUME NEW S, IsFiniteSet(S), NEW e \in S, NEW f, f \notin S
  PROVE  Cardinality((S \ {e}) \cup {f}) = Cardinality(S)
<1>1. /\ IsFiniteSet(S \ {e}) /\ Cardinality(S \ {e}) = Cardinality(S) - 1
      /\ Cardinality(S) \in Nat
  BY FS_RemoveElement, FS_CardinalityType
<1>2. Cardinality((S \ {e}) \cup {f}) = Cardinality(S \ {e}) + 1
  BY <1>1, OneMore
<1> QED
  BY <1>1, <1>2

-----------------------------------------------------------------------------
(* References *)

\* kos_object_ref on behalf of a new holder of an object somebody holds.
LEMMA Taken ==
  ASSUME Inv, NEW o \in Objects, NEW h, h \notin Holders(o), Holders(o) # {},
         kos_object_ref(o), Holders(o)' = Holders(o) \cup {h},
         \A q \in Objects : q # o => Holders(q)' = Holders(q)
  PROVE  (RefsAccounted /\ NoDangling)'
<1>1. ASSUME NEW q \in Objects
      PROVE  refcount'[q] = Cardinality(Holders(q)') /\ (live'[q] <=> Holders(q)' # {})
  <2>1. CASE q = o
    <3>1. Cardinality(Holders(o)') = Cardinality(Holders(o)) + 1
      BY OneMore, HoldersFinite
    <3>2. refcount'[o] = refcount[o] + 1 /\ live'[o] = live[o]
      BY DEF Inv, TypeOK, kos_object_ref
    <3>3. refcount'[o] = Cardinality(Holders(o)')
      BY <3>1, <3>2 DEF Inv, RefsAccounted
    <3>4. live[o] /\ Holders(o)' # {}
      BY Zenon DEF Inv, NoDangling
    <3> QED
      BY <2>1, <3>2, <3>3, <3>4, Zenon
  <2>2. CASE q # o
    <3>1. refcount'[q] = refcount[q] /\ live'[q] = live[q]
      BY <2>2 DEF Inv, TypeOK, kos_object_ref
    <3> QED
      BY <2>2, <3>1, Zenon DEF Inv, RefsAccounted, NoDangling
  <2> QED
    BY <2>1, <2>2
<1> QED
  BY <1>1, Zenon DEF RefsAccounted, NoDangling

\* kos_object_unref by one of the holders: the destructor runs if it is the
\* last one.
LEMMA Dropped ==
  ASSUME Inv, NEW o \in Objects, NEW h \in Holders(o),
         kos_object_unref(o), Holders(o)' = Holders(o) \ {h},
         \A q \in Objects : q # o => Holders(q)' = Holders(q)
  PROVE  (RefsAccounted /\ NoDangling)' /\ refcount' \in [Objects -> Nat]
<1>1. /\ Cardinality(Holders(o)) \in Nat \ {0}
      /\ Cardinality(Holders(o)') = Cardinality(Holders(o)) - 1
      /\ Holders(o)' # {} <=> Cardinality(Holders(o)) # 1
  BY OneLess, HoldersFinite
<1>2. refcount[o] = Cardinality(Holders(o))
  BY DEF Inv, RefsAccounted
<1>3. /\ refcount'[o] = refcount[o] - 1 /\ live'[o] = (refcount[o] # 1)
      /\ refcount' \in [Objects -> Nat]
  BY <1>1, <1>2 DEF Inv, TypeOK, kos_object_unref
<1>4. ASSUME NEW q \in Objects
      PROVE  refcount'[q] = Cardinality(Holders(q)') /\ (live'[q] <=> Holders(q)' # {})
  <2>1. CASE q = o
    <3>1. refcount'[o] = Cardinality(Holders(o)')
      BY <1>1, <1>2, <1>3
    <3>2. live'[o] <=> Holders(o)' # {}
      BY <1>1, <1>2, <1>3, Zenon
    <3> QED
      BY <2>1, <3>1, <3>2, Zenon
  <2>2. CASE q # o
    <3>1. refcount'[q] = refcount[q] /\ live'[q] = live[q]
      BY <2>2 DEF Inv, TypeOK, kos_object_unref
    <3> QED
      BY <2>2, <3>1, Zenon DEF Inv, RefsAccounted, NoDangling
  <2> QED
    BY <2>1, <2>2
<1> QED
  BY <1>3, <1>4, Zenon DEF RefsAccounted, NoDangling

\* A reference changes hands, or stays: no count changes.
LEMMA Kept ==
  ASSUME Inv, UNCHANGED <<refcount, live>>,
         \A q \in Objects : /\ Cardinality(Holders(q)') = Cardinality(Holders(q))
                            /\ Holders(q)' = {} <=> Holders(q) = {}
  PROVE  (RefsAccounted /\ NoDangling)'
BY Zenon DEF Inv, RefsAccounted, NoDangling

-----------------------------------------------------------------------------
(* The steps of a thread *)

LEMMA TableCreateStep ==
  ASSUME Inv, NEW t \in Threads, NEW p \in Tables, handle_table_create(t, p)
  PROVE  Inv'
<1> USE DEF handle_table_create, FreshTable
<1>1. tstate[p] = "none" /\ tstate' = [tstate EXCEPT ![p] = "open"]
  OBVIOUS
<1>2. TypeOK'
  <2>1. 1 \in Generations
    BY HandleAssumption DEF Generations
  <2> QED
    BY <2>1 DEF Inv, TypeOK
<1>3. ThreadsSound'
  BY DEF Inv, TypeOK, ThreadsSound
<1>4. EntriesSound'
  BY SlotFacts DEF Inv, TypeOK, EntriesSound
<1>5. (RefsAccounted /\ NoDangling /\ RightsNeverAmplified)'
  BY DEF Inv, RefsAccounted, NoDangling, RightsNeverAmplified, Holders
<1>6. TableCounted'
  <2>1. {i \in Indices : object[<<p, i>>] # NoObject} = {}
    BY SlotFacts DEF Inv, TypeOK, EntriesSound
  <2>2. Cardinality({i \in Indices : object[<<p, i>>] # NoObject}) = 0
    BY <2>1, FS_EmptySet
  <2> QED
    BY <2>2 DEF Inv, TypeOK, TableCounted
<1> QED
  BY <1>2, <1>3, <1>4, <1>5, <1>6 DEF Inv

LEMMA EventCreateStep ==
  ASSUME Inv, NEW t \in Threads, NEW p \in Tables, NEW o \in Objects,
         event_create(t, p, o)
  PROVE  Inv'
<1> USE DEF event_create, kos_object_init, Idle, Goto, entryVars
<1>1. thr[t].ref = NoObject /\ o # NoObject /\ ~live[o]
  BY HandleAssumption DEF Inv, ThreadsSound
<1>2. TypeOK'
  BY HandleAssumption DEF Inv, TypeOK, Steps, OptObject
<1>3. ThreadsSound'
  BY <1>1 DEF Inv, TypeOK, ThreadsSound
<1>4. (EntriesSound /\ TableCounted /\ RightsNeverAmplified)'
  BY DEF Inv, EntriesSound, TableCounted, RightsNeverAmplified
<1>5. ASSUME NEW q \in Objects
      PROVE  refcount'[q] = Cardinality(Holders(q)') /\ (live'[q] <=> Holders(q)' # {})
  <2>1. CASE q = o
    <3>1. Holders(o) = {}
      BY <1>1 DEF Inv, NoDangling
    <3>2. Holders(o)' = {t}
      BY <1>1, <3>1, HandleAssumption DEF Inv, TypeOK, Holders
    <3>3. refcount'[o] = 1 /\ live'[o]
      BY DEF Inv, TypeOK
    <3>4. Cardinality({t}) = 1
      BY FS_Singleton
    <3> QED
      BY <2>1, <3>2, <3>3, <3>4, Zenon
  <2>2. CASE q # o
    <3>1. Holders(q)' = Holders(q)
      BY <1>1, <2>2, HandleAssumption DEF Inv, TypeOK, Holders
    <3>2. refcount'[q] = refcount[q] /\ live'[q] = live[q]
      BY <2>2 DEF Inv, TypeOK
    <3> QED
      BY <3>1, <3>2, Zenon DEF Inv, RefsAccounted, NoDangling
  <2> QED
    BY <2>1, <2>2
<1> QED
  BY <1>2, <1>3, <1>4, <1>5 DEF Inv, RefsAccounted, NoDangling

LEMMA HandleCreateStep ==
  ASSUME Inv, NEW t \in Threads, handle_create(t)
  PROVE  Inv'
<1> DEFINE p == thr[t].table
           r == thr[t].ref
           free == {i \in Indices : object[<<p, i>>] = NoObject}
           x == <<p, Min(free)>>
<1>1. /\ thr[t].pc = "create" /\ Goto(t, "unref", r, NoTable, {})
      /\ UNCHANGED <<tstate, generation, pend>>
      /\ \/ /\ tstate[p] = "open" /\ free # {}
            /\ object' = [object EXCEPT ![x] = r]
            /\ rights' = [rights EXCEPT ![x] = thr[t].rights]
            /\ count' = [count EXCEPT ![p] = @ + 1]
            /\ kos_object_ref(r)
         \/ UNCHANGED <<object, rights, count, refcount, live>>
  BY DEF handle_create
<1>2. /\ r \in Objects /\ r # NoObject /\ p \in Tables
      /\ thr[t].rights \subseteq Granted /\ thr[t].rights \in SUBSET Rights
  BY <1>1 DEF Inv, TypeOK, ThreadsSound, OptObject
<1>3. thr'[t].ref = r /\ \A u \in Threads : thr'[u].ref = thr[u].ref
  BY <1>1 DEF Inv, TypeOK, Goto
<1>4. ThreadsSound'
  BY <1>1, <1>2 DEF Inv, TypeOK, ThreadsSound, Goto
<1>5. thr' \in [Threads -> [pc : Steps, ref : OptObject,
                            table : Tables \cup {NoTable}, rights : SUBSET Rights]]
  BY <1>1, <1>2 DEF Inv, TypeOK, Goto, Steps, OptObject
<1>6. CASE UNCHANGED <<object, rights, count, refcount, live>>
  <2>1. \A o : Holders(o)' = Holders(o)
    BY <1>1, <1>3, <1>6 DEF Holders
  <2> QED
    BY <1>1, <1>4, <1>5, <1>6, <2>1
    DEF Inv, TypeOK, EntriesSound, RefsAccounted, NoDangling, TableCounted,
        RightsNeverAmplified
<1>7. CASE /\ tstate[p] = "open" /\ free # {}
           /\ object' = [object EXCEPT ![x] = r]
           /\ rights' = [rights EXCEPT ![x] = thr[t].rights]
           /\ count' = [count EXCEPT ![p] = @ + 1]
           /\ kos_object_ref(r)
  <2>1. Min(free) \in free /\ Min(free) \in Indices
    <3>1. free \in SUBSET Nat /\ free \subseteq Indices
      BY HandleAssumption DEF Indices
    <3> HIDE DEF free
    <3> QED
      BY <1>7, <3>1, MinIsMember
  <2>2. x \in Slots /\ x[1] = p /\ object[x] = NoObject /\ pend[x] = NoObject
    BY <2>1, <1>2, <1>7, SlotFacts DEF Inv, EntriesSound
  <2> HIDE DEF x
  <2>3. TypeOK'
    BY <1>1, <1>2, <1>5, <1>7, <2>2 DEF Inv, TypeOK, OptObject, kos_object_ref
  <2>4. EntriesSound'
    BY <1>1, <1>7, <2>2 DEF Inv, TypeOK, EntriesSound
  <2>5. RightsNeverAmplified'
    BY <1>2, <1>7, <2>2 DEF Inv, TypeOK, RightsNeverAmplified
  <2>6. (RefsAccounted /\ NoDangling)'
    <3>1. PICK o \in Objects : o = r
      BY <1>2
    <3>2. x \notin Holders(o) /\ t \in Holders(o)
      BY <1>2, <2>2, <3>1, SlotFacts DEF Holders
    <3>3. Holders(o)' = Holders(o) \cup {x}
      BY <1>1, <1>3, <1>7, <2>2, <3>1 DEF Inv, TypeOK, Holders
    <3>4. \A q \in Objects : q # o => Holders(q)' = Holders(q)
      BY <1>1, <1>3, <1>7, <2>2, <3>1, HandleAssumption DEF Inv, TypeOK, Holders
    <3>5. kos_object_ref(o)
      BY <1>7, <3>1
    <3> QED
      BY <3>2, <3>3, <3>4, <3>5, Taken
  <2>7. ASSUME NEW s \in Tables
        PROVE  count'[s] = Cardinality({i \in Indices : object'[<<s, i>>] # NoObject})
    <3>1. CASE s = p
      <4> DEFINE used == {i \in Indices : object[<<p, i>>] # NoObject}
      <4>1. IsFiniteSet(used) /\ Min(free) \notin used
        BY <2>1, FS_Subset, SlotFacts
      <4>2. {i \in Indices : object'[<<p, i>>] # NoObject} = used \cup {Min(free)}
        BY <1>2, <1>7, <2>1, SlotFacts DEF Inv, TypeOK, x
      <4>3. Cardinality(used \cup {Min(free)}) = Cardinality(used) + 1
        BY <4>1, OneMore
      <4> QED
        BY <1>2, <1>7, <3>1, <4>2, <4>3 DEF Inv, TypeOK, TableCounted
    <3>2. CASE s # p
      <4>1. \A i \in Indices : object'[<<s, i>>] = object[<<s, i>>]
        BY <1>7, <2>2, <3>2, SlotFacts DEF Inv, TypeOK
      <4> QED
        BY <1>2, <1>7, <3>2, <4>1 DEF Inv, TypeOK, TableCounted
    <3> QED
      BY <3>1, <3>2
  <2> QED
    BY <1>4, <2>3, <2>4, <2>5, <2>6, <2>7 DEF Inv, TableCounted
<1> QED
  BY <1>1, <1>6, <1>7

LEMMA UnrefStep ==
  ASSUME Inv, NEW t \in Threads, Unref(t)
  PROVE  Inv'
<1> USE DEF Unref, Goto, entryVars
<1>1. PICK o \in Objects : o = thr[t].ref
  BY DEF Inv, TypeOK, ThreadsSound, OptObject
<1>2. t \in Holders(o) /\ kos_object_unref(o)
  BY <1>1 DEF Holders
<1>3. o # NoObject
  BY HandleAssumption
<1>4. Holders(o)' = Holders(o) \ {t}
  BY <1>1, <1>3, SlotFacts DEF Inv, TypeOK, Holders
<1>5. \A q \in Objects : q # o => Holders(q)' = Holders(q)
  BY <1>1, HandleAssumption DEF Inv, TypeOK, Holders
<1>6. (RefsAccounted /\ NoDangling)' /\ refcount' \in [Objects -> Nat]
  BY <1>2, <1>4, <1>5, Dropped
<1>7. TypeOK'
  BY <1>6 DEF Inv, TypeOK, kos_object_unref, Steps, OptObject
<1>8. ThreadsSound'
  BY DEF Inv, TypeOK, ThreadsSound
<1>9. (EntriesSound /\ TableCounted /\ RightsNeverAmplified)'
  BY DEF Inv, EntriesSound, TableCounted, RightsNeverAmplified
<1> QED
  BY <1>6, <1>7, <1>8, <1>9 DEF Inv

\* The generation skips 0 and comes round after GenModulus - 1 values.
LEMMA NextGenerationFacts ==
  ASSUME NEW g \in Generations
  PROVE  /\ NextGeneration(g) \in Generations
         /\ NextGeneration(g) = IF g = GenModulus - 1 THEN 1 ELSE g + 1
<1>1. GenModulus \in Nat /\ GenModulus > 1 /\ g \in Nat /\ 0 < g /\ g < GenModulus
  BY HandleAssumption DEF Generations
<1>2. CASE g = GenModulus - 1
  <2>1. g + 1 = GenModulus
    BY <1>1, <1>2
  <2>2. (g + 1) % GenModulus = 0
    BY <1>1, <2>1
  <2> QED
    BY <1>1, <1>2, <2>2 DEF NextGeneration, Generations
<1>3. CASE g # GenModulus - 1
  <2>1. 0 < g + 1 /\ g + 1 < GenModulus
    BY <1>1, <1>3
  <2>2. (g + 1) % GenModulus = g + 1
    BY <1>1, <2>1
  <2> QED
    BY <1>1, <1>3, <2>1, <2>2 DEF NextGeneration, Generations
<1> QED
  BY <1>2, <1>3

LEMMA CloseStep ==
  ASSUME Inv, NEW t \in Threads, NEW x \in Slots, NEW g \in Generations,
         handle_close(t, x, g)
  PROVE  Inv'
<1> USE DEF handle_close, Idle, Goto, Valid, Clear
<1>1. PICK o \in Objects : o = object[x]
  BY DEF Inv, TypeOK, OptObject
<1>2. /\ o # NoObject /\ thr[t].ref = NoObject /\ pend[x] = NoObject
      /\ x[1] \in Tables /\ x \notin Threads
  BY SlotFacts, HandleAssumption DEF Inv, ThreadsSound, EntriesSound
<1>3. Holders(o)' = (Holders(o) \ {x}) \cup {t}
  BY <1>1, <1>2 DEF Inv, TypeOK, Holders
<1>4. \A q \in Objects : q # o => Holders(q)' = Holders(q)
  BY <1>1, <1>2, HandleAssumption DEF Inv, TypeOK, Holders
<1>5. x \in Holders(o) /\ t \notin Holders(o)
  BY <1>1, <1>2, SlotFacts DEF Holders
<1>6. (RefsAccounted /\ NoDangling)'
  <2>1. Cardinality(Holders(o)') = Cardinality(Holders(o))
    BY <1>3, <1>5, OneMoved, HoldersFinite
  <2>2. Holders(o)' # {} /\ Holders(o) # {}
    BY <1>3, <1>5
  <2>3. \A q \in Objects : /\ Cardinality(Holders(q)') = Cardinality(Holders(q))
                           /\ Holders(q)' = {} <=> Holders(q) = {}
    BY <1>4, <2>1, <2>2, Zenon
  <2> QED
    BY <2>3, Kept
<1>7. TableCounted' /\ count' \in [Tables -> Nat]
  <2> DEFINE used(s) == {i \in Indices : object[<<s, i>>] # NoObject}
  <2>1. PICK i \in Indices : x = <<x[1], i>>
    BY DEF Slots
  <2>2. {j \in Indices : object'[<<x[1], j>>] # NoObject} = used(x[1]) \ {i}
    BY <1>2, <2>1, SlotFacts
  <2>3. IsFiniteSet(used(x[1])) /\ i \in used(x[1])
    BY <1>1, <1>2, <2>1, FS_Subset, SlotFacts
  <2>4. /\ Cardinality(used(x[1])) \in Nat \ {0}
        /\ Cardinality(used(x[1]) \ {i}) = Cardinality(used(x[1])) - 1
    <3> HIDE DEF used
    <3> QED
      BY <2>3, OneLess
  <2>5. \A s \in Tables : count[s] = Cardinality(used(s))
    BY DEF Inv, TableCounted
  <2>6. ASSUME NEW s \in Tables, s # x[1]
        PROVE  {j \in Indices : object'[<<s, j>>] # NoObject} = used(s)
    BY <2>1, <2>6, SlotFacts
  <2> HIDE DEF used
  <2>7. /\ count'[x[1]] = Cardinality(used(x[1]) \ {i})
        /\ count' \in [Tables -> Nat]
    BY <1>2, <2>4, <2>5 DEF Inv, TypeOK
  <2>8. ASSUME NEW s \in Tables
        PROVE  count'[s] = Cardinality({j \in Indices : object'[<<s, j>>] # NoObject})
    <3>1. CASE s = x[1]
      BY <2>2, <2>7, <3>1
    <3>2. CASE s # x[1]
      BY <1>2, <2>5, <2>6, <3>2 DEF Inv, TypeOK
    <3> QED
      BY <3>1, <3>2
  <2> QED
    BY <2>7, <2>8 DEF TableCounted
<1>8. TypeOK'
  BY <1>1, <1>7, NextGenerationFacts DEF Inv, TypeOK, Steps, OptObject
<1>9. ThreadsSound'
  BY <1>1, <1>2 DEF Inv, TypeOK, ThreadsSound
<1>10. (EntriesSound /\ RightsNeverAmplified)'
  BY DEF Inv, EntriesSound, RightsNeverAmplified
<1> QED
  BY <1>6, <1>7, <1>8, <1>9, <1>10 DEF Inv

LEMMA DuplicateStep ==
  ASSUME Inv, NEW t \in Threads, NEW x \in Slots, NEW g \in Generations,
         NEW q \in Tables, NEW new \in SUBSET Rights, handle_duplicate(t, x, g, q, new)
  PROVE  Inv'
<1> DEFINE target == IF new # {} THEN new ELSE rights[x]
<1> USE DEF Idle, Goto, Valid, entryVars
<1>1. /\ thr[t].pc = "idle" /\ object[x] # NoObject /\ target \subseteq rights[x]
      /\ kos_object_ref(object[x])
      /\ thr' = [thr EXCEPT ![t] = [pc |-> "create", ref |-> object[x],
                                    table |-> q, rights |-> target]]
      /\ UNCHANGED <<tstate, object, rights, generation, count, pend>>
  BY DEF handle_duplicate
<1> HIDE DEF target
<1>2. PICK o \in Objects : o = object[x]
  BY <1>1 DEF Inv, TypeOK, OptObject
<1>3. o # NoObject /\ thr[t].ref = NoObject /\ kos_object_ref(o)
  BY <1>1, <1>2, HandleAssumption DEF Inv, ThreadsSound
<1>4. target \subseteq Granted /\ target \in SUBSET Rights
  BY <1>1 DEF Inv, TypeOK, RightsNeverAmplified
<1>5. x \in Holders(o) /\ t \notin Holders(o)
  BY <1>2, <1>3, SlotFacts DEF Holders
<1>6. Holders(o)' = Holders(o) \cup {t}
  BY <1>1, <1>2, <1>3 DEF Inv, TypeOK, Holders
<1>7. \A r \in Objects : r # o => Holders(r)' = Holders(r)
  BY <1>1, <1>2, <1>3, HandleAssumption DEF Inv, TypeOK, Holders
<1>8. (RefsAccounted /\ NoDangling)'
  BY <1>3, <1>5, <1>6, <1>7, Taken
<1>9. TypeOK'
  BY <1>1, <1>2, <1>3, <1>4 DEF Inv, TypeOK, kos_object_ref, Steps, OptObject
<1>10. ThreadsSound'
  BY <1>1, <1>2, <1>3, <1>4 DEF Inv, TypeOK, ThreadsSound
<1>11. (EntriesSound /\ TableCounted /\ RightsNeverAmplified)'
  BY <1>1 DEF Inv, EntriesSound, TableCounted, RightsNeverAmplified
<1> QED
  BY <1>8, <1>9, <1>10, <1>11 DEF Inv

LEMMA TableDestroyStep ==
  ASSUME Inv, NEW t \in Threads, NEW p \in Tables, handle_table_destroy(t, p)
  PROVE  Inv'
<1> USE DEF handle_table_destroy, Idle, Goto, Clear
<1>1. \A x \in Slots :
        IF x[1] = p THEN pend[x] = NoObject /\ pend'[x] = object[x] /\ object'[x] = NoObject
                    ELSE pend'[x] = pend[x] /\ object'[x] = object[x]
  BY DEF Inv, TypeOK, EntriesSound
<1>2. \A u \in Threads : thr'[u].ref = thr[u].ref
  BY DEF Inv, TypeOK, ThreadsSound
<1>3. \A q \in Objects : Holders(q)' = Holders(q)
  BY <1>1, <1>2, HandleAssumption DEF Holders
<1>4. (RefsAccounted /\ NoDangling)'
  BY <1>3, Kept
<1>5. TypeOK'
  BY NextGenerationFacts DEF Inv, TypeOK, Steps, OptObject
<1>6. ThreadsSound'
  BY DEF Inv, TypeOK, ThreadsSound
<1>7. EntriesSound'
  BY <1>1, SlotFacts DEF Inv, TypeOK, EntriesSound
<1>8. TableCounted'
  <2>1. {i \in Indices : object'[<<p, i>>] # NoObject} = {}
    BY <1>1, SlotFacts
  <2>2. Cardinality({i \in Indices : object'[<<p, i>>] # NoObject}) = 0
    BY <2>1, FS_EmptySet
  <2>3. ASSUME NEW s \in Tables, s # p
        PROVE  {i \in Indices : object'[<<s, i>>] # NoObject}
                 = {i \in Indices : object[<<s, i>>] # NoObject}
    BY <1>1, <2>3, SlotFacts
  <2>4. count'[p] = 0 /\ \A s \in Tables : s # p => count'[s] = count[s]
    BY DEF Inv, TypeOK
  <2> QED
    BY <2>2, <2>3, <2>4 DEF Inv, TableCounted
<1>9. RightsNeverAmplified'
  BY DEF Inv, RightsNeverAmplified
<1> QED
  BY <1>4, <1>5, <1>6, <1>7, <1>8, <1>9 DEF Inv

LEMMA DrainStep ==
  ASSUME Inv, NEW t \in Threads, Drain(t)
  PROVE  Inv'
<1> DEFINE p == thr[t].table
           left == {i \in Indices : pend[<<p, i>>] # NoObject}
           x == <<p, Min(left)>>
<1>1. /\ thr[t].pc = "drain" /\ left # {}
      /\ kos_object_unref(pend[x])
      /\ pend' = [pend EXCEPT ![x] = NoObject]
      /\ UNCHANGED <<tstate, object, rights, generation, count, thr>>
  BY DEF Drain, entryVars
<1>2. p \in Tables /\ tstate[p] = "draining"
  BY <1>1 DEF Inv, ThreadsSound
<1>3. Min(left) \in left /\ Min(left) \in Indices
  <2>1. left \in SUBSET Nat /\ left \subseteq Indices
    BY HandleAssumption DEF Indices
  <2> HIDE DEF left
  <2> QED
    BY <1>1, <2>1, MinIsMember
<1>4. x \in Slots /\ pend[x] # NoObject /\ object[x] = NoObject
  BY <1>2, <1>3, SlotFacts DEF Inv, EntriesSound
<1>5. PICK y \in Slots : y = x
  BY <1>4
<1> HIDE DEF x
<1>6. PICK o \in Objects : o = pend[y]
  BY <1>4, <1>5 DEF Inv, TypeOK, OptObject
<1>7. o # NoObject /\ y \in Holders(o) /\ kos_object_unref(o)
  BY <1>1, <1>5, <1>6, HandleAssumption DEF Holders
<1>8. Holders(o)' = Holders(o) \ {y}
  BY <1>1, <1>4, <1>5, <1>6, <1>7, SlotFacts DEF Inv, TypeOK, Holders
<1>9. \A q \in Objects : q # o => Holders(q)' = Holders(q)
  BY <1>1, <1>4, <1>5, <1>6, HandleAssumption DEF Inv, TypeOK, Holders
<1>10. (RefsAccounted /\ NoDangling)' /\ refcount' \in [Objects -> Nat]
  BY <1>7, <1>8, <1>9, Dropped
<1>11. TypeOK'
  BY <1>1, <1>7, <1>10 DEF Inv, TypeOK, kos_object_unref, OptObject
<1>12. (ThreadsSound /\ EntriesSound)'
  BY <1>1, <1>4 DEF Inv, TypeOK, ThreadsSound, EntriesSound
<1>13. (TableCounted /\ RightsNeverAmplified)'
  BY <1>1 DEF Inv, TableCounted, RightsNeverAmplified
<1> QED
  BY <1>10, <1>11, <1>12, <1>13 DEF Inv

(* A thread that has returned to user mode carries nothing. *)
LEMMA IdleFields ==
  \A r : r = [pc |-> "idle", ref |-> NoObject, table |-> NoTable, rights |-> {}]
         => r.pc = "idle" /\ r.ref = NoObject /\ r.rights = {}
OBVIOUS

LEMMA FreeTableStep ==
  ASSUME Inv, NEW t \in Threads, FreeTable(t)
  PROVE  Inv'
<1> USE DEF FreeTable, Goto, entryVars
<1>1. thr[t].table \in Tables /\ thr[t].ref = NoObject
      /\ tstate[thr[t].table] = "draining"
  BY DEF Inv, ThreadsSound
<1>2. \A x \in Slots : x[1] = thr[t].table => pend[x] = NoObject /\ object[x] = NoObject
  BY <1>1 DEF Inv, EntriesSound, Slots
<1>3. \A u \in Threads : thr'[u].ref = thr[u].ref
  BY <1>1 DEF Inv, TypeOK
<1>4. \A q \in Objects : Holders(q)' = Holders(q)
  BY <1>3 DEF Holders
<1>5. (RefsAccounted /\ NoDangling)'
  BY <1>4, Kept
<1>6. TypeOK'
  BY DEF Inv, TypeOK, Steps, OptObject
<1>7. ThreadsSound'
  <2>1. \A u \in Threads : u # t /\ thr[u].pc = "drain" =>
          thr[u].table # thr[t].table /\ tstate[thr[u].table] = "draining"
    BY DEF Inv, ThreadsSound
  <2>2. \A u \in Threads : u # t => thr'[u] = thr[u]
    BY DEF Inv, TypeOK
  <2>3. thr'[t] = [pc |-> "idle", ref |-> NoObject, table |-> NoTable, rights |-> {}]
    BY DEF Inv, TypeOK
  <2>4. \A u \in Threads : u # t /\ thr[u].pc = "drain" => tstate'[thr[u].table] = "draining"
    BY <2>1 DEF Inv, TypeOK, ThreadsSound
  <2>5. /\ thr'[t].pc = "idle" /\ thr'[t].ref = NoObject /\ thr'[t].rights = {}
    <3> HIDE DEF FreeTable, Goto, entryVars
    <3> QED
      BY <2>3, IdleFields
  <2>6. ASSUME NEW u \in Threads
        PROVE  /\ thr'[u].ref = NoObject <=> thr'[u].pc \in {"idle", "drain"}
               /\ thr'[u].pc \in {"create", "drain"} => thr'[u].table \in Tables
               /\ thr'[u].rights \subseteq Granted
               /\ thr'[u].pc = "drain" => tstate'[thr'[u].table] = "draining"
    BY <2>2, <2>4, <2>5 DEF Inv, ThreadsSound
  <2>7. ASSUME NEW u \in Threads, NEW v \in Threads, thr'[u].pc = "drain",
               thr'[v].pc = "drain", thr'[u].table = thr'[v].table
        PROVE  u = v
    BY <2>2, <2>5, <2>7 DEF Inv, ThreadsSound
  <2> QED
    BY <2>6, <2>7 DEF ThreadsSound
<1>8. EntriesSound'
  BY <1>2, SlotFacts DEF Inv, TypeOK, EntriesSound
<1>9. (TableCounted /\ RightsNeverAmplified)'
  BY DEF Inv, TableCounted, RightsNeverAmplified
<1> QED
  BY <1>5, <1>6, <1>7, <1>8, <1>9 DEF Inv

-----------------------------------------------------------------------------
(* The table *)

LEMMA InitInv ==
  ASSUME Init
  PROVE  Inv
<1>1. TypeOK
  <2>1. 1 \in Generations
    BY HandleAssumption DEF Generations
  <2> QED
    BY <2>1 DEF Init, TypeOK, Steps, OptObject
<1>2. \A o \in Objects : Holders(o) = {}
  BY HandleAssumption DEF Init, Holders
<1>3. RefsAccounted /\ NoDangling
  BY <1>2, FS_EmptySet DEF Init, RefsAccounted, NoDangling
<1>4. \A p \in Tables : {i \in Indices : object[<<p, i>>] # NoObject} = {}
  BY SlotFacts DEF Init
<1>5. TableCounted
  BY <1>4, FS_EmptySet DEF Init, TableCounted
<1>6. \A t \in Threads : thr[t].ref = NoObject /\ thr[t].pc = "idle" /\ thr[t].rights = {}
  BY DEF Init
<1>7. ThreadsSound
  BY <1>6 DEF ThreadsSound
<1>8. EntriesSound /\ RightsNeverAmplified
  BY DEF Init, EntriesSound, RightsNeverAmplified
<1> QED
  BY <1>1, <1>3, <1>5, <1>7, <1>8 DEF Inv

LEMMA StepInv ==
  ASSUME Inv, NEW t \in Threads, Step(t)
  PROVE  Inv'
BY TableCreateStep, EventCreateStep, HandleCreateStep, UnrefStep, CloseStep,
   DuplicateStep, TableDestroyStep, DrainStep, FreeTableStep, Zenon DEF Step

LEMMA StutterInv ==
  ASSUME Inv, UNCHANGED vars
  PROVE  Inv'
<1>1. \A o : Holders(o)' = Holders(o)
  BY DEF vars, Holders
<1> QED
  BY <1>1 DEF vars, Inv, TypeOK, ThreadsSound, EntriesSound, RefsAccounted,
              NoDangling, TableCounted, RightsNeverAmplified

\* The inductive invariant holds.
LEMMA Invariant == Spec => []Inv
<1>1. Inv /\ [Next]_vars => Inv'
  BY StepInv, StutterInv, Zenon DEF Next
<1> QED
  BY InitInv, <1>1, PTL DEF Spec

\* Whatever threads create, duplicate, close and destroy, and however their
\* steps interleave: a refcount is the number of entries, pending unrefs and
\* threads that hold the object, its destructor has run exactly when there is
\* none, and count is the number of entries in use (handle.c, object.c).
THEOREM HandlesAreAccounted == Spec => []HandlesAccounted
<1>1. Inv => HandlesAccounted
  BY Zenon DEF Inv, HandlesAccounted
<1> QED
  BY Invariant, <1>1, PTL

\* No chain of duplications, whoever makes it and into whichever table, yields
\* a right event_create did not grant (handle.c:225-230).
THEOREM RightsAreNeverAmplified == Spec => []RightsNeverAmplified
<1>1. Inv => RightsNeverAmplified
  BY Zenon DEF Inv
<1> QED
  BY Invariant, <1>1, PTL

-----------------------------------------------------------------------------
(* A kept handle *)

\* What one step does to an entry: it is closed and its generation advances, or
\* it keeps its generation and any object it has; only making the table anew
\* sets generations back.
LEMMA EntryStep ==
  ASSUME Inv, NEW t \in Threads, Step(t), NEW x \in Slots
  PROVE  \/ /\ object[x] # NoObject /\ object'[x] = NoObject
            /\ generation'[x] = NextGeneration(generation[x])
         \/ /\ generation'[x] = generation[x]
            /\ object[x] = NoObject \/ object'[x] = object[x]
         \/ tstate[x[1]] = "none" /\ object'[x] = object[x]
<1> DEFINE P == \/ /\ object[x] # NoObject /\ object'[x] = NoObject
                   /\ generation'[x] = NextGeneration(generation[x])
                \/ /\ generation'[x] = generation[x]
                   /\ object[x] = NoObject \/ object'[x] = object[x]
                \/ tstate[x[1]] = "none" /\ object'[x] = object[x]
<1>1. CASE handle_create(t)
  <2> DEFINE p == thr[t].table
             free == {i \in Indices : object[<<p, i>>] = NoObject}
             y == <<p, Min(free)>>
  <2>1. CASE UNCHANGED object
    BY <1>1, <2>1 DEF handle_create
  <2>2. CASE tstate[p] = "open" /\ free # {} /\ object' = [object EXCEPT ![y] = thr[t].ref]
    <3>1. Min(free) \in free
      <4>1. free \in SUBSET Nat
        BY HandleAssumption DEF Indices
      <4> HIDE DEF free
      <4> QED
        BY <2>2, <4>1, MinIsMember
    <3>2. object[y] = NoObject
      BY <3>1
    <3> HIDE DEF y
    <3> QED
      BY <1>1, <2>2, <3>2 DEF handle_create, Inv, TypeOK
  <2> QED
    BY <1>1, <2>1, <2>2 DEF handle_create
<1>2. CASE Unref(t) \/ Drain(t) \/ FreeTable(t)
  BY <1>2 DEF Unref, Drain, FreeTable, entryVars
<1>3. ASSUME NEW p \in Tables, handle_table_create(t, p)
      PROVE  P
  BY <1>3 DEF handle_table_create, FreshTable
<1>4. ASSUME NEW p \in Tables, handle_table_destroy(t, p)
      PROVE  P
  BY <1>4 DEF handle_table_destroy, Clear
<1>5. ASSUME NEW p \in Tables, NEW o \in Objects, event_create(t, p, o)
      PROVE  P
  BY <1>5 DEF event_create, entryVars
<1>6. ASSUME NEW y \in Slots, NEW g \in Generations, handle_close(t, y, g)
      PROVE  P
  BY <1>6 DEF handle_close, Clear, Valid
<1>7. ASSUME NEW y \in Slots, NEW g \in Generations, NEW q \in Tables,
             NEW new \in SUBSET Rights, handle_duplicate(t, y, g, q, new)
      PROVE  P
  BY <1>7 DEF handle_duplicate, entryVars
<1> HIDE DEF P
<1> SUFFICES P
  BY DEF P
<1> QED
  BY <1>1, <1>2, <1>3, <1>4, <1>5, <1>6, <1>7, Zenon DEF Step, P

\* The generation that k closings make of g.
After(g, k) == IF g + k < GenModulus THEN g + k ELSE g + k - (GenModulus - 1)

\* The kept handle's table is there; its entry has been closed as often as
\* counted, and has its object as long as that is never.
HandleSound(h) ==
  /\ h.x \in Slots /\ h.g \in Generations /\ h.closes \in Nat
  /\ tstate[h.x[1]] # "none"
  /\ h.closes < GenModulus - 1 => generation[h.x] = After(h.g, h.closes)
  /\ h.closes = 0 => object[h.x] = h.o /\ h.o # NoObject

IsHandle(h) == h = [x |-> h.x, g |-> h.g, o |-> h.o, closes |-> h.closes]

ClientInv ==
  /\ Inv
  /\ \A h \in kept : IsHandle(h) /\ HandleSound(h)

\* Closing k times advances the generation to After(g, k), which is g again
\* only when k is 0, or GenModulus - 1 or more.
LEMMA AfterFacts ==
  ASSUME NEW g \in Generations, NEW k \in Nat, k < GenModulus - 1
  PROVE  /\ After(g, k) \in Generations
         /\ k + 1 < GenModulus - 1 => NextGeneration(After(g, k)) = After(g, k + 1)
         /\ After(g, k) = g <=> k = 0
<1>1. GenModulus \in Nat /\ GenModulus > 1 /\ g \in Nat /\ 0 < g /\ g < GenModulus
  BY HandleAssumption DEF Generations
<1>2. After(g, k) \in Generations
  BY <1>1 DEF After, Generations
<1>3. NextGeneration(After(g, k))
        = IF After(g, k) = GenModulus - 1 THEN 1 ELSE After(g, k) + 1
  BY <1>2, NextGenerationFacts
<1> QED
  BY <1>1, <1>2, <1>3 DEF After

LEMMA AgedSound ==
  ASSUME Inv, Inv', NEW t \in Threads, Step(t), NEW h, IsHandle(h), HandleSound(h),
         NEW j \in Aged(h)
  PROVE  IsHandle(j) /\ HandleSound(j)'
<1> DEFINE closed == object[h.x] # NoObject /\ object'[h.x] = NoObject
<1>1. /\ h.x \in Slots /\ h.g \in Generations /\ h.closes \in Nat
      /\ tstate[h.x[1]] # "none"
      /\ GenModulus \in Nat /\ GenModulus > 1
  BY HandleAssumption DEF HandleSound
<1>2. \/ closed /\ generation'[h.x] = NextGeneration(generation[h.x])
      \/ /\ ~closed /\ generation'[h.x] = generation[h.x]
         /\ object[h.x] = NoObject \/ object'[h.x] = object[h.x]
  BY <1>1, EntryStep
<1>3. tstate'[h.x[1]] # "none"
  BY DEF Aged
<1>4. CASE closed /\ h.closes < MaxCloses
  <2>1. j = [h EXCEPT !.closes = @ + 1]
    BY <1>3, <1>4 DEF Aged
  <2>2. IsHandle(j) /\ j.x = h.x /\ j.g = h.g /\ j.o = h.o /\ j.closes = h.closes + 1
    BY <2>1 DEF IsHandle
  <2>3. h.closes + 1 < GenModulus - 1 =>
          generation'[h.x] = After(h.g, h.closes + 1)
    BY <1>1, <1>2, <1>4, AfterFacts DEF HandleSound
  <2> QED
    BY <1>1, <1>3, <2>2, <2>3 DEF HandleSound
<1>5. CASE ~(closed /\ h.closes < MaxCloses)
  <2>1. j = h
    BY <1>3, <1>5 DEF Aged
  <2>2. ~closed \/ h.closes >= GenModulus
    BY <1>1, <1>5 DEF MaxCloses
  <2> QED
    BY <1>1, <1>2, <1>3, <2>1, <2>2 DEF HandleSound
<1> QED
  BY <1>4, <1>5

LEMMA ClientInvariant == ClientSpec => []ClientInv
<1>1. ClientInit => ClientInv
  BY InitInv, Zenon DEF ClientInit, ClientInv
<1>2. ASSUME ClientInv, ClientNext
      PROVE  ClientInv'
  <2>1. PICK t \in Threads : Step(t)
    BY <1>2 DEF ClientNext, Next
  <2>2. Inv /\ Inv'
    BY <1>2, <2>1, StepInv DEF ClientInv
  <2>3. ASSUME NEW h \in kept, kept' = Aged(h)
        PROVE  \A j \in kept' : IsHandle(j) /\ HandleSound(j)'
    BY <1>2, <2>1, <2>2, <2>3, AgedSound DEF ClientInv
  <2>4. ASSUME NEW x \in Made,
               kept' = {[x |-> x, g |-> generation[x], o |-> object'[x], closes |-> 0]}
        PROVE  \A j \in kept' : IsHandle(j) /\ HandleSound(j)'
    <3> DEFINE h == [x |-> x, g |-> generation[x], o |-> object'[x], closes |-> 0]
    <3>1. /\ x \in Slots /\ object[x] = NoObject /\ object'[x] # NoObject
          /\ generation[x] \in Generations
      BY <2>2, <2>4 DEF Made, Inv, TypeOK
    <3>2. tstate'[x[1]] = "open"
      BY <2>2, <3>1 DEF Inv, EntriesSound
    <3>3. generation'[x] = generation[x]
      BY <2>1, <2>2, <3>1, EntryStep
    <3>4. generation[x] = After(generation[x], 0)
      BY <3>1, HandleAssumption DEF After, Generations
    <3> QED
      BY <2>4, <3>1, <3>2, <3>3, <3>4 DEF IsHandle, HandleSound
  <2> QED
    BY <1>2, <2>2, <2>3, <2>4, Zenon DEF ClientInv, ClientNext, Keep
<1>3. ASSUME ClientInv, UNCHANGED <<vars, kept>>
      PROVE  ClientInv'
  BY <1>3, StutterInv DEF ClientInv, HandleSound, vars
<1> QED
  BY <1>1, <1>2, <1>3, PTL DEF ClientSpec

\* A handle resolves to the object it was made for while it is open and to
\* nothing once its entry was closed, until the entry has been closed
\* GenModulus - 1 times, whatever threads do to the tables (handle.c:117,
\* 176-179).
THEOREM KeptHandleDenotesItsObject == ClientSpec => []HandleDenotesItsObject
<1>1. ASSUME ClientInv, NEW h \in kept
      PROVE  LET found == handle_lookup(h.x, h.g, {})
             IN  /\ h.closes = 0 /\ tstate[h.x[1]] = "open" => found = h.o
                 /\ h.closes \in 1 .. (GenModulus - 2) => found = NoObject
  <2>1. HandleSound(h) /\ GenModulus \in Nat /\ GenModulus > 1
    BY <1>1, HandleAssumption DEF ClientInv
  <2>2. h.closes = 0 => generation[h.x] = h.g
    BY <2>1, AfterFacts DEF HandleSound
  <2>3. h.closes \in 1 .. (GenModulus - 2) => generation[h.x] # h.g
    BY <2>1, AfterFacts DEF HandleSound
  <2> QED
    BY <2>1, <2>2, <2>3 DEF HandleSound, handle_lookup, Valid
<1>2. ClientInv => HandleDenotesItsObject
  BY <1>1, Zenon DEF HandleDenotesItsObject
<1> QED
  BY <1>2, ClientInvariant, PTL
=============================================================================
