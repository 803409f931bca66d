---------------------------- MODULE MemoryProofs ----------------------------
(* Physical and virtual memory.  For any number of processors, a page that   *)
(* was shot down is in no TLB (arch/x86_64/smp.c).  For every memory map and *)
(* every size, the counters of the physical memory manager are right, its    *)
(* searches see every usable frame, and it implements FrameAllocator         *)
(* (mm/pmm.c); those three invariants are inductive together.                *)
EXTENDS Pmm, Smp, FiniteSetTheorems, WellFoundedInduction, TLAPS

-----------------------------------------------------------------------------
(* The other processors: who holds a translation while a page is being      *)
(* flushed everywhere (arch/x86_64/smp.c).                                  *)

SmpTypeOK ==
  /\ boot \in 1 .. CpuCount
  /\ ap \in [Aps -> {"halted", "starting", "online", "counted", "idle"}]
  /\ g_online_cpu_count \in Nat /\ shots \in Nat
  /\ valid \subseteq TlbPages /\ cpuTlb \in [Cpus -> SUBSET TlbPages]
  /\ pending \subseteq Aps
  /\ handler \in [Aps -> [at : {"idle", "flush", "ack"}, vaddr : TlbPages \cup {NoPage}]]
  /\ request \in [at : {"none", "sent", "wait"}, vaddr : TlbPages \cup {NoPage}, acks : Nat, expected : Nat]
  /\ clean \in BOOLEAN /\ flushed \subseteq TlbPages \X Cpus

CountExact == g_online_cpu_count = Cardinality(Counted)

\* Only processors in their idle loop answer, and none starts any more while a
\* shootdown is under way.
AnswersFromIdle ==
  /\ \A c \in Aps : handler[c].at # "idle" => ap[c] = "idle"
  /\ request.at # "none" => boot = CpuCount

\* A page that was flushed everywhere is unmapped, so that it is not loaded
\* again.
FlushedGone == \A f \in flushed : f[1] \notin valid /\ f[1] \notin cpuTlb[f[2]]

\* The processors whose answer to the request has been counted.
Answered == {c \in Aps : c \in Counted /\ c \notin pending /\ handler[c].at = "idle"}

\* While a request with no stray answers is under way, each processor has still
\* to take the interrupt, to flush this very page, to answer, or has answered
\* and lost the translation; and the count of answers counts those.
RequestSound ==
  request.at # "none" /\ clean =>
    /\ request.vaddr \in TlbPages \ valid /\ request.vaddr \notin cpuTlb[0]
    /\ \A c \in Aps : ap[c] # "halted" => c \in Counted
    /\ \A c \in Aps : handler[c].at = "flush" => c \notin pending /\ handler[c].vaddr = request.vaddr
    /\ \A c \in Aps : handler[c].at = "ack" => c \notin pending /\ request.vaddr \notin cpuTlb[c]
    /\ \A c \in Answered : request.vaddr \notin cpuTlb[c]
    /\ request.acks = Cardinality(Answered)
    /\ request.at = "wait" => request.expected = g_online_cpu_count - 1

SmpInv == SmpTypeOK /\ CountExact /\ AnswersFromIdle /\ FlushedGone /\ RequestSound

LEMMA ProcessorsFinite ==
  /\ IsFiniteSet(Cpus) /\ 0 \in Cpus /\ 0 \notin Aps /\ Aps \subseteq Cpus
  /\ IsFiniteSet(Counted) /\ Counted \subseteq Cpus /\ IsFiniteSet(Answered)
<1>1. IsFiniteSet(Cpus)
  BY SmpAssumption, FS_Interval DEF Cpus
<1>2. 0 \in Cpus /\ 0 \notin Aps /\ Aps \subseteq Cpus
  BY SmpAssumption DEF Cpus, Aps
<1>3. Counted \subseteq Cpus /\ Answered \subseteq Cpus
  BY <1>2 DEF Counted, Answered
<1> QED
  BY <1>1, <1>2, <1>3, FS_Subset

LEMMA SmpStarts == SmpInit => SmpInv
<1> SUFFICES ASSUME SmpInit
             PROVE  SmpInv
  OBVIOUS
<1>1. SmpTypeOK
  <2>1. request \in [at : {"none", "sent", "wait"}, vaddr : TlbPages \cup {NoPage}, acks : Nat, expected : Nat]
    BY DEF SmpInit
  <2>2. handler \in [Aps -> [at : {"idle", "flush", "ack"}, vaddr : TlbPages \cup {NoPage}]]
    BY DEF SmpInit, Waiting
  <2> QED
    BY <2>1, <2>2, SmpAssumption DEF SmpInit, SmpTypeOK
<1>2. CountExact
  <2>1. Counted = {0}
    BY DEF SmpInit, Counted
  <2> QED
    BY <2>1, FS_Singleton DEF SmpInit, CountExact
<1>3. AnswersFromIdle /\ FlushedGone /\ RequestSound
  BY DEF SmpInit, AnswersFromIdle, FlushedGone, RequestSound, Waiting
<1> QED
  BY <1>1, <1>2, <1>3 DEF SmpInv

\* Starting a processor, or passing on to the next one: no shootdown is under way.
LEMMA StartKeeps ==
  ASSUME SmpInv, smp_initialize \/ ap_started_or_late \/ ap_absent
  PROVE  SmpInv'
<1>1. UNCHANGED <<g_online_cpu_count, valid, cpuTlb, pending, handler, request, clean, flushed, shots>>
  BY DEF smp_initialize, ap_started_or_late, ap_absent
<1>2. boot \in Aps /\ CpuCount \in Nat /\ boot \in Nat /\ boot < CpuCount /\ request.at = "none"
  BY SmpAssumption DEF smp_initialize, ap_started_or_late, ap_absent, Aps, Cpus, SmpInv, AnswersFromIdle
<1>3. /\ ap' \in [Aps -> {"halted", "starting", "online", "counted", "idle"}]
      /\ \A c \in Aps : ap'[c] = ap[c] \/ (ap[c] = "halted" /\ ap'[c] = "starting")
  BY DEF smp_initialize, ap_started_or_late, ap_absent, SmpInv, SmpTypeOK
<1>4. boot' \in 1 .. CpuCount
  BY <1>2 DEF smp_initialize, ap_started_or_late, ap_absent, SmpInv, SmpTypeOK
<1>5. SmpTypeOK'
  BY <1>1, <1>3, <1>4 DEF SmpInv, SmpTypeOK
<1>6. Counted' = Counted
  BY <1>3 DEF Counted
<1>7. CountExact'
  BY <1>1, <1>6 DEF SmpInv, CountExact
<1>8. AnswersFromIdle' /\ RequestSound'
  BY <1>1, <1>2, <1>3 DEF SmpInv, AnswersFromIdle, RequestSound
<1>9. FlushedGone'
  BY <1>1 DEF SmpInv, FlushedGone
<1> QED
  BY <1>5, <1>7, <1>8, <1>9 DEF SmpInv

\* A processor counts itself once.
LEMMA EntryKeeps ==
  ASSUME SmpInv, NEW c \in Aps, ap_entry_point(c)
  PROVE  SmpInv'
<1>1. /\ UNCHANGED <<boot, valid, cpuTlb, pending, handler, request, clean, flushed, shots>>
      /\ ap[c] \in {"starting", "online", "counted"}
      /\ g_online_cpu_count' = IF ap[c] = "online" THEN g_online_cpu_count + 1 ELSE g_online_cpu_count
  BY DEF ap_entry_point
<1>2. /\ ap' \in [Aps -> {"halted", "starting", "online", "counted", "idle"}]
      /\ \A d \in Aps : d # c => ap'[d] = ap[d]
      /\ ap[c] = "starting" => ap'[c] = "online"
      /\ ap[c] = "online" => ap'[c] = "counted"
      /\ ap[c] = "counted" => ap'[c] = "idle"
  BY <1>1 DEF ap_entry_point, SmpInv, SmpTypeOK
<1>3. SmpTypeOK'
  BY <1>1, <1>2 DEF SmpInv, SmpTypeOK
<1>4. AnswersFromIdle'
  BY <1>1, <1>2 DEF SmpInv, AnswersFromIdle
<1>5. FlushedGone'
  BY <1>1 DEF SmpInv, FlushedGone
<1>6. CASE ap[c] = "online"
  <2>1. Counted' = Counted \cup {c} /\ c \notin Counted
    BY <1>2, <1>6, ProcessorsFinite DEF Counted
  <2>2. Cardinality(Counted') = Cardinality(Counted) + 1
    BY <2>1, ProcessorsFinite, FS_AddElement, Zenon
  <2>3. CountExact'
    BY <1>1, <1>6, <2>2 DEF SmpInv, CountExact
  <2>4. ~(request.at # "none" /\ clean)
    BY <2>1, <1>6 DEF SmpInv, RequestSound
  <2>5. RequestSound'
    BY <1>1, <2>4 DEF RequestSound
  <2> QED
    BY <1>3, <1>4, <1>5, <2>3, <2>5 DEF SmpInv
<1>7. CASE ap[c] # "online"
  <2>1. Counted' = Counted
    BY <1>1, <1>2, <1>7 DEF Counted
  <2>2. Answered' = Answered
    BY <2>1, <1>1 DEF Answered
  <2>3. CountExact'
    BY <1>1, <1>7, <2>1 DEF SmpInv, CountExact
  <2>4. \A d \in Aps : ap'[d] # "halted" => ap[d] # "halted"
    BY <1>1, <1>2
  <2>5. RequestSound'
    BY <1>1, <1>7, <2>1, <2>2, <2>4 DEF SmpInv, RequestSound
  <2> QED
    BY <1>3, <1>4, <1>5, <2>3, <2>5 DEF SmpInv
<1> QED
  BY <1>6, <1>7

\* Only a mapped page is loaded, and the page of a request is not mapped.
LEMMA LoadKeeps ==
  ASSUME SmpInv, NEW c \in Cpus, NEW v \in TlbPages, LoadTranslation(c, v)
  PROVE  SmpInv'
<1>1. /\ v \in valid /\ cpuTlb' = [cpuTlb EXCEPT ![c] = @ \cup {v}]
      /\ UNCHANGED <<boot, ap, g_online_cpu_count, valid, pending, handler, request, clean, flushed, shots>>
  BY DEF LoadTranslation
<1>2. cpuTlb' \in [Cpus -> SUBSET TlbPages] /\ \A d \in Cpus : cpuTlb'[d] \subseteq cpuTlb[d] \cup {v}
  BY <1>1 DEF SmpInv, SmpTypeOK
<1>3. SmpTypeOK'
  BY <1>1, <1>2 DEF SmpInv, SmpTypeOK
<1>4. Counted' = Counted /\ Answered' = Answered
  BY <1>1 DEF Counted, Answered
<1>5. CountExact' /\ AnswersFromIdle'
  BY <1>1, <1>4 DEF SmpInv, CountExact, AnswersFromIdle
<1>6. FlushedGone'
  <2>1. \A f \in flushed : f[2] \in Cpus
    BY DEF SmpInv, SmpTypeOK
  <2> QED
    BY <1>1, <1>2, <2>1 DEF SmpInv, FlushedGone
<1>7. RequestSound'
  <2>1. \A p \in TlbPages \ valid, d \in Cpus : p \notin cpuTlb[d] => p \notin cpuTlb'[d]
    BY <1>1, <1>2
  <2>2. Answered \subseteq Cpus /\ Aps \subseteq Cpus /\ 0 \in Cpus
    BY ProcessorsFinite DEF Answered
  <2> QED
    BY <1>1, <1>4, <2>1, <2>2 DEF SmpInv, RequestSound
<1> QED
  BY <1>3, <1>5, <1>6, <1>7 DEF SmpInv

\* A shootdown begins: alone it is over at once, else every other processor has
\* the interrupt pending and none has answered.
LEMMA ShootdownKeeps ==
  ASSUME SmpInv, NEW v \in TlbPages, smp_tlb_shootdown(v)
  PROVE  SmpInv'
<1>1. /\ boot = CpuCount /\ request.at = "none" /\ v \in valid
      /\ shots' = shots + 1 /\ valid' = valid \ {v}
      /\ cpuTlb' = [cpuTlb EXCEPT ![0] = @ \ {v}]
      /\ UNCHANGED <<boot, ap, g_online_cpu_count, handler>>
  BY DEF smp_tlb_shootdown
<1>2. Counted' = Counted
  BY <1>1 DEF Counted
<1>3. /\ cpuTlb' \in [Cpus -> SUBSET TlbPages] /\ v \notin cpuTlb'[0]
      /\ \A d \in Cpus : cpuTlb'[d] \subseteq cpuTlb[d]
  BY <1>1, ProcessorsFinite DEF SmpInv, SmpTypeOK
<1>4. CountExact'
  BY <1>1, <1>2 DEF SmpInv, CountExact
<1>5. \A f \in flushed : f[1] \notin valid' /\ f[1] \notin cpuTlb'[f[2]]
  <2>1. \A f \in flushed : f[2] \in Cpus
    BY DEF SmpInv, SmpTypeOK
  <2> QED
    BY <1>1, <1>3, <2>1 DEF SmpInv, FlushedGone
<1>6. CASE g_online_cpu_count <= 1
  <2>1. flushed' = flushed \cup ({v} \X Counted) /\ UNCHANGED <<pending, request, clean>>
    BY <1>6 DEF smp_tlb_shootdown
  <2>2. Counted = {0}
    <3>1. Cardinality(Counted) <= 1 /\ 0 \in Counted
      BY <1>6 DEF SmpInv, CountExact, Counted
    <3>2. Cardinality(Counted \ {0}) = Cardinality(Counted) - 1
      BY <3>1, ProcessorsFinite, FS_RemoveElement, Zenon
    <3>3. IsFiniteSet(Counted \ {0}) /\ Cardinality(Counted \ {0}) \in Nat /\ Cardinality(Counted) \in Nat
      BY ProcessorsFinite, FS_Difference, FS_CardinalityType, Zenon
    <3>4. Cardinality(Counted \ {0}) = 0
      BY <3>1, <3>2, <3>3
    <3>5. Counted \ {0} = {}
      BY <3>3, <3>4, FS_EmptySet
    <3> QED
      BY <3>1, <3>5
  <2>3. flushed' \subseteq TlbPages \X Cpus
    BY <2>1, <2>2, ProcessorsFinite DEF SmpInv, SmpTypeOK
  <2>4. SmpTypeOK'
    <3>1. shots' \in Nat /\ valid' \subseteq TlbPages
      BY <1>1 DEF SmpInv, SmpTypeOK
    <3> QED
      BY <1>1, <1>3, <2>1, <2>3, <3>1 DEF SmpInv, SmpTypeOK
  <2>5. FlushedGone'
    <3> SUFFICES ASSUME NEW f \in flushed'
                 PROVE  f[1] \notin valid' /\ f[1] \notin cpuTlb'[f[2]]
      BY DEF FlushedGone
    <3>1. f \in flushed \/ (f[1] = v /\ f[2] = 0)
      BY <2>1, <2>2
    <3> QED
      BY <3>1, <1>1, <1>3, <1>5
  <2>6. AnswersFromIdle' /\ RequestSound'
    BY <1>1, <2>1 DEF SmpInv, AnswersFromIdle, RequestSound
  <2> QED
    BY <1>4, <2>4, <2>5, <2>6 DEF SmpInv
<1>7. CASE ~(g_online_cpu_count <= 1)
  <2>1. /\ request' = [at |-> "sent", vaddr |-> v, acks |-> 0, expected |-> 0]
        /\ pending' = pending \cup {c \in Aps : ap[c] # "halted"}
        /\ UNCHANGED flushed
        /\ clean' = (/\ pending = {} /\ \A c \in Aps : handler[c] = Waiting
                     /\ \A c \in Aps : ap[c] # "halted" => c \in Counted)
    BY <1>7 DEF smp_tlb_shootdown
  <2>2. SmpTypeOK'
    <3>1. shots' \in Nat /\ valid' \subseteq TlbPages /\ pending' \subseteq Aps /\ clean' \in BOOLEAN
      BY <1>1, <2>1 DEF SmpInv, SmpTypeOK
    <3>2. request' \in [at : {"none", "sent", "wait"}, vaddr : TlbPages \cup {NoPage}, acks : Nat, expected : Nat]
      BY <2>1
    <3> QED
      BY <1>1, <1>3, <2>1, <3>1, <3>2 DEF SmpInv, SmpTypeOK
  <2>3. FlushedGone'
    BY <1>5, <2>1 DEF FlushedGone
  <2>4. AnswersFromIdle'
    BY <1>1 DEF SmpInv, AnswersFromIdle
  <2>5. RequestSound'
    <3> SUFFICES ASSUME clean'
                 PROVE  /\ request'.vaddr \in TlbPages \ valid' /\ request'.vaddr \notin cpuTlb'[0]
                        /\ \A c \in Aps : ap[c] # "halted" => c \in Counted
                        /\ \A c \in Aps : handler[c].at = "idle"
                        /\ Answered' = {}
                        /\ request'.acks = 0 /\ request'.at = "sent"
      BY <1>1, <1>2, FS_EmptySet, Zenon DEF RequestSound
    <3>1. /\ pending = {} /\ \A c \in Aps : handler[c] = Waiting
          /\ \A c \in Aps : ap[c] # "halted" => c \in Counted
      BY <2>1, Zenon
    <3>2. \A c \in Aps : handler[c].at = "idle"
      BY <3>1 DEF Waiting
    <3>3. \A c \in Aps : c \in Counted => ap[c] # "halted"
      BY ProcessorsFinite DEF Counted
    <3>4. Answered' = {}
      BY <1>2, <2>1, <3>3 DEF Answered
    <3>5. request'.vaddr = v /\ request'.acks = 0 /\ request'.at = "sent"
      BY <2>1
    <3> QED
      BY <1>1, <1>3, <3>1, <3>2, <3>4, <3>5
  <2> QED
    BY <1>4, <2>2, <2>3, <2>4, <2>5 DEF SmpInv
<1> QED
  BY <1>6, <1>7

LEMMA ExpectsKeeps ==
  ASSUME SmpInv, shootdown_expects
  PROVE  SmpInv'
<1>1. /\ request.at = "sent"
      /\ request' = [request EXCEPT !.at = "wait", !.expected = g_online_cpu_count - 1]
      /\ UNCHANGED <<boot, ap, g_online_cpu_count, valid, cpuTlb, pending, handler, clean, flushed, shots>>
  BY DEF shootdown_expects
<1>2. Counted' = Counted /\ Answered' = Answered
  BY <1>1 DEF Counted, Answered
<1>3. g_online_cpu_count - 1 \in Nat
  <2>1. Cardinality(Counted) \in Nat /\ 0 \in Counted
    BY ProcessorsFinite, FS_CardinalityType DEF Counted
  <2>2. Cardinality(Counted) # 0
    BY <2>1, ProcessorsFinite, FS_EmptySet
  <2> QED
    BY <2>1, <2>2 DEF SmpInv, CountExact
<1>4. /\ request' \in [at : {"none", "sent", "wait"}, vaddr : TlbPages \cup {NoPage}, acks : Nat, expected : Nat]
      /\ request'.vaddr = request.vaddr /\ request'.acks = request.acks
      /\ request'.expected = g_online_cpu_count - 1 /\ request'.at = "wait"
  BY <1>1, <1>3, Zenon DEF SmpInv, SmpTypeOK
<1>5. SmpTypeOK'
  BY <1>1, <1>4 DEF SmpInv, SmpTypeOK
<1>6. CountExact' /\ AnswersFromIdle' /\ FlushedGone'
  BY <1>1, <1>2, <1>4 DEF SmpInv, CountExact, AnswersFromIdle, FlushedGone
<1>7. RequestSound'
  BY <1>1, <1>2, <1>4 DEF SmpInv, RequestSound
<1> QED
  BY <1>5, <1>6, <1>7 DEF SmpInv

\* As many answers as other processors online are the answers of all of them.
LEMMA DoneKeeps ==
  ASSUME SmpInv, shootdown_done \/ shootdown_timeout
  PROVE  SmpInv'
<1>1. /\ request.at = "wait"
      /\ request' = [request EXCEPT !.at = "none"]
      /\ UNCHANGED <<boot, ap, g_online_cpu_count, valid, cpuTlb, pending, handler, clean, shots>>
  BY DEF shootdown_done, shootdown_timeout
<1>2. /\ request' \in [at : {"none", "sent", "wait"}, vaddr : TlbPages \cup {NoPage}, acks : Nat, expected : Nat]
      /\ request'.at = "none"
  BY <1>1 DEF SmpInv, SmpTypeOK
<1>3. Counted' = Counted
  BY <1>1 DEF Counted
<1>4. CountExact' /\ AnswersFromIdle' /\ RequestSound'
  BY <1>1, <1>2, <1>3 DEF SmpInv, CountExact, AnswersFromIdle, RequestSound
<1>5. ASSUME flushed' = flushed
      PROVE  SmpInv'
  <2>1. SmpTypeOK'
    BY <1>1, <1>2, <1>5 DEF SmpInv, SmpTypeOK
  <2>2. FlushedGone'
    BY <1>1, <1>5 DEF SmpInv, FlushedGone
  <2> QED
    BY <1>4, <2>1, <2>2 DEF SmpInv
<1>6. ASSUME shootdown_done, clean
      PROVE  SmpInv'
  <2>1. flushed' = flushed \cup ({request.vaddr} \X Counted) /\ request.acks >= request.expected
    BY <1>6 DEF shootdown_done
  <2>2. /\ request.vaddr \in TlbPages \ valid /\ request.vaddr \notin cpuTlb[0]
        /\ \A c \in Answered : request.vaddr \notin cpuTlb[c]
        /\ request.acks = Cardinality(Answered)
        /\ request.expected = g_online_cpu_count - 1
    BY <1>1, <1>6 DEF SmpInv, RequestSound
  <2>3. Answered = Counted \ {0}
    <3>1. Answered \subseteq Counted \ {0} /\ 0 \in Counted
      BY ProcessorsFinite DEF Answered, Counted
    <3>2. Cardinality(Counted \ {0}) = Cardinality(Counted) - 1
      BY <3>1, ProcessorsFinite, FS_RemoveElement, Zenon
    <3>3. /\ IsFiniteSet(Counted \ {0}) /\ Cardinality(Counted \ {0}) \in Nat
          /\ Cardinality(Counted) \in Nat /\ Cardinality(Answered) \in Nat
      BY ProcessorsFinite, FS_Difference, FS_CardinalityType, Zenon
    <3>4. Cardinality(Answered) >= Cardinality(Counted \ {0})
      BY <2>1, <2>2, <3>2 DEF SmpInv, CountExact
    <3>5. Cardinality(Answered) <= Cardinality(Counted \ {0})
      BY <3>1, <3>3, FS_Subset
    <3>6. Cardinality(Answered) = Cardinality(Counted \ {0})
      BY <3>3, <3>4, <3>5
    <3> QED
      BY <3>1, <3>3, <3>6, FS_Subset
  <2>4. \A c \in Counted : request.vaddr \notin cpuTlb[c] /\ c \in Cpus
    BY <2>2, <2>3, ProcessorsFinite
  <2>5. SmpTypeOK'
    <3>1. flushed' \subseteq TlbPages \X Cpus
      BY <2>1, <2>2, <2>4 DEF SmpInv, SmpTypeOK
    <3> QED
      BY <1>1, <1>2, <3>1 DEF SmpInv, SmpTypeOK
  <2>6. FlushedGone'
    <3> SUFFICES ASSUME NEW f \in flushed'
                 PROVE  f[1] \notin valid' /\ f[1] \notin cpuTlb'[f[2]]
      BY DEF FlushedGone
    <3>1. f \in flushed \/ (f[1] = request.vaddr /\ f[2] \in Counted)
      BY <2>1
    <3> QED
      BY <3>1, <1>1, <2>2, <2>4 DEF SmpInv, FlushedGone
  <2> QED
    BY <1>4, <2>5, <2>6 DEF SmpInv
<1> QED
  BY <1>5, <1>6 DEF shootdown_done, shootdown_timeout

\* The handler of processor c takes the interrupt, flushes, and answers.
LEMMA HandlerKeeps ==
  ASSUME SmpInv, NEW c \in Aps, smp_handle_tlb_shootdown_ipi(c)
  PROVE  SmpInv'
<1>1. UNCHANGED <<boot, ap, g_online_cpu_count, valid, clean, flushed, shots>>
  BY DEF smp_handle_tlb_shootdown_ipi
<1>2. Counted' = Counted /\ c \in Cpus
  BY <1>1, ProcessorsFinite DEF Counted
<1>3. CountExact'
  BY <1>1, <1>2 DEF SmpInv, CountExact
<1> DEFINE Typed == [at : {"idle", "flush", "ack"}, vaddr : TlbPages \cup {NoPage}]
<1>4. ASSUME ap[c] = "idle", c \in pending, handler[c].at = "idle",
             pending' = pending \ {c},
             handler' = [handler EXCEPT ![c] = [at |-> "flush", vaddr |-> request.vaddr]],
             UNCHANGED <<cpuTlb, request>>
      PROVE  SmpInv'
  <2>1. [at |-> "flush", vaddr |-> request.vaddr] \in Typed
    BY DEF SmpInv, SmpTypeOK
  <2>2. /\ handler' \in [Aps -> Typed]
        /\ \A d \in Aps : d # c => handler'[d] = handler[d]
        /\ handler'[c].at = "flush" /\ handler'[c].vaddr = request.vaddr
    BY <1>4, <2>1 DEF SmpInv, SmpTypeOK
  <2>3. SmpTypeOK'
    BY <1>1, <1>4, <2>2 DEF SmpInv, SmpTypeOK
  <2>4. AnswersFromIdle' /\ FlushedGone'
    BY <1>1, <1>4, <2>2 DEF SmpInv, AnswersFromIdle, FlushedGone
  <2>5. Answered' = Answered
    BY <1>2, <1>4, <2>2 DEF Answered
  <2>6. RequestSound'
    <3> SUFFICES ASSUME request.at # "none", clean
                 PROVE  RequestSound'
      BY <1>1, <1>4 DEF RequestSound
    <3>1. \A d \in Aps : handler'[d].at = "flush" => d \notin pending' /\ handler'[d].vaddr = request.vaddr
      BY <1>4, <2>2 DEF SmpInv, RequestSound
    <3>2. \A d \in Aps : handler'[d].at = "ack" => d \notin pending' /\ request.vaddr \notin cpuTlb[d]
      BY <1>4, <2>2 DEF SmpInv, RequestSound
    <3> QED
      BY <1>1, <1>2, <1>4, <2>5, <3>1, <3>2 DEF SmpInv, RequestSound
  <2> QED
    BY <1>3, <2>3, <2>4, <2>6 DEF SmpInv
<1>5. ASSUME handler[c].at = "flush",
             cpuTlb' = [cpuTlb EXCEPT ![c] = @ \ {handler[c].vaddr}],
             handler' = [handler EXCEPT ![c].at = "ack"],
             UNCHANGED <<pending, request>>
      PROVE  SmpInv'
  <2>1. /\ handler' \in [Aps -> Typed]
        /\ \A d \in Aps : d # c => handler'[d] = handler[d]
        /\ handler'[c].at = "ack"
    BY <1>5 DEF SmpInv, SmpTypeOK
  <2>2. /\ cpuTlb' \in [Cpus -> SUBSET TlbPages] /\ handler[c].vaddr \notin cpuTlb'[c]
        /\ \A d \in Cpus : cpuTlb'[d] \subseteq cpuTlb[d]
    BY <1>2, <1>5 DEF SmpInv, SmpTypeOK
  <2>3. SmpTypeOK'
    BY <1>1, <1>5, <2>1, <2>2 DEF SmpInv, SmpTypeOK
  <2>4. AnswersFromIdle'
    BY <1>1, <1>5, <2>1 DEF SmpInv, AnswersFromIdle
  <2>5. FlushedGone'
    <3>1. \A f \in flushed : f[2] \in Cpus
      BY DEF SmpInv, SmpTypeOK
    <3> QED
      BY <1>1, <2>2, <3>1 DEF SmpInv, FlushedGone
  <2>6. Answered' = Answered
    BY <1>2, <1>5, <2>1 DEF Answered
  <2>7. RequestSound'
    <3> SUFFICES ASSUME request.at # "none", clean
                 PROVE  RequestSound'
      BY <1>1, <1>5 DEF RequestSound
    <3>1. \A d \in Aps : handler'[d].at = "flush" => d \notin pending /\ handler'[d].vaddr = request.vaddr
      BY <2>1 DEF SmpInv, RequestSound
    <3>2. c \notin pending /\ request.vaddr \notin cpuTlb'[c]
      BY <1>5, <2>2 DEF SmpInv, RequestSound
    <3>3. \A d \in Cpus : request.vaddr \notin cpuTlb[d] => request.vaddr \notin cpuTlb'[d]
      BY <2>2
    <3>4. Aps \subseteq Cpus /\ 0 \in Cpus /\ Answered \subseteq Cpus
      BY ProcessorsFinite DEF Answered
    <3>5. \A d \in Aps : handler'[d].at = "ack" => d \notin pending /\ request.vaddr \notin cpuTlb'[d]
      BY <2>1, <3>2, <3>3, <3>4 DEF SmpInv, RequestSound
    <3>6. \A d \in Answered : request.vaddr \notin cpuTlb'[d]
      BY <3>3, <3>4 DEF SmpInv, RequestSound
    <3> QED
      BY <1>1, <1>2, <1>5, <2>6, <3>1, <3>3, <3>4, <3>5, <3>6 DEF SmpInv, RequestSound
  <2> QED
    BY <1>3, <2>3, <2>4, <2>5, <2>7 DEF SmpInv
<1>6. ASSUME handler[c].at = "ack",
             request' = [request EXCEPT !.acks = @ + 1],
             handler' = [handler EXCEPT ![c] = Waiting],
             UNCHANGED <<pending, cpuTlb>>
      PROVE  SmpInv'
  <2>1. Waiting \in Typed /\ Waiting.at = "idle"
    BY DEF Waiting
  <2>2. /\ handler' \in [Aps -> Typed]
        /\ \A d \in Aps : d # c => handler'[d] = handler[d]
        /\ handler'[c].at = "idle"
    BY <1>6, <2>1 DEF SmpInv, SmpTypeOK
  <2>3. /\ request' \in [at : {"none", "sent", "wait"}, vaddr : TlbPages \cup {NoPage}, acks : Nat, expected : Nat]
        /\ request'.at = request.at /\ request'.vaddr = request.vaddr
        /\ request'.expected = request.expected /\ request'.acks = request.acks + 1
    BY <1>6 DEF SmpInv, SmpTypeOK
  <2>4. SmpTypeOK'
    BY <1>1, <1>6, <2>2, <2>3 DEF SmpInv, SmpTypeOK
  <2>5. AnswersFromIdle' /\ FlushedGone'
    BY <1>1, <1>6, <2>2, <2>3 DEF SmpInv, AnswersFromIdle, FlushedGone
  <2>6. RequestSound'
    <3> SUFFICES ASSUME request.at # "none", clean
                 PROVE  RequestSound'
      BY <1>1, <2>3 DEF RequestSound
    <3>1. c \notin pending /\ request.vaddr \notin cpuTlb[c] /\ c \in Counted
      BY <1>6 DEF SmpInv, RequestSound, AnswersFromIdle, Counted
    <3>2. Answered' = Answered \cup {c} /\ c \notin Answered
      BY <1>2, <1>6, <2>2, <3>1 DEF Answered
    <3>3. Cardinality(Answered') = Cardinality(Answered) + 1
      BY <3>2, ProcessorsFinite, FS_AddElement, Zenon
    <3>4. \A d \in Aps : /\ handler'[d].at = "flush" => d \notin pending /\ handler'[d].vaddr = request.vaddr
                         /\ handler'[d].at = "ack" => d \notin pending /\ request.vaddr \notin cpuTlb[d]
      BY <2>2 DEF SmpInv, RequestSound
    <3>5. \A d \in Answered' : request.vaddr \notin cpuTlb[d]
      BY <3>1, <3>2 DEF SmpInv, RequestSound
    <3> QED
      BY <1>1, <1>2, <1>6, <2>3, <3>3, <3>4, <3>5 DEF SmpInv, RequestSound
  <2> QED
    BY <1>3, <2>4, <2>5, <2>6 DEF SmpInv
<1> QED
  BY <1>4, <1>5, <1>6 DEF smp_handle_tlb_shootdown_ipi

\* A shootdown that got every answer has removed the page's translation from
\* every processor that was online, for any number of processors and pages, and
\* the online count is exact: the answers are counted, not attributed, and it is
\* enough that no answer to an earlier request was still to come.
THEOREM ShootdownsComplete == SmpSpec => []ShootdownComplete
<1>1. SmpInv /\ [SmpNext]_smpVars => SmpInv'
  <2> SUFFICES ASSUME SmpInv, [SmpNext]_smpVars
               PROVE  SmpInv'
    OBVIOUS
  <2>1. CASE UNCHANGED smpVars
    <3>1. Counted' = Counted /\ Answered' = Answered
      BY <2>1 DEF smpVars, Counted, Answered
    <3> QED
      BY <2>1, <3>1 DEF smpVars, SmpInv, SmpTypeOK, CountExact, AnswersFromIdle, FlushedGone, RequestSound
  <2>2. CASE \E c \in Aps : ap_entry_point(c) \/ smp_handle_tlb_shootdown_ipi(c)
    BY <2>2, EntryKeeps, HandlerKeeps
  <2>3. CASE \E c \in Cpus, v \in TlbPages : LoadTranslation(c, v)
    BY <2>3, LoadKeeps
  <2>4. CASE \E v \in TlbPages : smp_tlb_shootdown(v)
    BY <2>4, ShootdownKeeps
  <2> QED
    BY <2>1, <2>2, <2>3, <2>4, StartKeeps, ExpectsKeeps, DoneKeeps DEF SmpNext
<1>2. SmpInv => ShootdownComplete
  BY DEF SmpInv, CountExact, FlushedGone, ShootdownComplete
<1> QED
  BY <1>1, <1>2, SmpStarts, PTL DEF SmpSpec

-----------------------------------------------------------------------------
(* The physical memory manager *)

Inv == TypeOK /\ FramesCounted /\ SearchCoversUsable

-----------------------------------------------------------------------------
(* Numbers *)

\* A search that finds candidates returns one of them (find_free_frame and the
\* loops of pmm_alloc_pages).
LEMMA MinIsMember ==
  ASSUME NEW S \in SUBSET Nat, S # {}
  PROVE  Min(S) \in S
<1>1. \E x \in S : \A y \in S : ~(<<y, x>> \in OpToRel(<, Nat))
  BY NatLessThanWellFounded, WFMin, Zenon
<1>2. PICK x \in S : \A y \in S : ~(<<y, x>> \in OpToRel(<, Nat))
  BY <1>1
<1>3. \A y \in S : ~(y < x)
  BY <1>2, Zenon DEF OpToRel
<1>4. \A y \in S : x =< y
  BY <1>3
<1> QED
  BY <1>4, Zenon DEF Min

\* An address of at most MaxFrames frames has its frame among 0 .. MaxFrames
\* (align_down_frame, and the division in pmm_free_frame).
LEMMA FrameBound ==
  ASSUME NEW a \in 0 .. (MaxFrames * FrameSize)
  PROVE  a \div FrameSize \in 0 .. MaxFrames
<1> DEFINE q == a \div FrameSize
<1>1. /\ MaxFrames \in Nat /\ FrameSize \in Nat \ {0} /\ a \in Nat
      /\ MaxFrames * FrameSize \in Nat
  BY PmmAssumption
<1>2. q \in Nat /\ FrameSize * q =< a
  BY <1>1
<1>3. ASSUME q >= MaxFrames + 1
      PROVE  FALSE
  <2> HIDE DEF q
  <2>1. FrameSize * q >= FrameSize * (MaxFrames + 1)
    BY <1>1, <1>2, <1>3
  <2>2. FrameSize * (MaxFrames + 1) = MaxFrames * FrameSize + FrameSize
    BY <1>1
  <2> QED
    BY <1>1, <1>2, <2>1, <2>2
<1> HIDE DEF q
<1> QED
  BY <1>1, <1>2, <1>3 DEF q

\* The n frames from s on are a finite set of n elements.
LEMMA RunSize ==
  ASSUME NEW s \in Nat, NEW n \in Nat
  PROVE  IsFiniteSet(Run(s, n)) /\ Cardinality(Run(s, n)) = n
BY FS_Interval, s \in Int, s + n - 1 \in Int DEF Run

\* Setting clear bits and clearing set bits: how counters and bitmaps agree.
LEMMA CountAdded ==
  ASSUME NEW S, IsFiniteSet(S), NEW T, IsFiniteSet(T), S \cap T = {}
  PROVE  Cardinality(S \cup T) = Cardinality(S) + Cardinality(T)
<1>1. Cardinality(S \cap T) = 0
  BY FS_EmptySet
<1>2. /\ Cardinality(S) \in Nat /\ Cardinality(T) \in Nat
  BY FS_CardinalityType
<1>3. Cardinality(S \cup T)
        = Cardinality(S) + Cardinality(T) - Cardinality(S \cap T)
  BY FS_Union
<1> QED
  BY ONLY <1>1, <1>2, <1>3

LEMMA CountRemoved ==
  ASSUME NEW S, IsFiniteSet(S), NEW T \in SUBSET S
  PROVE  Cardinality(S \ T) = Cardinality(S) - Cardinality(T)
<1>1. S \cap T = T
  OBVIOUS
<1>2. Cardinality(S \ T) = Cardinality(S) - Cardinality(S \cap T)
  BY FS_Difference
<1> QED
  BY <1>1, <1>2, Zenon

\* The bitmaps are finite.
LEMMA BitmapsFinite ==
  ASSUME TypeOK
  PROVE  /\ IsFiniteSet(usable) /\ IsFiniteSet(free)
         /\ Cardinality(usable) \in Nat /\ Cardinality(free) \in Nat
<1>1. IsFiniteSet(1 .. (MaxFrames - 1))
  BY FS_Interval, PmmAssumption
<1> QED
  BY <1>1, FS_Subset, FS_CardinalityType, Zenon DEF TypeOK

-----------------------------------------------------------------------------
(* One lemma per state change *)

\* mark_usable_frames counts what it adds, and what it adds is new.
LEMMA MarkFrames ==
  ASSUME Inv, NEW first \in Nat \ {0}, NEW end \in 0 .. MaxFrames,
         mark_usable_frames(first, end)
  PROVE  /\ usable' \subseteq 1 .. (MaxFrames - 1)
         /\ \A f \in usable' : f \in usable \/ f < end
         /\ usable \subseteq usable'
         /\ free' = free \cup (usable' \ usable)
         /\ free' \subseteq usable'
         /\ free_frames' \in Nat /\ tracked_usable_frames' \in Nat
         /\ FramesCounted'
<1> DEFINE new == (first .. (end - 1)) \ usable
<1>1. new \subseteq 1 .. (MaxFrames - 1) /\ \A f \in new : f < end
  BY PmmAssumption
<1>2. IsFiniteSet(new) /\ Cardinality(new) \in Nat
  <2>1. IsFiniteSet(first .. (end - 1))
    BY FS_Interval, first \in Int, end - 1 \in Int
  <2> QED
    BY <2>1, FS_Difference, FS_CardinalityType, Zenon
<1>3. new \cap usable = {} /\ new \cap free = {} /\ free \subseteq usable
  BY DEF Inv, TypeOK
<1>4. /\ IsFiniteSet(usable) /\ IsFiniteSet(free)
      /\ Cardinality(usable) \in Nat /\ Cardinality(free) \in Nat
  BY BitmapsFinite DEF Inv
<1>5. /\ usable' = usable \cup new /\ free' = free \cup new
      /\ tracked_usable_frames' = tracked_usable_frames + Cardinality(new)
      /\ free_frames' = free_frames + Cardinality(new)
  BY DEF mark_usable_frames
<1> HIDE DEF new
<1>6. /\ Cardinality(usable \cup new) = Cardinality(usable) + Cardinality(new)
      /\ Cardinality(free \cup new) = Cardinality(free) + Cardinality(new)
  BY <1>2, <1>3, <1>4, CountAdded
<1>7. FramesCounted'
  BY <1>5, <1>6 DEF FramesCounted, Inv
<1>8. free_frames' \in Nat /\ tracked_usable_frames' \in Nat
  BY <1>2, <1>5 DEF Inv, TypeOK
<1>9. usable' \subseteq 1 .. (MaxFrames - 1) /\ \A f \in usable' : f \in usable \/ f < end
  BY <1>1, <1>5 DEF Inv, TypeOK
<1>10. /\ usable \subseteq usable' /\ free' = free \cup (usable' \ usable)
       /\ free' \subseteq usable'
  BY <1>3, <1>5
<1> QED
  BY <1>7, <1>8, <1>9, <1>10

\* Handing out frames that are free keeps the counters right, and is what
\* FrameAllocator allows.
LEMMA TakeStep ==
  ASSUME Inv, initialized, NEW s \in Nat, NEW n \in Nat \ {0},
         Run(s, n) \subseteq free, Take(s, n)
  PROVE  Inv' /\ Promise!Allocate(s, n) /\ s \in 0 .. MaxFrames
<1>1. IsFiniteSet(Run(s, n)) /\ Cardinality(Run(s, n)) = n
  BY RunSize
<1>2. IsFiniteSet(free) /\ Cardinality(free) \in Nat
  BY BitmapsFinite DEF Inv
<1>3. Cardinality(free \ Run(s, n)) = Cardinality(free) - n
  BY <1>1, <1>2, CountRemoved
<1>4. n =< Cardinality(free)
  BY <1>1, <1>2, FS_Subset
<1>5. /\ free' = free \ Run(s, n) /\ free_frames' = free_frames - n
      /\ allocation_hint' \in Nat \ {0}
      /\ answer' = Answer("allocate", 0, n, s)
      /\ UNCHANGED <<todo, usable, tracked_usable_frames, frame_search_limit,
                     initialized>>
  BY DEF Take, Inv, TypeOK
<1>6. FramesCounted'
  BY <1>3, <1>5 DEF FramesCounted, Inv
<1>7. free_frames' \in Nat
  BY <1>2, <1>4, <1>5 DEF FramesCounted, Inv
<1>8. TypeOK'
  BY <1>5, <1>7, Zenon DEF TypeOK, Inv, Answer
<1>9. SearchCoversUsable'
  BY <1>5 DEF SearchCoversUsable, Inv
<1>10. Promise!Allocate(s, n)
  BY <1>5 DEF Promise!Allocate, Promise!Available, Promise!Run, Promise!Answer,
              Run, Answer
<1>11. s \in 0 .. MaxFrames
  <2>1. s \in Run(s, n)
    BY DEF Run
  <2> QED
    BY <2>1, PmmAssumption DEF Inv, TypeOK
<1> QED
  BY <1>6, <1>8, <1>9, <1>10, <1>11 DEF Inv

\* A call that fails changes nothing.
LEMMA FailStep ==
  ASSUME Inv, NEW op \in {"allocate", "free"}, NEW s \in Nat, NEW n \in Nat,
         Fail(op, s, n)
  PROVE  /\ Inv'
         /\ answer' = Answer(op, s, n, 0)
         /\ UNCHANGED <<usable, free, initialized>>
<1>1. TypeOK'
  BY DEF Fail, Inv, TypeOK, Answer
<1>2. FramesCounted' /\ SearchCoversUsable'
  BY DEF Fail, Inv, FramesCounted, SearchCoversUsable
<1> QED
  BY <1>1, <1>2 DEF Inv, Fail

-----------------------------------------------------------------------------
(* One lemma per operation: it keeps Inv and is a step of FrameAllocator *)

\* The first frame at or above an address is a natural number.
LEMMA FrameAbove ==
  ASSUME NEW a \in Nat
  PROVE  align_up_frame(a) \in Nat
<1>1. a \div FrameSize \in Nat
  BY PmmAssumption
<1> QED
  BY <1>1 DEF align_up_frame

\* Taking the first entry of the memory map.
LEMMA HeadTail ==
  ASSUME NEW S, NEW q \in Seq(S), q # << >>
  PROVE  Head(q) \in S /\ Tail(q) \in Seq(S)
  OBVIOUS

\* A turn of pmm_initialize's loop adds frames.
LEMMA MapEntryStep ==
  ASSUME Inv, ~initialized, MapEntry
  PROVE  Inv' /\ (Promise!AddFrames \/ UNCHANGED Promise!vars)
<1> DEFINE base == Head(todo).base
           length == Head(todo).length
           first == align_up_frame(base)
           end == align_down_frame(Smaller(base + length, MaxFrames * FrameSize))
<1>1. base \in Nat /\ length \in Nat /\ todo' \in Seq([base : Nat, length : Nat])
  <2>1. todo # <<>> /\ todo' = Tail(todo) /\ todo \in Seq([base : Nat, length : Nat])
    BY DEF MapEntry, Inv, TypeOK
  <2>2. /\ Head(todo) \in [base : Nat, length : Nat]
        /\ todo' \in Seq([base : Nat, length : Nat])
    BY <2>1, HeadTail, Zenon
  <2> QED
    BY <2>2
<1>2. UNCHANGED <<allocation_hint, initialized, answer>>
  BY DEF MapEntry
<1>3. CASE length = 0 \/ base >= MaxFrames * FrameSize
  <2>1. UNCHANGED <<usable, free, free_frames, tracked_usable_frames,
                    frame_search_limit>>
    BY <1>3 DEF MapEntry, mark_usable_range
  <2> QED
    BY <1>1, <1>2, <2>1 DEF Inv, TypeOK, FramesCounted, SearchCoversUsable,
                            Promise!vars
<1>4. CASE ~(length = 0 \/ base >= MaxFrames * FrameSize)
  <2>1. /\ frame_search_limit' =
             IF end > frame_search_limit THEN end ELSE frame_search_limit
        /\ mark_usable_frames(IF first = 0 THEN 1 ELSE first, end)
    BY <1>4 DEF MapEntry, mark_usable_range
  <2>2. end \in 0 .. MaxFrames
    <3>1. Smaller(base + length, MaxFrames * FrameSize)
            \in 0 .. (MaxFrames * FrameSize)
      BY <1>1, PmmAssumption DEF Smaller
    <3> QED
      BY <3>1, FrameBound DEF align_down_frame
  <2>3. first \in Nat
    BY <1>1, FrameAbove, Zenon
  <2> HIDE DEF base, length, first, end
  <2>4. (IF first = 0 THEN 1 ELSE first) \in Nat \ {0}
    BY <2>3
  <2>5. /\ usable' \subseteq 1 .. (MaxFrames - 1)
        /\ \A f \in usable' : f \in usable \/ f < end
        /\ usable \subseteq usable'
        /\ free' = free \cup (usable' \ usable)
        /\ free' \subseteq usable'
        /\ free_frames' \in Nat /\ tracked_usable_frames' \in Nat
        /\ FramesCounted'
    BY <2>1, <2>2, <2>4, MarkFrames
  <2>6. frame_search_limit' \in 1 .. MaxFrames
    BY <2>1, <2>2 DEF Inv, TypeOK
  <2>7. SearchCoversUsable'
    BY <2>1, <2>2, <2>5 DEF Inv, TypeOK, SearchCoversUsable
  <2>8. TypeOK'
    BY <1>1, <1>2, <2>5, <2>6 DEF Inv, TypeOK
  <2>9. Promise!AddFrames
    BY <1>2, <2>5 DEF Promise!AddFrames
  <2> QED
    BY <2>5, <2>7, <2>8, <2>9 DEF Inv
<1> QED
  BY <1>3, <1>4

\* The end of pmm_initialize is Boot.
LEMMA InitializeStep ==
  ASSUME Inv, pmm_initialize
  PROVE  Inv' /\ Promise!Boot
<1>1. frame_search_limit' = frame_search_limit
  BY DEF pmm_initialize, Smaller, Inv, TypeOK
<1>2. free_frames # 0 <=> free # {}
  <2>1. IsFiniteSet(free)
    BY BitmapsFinite DEF Inv
  <2>2. Cardinality(free) = 0 <=> free = {}
    BY <2>1, FS_EmptySet
  <2> QED
    BY <2>2 DEF Inv, FramesCounted
<1>3. initialized' \in BOOLEAN /\ initialized' = (free # {})
  BY <1>2 DEF pmm_initialize
<1>4. TypeOK'
  BY <1>1, <1>3 DEF pmm_initialize, Inv, TypeOK
<1>5. FramesCounted' /\ SearchCoversUsable'
  BY <1>1 DEF pmm_initialize, Inv, FramesCounted, SearchCoversUsable
<1>6. Promise!Boot
  BY <1>3 DEF pmm_initialize, Promise!Boot
<1> QED
  BY <1>4, <1>5, <1>6 DEF Inv

\* pmm_allocate_frame fails only when no frame is free: the two searches
\* together cover every frame below the search limit.
LEMMA AllocateFrameStep ==
  ASSUME Inv, pmm_allocate_frame
  PROVE  /\ Inv'
         /\ \/ Promise!Exhausted(1)
            \/ \E s \in 0 .. MaxFrames : Promise!Allocate(s, 1)
<1> DEFINE Found(start, end) == {f \in free : start <= f /\ f < end}
           ahead == find_free_frame(allocation_hint, frame_search_limit)
           frame == IF ahead = 0 /\ allocation_hint > 1
                    THEN find_free_frame(1, allocation_hint) ELSE ahead
<1>1. free \subseteq Nat \ {0}
  BY DEF Inv, TypeOK
<1>2. \A start, end \in Nat :
        /\ find_free_frame(start, end) = 0 <=> Found(start, end) = {}
        /\ find_free_frame(start, end) # 0 => find_free_frame(start, end) \in free
  BY <1>1, MinIsMember DEF find_free_frame
<1>3. allocation_hint \in Nat \ {0} /\ frame_search_limit \in Nat
  BY DEF Inv, TypeOK
<1>4. frame # 0 => frame \in free
  BY <1>2, <1>3
<1>5. frame = 0 => free = {}
  <2> SUFFICES ASSUME frame = 0, NEW f \in free
               PROVE  FALSE
    OBVIOUS
  <2>1. 1 <= f /\ f < frame_search_limit /\ f \in Nat
    BY DEF Inv, TypeOK, SearchCoversUsable
  <2>2. Found(allocation_hint, frame_search_limit) = {}
    BY <1>2, <1>3
  <2>3. f < allocation_hint
    BY <1>3, <2>1, <2>2
  <2>4. Found(1, allocation_hint) = {}
    BY <1>2, <1>3, <2>1, <2>3
  <2> QED
    BY <2>1, <2>3, <2>4
<1>6. CASE ~initialized \/ frame = 0
  <2>1. Fail("allocate", 0, 1)
    BY <1>6 DEF pmm_allocate_frame
  <2>2. /\ Inv' /\ answer' = Answer("allocate", 0, 1, 0)
        /\ UNCHANGED <<usable, free, initialized>>
    BY <2>1, FailStep
  <2>3. ~initialized \/ free = {}
    BY <1>5, <1>6
  <2>4. Promise!Exhausted(1)
    BY <2>2, <2>3 DEF Promise!Exhausted, Promise!Available, Promise!Run,
                      Promise!Answer, Answer
  <2> QED
    BY <2>2, <2>4
<1>7. CASE ~(~initialized \/ frame = 0)
  <2>1. Take(frame, 1)
    BY <1>7 DEF pmm_allocate_frame
  <2> HIDE DEF frame
  <2>2. frame \in Nat /\ Run(frame, 1) \subseteq free
    <3>1. frame \in free /\ frame \in Nat
      BY <1>1, <1>4, <1>7, Zenon
    <3>2. Run(frame, 1) = {frame}
      BY <3>1 DEF Run
    <3> QED
      BY <3>1, <3>2
  <2> QED
    BY <1>7, <2>1, <2>2, TakeStep
<1> QED
  BY <1>6, <1>7

\* The same for pmm_alloc_pages: a run of free frames ends below the search
\* limit, and starts at or after the hint, where the first loop finds it, or
\* before it, where the second does.
LEMMA AllocPagesStep ==
  ASSUME Inv, NEW n \in 0 .. MaxCount, pmm_alloc_pages(n)
  PROVE  /\ Inv'
         /\ \E k \in 0 .. MaxCount :
              \/ Promise!Exhausted(k)
              \/ \E s \in 0 .. MaxFrames : Promise!Allocate(s, k)
<1> DEFINE ahead == FreeRuns(allocation_hint, frame_search_limit, n)
           to == Smaller(allocation_hint + n, frame_search_limit)
           behind == FreeRuns(1, to, n)
<1>1. /\ free \subseteq Nat \ {0} /\ n \in Nat
      /\ allocation_hint \in Nat \ {0} /\ frame_search_limit \in Nat
      /\ 1 \in 0 .. MaxCount
  BY PmmAssumption DEF Inv, TypeOK
<1>2. CASE n = 1
  <2>1. pmm_allocate_frame
    BY <1>2 DEF pmm_alloc_pages
  <2> QED
    BY <1>1, <2>1, AllocateFrameStep
<1>3. ASSUME n # 1, Fail("allocate", 0, n),
             \/ n = 0 \/ ~initialized \/ free_frames < n
             \/ (ahead = {} /\ ~(allocation_hint > 1 /\ behind # {}))
      PROVE  Inv' /\ Promise!Exhausted(n)
  <2>1. /\ Inv' /\ answer' = Answer("allocate", 0, n, 0)
        /\ UNCHANGED <<usable, free, initialized>>
    BY <1>1, <1>3, FailStep
  <2>2. ASSUME NEW s \in 0 .. MaxFrames, initialized, n > 0, Run(s, n) \subseteq free
        PROVE  FALSE
    <3>1. s \in Nat /\ s \in Run(s, n) /\ s + n - 1 \in Run(s, n)
      BY <1>1, <2>2 DEF Run
    <3>2. s \in free /\ s >= 1 /\ s + n <= frame_search_limit
      <4>1. s + n - 1 \in usable
        BY <2>2, <3>1 DEF Inv, TypeOK
      <4>2. s + n - 1 < frame_search_limit
        BY <4>1 DEF Inv, SearchCoversUsable
      <4> QED
        BY <1>1, <2>2, <3>1, <4>2
    <3>3. n <= free_frames
      <4>1. IsFiniteSet(free) /\ Cardinality(free) = free_frames
        BY BitmapsFinite DEF Inv, FramesCounted
      <4>2. Cardinality(Run(s, n)) <= Cardinality(free)
        BY <2>2, <4>1, FS_Subset
      <4>3. Cardinality(Run(s, n)) = n
        BY <1>1, <3>1, RunSize
      <4> QED
        BY <4>1, <4>2, <4>3
    <3>4. ~(free_frames < n)
      BY <3>3, <1>1 DEF Inv, TypeOK
    <3>5. s \notin ahead
      BY <1>3, <2>2, <3>4
    <3>6. s < allocation_hint
      BY <1>1, <2>2, <3>1, <3>2, <3>5 DEF FreeRuns
    <3>7. s + n <= to
      BY <1>1, <3>1, <3>2, <3>6 DEF Smaller
    <3>8. s \in behind
      BY <2>2, <3>2, <3>7 DEF FreeRuns
    <3>9. allocation_hint > 1
      BY <1>1, <3>1, <3>2, <3>6
    <3> QED
      BY <1>3, <2>2, <3>4, <3>8, <3>9
  <2>3. Promise!Run(0, 0) = Run(0, 0) /\ \A s : Promise!Run(s, n) = Run(s, n)
    BY DEF Promise!Run, Run
  <2>4. \A s \in 0 .. MaxFrames : ~Promise!Available(s, n)
    BY <2>2, <2>3 DEF Promise!Available
  <2> QED
    BY <2>1, <2>4 DEF Promise!Exhausted, Promise!Answer, Answer
<1>4. ASSUME NEW S \in {ahead, behind}, S # {}, n > 1, initialized, Take(Min(S), n)
      PROVE  Inv' /\ \E s \in 0 .. MaxFrames : Promise!Allocate(s, n)
  <2>1. S \subseteq free /\ \A s \in S : Run(s, n) \subseteq free
    BY DEF FreeRuns
  <2>2. Min(S) \in S
    BY <1>1, <1>4, <2>1, MinIsMember
  <2>3. Min(S) \in Nat /\ Run(Min(S), n) \subseteq free
    BY <1>1, <2>1, <2>2, Zenon
  <2> QED
    BY <1>1, <1>4, <2>3, TakeStep
<1>5. CASE n = 0 \/ n > 1
  <2>1. \/ /\ Fail("allocate", 0, n)
           /\ \/ n = 0 \/ ~initialized \/ free_frames < n
              \/ (ahead = {} /\ ~(allocation_hint > 1 /\ behind # {}))
        \/ n > 1 /\ initialized /\ ahead # {} /\ Take(Min(ahead), n)
        \/ n > 1 /\ initialized /\ behind # {} /\ Take(Min(behind), n)
    <3>0. IF n < 2 THEN IF n = 0 THEN Fail("allocate", 0, 0) ELSE pmm_allocate_frame
          ELSE IF ~initialized \/ free_frames < n THEN Fail("allocate", 0, n)
          ELSE IF ahead # {} THEN Take(Min(ahead), n)
          ELSE IF allocation_hint > 1 /\ behind # {} THEN Take(Min(behind), n)
          ELSE Fail("allocate", 0, n)
      BY Zenon DEF pmm_alloc_pages
    <3> HIDE DEF ahead, behind
    <3>1. CASE n = 0
      <4>1. n < 2
        BY <3>1
      <4> QED
        BY <3>0, <3>1, <4>1, Zenon
    <3>2. CASE n > 1
      <4>1. ~(n < 2)
        BY <1>1, <3>2
      <4> QED
        BY <3>0, <3>2, <4>1, Zenon
    <3> QED
      BY <1>5, <3>1, <3>2
  <2> HIDE DEF ahead, behind
  <2>2. n # 1
    BY <1>5
  <2> QED
    BY <1>3, <1>4, <2>1, <2>2
<1> QED
  BY <1>1, <1>2, <1>5

\* A release is refused unless every frame of it is handed out.
LEMMA GiveBackStep ==
  ASSUME Inv, NEW a \in 0 .. (MaxFrames * FrameSize), NEW n \in 0 .. MaxCount,
         GiveBack(a, n)
  PROVE  /\ Inv'
         /\ \E s \in 0 .. MaxFrames : Promise!Release(s, n) \/ Promise!Refuse(s, n)
<1> DEFINE s == a \div FrameSize
           refused == \/ ~initialized \/ a = 0 \/ a % FrameSize # 0 \/ n = 0
                      \/ \E f \in Run(s, n) : \/ ~frame_is_tracked(f)
                                              \/ f \notin usable \/ f \in free
<1>1. s \in 0 .. MaxFrames /\ FrameOf(a) \in 0 .. MaxFrames /\ n \in Nat
  <2>1. s \in 0 .. MaxFrames
    BY FrameBound
  <2> HIDE DEF s
  <2>2. FrameOf(a) = s \/ FrameOf(a) = 0
    BY DEF FrameOf, s
  <2> QED
    BY <2>1, <2>2, PmmAssumption
<1>2. CASE refused
  <2>1. Fail("free", FrameOf(a), n)
    BY <1>2 DEF GiveBack
  <2>2. /\ Inv' /\ answer' = Answer("free", FrameOf(a), n, 0)
        /\ UNCHANGED <<usable, free, initialized>>
    BY <1>1, <2>1, FailStep
  <2>3. ~Promise!Releasable(FrameOf(a), n)
    <3> SUFFICES ASSUME initialized, n > 0, Run(FrameOf(a), n) \subseteq usable \ free
                 PROVE  FALSE
      BY DEF Promise!Releasable, Promise!Run, Run
    <3>1. \A f \in usable : f # 0 /\ frame_is_tracked(f)
      BY PmmAssumption DEF Inv, TypeOK, frame_is_tracked
    <3>2. FrameOf(a) # 0
      <4>1. FrameOf(a) \in Run(FrameOf(a), n)
        BY <1>1 DEF Run
      <4> QED
        BY <3>1, <4>1
    <3>3. a % FrameSize = 0 /\ FrameOf(a) = s
      BY <3>2 DEF FrameOf
    <3>4. a # 0
      <4>1. 0 \div FrameSize = 0
        BY PmmAssumption
      <4> QED
        BY <3>2, <3>3, <4>1
    <3> HIDE DEF s
    <3>5. \A f \in Run(s, n) : frame_is_tracked(f) /\ f \in usable /\ f \notin free
      BY <3>1, <3>3
    <3> QED
      BY <1>1, <1>2, <3>3, <3>4, <3>5
  <2> QED
    BY <1>1, <2>2, <2>3 DEF Promise!Refuse, Promise!Answer, Answer
<1>3. CASE ~refused
  <2>1. /\ initialized /\ n # 0
        /\ \A f \in Run(s, n) : f \in usable /\ f \notin free
    BY <1>3
  <2>2. /\ free' = free \cup Run(s, n)
        /\ free_frames' = free_frames + n
        /\ allocation_hint' = Smaller(s, allocation_hint)
        /\ answer' = Answer("free", s, n, 1)
        /\ UNCHANGED <<todo, usable, tracked_usable_frames,
                       frame_search_limit, initialized>>
    BY <1>3 DEF GiveBack
  <2> HIDE DEF s, refused
  <2>3. s # 0
    <3>1. s \in Run(s, n)
      BY <1>1, <2>1 DEF Run
    <3> QED
      BY <2>1, <3>1 DEF Inv, TypeOK
  <2>4. FramesCounted'
    <3>1. IsFiniteSet(free) /\ Cardinality(free) \in Nat
      BY BitmapsFinite DEF Inv
    <3>2. IsFiniteSet(Run(s, n)) /\ Cardinality(Run(s, n)) = n
      BY <1>1, RunSize
    <3>3. Cardinality(free \cup Run(s, n)) = Cardinality(free) + n
      BY <2>1, <3>1, <3>2, CountAdded
    <3> QED
      BY <2>2, <3>3 DEF Inv, FramesCounted
  <2>5. TypeOK'
    <3>1. free' \subseteq usable'
      BY <2>1, <2>2, Zenon DEF Inv, TypeOK
    <3>2. allocation_hint' \in Nat \ {0} /\ free_frames' \in Nat
      BY <1>1, <2>2, <2>3 DEF Inv, TypeOK, Smaller
    <3>3. answer' \in [op : {"none", "allocate", "free"}, start : Nat,
                       count : Nat, result : Nat]
      BY <1>1, <2>2 DEF Answer
    <3> QED
      BY <2>2, <3>1, <3>2, <3>3 DEF Inv, TypeOK
  <2>6. SearchCoversUsable'
    BY <2>2 DEF Inv, SearchCoversUsable
  <2>7. Promise!Release(s, n)
    BY <1>1, <2>1, <2>2 DEF Promise!Release, Promise!Releasable, Promise!Run, Run,
                            Promise!Answer, Answer
  <2> QED
    BY <1>1, <2>4, <2>5, <2>6, <2>7 DEF Inv
<1> QED
  BY <1>2, <1>3

-----------------------------------------------------------------------------
(* The theorems *)

\* Once pmm_initialize has succeeded, no memory map entry is left.
Booted == initialized => todo = <<>>

\* Every step keeps the invariants and is a step of FrameAllocator.
LEMMA NextStep ==
  ASSUME Inv, Booted, Next
  PROVE  Inv' /\ Booted' /\ [Promise!Next]_(Promise!vars)
<1>1. CASE MapEntry
  <2>1. ~initialized
    BY <1>1 DEF MapEntry, Booted
  <2>2. Booted'
    BY <1>1, <2>1 DEF MapEntry, Booted
  <2> QED
    BY <1>1, <2>1, <2>2, MapEntryStep DEF Promise!Next
<1>2. CASE pmm_initialize
  <2>1. Booted'
    BY <1>2 DEF pmm_initialize, Booted
  <2> QED
    BY <1>2, <2>1, InitializeStep DEF Promise!Next
<1>3. ASSUME NEW n \in 0 .. MaxCount,
             \/ Promise!Exhausted(n)
             \/ \E s \in 0 .. MaxFrames : \/ Promise!Allocate(s, n)
                                          \/ Promise!Release(s, n)
                                          \/ Promise!Refuse(s, n)
      PROVE  Promise!Next
  BY <1>3 DEF Promise!Next
<1>4. CASE pmm_allocate_frame
  <2>1. Booted'
    BY <1>4, Zenon DEF pmm_allocate_frame, Fail, Take, Booted
  <2>2. 1 \in 0 .. MaxCount
    BY PmmAssumption
  <2> QED
    BY <1>3, <1>4, <2>1, <2>2, AllocateFrameStep
<1>5. ASSUME NEW n \in 0 .. MaxCount, pmm_alloc_pages(n)
      PROVE  Inv' /\ Booted' /\ Promise!Next
  <2>1. UNCHANGED <<todo, initialized>>
    BY <1>5 DEF pmm_alloc_pages, pmm_allocate_frame, Fail, Take
  <2>2. Booted'
    BY <2>1 DEF Booted
  <2> QED
    BY <1>3, <1>5, <2>2, AllocPagesStep
<1>6. ASSUME NEW a \in 0 .. (MaxFrames * FrameSize), NEW n \in 0 .. MaxCount,
             GiveBack(a, n)
      PROVE  Inv' /\ Booted' /\ Promise!Next
  <2>1. Booted'
    BY <1>6, Zenon DEF GiveBack, Fail, Booted
  <2> QED
    BY <1>3, <1>6, <2>1, GiveBackStep
<1>7. ASSUME NEW a \in 0 .. (MaxFrames * FrameSize),
             pmm_free_frame(a) \/ \E n \in 0 .. MaxCount : pmm_free_pages(a, n)
      PROVE  Inv' /\ Booted' /\ Promise!Next
  <2>1. 1 \in 0 .. MaxCount
    BY PmmAssumption
  <2> QED
    BY <1>6, <1>7, <2>1 DEF pmm_free_frame, pmm_free_pages
<1> QED
  BY <1>1, <1>2, <1>4, <1>5, <1>7 DEF Next

LEMMA StepOrStutter ==
  ASSUME Inv, Booted, [Next]_vars
  PROVE  Inv' /\ Booted' /\ [Promise!Next]_(Promise!vars)
<1>1. CASE UNCHANGED vars
  BY <1>1 DEF vars, Inv, Booted, TypeOK, FramesCounted, SearchCoversUsable,
              Promise!vars
<1> QED
  BY <1>1, NextStep

LEMMA InitInv ==
  ASSUME Init
  PROVE  Inv /\ Booted
<1>1. TypeOK
  <2>1. todo \in Seq([base : Nat, length : Nat])
    BY PmmAssumption DEF Init
  <2>2. frame_search_limit \in 1 .. MaxFrames
    BY PmmAssumption DEF Init
  <2>3. answer \in [op : {"none", "allocate", "free"}, start : Nat,
                    count : Nat, result : Nat]
    BY DEF Init, Answer
  <2>4. /\ usable \subseteq 1 .. (MaxFrames - 1) /\ free \subseteq usable
        /\ initialized \in BOOLEAN
    BY Zenon DEF Init
  <2>5. free_frames \in Nat /\ tracked_usable_frames \in Nat
          /\ allocation_hint \in Nat \ {0}
    BY DEF Init
  <2> QED
    BY <2>1, <2>2, <2>3, <2>4, <2>5 DEF TypeOK
<1>2. FramesCounted /\ SearchCoversUsable
  BY FS_EmptySet DEF Init, FramesCounted, SearchCoversUsable
<1> QED
  BY <1>1, <1>2 DEF Init, Inv, Booted

LEMMA Invariance == Spec => [](Inv /\ Booted)
<1>1. Init => Inv /\ Booted
  BY InitInv
<1>2. Inv /\ Booted /\ [Next]_vars => Inv' /\ Booted'
  BY StepOrStutter
<1> QED
  BY <1>1, <1>2, PTL DEF Spec

\* Whatever the memory map and the calls, free_frames and tracked_usable_frames
\* count the bits of the bitmaps, in every state (pmm.c).
THEOREM FramesAlwaysCounted == Spec => []FramesCounted
BY Invariance, PTL DEF Inv

\* The searches of pmm_allocate_frame and pmm_alloc_pages always cover every
\* usable frame (pmm.c).
THEOREM SearchesCoverUsable == Spec => []SearchCoversUsable
BY Invariance, PTL DEF Inv

\* The variables of pmm.c stay in their ranges; frame 0 is never usable.
THEOREM TypeCorrect == Spec => []TypeOK
BY Invariance, PTL DEF Inv

\* pmm.c implements FrameAllocator: every call, failing ones included, does
\* what that specification allows.
THEOREM PmmKeepsPromise == Spec => KeepsPromise
<1>1. Init => Promise!Init
  BY DEF Init, Promise!Init, Answer, Promise!Answer
<1>2. Inv /\ Booted /\ [Next]_vars => [Promise!Next]_(Promise!vars)
  BY StepOrStutter
<1> QED
  BY <1>1, <1>2, Invariance, PTL DEF Spec, KeepsPromise, Promise!Spec
=============================================================================
