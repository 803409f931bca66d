-------------------------------- MODULE Smp --------------------------------
(* Starting the other processors and flushing their translation buffers:
   arch/x86_64/smp.c.  Only the boot processor runs threads; the others idle
   with interrupts enabled and answer inter-processor interrupts. *)
EXTENDS Naturals, FiniteSets

CONSTANTS CpuCount,   \* processors, numbered from 0, the boot processor
          TlbPages,   \* pages whose mapping changes
          Shootdowns  \* bound on smp_tlb_shootdown calls

Cpus == 0 .. CpuCount - 1
Aps == Cpus \ {0}

VARIABLES boot,    \* the processor smp_initialize is starting; CpuCount when done
          ap,      \* how far each other processor is in ap_entry_point
          g_online_cpu_count,
          valid,   \* pages that are mapped
          cpuTlb,  \* pages each processor holds a translation for
          pending, \* processors with the interrupt pending
          handler, \* what each processor's handler is doing
          request, \* g_tlb_shootdown_vaddr and _acks, and the caller with its expected_acks
          clean,   \* no answer can be taken for another request's
          flushed, \* page and processor of every shootdown acknowledged by all
          shots
smpVars == <<boot, ap, g_online_cpu_count, valid, cpuTlb, pending, handler, request,
             clean, flushed, shots>>

NoPage == "none"
ASSUME SmpAssumption == CpuCount \in Nat \ {0} /\ NoPage \notin TlbPages
Waiting == [at |-> "idle", vaddr |-> NoPage]

SmpInit ==
  /\ boot = 1 /\ ap = [c \in Aps |-> "halted"] /\ g_online_cpu_count = 1
  /\ valid = TlbPages /\ cpuTlb = [c \in Cpus |-> {}]
  /\ pending = {} /\ handler = [c \in Aps |-> Waiting]
  /\ request = [at |-> "none", vaddr |-> NoPage, acks |-> 0, expected |-> 0]
  /\ clean = TRUE /\ flushed = {} /\ shots = 0

-----------------------------------------------------------------------------
(* Starting *)

(* The boot processor releases the next one and waits for it to come
   online... *)
smp_initialize ==
  /\ boot \in Aps /\ ap[boot] = "halted"
  /\ ap' = [ap EXCEPT ![boot] = "starting"]
  /\ UNCHANGED <<boot, g_online_cpu_count, valid, cpuTlb, pending, handler, request, clean, flushed, shots>>

(* ...or for a tenth of a second. *)
ap_started_or_late ==
  /\ boot \in Aps /\ ap[boot] # "halted"
  /\ boot' = boot + 1
  /\ UNCHANGED <<ap, g_online_cpu_count, valid, cpuTlb, pending, handler, request, clean, flushed, shots>>

(* A processor the bootloader has no entry for is passed over. *)
ap_absent ==
  /\ boot \in Aps /\ ap[boot] = "halted"
  /\ boot' = boot + 1
  /\ UNCHANGED <<ap, g_online_cpu_count, valid, cpuTlb, pending, handler, request, clean, flushed, shots>>

(* ap_entry_point marks itself online, then counts itself, then enables
   interrupts. *)
ap_entry_point(c) ==
  /\ ap[c] \in {"starting", "online", "counted"}
  /\ ap' = [ap EXCEPT ![c] = CASE @ = "starting" -> "online" [] @ = "online" -> "counted"
                               [] @ = "counted" -> "idle"]
  /\ g_online_cpu_count' = IF ap[c] = "online" THEN g_online_cpu_count + 1 ELSE g_online_cpu_count
  /\ UNCHANGED <<boot, valid, cpuTlb, pending, handler, request, clean, flushed, shots>>

-----------------------------------------------------------------------------
(* Flushing *)

Counted == {0} \cup {c \in Aps : ap[c] \in {"counted", "idle"}}

(* Any processor loads a translation that exists. *)
LoadTranslation(c, v) ==
  /\ c # 0 => ap[c] # "halted"
  /\ v \in valid /\ v \notin cpuTlb[c]
  /\ cpuTlb' = [cpuTlb EXCEPT ![c] = @ \cup {v}]
  /\ UNCHANGED <<boot, ap, g_online_cpu_count, valid, pending, handler, request, clean, flushed, shots>>

(* smp_tlb_shootdown, of a page just unmapped: alone, it flushes its own
   buffer; with others online it publishes the page, clears the count of
   answers, and interrupts all of them.  The acks of an earlier call still
   to come, and those of a processor not counted, make it unreliable. *)
smp_tlb_shootdown(v) ==
  /\ boot = CpuCount /\ request.at = "none" /\ shots < Shootdowns /\ v \in valid
  /\ shots' = shots + 1 /\ valid' = valid \ {v}
  /\ cpuTlb' = [cpuTlb EXCEPT ![0] = @ \ {v}]
  /\ IF g_online_cpu_count <= 1
     THEN /\ flushed' = flushed \cup ({v} \X Counted)
          /\ UNCHANGED <<pending, request, clean>>
     ELSE /\ request' = [at |-> "sent", vaddr |-> v, acks |-> 0, expected |-> 0]
          /\ pending' = pending \cup {c \in Aps : ap[c] # "halted"}
          /\ clean' = /\ pending = {} /\ \A c \in Aps : handler[c] = Waiting
                      /\ \A c \in Aps : ap[c] # "halted" => c \in Counted
          /\ UNCHANGED flushed
  /\ UNCHANGED <<boot, ap, g_online_cpu_count, handler>>

(* It reads how many answers to expect after the interrupt is sent. *)
shootdown_expects ==
  /\ request.at = "sent"
  /\ request' = [request EXCEPT !.at = "wait", !.expected = g_online_cpu_count - 1]
  /\ UNCHANGED <<boot, ap, g_online_cpu_count, valid, cpuTlb, pending, handler, clean, flushed, shots>>

(* The caller's wait ends with every answer, or after 100000 rounds. *)
\* Mutant: it expects one answer too few.
shootdown_done_early ==
  /\ request.at = "wait" /\ request.acks >= request.expected - 1
  /\ flushed' = IF clean THEN flushed \cup ({request.vaddr} \X Counted) ELSE flushed
  /\ request' = [request EXCEPT !.at = "none"]
  /\ UNCHANGED <<boot, ap, g_online_cpu_count, valid, cpuTlb, pending, handler, clean, shots>>

shootdown_done ==
  /\ request.at = "wait" /\ request.acks >= request.expected
  /\ flushed' = IF clean THEN flushed \cup ({request.vaddr} \X Counted) ELSE flushed
  /\ request' = [request EXCEPT !.at = "none"]
  /\ UNCHANGED <<boot, ap, g_online_cpu_count, valid, cpuTlb, pending, handler, clean, shots>>

shootdown_timeout ==
  /\ request.at = "wait" /\ request.acks < request.expected
  /\ request' = [request EXCEPT !.at = "none"]
  /\ UNCHANGED <<boot, ap, g_online_cpu_count, valid, cpuTlb, pending, handler, clean, flushed, shots>>

(* The handler reads the page, flushes it, and answers. *)
smp_handle_tlb_shootdown_ipi(c) ==
  \/ /\ ap[c] = "idle" /\ c \in pending /\ handler[c].at = "idle"
     /\ pending' = pending \ {c}
     /\ handler' = [handler EXCEPT ![c] = [at |-> "flush", vaddr |-> request.vaddr]]
     /\ UNCHANGED <<cpuTlb, request>>
     /\ UNCHANGED <<boot, ap, g_online_cpu_count, valid, clean, flushed, shots>>
  \/ /\ handler[c].at = "flush"
     /\ cpuTlb' = [cpuTlb EXCEPT ![c] = @ \ {handler[c].vaddr}]
     /\ handler' = [handler EXCEPT ![c].at = "ack"]
     /\ UNCHANGED <<pending, request>>
     /\ UNCHANGED <<boot, ap, g_online_cpu_count, valid, clean, flushed, shots>>
  \/ /\ handler[c].at = "ack"
     /\ request' = [request EXCEPT !.acks = @ + 1]
     /\ handler' = [handler EXCEPT ![c] = Waiting]
     /\ UNCHANGED <<pending, cpuTlb>>
     /\ UNCHANGED <<boot, ap, g_online_cpu_count, valid, clean, flushed, shots>>

SmpNext ==
  \/ smp_initialize \/ ap_started_or_late \/ ap_absent
  \/ \E v \in TlbPages : smp_tlb_shootdown(v)
  \/ shootdown_expects \/ shootdown_done \/ shootdown_timeout
  \/ \E c \in Aps : ap_entry_point(c) \/ smp_handle_tlb_shootdown_ipi(c)
  \/ \E c \in Cpus, v \in TlbPages : LoadTranslation(c, v)

SmpSpec == SmpInit /\ [][SmpNext]_smpVars

-----------------------------------------------------------------------------
(* Properties *)

(* A shootdown that ended with every answer, and not after a wait, leaves no
   processor that was online with a translation of the page, provided no
   answer of an earlier one was still to come and no processor was between
   being interrupted and being counted; and the count of online processors
   is the number that have counted themselves. *)
ShootdownComplete ==
  /\ g_online_cpu_count = Cardinality(Counted)
  /\ \A f \in flushed : f[1] \notin cpuTlb[f[2]]
=============================================================================
