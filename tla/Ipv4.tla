------------------------------- MODULE Ipv4 --------------------------------
(* Fragmentation and reassembly in net/ipv4.c: a sender running               *)
(* net_ipv4_send_from, a network that loses, repeats and reorders packets,    *)
(* and a receiver running net_ipv4_receive.                                  *)
(*                                                                          *)
(* The payload handlers may answer, which resolves an address, which polls    *)
(* the device: so packets are received while ipv4_handle_fragment is still    *)
(* in ipv4_dispatch_payload, before the slot is released.  `returning` is     *)
(* the stack of slots whose dispatch has not returned.  A byte of a payload   *)
(* is the datagram it belongs to; its position is its offset.                *)
EXTENDS Naturals, Sequences, FiniteSets, FiniteSetsExt

CONSTANTS Sizes,       \* Sizes[d]: payload size of the d-th datagram sent
          Block,       \* 8: the unit of fragment offsets
          MaxFragment, \* IPV4_MAX_FRAGMENT_PAYLOAD, a multiple of Block
          MaxSize,     \* IPV4_REASM_MAX_SIZE
          SlotCount,   \* IPV4_REASM_SLOTS
          Timeout,     \* IPV4_REASM_TIMEOUT_TICKS
          LastIpTick, Depth, Receipts

VARIABLES sent,        \* datagrams sent so far
          wire,        \* packets in the network
          reasm_slots,
          returning, ticks,
          received,    \* packets received so far, a bound
          delivered    \* payloads handed to ipv4_dispatch_payload

ipVars == <<sent, wire, reasm_slots, returning, ticks, received, delivered>>

ReasmSlots == 1 .. SlotCount
Inactive == [active |-> FALSE, id |-> 0, created |-> 0, total |-> 0,
             buffer |-> <<>>, present |-> {}]

IpInit ==
  /\ sent = 0 /\ wire = {} /\ returning = <<>> /\ ticks = 0 /\ received = 0
  /\ reasm_slots = [i \in ReasmSlots |-> Inactive]
  /\ delivered = {}

\* The packets net_ipv4_send_from emits for a datagram: one if it fits, else
\* MaxFragment bytes at a time with the offset in units of Block.
Fragments(d) ==
  LET size == Sizes[d]
      starts == {o \in 0 .. size - 1 : o % MaxFragment = 0}
  IN {[id |-> d, offset |-> o \div Block, more |-> o + MaxFragment < size,
       size |-> Min({MaxFragment, size - o})] : o \in starts}

\* Emission may stop at the first fragment the device refuses.
net_ipv4_send_from ==
  /\ sent < Len(Sizes)
  /\ sent' = sent + 1
  /\ \E upto \in 0 .. Sizes[sent + 1] :
       wire' = wire \cup {f \in Fragments(sent + 1) : f.offset * Block < upto}
  /\ UNCHANGED <<reasm_slots, returning, ticks, received, delivered>>

\* Slots given up because they are too old are those scanned before the match.
TooOld(s) == s.active /\ ticks - s.created >= Timeout

\* Mutant: a slot whose dispatch has not returned does not match.
MatchingIdle(id) ==
  {i \in ReasmSlots : /\ reasm_slots[i].active /\ ~TooOld(reasm_slots[i]) /\ reasm_slots[i].id = id
                      /\ \A k \in DOMAIN returning : returning[k] # i}

Matching(id) == {i \in ReasmSlots : /\ reasm_slots[i].active /\ ~TooOld(reasm_slots[i])
                                    /\ reasm_slots[i].id = id}

Reclaimed(id) ==
  LET scanned == IF Matching(id) = {} THEN ReasmSlots ELSE 1 .. Min(Matching(id)) - 1 IN
  [i \in ReasmSlots |-> IF i \in scanned /\ TooOld(reasm_slots[i]) THEN Inactive ELSE reasm_slots[i]]

\* The slot's contents after the fragment's bytes are stored.
Store(slot, f) ==
  LET at == f.offset * Block IN
  [slot EXCEPT
     !.buffer = [b \in DOMAIN @ \cup at .. at + f.size - 1 |->
                   IF b \in at .. at + f.size - 1 THEN f.id ELSE @[b]],
     !.present = @ \cup {(at \div Block) + b : b \in 0 .. ((f.size + Block - 1) \div Block) - 1},
     !.total = IF f.more THEN @ ELSE at + f.size]

\* Mutant: the datagram is complete once its last fragment is there.
CompleteAtLast(slot) == slot.total > 0

Complete(slot) ==
  slot.total > 0 /\ 0 .. ((slot.total + Block - 1) \div Block) - 1 \subseteq slot.present

\* What the upper layer is given.
Payload(slot) ==
  [id |-> slot.id, size |-> slot.total, age |-> ticks - slot.created,
   owners |-> {IF b \in DOMAIN slot.buffer THEN slot.buffer[b] ELSE 0 : b \in 0 .. slot.total - 1}]

ipv4_handle_fragment(f) ==
  LET slots == Reclaimed(f.id)
      free == {i \in ReasmSlots : ~slots[i].active}
      i == IF Matching(f.id) # {} THEN Min(Matching(f.id)) ELSE Min(free)
      slot == IF Matching(f.id) # {} THEN slots[i]
              ELSE [Inactive EXCEPT !.active = TRUE, !.id = f.id, !.created = ticks]
      full == Store(slot, f)
  IN \/ /\ Matching(f.id) = {} /\ free = {}              \* no slot: dropped
        /\ reasm_slots' = slots
        /\ UNCHANGED <<returning, delivered>>
     \/ /\ Matching(f.id) # {} \/ free # {}
        /\ IF f.offset * Block + f.size > MaxSize
           THEN /\ reasm_slots' = [slots EXCEPT ![i] = Inactive]
                /\ UNCHANGED <<returning, delivered>>
           ELSE /\ reasm_slots' = [slots EXCEPT ![i] = full]
                /\ IF Complete(full)
                   THEN /\ delivered' = delivered \cup {Payload(full)}
                        /\ returning' = <<i>> \o returning
                   ELSE UNCHANGED <<returning, delivered>>

\* A packet arrives; it stays in the network, so it may arrive again, or never.
net_ipv4_receive ==
  \E f \in wire :
    /\ Len(returning) < Depth /\ received < Receipts
    /\ received' = received + 1
    /\ IF ~f.more /\ f.offset = 0
       THEN /\ delivered' = delivered \cup
                 {[id |-> f.id, size |-> f.size, age |-> 0, owners |-> {f.id}]}
            /\ UNCHANGED <<reasm_slots, returning>>
       ELSE ipv4_handle_fragment(f)
    /\ UNCHANGED <<sent, wire, ticks>>

\* The innermost dispatch returns and releases its slot, whoever has it now.
ipv4_dispatch_return ==
  /\ returning # <<>>
  /\ reasm_slots' = [reasm_slots EXCEPT ![Head(returning)] = Inactive]
  /\ returning' = Tail(returning)
  /\ UNCHANGED <<sent, wire, ticks, received, delivered>>

ip_tick ==
  /\ ticks < LastIpTick
  /\ ticks' = ticks + 1
  /\ UNCHANGED <<sent, wire, reasm_slots, returning, received, delivered>>

IpNext == net_ipv4_send_from \/ net_ipv4_receive \/ ipv4_dispatch_return \/ ip_tick

-----------------------------------------------------------------------------
\* Every payload handed up by ipv4_dispatch_payload is one datagram as it was
\* sent: its size, every byte, and no byte of another, whatever was lost,
\* repeated, reordered or received during a dispatch.  (Identifications are
\* not reused within a behaviour.)
ReassemblyIntact ==
  \A p \in delivered : p.size = Sizes[p.id] /\ p.owners = {p.id}

\* No datagram is completed from a slot older than IPV4_REASM_TIMEOUT_TICKS:
\* the age is looked at before the match.
ReassemblyInTime == \A p \in delivered : p.age < Timeout

\* One datagram is never spread over two slots, so a fragment that is repeated
\* while its datagram is being dispatched cannot start a second reassembly of
\* what is already complete in another.
OneSlotPerDatagram ==
  \A i, j \in ReasmSlots :
    reasm_slots[i].active /\ reasm_slots[j].active /\ reasm_slots[i].id = reasm_slots[j].id => i = j
=============================================================================
