-------------------------------- MODULE Arp --------------------------------
(* The ARP cache and resolver of net/arp.c.  A peer may change its hardware   *)
(* address; entries expire; the cache is smaller than the set of peers.       *)
(* Every section under arp_lock is a step.  timer_ticks() is `now`; packet    *)
(* layout and the counters are left out.                                     *)
EXTENDS Naturals, Scan

CONSTANTS Peers,      \* IPv4 addresses on the link
          Macs,
          CacheSize,  \* NET_ARP_CACHE_MAX
          Ttl,        \* ARP_ENTRY_TTL_TICKS
          Attempts,   \* requests net_arp_resolve sends
          LastTick    \* the clock stops here

ASSUME ArpAssumption == CacheSize \in Nat \ {0} /\ Ttl \in Nat \ {0}

VARIABLES arp_cache, now,
          resolve,    \* the call of net_arp_resolve in progress
          learned     \* per peer: what was learned last, and when

arpVars == <<arp_cache, now, resolve, learned>>

ArpSlots == 1 .. CacheSize
NoMac == "none"
Empty == [valid |-> FALSE, ip |-> NoMac, mac |-> NoMac, at |-> 0]
NotResolving == [op |-> "idle", ip |-> NoMac, attempt |-> 0, mac |-> NoMac]

ArpInit ==
  /\ arp_cache = [i \in ArpSlots |-> Empty]
  /\ now = 0
  /\ resolve = NotResolving
  /\ learned = [p \in Peers |-> [mac |-> NoMac, at |-> 0]]

\* expires_at_tick is learned_at_tick + ARP_ENTRY_TTL_TICKS.
Expired(e) == e.valid /\ now >= e.at + Ttl

\* Entries of the slots in s that have expired become free.
Prune(s) == [i \in ArpSlots |-> IF i \in s /\ Expired(arp_cache[i]) THEN Empty ELSE arp_cache[i]]

net_arp_cache_prune ==
  /\ arp_cache' = Prune(ArpSlots)
  /\ UNCHANGED <<now, resolve, learned>>

\* Counting the entries prunes like that; reading the n-th one prunes up to it.
net_arp_cache_at ==
  \E i \in ArpSlots :
    /\ arp_cache[i].valid /\ ~Expired(arp_cache[i])
    /\ arp_cache' = Prune(1 .. i)
    /\ UNCHANGED <<now, resolve, learned>>

\* Slots arp_lookup answers from: the first is taken.
Hits(ip) == {i \in ArpSlots : arp_cache[i].valid /\ ~Expired(arp_cache[i]) /\ arp_cache[i].ip = ip}

\* Entries scanned up to the answer are pruned on the way.
Scanned(found) == {i \in ArpSlots : \A hit \in found : i <= hit}

\* Mutant: the scan goes on to the last free slot.
SlotForLast(ip) ==
  LET ends == {i \in ArpSlots : ~arp_cache[i].valid \/ Expired(arp_cache[i]) \/ arp_cache[i].ip = ip}
      oldest == {i \in ArpSlots : \A j \in ArpSlots : arp_cache[i].at <= arp_cache[j].at}
  IN IF ends # {} THEN {i \in ends : \A j \in ends : i >= j} ELSE First(oldest)

\* The slot arp_remember uses: the scan ends at a free slot or at the peer's own
\* entry, whichever comes first; else the first of the oldest entries.
SlotFor(ip) ==
  LET ends == {i \in ArpSlots : ~arp_cache[i].valid \/ Expired(arp_cache[i]) \/ arp_cache[i].ip = ip}
      oldest == {i \in ArpSlots : \A j \in ArpSlots : arp_cache[i].at <= arp_cache[j].at}
  IN IF ends # {} THEN First(ends) ELSE First(oldest)

arp_remember(ip, mac) ==
  \E slot \in SlotFor(ip) :
    arp_cache' = [Prune(1 .. slot) EXCEPT ![slot] =
                   [valid |-> TRUE, ip |-> ip, mac |-> mac, at |-> now]]

\* A well-formed request or reply; a request for our address is answered, which
\* changes nothing here.
net_arp_receive ==
  \E ip \in Peers, mac \in Macs :
    /\ arp_remember(ip, mac)
    /\ learned' = [learned EXCEPT ![ip] = [mac |-> mac, at |-> now]]
    /\ UNCHANGED <<now, resolve>>

\* arp_lookup answers, or the first request goes out.  A request that cannot be
\* sent uses up its attempt at once.
net_arp_resolve ==
  \E ip \in Peers :
    /\ resolve.op # "wait"
    /\ arp_cache' = Prune(Scanned(Hits(ip)))
    /\ \/ \E hit \in First(Hits(ip)) :
            resolve' = [op |-> "done", ip |-> ip, attempt |-> 0, mac |-> arp_cache[hit].mac]
       \/ /\ Hits(ip) = {}
          /\ resolve' = [op |-> "wait", ip |-> ip, attempt |-> 1, mac |-> NoMac]
    /\ UNCHANGED <<now, learned>>

\* One turn of the wait: look again, or the attempt has timed out.
net_arp_resolve_wait ==
  LET ip == resolve.ip IN
  /\ resolve.op = "wait"
  /\ arp_cache' = Prune(Scanned(Hits(ip)))
  /\ \/ \E hit \in First(Hits(ip)) :
          resolve' = [resolve EXCEPT !.op = "done", !.mac = arp_cache[hit].mac]
     \/ /\ Hits(ip) = {}
        /\ resolve' = IF resolve.attempt < Attempts THEN [resolve EXCEPT !.attempt = @ + 1]
                      ELSE NotResolving
  /\ UNCHANGED <<now, learned>>

timer_tick ==
  /\ now < LastTick
  /\ now' = now + 1
  /\ UNCHANGED <<arp_cache, resolve, learned>>

ArpNext == \/ net_arp_cache_prune \/ net_arp_cache_at \/ net_arp_receive
           \/ net_arp_resolve \/ net_arp_resolve_wait \/ timer_tick

ArpSpec == ArpInit /\ [][ArpNext]_arpVars

-----------------------------------------------------------------------------
\* Although a refreshed peer can leave an older entry behind in a later slot
\* (arp_remember stops at a free slot first), arp_lookup always answers with the
\* hardware address learned last for the peer, and only within
\* ARP_ENTRY_TTL_TICKS of learning it.
ArpAnswersNewest ==
  \A ip \in Peers : \A hit \in First(Hits(ip)) :
    arp_cache[hit].mac = learned[ip].mac /\ now < learned[ip].at + Ttl
=============================================================================
