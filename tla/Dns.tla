-------------------------------- MODULE Dns --------------------------------
(* The resolver of net/dns.c: threads that resolve names at the same time,    *)
(* each with a UDP socket and a query id of its own, a server, a network      *)
(* that loses, repeats and delays, and the cache.  Ports are reused soon, as   *)
(* they are once the ephemeral range has been walked through.  Names are       *)
(* shorter than DNS_MAX_HOSTNAME: a longer one is stored cut off, so that it  *)
(* is never found again and a name equal to the cut is answered for it.       *)
EXTENDS Naturals, Scan

CONSTANTS Resolvers, Names,
          CacheMax,     \* NET_DNS_CACHE_MAX
          DnsPorts,     \* ephemeral ports
          Lookups       \* queries sent

VARIABLES dns_cache,        \* entries by slot
          next_query_id,
          lookup,           \* the call of net_dns_resolve each thread is in
          datagrams,        \* queries and answers in the network
          order,            \* insertions so far: the clock of the cache
          answer            \* what the last call of each thread returned

NoName == "none"
ASSUME DnsAssumption ==
  /\ CacheMax \in Nat \ {0} /\ NoName \notin Names
  /\ Lookups \in Nat /\ Lookups < 65536  \* query ids have 16 bits: no id comes round

dnsVars == <<dns_cache, next_query_id, lookup, datagrams, order, answer>>

CacheSlots == 1 .. CacheMax
Vacant == [name |-> NoName, address |-> NoName, at |-> 0]
NoLookup == [pc |-> "idle", name |-> NoName, id |-> 0, port |-> 0]

DnsInit ==
  /\ dns_cache = [i \in CacheSlots |-> Vacant]
  /\ next_query_id = 0 /\ datagrams = {} /\ order = 0
  /\ lookup = [r \in Resolvers |-> NoLookup]
  /\ answer = [r \in Resolvers |-> [name |-> NoName, address |-> NoName]]

\* dns_cache_lookup: a valid entry answers whatever its age.
Cached(name) == {i \in CacheSlots : dns_cache[i].name = name}

\* The slot dns_cache_insert uses: the name's own or the first free one, else
\* the oldest.
InsertionSlot(name) ==
  LET ends == {i \in CacheSlots : dns_cache[i].name \in {name, NoName}} IN
  IF ends # {} THEN First(ends)
  ELSE First({i \in CacheSlots : \A j \in CacheSlots : dns_cache[i].at <= dns_cache[j].at})

dns_cache_insert(name, address) ==
  /\ \E slot \in InsertionSlot(name) :
       dns_cache' = [dns_cache EXCEPT ![slot] = [name |-> name, address |-> address, at |-> order + 1]]
  /\ order' = order + 1

\* A cached name is answered at once; else a socket is opened on a free port and
\* the query goes out.
net_dns_resolve(r) ==
  \E name \in Names, port \in DnsPorts :
    /\ lookup[r].pc = "idle"
    /\ \/ /\ \E hit \in First(Cached(name)) :
               answer' = [answer EXCEPT ![r] = [name |-> name, address |-> dns_cache[hit].address]]
          /\ UNCHANGED <<next_query_id, lookup, datagrams>>
       \/ /\ Cached(name) = {} /\ next_query_id < Lookups
          /\ \A q \in Resolvers : lookup[q].pc = "wait" => lookup[q].port # port
          /\ next_query_id' = next_query_id + 1
          /\ lookup' = [lookup EXCEPT ![r] =
               [pc |-> "wait", name |-> name, id |-> next_query_id + 1, port |-> port]]
          /\ datagrams' = datagrams \cup
               {[type |-> "query", id |-> next_query_id + 1, port |-> port, name |-> name]}
          /\ UNCHANGED answer
    /\ UNCHANGED <<dns_cache, order>>

\* Mutant: any answer that reaches the socket is taken.
AnyAnswer(r, d) == d.type = "answer" /\ d.port = lookup[r].port

\* An answer for this socket's port that carries the query's id.
MyAnswer(r, d) == d.type = "answer" /\ d.port = lookup[r].port /\ d.id = lookup[r].id

\* The first address record is returned and cached.
dns_answered(r) ==
  \E d \in datagrams :
    /\ lookup[r].pc = "wait" /\ MyAnswer(r, d)
    /\ answer' = [answer EXCEPT ![r] = [name |-> lookup[r].name, address |-> d.name]]
    /\ dns_cache_insert(lookup[r].name, d.name)
    /\ lookup' = [lookup EXCEPT ![r] = NoLookup]
    /\ UNCHANGED <<next_query_id, datagrams>>

\* No answer, or only ones with an error code or no address record.
dns_timeout(r) ==
  /\ lookup[r].pc = "wait"
  /\ lookup' = [lookup EXCEPT ![r] = NoLookup]
  /\ UNCHANGED <<dns_cache, next_query_id, datagrams, order, answer>>

\* The server answers a query with the address of its name, written as the name.
dns_server ==
  \E d \in datagrams :
    /\ d.type = "query"
    /\ datagrams' = datagrams \cup {[d EXCEPT !.type = "answer"]}
    /\ UNCHANGED <<dns_cache, next_query_id, lookup, order, answer>>

DnsNext == \/ \E r \in Resolvers : net_dns_resolve(r) \/ dns_answered(r) \/ dns_timeout(r)
           \/ dns_server

DnsSpec == DnsInit /\ [][DnsNext]_dnsVars

-----------------------------------------------------------------------------
\* net_dns_resolve returns the address of the name it was asked for, from the
\* network or from the cache: an answer to an earlier query that arrives late at
\* a port that is in use again is not taken for the answer to this one.
DnsAnswersTheName ==
  /\ \A r \in Resolvers : answer[r].address = answer[r].name
  /\ \A i \in CacheSlots : dns_cache[i].address = dns_cache[i].name

\* A name has one cache entry, although two threads may resolve it at once and
\* each insert its own answer.
DnsCacheUnique ==
  \A i, j \in CacheSlots :
    dns_cache[i].name = dns_cache[j].name /\ dns_cache[i].name # NoName => i = j

\* Together: what a resolved name is worth.
NamesResolved == DnsAnswersTheName /\ DnsCacheUnique
=============================================================================
