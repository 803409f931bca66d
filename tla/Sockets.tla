------------------------------ MODULE Sockets ------------------------------
(* The socket layer: the UDP table of net/socket.c and the socket pool of     *)
(* net/socket_subsystem.c above it, with reference-counted sockets used by    *)
(* several threads.  The TCP table below it is reduced to what tcp_listen,    *)
(* tcp_accept, tcp_connect and tcp_close promise about ids.                  *)
(*                                                                          *)
(* A thread uses a socket while it holds a reference.  Each section under     *)
(* pool_lock, sock->lock or network_lock is a step.  A datagram is its size   *)
(* and the order it was queued in; socket options, raw sockets (which no call     *)
(* does anything with) and error codes are left out.                        *)
EXTENDS Naturals, Sequences, FiniteSets, FiniteSetsExt, SequencesExt

CONSTANTS Threads,
          PoolSize,        \* KOS_MAX_SOCKETS
          UdpSize,         \* NET_SOCKET_MAX
          TcpSize,         \* NET_TCP_SOCKET_MAX
          QueueDepth,      \* NET_UDP_QUEUE_DEPTH
          PortSpace,       \* 2^16
          FirstEphemeral,  \* NET_EPHEMERAL_PORT_START
          Datagrams,       \* datagrams sent or received
          Calls            \* socket calls made

VARIABLES pool,        \* socket_pool
          udp,         \* sockets[]
          tcp,         \* local port of each id of the TCP table, 0 when free
          next_ephemeral_port,
          call,        \* the call each thread is in
          refs,        \* references each thread holds
          numbered,    \* datagrams so far
          calls,       \* calls so far
          got          \* the last datagram received from each UDP slot

sockVars == <<pool, udp, tcp, next_ephemeral_port, call, refs, numbered, calls, got>>

Pool == 1 .. PoolSize
Udp == 1 .. UdpSize
Tcp == 1 .. TcpSize
None == 0
Ports == 0 .. PortSpace - 1
AnyAddress == 0
Loopback == 1
HostAddress == 2
Addresses == {AnyAddress, Loopback, HostAddress}
Outgoing == PortSpace       \* a port tcp_connect chose, which nobody listens on

Closed == [open |-> FALSE, bound |-> FALSE, address |-> 0, port |-> 0, queue |-> <<>>]
Unused == [in_use |-> FALSE, type |-> "none", state |-> "CLOSED", handle |-> None,
           local |-> 0, refcount |-> 0]
Idle == [op |-> "idle", sock |-> None, id |-> None]

SocketInit ==
  /\ pool = [s \in Pool |-> Unused]
  /\ udp = [u \in Udp |-> Closed]
  /\ tcp = [i \in Tcp |-> 0]
  /\ next_ephemeral_port = FirstEphemeral
  /\ call = [t \in Threads |-> Idle]
  /\ refs = [t \in Threads |-> [s \in Pool |-> 0]]
  /\ numbered = 0
  /\ calls = 0
  /\ got = [u \in Udp |-> 0]

-----------------------------------------------------------------------------
\* net/socket.c

BoundTo(p) == {u \in Udp : udp[u].open /\ udp[u].bound /\ udp[u].port = p}

\* The first port from the counter on that no bound socket has; 0 among them.
allocate_ephemeral_port_locked ==
  (next_ephemeral_port + Min({k \in Ports : BoundTo((next_ephemeral_port + k) % PortSpace) = {}}))
    % PortSpace

Conflicting(a, p) ==
  {u \in BoundTo(p) : udp[u].address = AnyAddress \/ a = AnyAddress \/ udp[u].address = a}

\* net_udp_bind: the new table and whether it succeeded.
net_udp_bind(u, a, p) ==
  IF udp[u].open /\ ~udp[u].bound /\ p # 0 /\ Conflicting(a, p) = {}
  THEN [udp EXCEPT ![u].bound = TRUE, ![u].address = a, ![u].port = p]
  ELSE udp

\* The sockets that accept a datagram from the network for (a, p); the first
\* gets it.  One bound to the loopback address accepts any, as all do a
\* broadcast.
Receivers(a, p) == {u \in BoundTo(p) : udp[u].address \in {AnyAddress, Loopback, a}}

\* Mutant: the newest datagram becomes the head of the ring.
DeliverFirst(table, u, n, size) ==
  [table EXCEPT ![u].queue = <<[n |-> n, size |-> size]>> \o @]

Deliver(table, u, n, size) ==
  [table EXCEPT ![u].queue = Append(@, [n |-> n, size |-> size])]

\* net_udp_sendto: an unbound sender is bound to an ephemeral port first, and
\* stays so even if the datagram is then dropped.
net_udp_sendto(u, a, p, size) ==
  LET port == IF udp[u].bound THEN udp[u].port ELSE allocate_ephemeral_port_locked
      bound == [udp EXCEPT ![u].bound = TRUE, ![u].port = port]
      to == {v \in Udp : /\ bound[v].open /\ bound[v].bound /\ bound[v].port = p
                         /\ bound[v].address \in {AnyAddress, Loopback}}
  IN /\ numbered < Datagrams
     /\ next_ephemeral_port' = IF udp[u].bound THEN next_ephemeral_port
                               ELSE (port + 1) % PortSpace
     /\ \/ /\ port = 0
           /\ UNCHANGED <<udp, numbered>>
        \/ /\ port # 0
           /\ numbered' = numbered + 1
           /\ udp' = IF a = Loopback /\ to # {} /\ Len(bound[Min(to)].queue) < QueueDepth
                     THEN Deliver(bound, Min(to), numbered + 1, size) ELSE bound

\* A datagram from the network, possibly empty.
net_udp_receive ==
  \E a \in {HostAddress, Loopback}, p \in Ports, size \in 0 .. 1 :
    LET to == Receivers(a, p) IN
    /\ numbered < Datagrams
    /\ to # {} /\ Len(udp[Min(to)].queue) < QueueDepth
    /\ udp' = Deliver(udp, Min(to), numbered + 1, size)
    /\ numbered' = numbered + 1
    /\ UNCHANGED <<calls, pool, tcp, next_ephemeral_port, call, refs, got>>

\* net_udp_recvfrom takes the oldest datagram if it fits.
Fits(u, capacity) == udp[u].queue # <<>> /\ Head(udp[u].queue).size <= capacity
net_udp_recvfrom(u) ==
  /\ udp' = [udp EXCEPT ![u].queue = Tail(@)]
  /\ got' = [got EXCEPT ![u] = Head(udp[u].queue).n]

-----------------------------------------------------------------------------
\* net/socket_subsystem.c

FreeSockets == {s \in Pool : ~pool[s].in_use}
Calling(t) == call[t].op = "idle" /\ calls < Calls /\ calls' = calls + 1
Holds(t, s) == refs[t][s] > 0 /\ Calling(t)

allocate_socket_locked(t, type, state, handle, local) ==
  LET s == Min(FreeSockets) IN
  /\ pool' = [pool EXCEPT ![s] = [Unused EXCEPT !.in_use = TRUE, !.type = type,
                !.state = state, !.handle = handle, !.local = local, !.refcount = 1]]
  /\ refs' = [refs EXCEPT ![t][s] = @ + 1]

kos_socket(t) ==
  LET free == {u \in Udp : ~udp[u].open} IN
  /\ Calling(t) /\ FreeSockets # {}
  /\ \/ /\ allocate_socket_locked(t, "stream", "UNCONNECTED", None, 0)
        /\ UNCHANGED <<udp, got>>
     \/ /\ free # {}                         \* else net_udp_open fails
        /\ allocate_socket_locked(t, "dgram", "UNCONNECTED", Min(free), 0)
        /\ udp' = [udp EXCEPT ![Min(free)] = [Closed EXCEPT !.open = TRUE]]
        /\ got' = [got EXCEPT ![Min(free)] = 0]
  /\ UNCHANGED <<tcp, next_ephemeral_port, call, numbered>>

\* A stream only remembers the port, for kos_listen.
kos_bind(t) ==
  \E s \in Pool, a \in Addresses, p \in Ports :
    LET port == IF p = 0 THEN allocate_ephemeral_port_locked ELSE p IN
    /\ Holds(t, s)
    /\ pool' = [pool EXCEPT ![s].local = IF pool[s].type = "stream" THEN p ELSE 0]
    /\ IF pool[s].type = "dgram"
       THEN /\ udp' = net_udp_bind(pool[s].handle, a, port)
            /\ next_ephemeral_port' = IF p = 0 /\ ~udp[pool[s].handle].bound
                                      THEN (port + 1) % PortSpace ELSE next_ephemeral_port
       ELSE UNCHANGED <<udp, next_ephemeral_port>>
    /\ UNCHANGED <<tcp, call, refs, numbered, got>>

\* tcp_listen refuses a port that a listener or a connection has; the id takes
\* the place of an older one.
ListeningOn(p) == {i \in Tcp : tcp[i] = p}
kos_listen(t) ==
  \E s \in Pool, i \in Tcp :
    /\ Holds(t, s) /\ pool[s].type = "stream" /\ pool[s].local # 0
    /\ tcp[i] = 0 /\ ListeningOn(pool[s].local) = {}
    /\ tcp' = [tcp EXCEPT ![i] = pool[s].local]
    /\ pool' = [pool EXCEPT ![s].handle = i, ![s].state = "LISTENING"]
    /\ UNCHANGED <<udp, next_ephemeral_port, call, refs, numbered, got>>

\* tcp_accept took a child off the queue; the pool may be full.
kos_accept(t) ==
  \E s \in Pool, i \in Tcp :
    /\ Holds(t, s) /\ pool[s].type = "stream" /\ pool[s].state = "LISTENING"
    /\ tcp[i] = 0
    /\ tcp' = [tcp EXCEPT ![i] = tcp[pool[s].handle]]
    /\ call' = [call EXCEPT ![t] = [op |-> "accept", sock |-> s, id |-> i]]
    /\ UNCHANGED <<pool, udp, next_ephemeral_port, refs, numbered, got>>

kos_accept_done(t) ==
  /\ call[t].op = "accept"
  /\ call' = [call EXCEPT ![t] = Idle]
  /\ IF FreeSockets # {}
     THEN /\ allocate_socket_locked(t, "stream", "CONNECTED", call[t].id,
                                    pool[call[t].sock].local)
          /\ UNCHANGED tcp
     ELSE /\ tcp' = [tcp EXCEPT ![call[t].id] = 0]
          /\ UNCHANGED <<pool, refs>>
  /\ UNCHANGED <<calls, udp, next_ephemeral_port, numbered, got>>

\* kos_connect lets go of sock->lock around tcp_connect.
kos_connect(t) ==
  \E s \in Pool :
    /\ Holds(t, s)
    /\ pool' = [pool EXCEPT ![s].state = IF pool[s].type = "stream" THEN "CONNECTING"
                                         ELSE "CONNECTED"]
    /\ call' = [call EXCEPT ![t] = IF pool[s].type = "stream"
                 THEN [Idle EXCEPT !.op = "connect", !.sock = s] ELSE @]
    /\ UNCHANGED <<udp, tcp, next_ephemeral_port, refs, numbered, got>>

kos_connect_done(t) ==
  LET s == call[t].sock IN
  /\ call[t].op = "connect"
  /\ \/ \E i \in Tcp : /\ tcp[i] = 0
                       /\ tcp' = [tcp EXCEPT ![i] = Outgoing]
                       /\ pool' = [pool EXCEPT ![s].handle = i, ![s].state = "CONNECTED"]
     \/ /\ pool' = [pool EXCEPT ![s].state = "UNCONNECTED"]
        /\ UNCHANGED tcp
  /\ call' = [call EXCEPT ![t] = Idle]
  /\ UNCHANGED <<calls, udp, next_ephemeral_port, refs, numbered, got>>

\* kos_send (to the port of kos_connect) and kos_sendto on a datagram socket; a
\* stream goes to tcp_send.
kos_sendto(t) ==
  \E s \in Pool, a \in {Loopback, HostAddress}, p \in Ports :
    /\ Holds(t, s) /\ pool[s].type = "dgram"
    /\ net_udp_sendto(pool[s].handle, a, p, 1)
    /\ UNCHANGED <<pool, tcp, call, refs, got>>

\* kos_recv and kos_recvfrom: at once, or after waiting in the UDP socket's
\* queue for a slice at a time (net_udp_recvfrom_timeout).
kos_recvfrom(t) ==
  \E s \in Pool :
    /\ Holds(t, s) /\ pool[s].type = "dgram"
    /\ \/ /\ Fits(pool[s].handle, 1)
          /\ net_udp_recvfrom(pool[s].handle)
          /\ UNCHANGED call
       \/ /\ ~Fits(pool[s].handle, 1)
          /\ call' = [call EXCEPT ![t] = [op |-> "recv", sock |-> s, id |-> pool[s].handle]]
          /\ UNCHANGED <<udp, got>>
    /\ UNCHANGED <<pool, tcp, next_ephemeral_port, refs, numbered>>

kos_recvfrom_done(t) ==
  /\ call[t].op = "recv"
  /\ \/ Fits(call[t].id, 1) /\ net_udp_recvfrom(call[t].id)
     \/ UNCHANGED <<udp, got>>           \* timed out
  /\ call' = [call EXCEPT ![t] = Idle]
  /\ UNCHANGED <<calls, pool, tcp, next_ephemeral_port, refs, numbered>>

\* kos_poll asks for a datagram with a capacity of 0, so it takes an empty one.
kos_poll(t) ==
  \E s \in Pool :
    /\ Holds(t, s) /\ pool[s].type = "dgram" /\ Fits(pool[s].handle, 0)
    /\ net_udp_recvfrom(pool[s].handle)
    /\ UNCHANGED <<pool, tcp, next_ephemeral_port, call, refs, numbered>>

kos_shutdown(t) ==
  \E s \in Pool :
    /\ Holds(t, s)
    /\ pool' = [pool EXCEPT ![s].state = "DISCONNECTING"]
    /\ UNCHANGED <<udp, tcp, next_ephemeral_port, call, refs, numbered, got>>

\* A thread hands the socket to another, with a reference of its own.
socket_ref(t) ==
  \E s \in Pool, o \in Threads \ {t} :
    /\ Holds(t, s) /\ refs[o][s] = 0
    /\ pool' = [pool EXCEPT ![s].refcount = @ + 1]
    /\ refs' = [refs EXCEPT ![o][s] = @ + 1]
    /\ UNCHANGED <<udp, tcp, next_ephemeral_port, call, numbered, got>>

\* socket_destroy closes the transport, then clears the id and frees the pool entry.
CloseTransport(s) ==
  /\ tcp' = IF pool[s].type = "stream" /\ pool[s].handle # None
            THEN [tcp EXCEPT ![pool[s].handle] = 0] ELSE tcp
  /\ udp' = IF pool[s].type = "dgram"
            THEN [udp EXCEPT ![pool[s].handle] = Closed] ELSE udp

\* Mutant: the pool entry is free while the transport is still open.
kos_close_pool_first(t) ==
  \E s \in Pool :
    /\ Holds(t, s)
    /\ refs' = [refs EXCEPT ![t][s] = @ - 1]
    /\ pool' = [pool EXCEPT ![s] = IF @.refcount = 1 THEN Unused
                                   ELSE [@ EXCEPT !.refcount = @ - 1]]
    /\ UNCHANGED <<udp, tcp, call, next_ephemeral_port, numbered, got>>

\* kos_close drops a reference; the last one destroys the socket.
kos_close(t) ==
  \E s \in Pool :
    /\ Holds(t, s)
    /\ refs' = [refs EXCEPT ![t][s] = @ - 1]
    /\ IF pool[s].refcount = 1
       THEN /\ CloseTransport(s)
            /\ pool' = [pool EXCEPT ![s].refcount = 0]
            /\ call' = [call EXCEPT ![t] = [Idle EXCEPT !.op = "destroy", !.sock = s]]
       ELSE /\ pool' = [pool EXCEPT ![s].refcount = @ - 1]
            /\ UNCHANGED <<udp, tcp, call>>
    /\ UNCHANGED <<next_ephemeral_port, numbered, got>>

socket_destroy_done(t) ==
  /\ call[t].op = "destroy"
  /\ pool' = [pool EXCEPT ![call[t].sock] = Unused]
  /\ call' = [call EXCEPT ![t] = Idle]
  /\ UNCHANGED <<calls, udp, tcp, next_ephemeral_port, refs, numbered, got>>

SocketNext ==
  \/ net_udp_receive
  \/ \E t \in Threads :
       \/ kos_socket(t) \/ kos_bind(t) \/ kos_listen(t) \/ kos_accept(t) \/ kos_accept_done(t)
       \/ kos_connect(t) \/ kos_connect_done(t) \/ kos_sendto(t) \/ kos_recvfrom(t)
       \/ kos_recvfrom_done(t) \/ kos_poll(t) \/ kos_shutdown(t) \/ socket_ref(t)
       \/ kos_close(t) \/ socket_destroy_done(t)

-----------------------------------------------------------------------------
Using(t, s) == refs[t][s] > 0

\* Tables keep their shape, and no UDP queue exceeds NET_UDP_QUEUE_DEPTH.
SocketTypeOK ==
  /\ \A s \in Pool : pool[s].type \in {"none", "stream", "dgram"} /\ pool[s].local \in Ports
  /\ \A u \in Udp : udp[u].address \in Addresses /\ udp[u].port \in Ports
                    /\ Len(udp[u].queue) <= QueueDepth
  /\ tcp \in [Tcp -> 0 .. PortSpace]

\* While any thread holds a reference the pool entry is in use and, for a
\* datagram socket, its UDP slot is open: kos_close of one holder never pulls
\* the transport from under another (socket_ref and socket_unref).
ReferenceKeepsSocket ==
  \A t \in Threads, s \in Pool :
    Using(t, s) => /\ pool[s].in_use
                   /\ pool[s].type = "dgram" => udp[pool[s].handle].open

\* A transport belongs to one socket: no two sockets of a type hold the same
\* id, and every open UDP slot is some socket's (kos_socket, kos_accept,
\* kos_connect, socket_destroy).
TransportsOwned ==
  /\ \A s, r \in Pool :
       s # r /\ pool[s].refcount > 0 /\ pool[r].refcount > 0 /\ pool[s].type = pool[r].type
         /\ pool[s].handle = pool[r].handle => pool[s].handle = None
  /\ \A u \in Udp : udp[u].open => \E s \in Pool : pool[s].refcount > 0 /\ pool[s].type = "dgram"
                                                   /\ pool[s].handle = u

\* Two UDP sockets bound to the same port have different addresses, neither of
\* them the wildcard, whether bound by kos_bind or by the first send.
BindExclusive ==
  \A u, v \in Udp :
    u # v /\ udp[u].open /\ udp[u].bound /\ udp[v].open /\ udp[v].bound
      /\ udp[u].port = udp[v].port =>
        /\ udp[u].address # udp[v].address
        /\ AnyAddress \notin {udp[u].address, udp[v].address}

\* Datagrams leave a socket in the order they entered it, with several threads
\* receiving and polling: what waits in the ring is newer than what was received,
\* and older in front of newer (net_udp_recvfrom).
ReceiveInOrder ==
  \A u \in Udp : udp[u].open =>
    \A i \in DOMAIN udp[u].queue :
      udp[u].queue[i].n > IF i = 1 THEN got[u] ELSE udp[u].queue[i - 1].n
=============================================================================
