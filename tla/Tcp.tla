-------------------------------- MODULE Tcp --------------------------------
(* The TCP connection table of net/tcp.c, on two hosts that both run it, over *)
(* a network that loses, duplicates and reorders segments.                   *)
(*                                                                          *)
(* Everything under tcp_lock is one step; a blocking call is a step that     *)
(* starts it, then the steps its waiting loop takes whenever the lock is     *)
(* free, interleaved with net_tcp_receive and net_tcp_poll, which every      *)
(* thread's net_poll runs.  Time is abstract: a timer may expire at any step. *)
(* RTT estimation only sets how soon, and is left out.  The congestion window *)
(* is 0, in a child before its first acknowledgement, or at least one MSS,   *)
(* when it never makes a chunk smaller: cwnd says which.  The k-th byte a    *)
(* host sends on the connection of client port p is <<p, k>>.                *)
EXTENDS Naturals, Sequences, SequencesExt, FiniteSets, FiniteSetsExt

CONSTANTS Client, Server,    \* the two hosts
          SlotCount,         \* NET_TCP_SOCKET_MAX
          Mss,               \* NET_TCP_DEFAULT_MSS
          Capacity,          \* TCP_RX_BUFFER_CAPACITY
          MaxRetries,        \* TCP_MAX_RETRIES
          SeqSpace,            \* 2^32
          Clocks,            \* initial sequence numbers the hosts' clocks may give
          ClientBytes, ServerBytes,  \* bytes the applications send
          PortMod,           \* 2^16
          EphemeralStart,    \* TCP_EPHEMERAL_PORT_START
          Faults,            \* segments lost or delivered twice, and waits timed out
          Flight             \* segments it holds at once; more are lost

ASSUME TcpAssumption ==
  /\ Client # Server
  /\ {SlotCount, Mss, Capacity, SeqSpace, Flight, PortMod} \subseteq Nat \ {0}
  /\ {MaxRetries, Faults, ClientBytes, ServerBytes} \subseteq Nat
  /\ EphemeralStart \in 2 .. PortMod - 1
  /\ Clocks \subseteq [{Client, Server} -> Seq(0 .. SeqSpace - 1)]

VARIABLES tcp_sockets,    \* the table of each host
          next_tcp_port,  \* of the client
          isns,           \* initial sequence numbers each host will give
          net,            \* segments in flight
          faults,        \* losses, repetitions and timeouts still to come
          app,            \* the thread of each host and the call it is in
          own,            \* socket ids the host's thread holds
          taken, read,    \* last byte of a connection a host has buffered, and read
          reported,       \* bytes of it tcp_send has said it sent
          wrapped,        \* its sequence numbers have gone through 0
          eof             \* tcp_receive has returned 0 on it after a FIN

vars == <<tcp_sockets, next_tcp_port, isns, net, faults, app, own,
          taken, read, reported, wrapped, eof>>
ghosts == <<taken, read, reported, wrapped, eof>>

Hosts == {Client, Server}
Peer(h) == IF h = Client THEN Server ELSE Client
Slots == 1 .. SlotCount
NoSlot == 0
ListenPort == 1
Conns == 0 .. PortMod - 1
Bytes(h) == IF h = Client THEN ClientBytes ELSE ServerBytes

\* A segment; remote_ip and local_ip are the two hosts.
Segment(h, s, seq, flags, data) ==
  [from |-> h, sport |-> s.local_port, dport |-> s.remote_port, seq |-> seq,
   ack |-> s.rcv_nxt, flags |-> flags, wnd |-> Capacity - Len(s.rx), data |-> data]

\* (struct tcp_socket){0}; also what a slot counts as once it is not in use,
\* since a slot is assigned whole when it is taken.
Zero ==
  [in_use |-> FALSE, is_listening |-> FALSE, state |-> "CLOSED",
   local_port |-> 0, remote_port |-> 0, parent |-> NoSlot, backlog |-> 0,
   accepted |-> <<>>, snd_una |-> 0, snd_nxt |-> 0, rcv_nxt |-> 0,
   snd_wnd |-> 0, cwnd |-> FALSE, pending |-> <<>>, retry |-> 0,
   rx |-> <<>>, fin |-> FALSE, sent |-> 0, got |-> 0]

Idle == [op |-> "idle", slot |-> NoSlot, seq |-> 0, chunk |-> 0, left |-> 0]

Init ==
  /\ tcp_sockets = [h \in Hosts |-> [i \in Slots |-> Zero]]
  /\ next_tcp_port = EphemeralStart
  /\ isns \in Clocks
  /\ net = {} /\ faults = Faults
  /\ app = [h \in Hosts |-> Idle]
  /\ own = [h \in Hosts |-> {}]
  /\ taken = [h \in Hosts |-> [p \in Conns |-> 0]]
  /\ read = taken /\ reported = taken
  /\ wrapped = [h \in Hosts |-> {}]
  /\ eof = [h \in Hosts |-> [p \in Conns |-> FALSE]]

\* The client port that names the connection of a socket of host h.
ConnOf(h, s) == IF h = Client THEN s.local_port ELSE s.remote_port

FreeSlots(h) == {i \in Slots : ~tcp_sockets[h][i].in_use}
FirstFree(h) == Min(FreeSlots(h))

\* net_ipv4_send_from: the segment is lost when the network is full.
Carried(segs) == IF Cardinality(segs) <= Flight THEN segs ELSE segs \cap net
Transmit(segs) == net' = Carried(net \cup segs)
Fault == faults > 0 /\ faults' = faults - 1

\* A waiting loop ends on its condition, or because its time is up.
TimedOut(ends) == (ends /\ UNCHANGED faults) \/ Fault

\* A local call changes one slot of its host.
SetSlot(h, i, s) == tcp_sockets' = [tcp_sockets EXCEPT ![h][i] = s]
Return(h) == app' = [app EXCEPT ![h] = Idle]

-----------------------------------------------------------------------------
\* The first port from next_tcp_port on that no socket in use has.  The 16-bit
\* counter never exceeds TCP_EPHEMERAL_PORT_END, so it goes on from 0; a free
\* port 0 is returned like any other.
PortFree(p) == \A i \in Slots : ~(tcp_sockets[Client][i].in_use
                                  /\ tcp_sockets[Client][i].local_port = p)
allocate_tcp_port_locked ==
  (next_tcp_port + Min({k \in 0 .. PortMod - 1 :
                          PortFree((next_tcp_port + k) % PortMod)})) % PortMod

NewConnection(p, isn) ==
  LET s == [Zero EXCEPT !.in_use = TRUE, !.state = "SYN_SENT",
              !.local_port = p, !.remote_port = ListenPort,
              !.snd_nxt = (isn + 1) % SeqSpace, !.snd_una = isn,
              !.snd_wnd = Capacity, !.cwnd = TRUE]
  IN [s EXCEPT !.pending = <<Segment(Client, s, isn, {"SYN"}, <<>>)>>]

\* tcp_connect up to its first unlock, and the SYN it then sends; with port 0
\* it gives up.
tcp_connect ==
  LET i == FirstFree(Client)
      p == allocate_tcp_port_locked
  IN /\ app[Client].op = "idle"
     /\ FreeSlots(Client) # {}
     /\ next_tcp_port' = (p + 1) % PortMod
     /\ \/ /\ p = 0
           /\ UNCHANGED <<tcp_sockets, net, app, isns>>
        \/ /\ p # 0 /\ isns[Client] # <<>>
           /\ LET s == NewConnection(p, Head(isns[Client])) IN
              /\ SetSlot(Client, i, s)
              /\ Transmit({s.pending[1]})
           /\ isns' = [isns EXCEPT ![Client] = Tail(@)]
           /\ app' = [app EXCEPT ![Client] = [Idle EXCEPT !.op = "connect", !.slot = i]]
     /\ UNCHANGED <<faults, own, ghosts>>

\* Its waiting loop sees ESTABLISHED and returns the id.
tcp_connect_done ==
  LET i == app[Client].slot IN
  /\ app[Client].op = "connect"
  /\ tcp_sockets[Client][i].state = "ESTABLISHED"
  /\ own' = [own EXCEPT ![Client] = @ \cup {i}]
  /\ Return(Client)
  /\ UNCHANGED <<tcp_sockets, next_tcp_port, faults, isns, net, ghosts>>

\* The loop sees CLOSED, or runs out of time (even if another thread's poll
\* establishes the connection meanwhile), and gives the slot back.
tcp_connect_failed ==
  LET i == app[Client].slot IN
  /\ app[Client].op = "connect"
  /\ TimedOut(tcp_sockets[Client][i].state = "CLOSED")
  /\ SetSlot(Client, i, Zero)
  /\ Return(Client)
  /\ UNCHANGED <<next_tcp_port, isns, net, own, ghosts>>

\* The size of the next chunk: at most the MSS, and at most the window unless
\* that is closed.
ChunkSize(s, left) ==
  LET eff == IF s.cwnd THEN s.snd_wnd ELSE 0
      c == Min({left, Mss})
  IN IF eff < c /\ eff > 0 THEN eff ELSE c

\* tcp_send begins, or goes round its loop: one chunk is queued and sent.
tcp_send_chunk(h, i, left) ==
  LET s == tcp_sockets[h][i]
      c == ChunkSize(s, left)
      data == [k \in 1 .. c |-> <<ConnOf(h, s), s.sent + k>>]
      m == Segment(h, s, s.snd_nxt, {"ACK"}, data)
  IN /\ s.in_use /\ s.state \in {"ESTABLISHED", "CLOSE_WAIT"}
     /\ SetSlot(h, i, [s EXCEPT !.pending = <<m>>, !.retry = 0, !.sent = @ + c,
                                !.snd_nxt = (@ + c) % SeqSpace])
     /\ Transmit({m})
     /\ app' = [app EXCEPT ![h] = [op |-> "send", slot |-> i, seq |-> s.snd_nxt,
                                   chunk |-> c, left |-> left - c]]
     /\ wrapped' = [wrapped EXCEPT ![h] =
          IF s.snd_nxt + c >= SeqSpace THEN @ \cup {ConnOf(h, s)} ELSE @]
     /\ UNCHANGED <<next_tcp_port, faults, isns, own, taken, read, reported, eof>>

tcp_send(h) ==
  /\ app[h].op = "idle"
  /\ \E i \in own[h] : \E n \in 1 .. (Bytes(h) - tcp_sockets[h][i].sent) :
       tcp_send_chunk(h, i, n)

\* The loop sees the chunk acknowledged: snd_una >= seq + chunk, where the sum
\* is computed in 64 bits.
Acked(h) == tcp_sockets[h][app[h].slot].snd_una >= app[h].seq + app[h].chunk

tcp_send_acked(h) ==
  LET i == app[h].slot
      s == tcp_sockets[h][i]
  IN /\ app[h].op = "send" /\ Acked(h)
     /\ SetSlot(h, i, [s EXCEPT !.pending = <<>>])
     /\ reported' = [reported EXCEPT ![h][ConnOf(h, s)] = @ + app[h].chunk]
     /\ app' = [app EXCEPT ![h] = IF app[h].left = 0 THEN Idle
                                  ELSE [@ EXCEPT !.op = "more"]]
     /\ UNCHANGED <<next_tcp_port, faults, isns, net, own, taken, read, wrapped, eof>>

tcp_send_more(h) ==
  /\ app[h].op = "more"
  /\ \/ tcp_send_chunk(h, app[h].slot, app[h].left)
     \/ /\ ~(tcp_sockets[h][app[h].slot].state \in {"ESTABLISHED", "CLOSE_WAIT"})
        /\ Return(h)
        /\ UNCHANGED <<tcp_sockets, next_tcp_port, faults, isns, net, own, ghosts>>

\* The loop sees another state than ESTABLISHED, or runs out of time.
tcp_send_failed(h) ==
  LET i == app[h].slot IN
  /\ app[h].op = "send"
  /\ TimedOut(tcp_sockets[h][i].state # "ESTABLISHED" /\ ~Acked(h))
  /\ SetSlot(h, i, [tcp_sockets[h][i] EXCEPT !.pending = <<>>])
  /\ Return(h)
  /\ UNCHANGED <<next_tcp_port, isns, net, own, ghosts>>

\* Nothing more will come: no data connection, or the peer's FIN.
AtEnd(s) == ~(s.state \in {"ESTABLISHED", "CLOSE_WAIT"}) \/ s.fin

\* Mutant: a FIN ends the stream although bytes are still buffered.
tcp_receive_fin_first(h) ==
  /\ app[h].op = "idle"
  /\ \E i \in own[h] :
       LET s == tcp_sockets[h][i] IN
       /\ s.in_use /\ ~s.is_listening
       /\ IF AtEnd(s)
          THEN /\ eof' = [eof EXCEPT ![h][ConnOf(h, s)] = @ \/ s.fin]
               /\ UNCHANGED app
          ELSE /\ app' = [app EXCEPT ![h] = [Idle EXCEPT !.op = "receive", !.slot = i]]
               /\ UNCHANGED eof
  /\ UNCHANGED <<tcp_sockets, next_tcp_port, faults, isns, net, own, taken, read, reported, wrapped>>

\* tcp_receive: return 0 at once, or go on to read or to wait.
tcp_receive(h) ==
  /\ app[h].op = "idle"
  /\ \E i \in own[h] :
       LET s == tcp_sockets[h][i] IN
       /\ s.in_use /\ ~s.is_listening
       /\ IF s.rx = <<>> /\ AtEnd(s)
          THEN /\ eof' = [eof EXCEPT ![h][ConnOf(h, s)] = @ \/ s.fin]
               /\ UNCHANGED app
          ELSE /\ app' = [app EXCEPT ![h] = [Idle EXCEPT !.op = "receive", !.slot = i]]
               /\ UNCHANGED eof
  /\ UNCHANGED <<tcp_sockets, next_tcp_port, faults, isns, net, own, taken, read, reported, wrapped>>

\* Data, the end or the timeout ends the wait; n bytes of room are filled.
tcp_receive_read(h) ==
  LET i == app[h].slot
      s == tcp_sockets[h][i]
  IN /\ app[h].op = "receive"
     /\ s.in_use
     /\ TimedOut(s.rx # <<>> \/ AtEnd(s))
     /\ \E room \in {1, Capacity} :
          LET n == Min({room, Len(s.rx)}) IN
          /\ SetSlot(h, i, [s EXCEPT !.rx = SubSeq(@, n + 1, Len(@))])
          /\ read' = [read EXCEPT ![h][ConnOf(h, s)] =
                        Max({@} \cup {b[2] : b \in Range(SubSeq(s.rx, 1, n))})]
          /\ eof' = [eof EXCEPT ![h][ConnOf(h, s)] = @ \/ (n = 0 /\ s.fin)]
          /\ IF n > 0 /\ s.state \in {"ESTABLISHED", "CLOSE_WAIT"}
             THEN app' = [app EXCEPT ![h].op = "window"] ELSE Return(h)
     /\ UNCHANGED <<next_tcp_port, isns, net, own, taken, reported, wrapped>>

\* tcp_send_ack after the unlock, with what the socket holds by then.
tcp_receive_ack(h) ==
  LET s == tcp_sockets[h][app[h].slot] IN
  /\ app[h].op = "window"
  /\ Transmit({Segment(h, s, s.snd_nxt, {"ACK"}, <<>>)})
  /\ Return(h)
  /\ UNCHANGED <<tcp_sockets, next_tcp_port, faults, isns, own, ghosts>>

\* tcp_close: a listener goes at once, a connection sends its FIN first.
tcp_close(h) ==
  /\ app[h].op = "idle"
  /\ \E i \in own[h] :
       LET s == tcp_sockets[h][i]
           fin == Segment(h, s, s.snd_nxt, {"FIN", "ACK"}, <<>>)
       IN /\ own' = [own EXCEPT ![h] = @ \ {i}]
          /\ IF s.in_use /\ s.state \in {"ESTABLISHED", "CLOSE_WAIT"}
             THEN /\ SetSlot(h, i, [s EXCEPT
                       !.state = IF @ = "ESTABLISHED" THEN "FIN_WAIT_1" ELSE "LAST_ACK",
                       !.snd_nxt = (@ + 1) % SeqSpace])
                  /\ Transmit({fin})
                  /\ app' = [app EXCEPT ![h] = [Idle EXCEPT !.op = "close", !.slot = i]]
             ELSE /\ SetSlot(h, i, Zero)
                  /\ UNCHANGED <<net, app>>
  /\ UNCHANGED <<next_tcp_port, faults, isns, ghosts>>

\* The wait ends (CLOSED, FIN_WAIT_2 or the timeout) and the slot is released,
\* whoever has it now.
tcp_close_done(h) ==
  LET i == app[h].slot IN
  /\ app[h].op = "close"
  /\ TimedOut(tcp_sockets[h][i].state \in {"CLOSED", "FIN_WAIT_2"})
  /\ SetSlot(h, i, Zero)
  /\ Return(h)
  /\ UNCHANGED <<next_tcp_port, isns, net, own, ghosts>>

\* tcp_listen: the port is refused while any socket in use has it.
tcp_listen ==
  /\ app[Server].op = "idle"
  /\ \A i \in Slots : ~(tcp_sockets[Server][i].in_use
                        /\ tcp_sockets[Server][i].local_port = ListenPort)
  /\ FreeSlots(Server) # {}
  /\ LET i == FirstFree(Server) IN
     /\ SetSlot(Server, i, [Zero EXCEPT !.in_use = TRUE, !.is_listening = TRUE,
          !.state = "LISTEN", !.local_port = ListenPort, !.backlog = 1])
     /\ own' = [own EXCEPT ![Server] = @ \cup {i}]
  /\ UNCHANGED <<next_tcp_port, faults, isns, net, app, ghosts>>

\* The first queued child in use that has data, a FIN or has left ESTABLISHED.
Acceptable(q) ==
  {k \in DOMAIN q : LET c == tcp_sockets[Server][q[k]] IN
     c.in_use /\ (c.rx # <<>> \/ c.fin \/ c.state # "ESTABLISHED")}

tcp_accept ==
  /\ app[Server].op = "idle"
  /\ \E l \in own[Server] :
       LET ls == tcp_sockets[Server][l]
           k == Min(Acceptable(ls.accepted))
       IN /\ ls.in_use /\ ls.is_listening /\ ls.state = "LISTEN"
          /\ Acceptable(ls.accepted) # {}
          /\ SetSlot(Server, l, [ls EXCEPT !.accepted = RemoveAt(@, k)])
          /\ own' = [own EXCEPT ![Server] = @ \cup {ls.accepted[k]}]
  /\ UNCHANGED <<next_tcp_port, faults, isns, net, app, ghosts>>

-----------------------------------------------------------------------------
\* Receiving.  A handler returns the host's new table and the replies.
Result(t, out) == [table |-> t, out |-> out]

\* A SYN to a listener with room takes the first free slot as a child.
OnListen(h, l, m) ==
  LET t == tcp_sockets[h]
      isn == Head(isns[h])
      c == FirstFree(h)
      child == [Zero EXCEPT !.in_use = TRUE, !.parent = l, !.state = "SYN_RECEIVED",
                  !.local_port = m.dport, !.remote_port = m.sport,
                  !.rcv_nxt = (m.seq + 1) % SeqSpace, !.snd_nxt = (isn + 1) % SeqSpace,
                  !.snd_una = isn, !.snd_wnd = m.wnd]
  IN IF /\ "SYN" \in m.flags /\ m.flags \cap {"ACK", "RST"} = {}
        /\ FreeSlots(h) # {} /\ Len(t[l].accepted) < t[l].backlog
     THEN Result([t EXCEPT ![c] = child],
                 {Segment(h, child, isn, {"SYN", "ACK"}, <<>>)})
     ELSE Result(t, {})

\* A segment for no socket is answered by a reset.
OnUnknown(h, m) ==
  LET rst == [from |-> h, sport |-> m.dport, dport |-> m.sport, seq |-> m.ack,
              ack |-> (m.seq + 1) % SeqSpace, flags |-> {"RST", "ACK"},
              wnd |-> 0, data |-> <<>>]
  IN Result(tcp_sockets[h], IF "RST" \in m.flags THEN {} ELSE {rst})

OnSynSent(h, i, s, m) ==
  LET e == [s EXCEPT !.state = "ESTABLISHED", !.rcv_nxt = (m.seq + 1) % SeqSpace,
                     !.snd_una = m.ack, !.snd_wnd = m.wnd, !.pending = <<>>]
  IN IF {"SYN", "ACK"} \subseteq m.flags /\ m.ack = s.snd_nxt
     THEN Result([tcp_sockets[h] EXCEPT ![i] = e],
                 {Segment(h, e, e.snd_nxt, {"ACK"}, <<>>)})
     ELSE Result(tcp_sockets[h], {})

\* The child is established, and queued if its parent's queue has room.
OnSynReceived(h, i, s, m) ==
  LET t == tcp_sockets[h]
      p == s.parent
      e == [t EXCEPT ![i] = [s EXCEPT !.snd_una = m.ack, !.state = "ESTABLISHED"]]
  IN IF ~("ACK" \in m.flags /\ m.ack = s.snd_nxt) THEN Result(t, {})
     ELSE IF t[p].in_use /\ t[p].is_listening /\ Len(t[p].accepted) < t[p].backlog
          THEN Result([e EXCEPT ![p].accepted = Append(@, i)], {})
          ELSE Result(e, {})

\* An acknowledgement in the send window; the comparison does not wrap.
NewAck(s, m) == "ACK" \in m.flags /\ m.ack > s.snd_una /\ m.ack <= s.snd_nxt

AfterAck(s, m) ==
  LET a == IF NewAck(s, m)
           THEN [s EXCEPT !.snd_una = m.ack, !.pending = <<>>, !.cwnd = TRUE] ELSE s
  IN IF "ACK" \in m.flags THEN [a EXCEPT !.snd_wnd = m.wnd] ELSE a

\* Mutant: any segment that is not ahead of rcv_nxt is taken.
AfterDataAgain(s, m) ==
  LET n == Min({Len(m.data), Capacity - Len(s.rx)})
  IN IF m.data # <<>> /\ m.seq <= s.rcv_nxt
     THEN [s EXCEPT !.rx = @ \o SubSeq(m.data, 1, n), !.rcv_nxt = (@ + n) % SeqSpace,
                    !.got = @ + n]
     ELSE s

\* Only the next byte in order is taken, as far as the buffer has room.
AfterData(s, m) ==
  LET n == Min({Len(m.data), Capacity - Len(s.rx)})
  IN IF m.data # <<>> /\ m.seq = s.rcv_nxt
     THEN [s EXCEPT !.rx = @ \o SubSeq(m.data, 1, n), !.rcv_nxt = (@ + n) % SeqSpace,
                    !.got = @ + n]
     ELSE s

AfterFin(s, m, next) ==
  IF "FIN" \in m.flags
  THEN [s EXCEPT !.rcv_nxt = (@ + 1) % SeqSpace, !.fin = (next = "CLOSE_WAIT"),
                 !.state = next]
  ELSE s

OnEstablished(h, i, s, m) ==
  LET e == AfterFin(AfterData(AfterAck(s, m), m), m, "CLOSE_WAIT")
      need_ack == (m.data # <<>> /\ m.seq <= s.rcv_nxt) \/ "FIN" \in m.flags
  IN Result([tcp_sockets[h] EXCEPT ![i] = e],
            IF need_ack THEN {Segment(h, e, e.snd_nxt, {"ACK"}, <<>>)} ELSE {})

OnCloseWait(h, i, s, m) ==
  Result([tcp_sockets[h] EXCEPT ![i] = [AfterAck(s, m) EXCEPT !.cwnd = s.cwnd]], {})

\* The slot is free again as soon as the FIN is acknowledged.
OnLastAck(h, i, s, m) ==
  Result(IF "ACK" \in m.flags /\ m.ack >= s.snd_nxt
         THEN [tcp_sockets[h] EXCEPT ![i] = Zero]
         ELSE tcp_sockets[h], {})

\* FIN_WAIT_1 and FIN_WAIT_2: an acknowledged FIN, then the peer's FIN.
OnFinWait(h, i, s, m) ==
  LET a == IF s.state = "FIN_WAIT_1" /\ "ACK" \in m.flags /\ m.ack >= s.snd_nxt
           THEN [s EXCEPT !.state = "FIN_WAIT_2"] ELSE s
      e == AfterFin(a, m, IF s.state = "FIN_WAIT_1" THEN "CLOSED" ELSE "TIME_WAIT")
  IN Result([tcp_sockets[h] EXCEPT ![i] = [e EXCEPT !.fin = s.fin]],
            IF "FIN" \in m.flags THEN {Segment(h, e, e.snd_nxt, {"ACK"}, <<>>)} ELSE {})

OnConnection(h, i, m) ==
  LET s == tcp_sockets[h][i] IN
  CASE "RST" \in m.flags ->
         Result([tcp_sockets[h] EXCEPT ![i] = [s EXCEPT !.state = "CLOSED",
                                                        !.pending = <<>>]], {})
    [] "RST" \notin m.flags /\ s.state = "SYN_SENT" -> OnSynSent(h, i, s, m)
    [] "RST" \notin m.flags /\ s.state = "SYN_RECEIVED" -> OnSynReceived(h, i, s, m)
    [] "RST" \notin m.flags /\ s.state = "ESTABLISHED" -> OnEstablished(h, i, s, m)
    [] "RST" \notin m.flags /\ s.state = "CLOSE_WAIT" -> OnCloseWait(h, i, s, m)
    [] "RST" \notin m.flags /\ s.state = "LAST_ACK" -> OnLastAck(h, i, s, m)
    [] "RST" \notin m.flags /\ s.state \in {"FIN_WAIT_1", "FIN_WAIT_2"} ->
         OnFinWait(h, i, s, m)
    [] OTHER -> Result(tcp_sockets[h], {})

\* The first connection with the segment's ports, else a listener on its port.
Matches(h, m) ==
  {i \in Slots : LET s == tcp_sockets[h][i] IN
     s.in_use /\ ~s.is_listening /\ s.local_port = m.dport /\ s.remote_port = m.sport}
Listeners(h, m) ==
  {i \in Slots : LET s == tcp_sockets[h][i] IN
     s.in_use /\ s.is_listening /\ s.local_port = m.dport}

Dispatch(h, m) ==
  IF Matches(h, m) # {} THEN OnConnection(h, Min(Matches(h, m)), m)
  ELSE IF Listeners(h, m) # {} THEN OnListen(h, Min(Listeners(h, m)), m)
  ELSE OnUnknown(h, m)

\* The network delivers a segment, and may deliver it again.
NewChild(h, t) == \E i \in Slots : t[i].state = "SYN_RECEIVED" /\ ~tcp_sockets[h][i].in_use

net_tcp_receive(h) ==
  \E m \in net :
    LET r == Dispatch(h, m)
        buffered == UNION {Range(r.table[i].rx) : i \in Slots}
    IN /\ m.from = Peer(h)
       /\ isns[h] = <<>> => Matches(h, m) # {} \/ Listeners(h, m) = {}
       /\ tcp_sockets' = [tcp_sockets EXCEPT ![h] = r.table]
       /\ \/ net' = Carried((net \ {m}) \cup r.out) /\ UNCHANGED faults
          \/ net' = Carried(net \cup r.out) /\ Fault
       /\ isns' = [isns EXCEPT ![h] = IF NewChild(h, r.table) THEN Tail(@) ELSE @]
       /\ taken' = [taken EXCEPT ![h] = [p \in Conns |->
            Max({@[p]} \cup {b[2] : b \in {c \in buffered : c[1] = p}})]]
       /\ UNCHANGED <<next_tcp_port, app, own, read, reported, wrapped, eof>>

Lose == /\ \E m \in net : net' = net \ {m}
        /\ Fault
        /\ UNCHANGED <<tcp_sockets, next_tcp_port, isns, app, own, ghosts>>

\* net_tcp_poll at one slot: TIME_WAIT ends, or the pending segment is sent
\* again, or the connection is given up.  A timer that runs out although
\* segments are still under way counts as a fault.
net_tcp_poll(h) ==
  \E i \in Slots :
    LET s == tcp_sockets[h][i] IN
    /\ s.in_use
    /\ \/ /\ s.state = "TIME_WAIT"
          /\ SetSlot(h, i, Zero)
          /\ UNCHANGED <<net, faults>>
       \/ /\ s.state # "TIME_WAIT" /\ s.pending # <<>>
          /\ TimedOut(net = {})
          /\ IF s.retry < MaxRetries
             THEN /\ SetSlot(h, i, [s EXCEPT !.retry = @ + 1, !.cwnd = TRUE])
                  /\ Transmit({s.pending[1]})
             ELSE /\ SetSlot(h, i, [s EXCEPT !.state = "CLOSED", !.pending = <<>>])
                  /\ UNCHANGED net
    /\ UNCHANGED <<next_tcp_port, isns, app, own, ghosts>>

Next ==
  \/ tcp_connect \/ tcp_connect_done \/ tcp_connect_failed \/ tcp_listen \/ tcp_accept
  \/ Lose
  \/ \E h \in Hosts :
       \/ tcp_send(h) \/ tcp_send_acked(h) \/ tcp_send_more(h) \/ tcp_send_failed(h)
       \/ tcp_receive(h) \/ tcp_receive_read(h) \/ tcp_receive_ack(h)
       \/ tcp_close(h) \/ tcp_close_done(h) \/ net_tcp_receive(h) \/ net_tcp_poll(h)

Spec == Init /\ [][Next]_vars

-----------------------------------------------------------------------------
States == {"CLOSED", "LISTEN", "SYN_SENT", "SYN_RECEIVED", "ESTABLISHED", "CLOSE_WAIT",
           "LAST_ACK", "FIN_WAIT_1", "FIN_WAIT_2", "TIME_WAIT"}

\* The table stays a table: states are states, sequence numbers and buffers fit
\* their width, and the accept queue holds slots (struct tcp_socket).
TypeOK ==
  /\ \A h \in Hosts, i \in Slots :
       LET s == tcp_sockets[h][i] IN
       /\ s.state \in States /\ s.parent \in Slots \cup {NoSlot}
       /\ {s.snd_una, s.snd_nxt, s.rcv_nxt} \subseteq 0 .. SeqSpace - 1
       /\ Len(s.rx) <= Capacity /\ Len(s.accepted) <= s.backlog
       /\ s.retry <= MaxRetries
  /\ \A h \in Hosts : own[h] \subseteq Slots
  /\ net \subseteq [from : Hosts, sport : Nat, dport : Nat, seq : 0 .. SeqSpace - 1,
                    ack : 0 .. SeqSpace - 1, flags : SUBSET {"SYN", "ACK", "FIN", "RST"},
                    wnd : 0 .. Capacity, data : Seq(Conns \X Nat)]

\* Bytes arrive once and in order: what a socket has buffered continues what
\* was taken before it, without a gap, a repeat or a byte of another
\* connection, whatever the network loses, faults or reorders and however
\* often net_tcp_poll sends again (net_tcp_receive's seq == rcv_nxt test).
StreamIntegrity ==
  \A h \in Hosts, i \in Slots :
    LET s == tcp_sockets[h][i] IN
    s.in_use => \A k \in DOMAIN s.rx :
                  s.rx[k] = <<ConnOf(h, s), s.got - Len(s.rx) + k>>

\* Until the sequence numbers wrap, the bytes tcp_send says it sent are in the
\* peer's buffer or have been read from it.
SentMeansReceived ==
  \A h \in Hosts, p \in Conns :
    p \notin wrapped[h] => reported[h][p] <= taken[Peer(h)][p]

\* When tcp_receive returns 0 for a FIN, the application has read every byte
\* the peer's tcp_send said it sent: the end of the stream never overtakes data.
EofAfterData ==
  \A h \in Hosts, p \in Conns :
    eof[h][p] /\ p \notin wrapped[Peer(h)] => reported[Peer(h)][p] <= read[h][p]

\* A segment has at most one connection: no two sockets in use have the same
\* ports, although net_tcp_receive opens children and tcp_connect and
\* tcp_listen pick slots and ports while old connections still hold theirs.
OneConnection ==
  \A h \in Hosts : \A i, j \in Slots :
    LET s == tcp_sockets[h][i]
        t == tcp_sockets[h][j]
    IN i # j /\ s.in_use /\ t.in_use =>
         ~(s.local_port = t.local_port /\ s.remote_port = t.remote_port)
=============================================================================
