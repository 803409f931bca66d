------------------------------- MODULE Dhcp --------------------------------
(* The DHCP client of net/dhcp.c and the interface record of net/ipv4.c it    *)
(* configures, with two servers and a network that loses, repeats, delays     *)
(* and reorders.  Several threads may call net_dhcp_acquire; the UDP port 68   *)
(* admits one at a time.  The transaction id is taken from the clock; the     *)
(* interface's gateway, name server and lease follow its mask.               *)
EXTENDS Naturals

CONSTANTS Callers, Servers,
          Leases,     \* non-zero addresses the servers hand out
          DhcpCalls   \* calls of net_dhcp_acquire

VARIABLES interface,     \* address, mask, source, dhcp_state
          client,        \* the call each thread is in
          port68,        \* who has bound port 68
          ether,         \* packets sent by either side
          clock,         \* timer_ticks(): the next transaction id
          granted        \* acknowledgements servers have sent

Nobody == "nobody"
ASSUME DhcpAssumption == Nobody \notin Callers

dhcpVars == <<interface, client, port68, ether, clock, granted>>

NoOffer == [type |-> "none", ip |-> 0, server |-> Nobody, mask |-> 0]
NotCalled == [pc |-> "idle", xid |-> 0, offer |-> NoOffer]
Negotiating == {"DISCOVERING", "REQUESTING"}

\* net_ipv4_initialize_interface.
DhcpInit ==
  /\ interface = [address |-> 0, mask |-> 24, source |-> "STATIC", dhcp_state |-> "IDLE", by |-> Nobody]
  /\ client = [t \in Callers |-> NotCalled]
  /\ port68 = Nobody /\ ether = {} /\ clock = 1 /\ granted = {}

\* net_ipv4_set_dhcp_state.
SetState(s) == interface' = [interface EXCEPT !.dhcp_state = s]
Packet(type, xid, ip, server, mask) ==
  [type |-> type, xid |-> xid, ip |-> ip, server |-> server, mask |-> mask]

\* A thread that cannot bind port 68 returns before it touches the interface.
net_dhcp_acquire(t) ==
  /\ client[t].pc = "idle" /\ clock <= DhcpCalls
  /\ clock' = clock + 1
  /\ \/ /\ port68 # Nobody
        /\ UNCHANGED <<interface, client, port68, ether>>
     \/ /\ port68 = Nobody
        /\ port68' = t
        /\ SetState("DISCOVERING")
        /\ ether' = ether \cup {Packet("DISCOVER", clock, 0, Nobody, 0)}
        /\ client' = [client EXCEPT ![t] = [NotCalled EXCEPT !.pc = "offer", !.xid = clock]]
  /\ UNCHANGED granted

\* Mutant: the failed call leaves the state as it was.
GiveUpSilently(t) ==
  /\ UNCHANGED interface
  /\ port68' = Nobody
  /\ client' = [client EXCEPT ![t] = NotCalled]

\* Timed out, refused, or a send failed.
GiveUp(t) ==
  /\ SetState("FAILED")
  /\ port68' = Nobody
  /\ client' = [client EXCEPT ![t] = NotCalled]

\* Mutant: a reply of any transaction is taken.
validate_any(t, p) == p.type \in {"OFFER", "ACK", "NAK"}

\* A reply that carries the transaction id.
validate_dhcp_packet(t, p) == p.type \in {"OFFER", "ACK", "NAK"} /\ p.xid = client[t].xid

\* parse_dhcp_options overwrites what the packet has and keeps the rest.
parse_dhcp_options(old, p) ==
  [type |-> p.type, ip |-> p.ip, server |-> p.server, mask |-> IF p.mask # 0 THEN p.mask ELSE old.mask]

\* A reply arrives while waiting for an offer; anything else is passed over, but
\* what it carried stays in the record.
await_offer(t) ==
  \E p \in ether :
    LET offer == parse_dhcp_options(client[t].offer, p) IN
    /\ client[t].pc = "offer" /\ validate_dhcp_packet(t, p)
    /\ IF offer.type = "OFFER" /\ offer.ip # 0
       THEN /\ client' = [client EXCEPT ![t].offer = offer, ![t].pc = "ack"]
            /\ SetState("REQUESTING")
            /\ ether' = ether \cup {Packet("REQUEST", client[t].xid, offer.ip, offer.server, 0)}
       ELSE /\ client' = [client EXCEPT ![t].offer = offer]
            /\ UNCHANGED <<interface, ether>>
    /\ UNCHANGED <<port68, clock, granted>>

\* net_ipv4_configure_dhcp with the acknowledgement's values, the offer's where
\* it has none, and a default mask.
configure(t, p) ==
  interface' = [address |-> IF p.ip # 0 THEN p.ip ELSE client[t].offer.ip,
                mask |-> IF p.mask # 0 THEN p.mask
                         ELSE IF client[t].offer.mask # 0 THEN client[t].offer.mask ELSE 24,
                source |-> "DHCP", dhcp_state |-> "BOUND", by |-> client[t].offer.server]

await_ack(t) ==
  \E p \in ether :
    /\ client[t].pc = "ack" /\ validate_dhcp_packet(t, p)
    /\ \/ /\ p.type = "ACK"
          /\ configure(t, p)
          /\ port68' = Nobody
          /\ client' = [client EXCEPT ![t] = NotCalled]
       \/ /\ p.type = "NAK"
          /\ GiveUp(t)
    /\ UNCHANGED <<ether, clock, granted>>

dhcp_timeout(t) ==
  /\ client[t].pc \in {"offer", "ack"}
  /\ GiveUp(t)
  /\ UNCHANGED <<ether, clock, granted>>

\* The servers: an offer of some address, or of none, and an answer to a request for it.
server_offer(s) ==
  \E p \in ether, ip \in Leases \cup {0}, mask \in {0, 16} :
    /\ p.type = "DISCOVER"
    /\ \A q \in ether : ~(q.type = "OFFER" /\ q.xid = p.xid /\ q.server = s)
    /\ ether' = ether \cup {Packet("OFFER", p.xid, ip, s, mask)}
    /\ UNCHANGED <<interface, client, port68, clock, granted>>

\* A server has one answer to a request; the acknowledgement may leave the
\* address field empty.
server_answer(s) ==
  \E p \in ether :
    /\ p.type = "REQUEST" /\ p.server = s
    /\ \A q \in ether : ~(q.type \in {"ACK", "NAK"} /\ q.xid = p.xid)
    /\ \/ \E ip \in {0, p.ip} :
            /\ ether' = ether \cup {Packet("ACK", p.xid, ip, s, 0)}
            /\ granted' = granted \cup {[server |-> s, ip |-> p.ip, xid |-> p.xid]}
       \/ /\ ether' = ether \cup {Packet("NAK", p.xid, 0, s, 0)}
          /\ UNCHANGED granted
    /\ UNCHANGED <<interface, client, port68, clock>>

DhcpNext ==
  \/ \E t \in Callers : net_dhcp_acquire(t) \/ await_offer(t) \/ await_ack(t) \/ dhcp_timeout(t)
  \/ \E s \in Servers : server_offer(s) \/ server_answer(s)

DhcpSpec == DhcpInit /\ [][DhcpNext]_dhcpVars

-----------------------------------------------------------------------------
\* An address configured from DHCP is one that the server chosen in the request
\* has acknowledged to this host: no late or stray reply of another transaction
\* configures the interface.
AddressWasGranted ==
  interface.source = "DHCP" =>
    \E g \in granted : g.ip = interface.address /\ g.server = interface.by

\* net_ipv4_receive lets UDP for any address in while a negotiation is on: that
\* window is open exactly while a call holds port 68, and closes on every way out.
NegotiationCloses == interface.dhcp_state \in Negotiating <=> port68 # Nobody

\* Together: what the interface says of its address and of its negotiation.
LeaseGranted == AddressWasGranted /\ NegotiationCloses
=============================================================================
