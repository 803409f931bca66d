------------------------------ MODULE MCNetwork ------------------------------
(* The layers of the network, side by side: TCP between two hosts, the socket
   table, ARP, IPv4 reassembly, echo requests, DHCP, DNS, the network card,
   TLS, and the HTTP client and server.  A behaviour is that of one part, the
   others staying as they start. *)
EXTENDS Tcp, Arp, Icmp, Dhcp, Dns, E1000, TLC

CONSTANTS Threads, PoolSize, UdpSize, TcpSize, QueueDepth, PortSpace, FirstEphemeral,
          Datagrams, Calls,
          Sizes, Block, MaxFragment, MaxSize, ReasmMax, Timeout, LastIpTick, Depth,
          Receipts,
          Flights, Payloads, Chunk, RecvCapacity, TlsCalls,
          Urls, Links, Site, Room, MaxRedirects,
          Clients, ListenPorts, Segments, Nesting

VARIABLES part,
          pool, udp, tcp, next_ephemeral_port, call, refs, numbered, calls, got,
          sent, wire, reasm_slots, returning, ticks, received, delivered,
          session, down, up, server, opened, tlsCalls,
          http, sockets, sessions, reply,
          httpd, stack, conns, body, renders, out, shared, httpd_requests_count

S == INSTANCE Sockets
I == INSTANCE Ipv4 WITH SlotCount <- ReasmMax
T == INSTANCE Tls WITH Capacity <- RecvCapacity
C == INSTANCE Http
W == INSTANCE Httpd

sockVars == <<pool, udp, tcp, next_ephemeral_port, call, refs, numbered, calls, got>>
ipVars == <<sent, wire, reasm_slots, returning, ticks, received, delivered>>
tlsVars == <<session, down, up, server, opened, tlsCalls>>
httpVars == <<http, sockets, sessions, reply>>
httpdVars == <<httpd, stack, conns, body, renders, out, shared, httpd_requests_count>>
lowVars == <<arpVars, ipVars, nicVars, icmpVars>>
webVars == <<tlsVars, httpVars, httpdVars>>
nameVars == <<dhcpVars, dnsVars>>

-----------------------------------------------------------------------------
(* One connection, whose sequence numbers wrap at its second byte. *)
MCClocks == {Client :> <<13>> @@ Server :> <<6, 9>>}

(* Three fragments, too large, two fragments, and a datagram that needs none. *)
MCSizes == <<9, 11, 6, 3>>

(* Handshakes in one record or several, with a certificate chain that is
   trusted or is not. *)
Message(name) == [name |-> name]
Certificate(chain) == [name |-> "CERT", chain |-> chain]
MCFlights ==
  {<< <<Message("CCS")>>,
      <<Message("EE"), Certificate("good"), Message("CV"), Message("FIN")>> >>,
   << <<Message("EE")>>, <<Certificate("bad"), Message("CV")>>, <<Message("FIN")>> >>,
   << <<Message("EE"), Message("CertificateRequest"), Message("FIN")>> >>}

(* Pages of three hosts, one of them larger than the client's buffer: chunked,
   with a declared length (and a NUL), ended by the close; a relative redirect
   on another port, one to another host, one to itself whose body holds what
   looks like the last chunk.  URLs that do not parse, and one of https where
   no TLS is spoken. *)
Url(https, host, port, path) == [https |-> https, host |-> host, port |-> port, path |-> path]
Page(status, to, framing, chunks) ==
  [status |-> status, link |-> to, framing |-> framing, chunks |-> chunks]
Byte(n) == <<"byte", n>>
MCUrls == {Url(FALSE, "a", 80, "/"), Url(TRUE, "a", -1, "/"), Url(FALSE, "a", 8080, "/"),
           Url(FALSE, "b", -1, "/"), Url(FALSE, "c", -1, "/"),
           Url(FALSE, "d", -1, "/"), Url(TRUE, "b", 80, "/"),
           Url(FALSE, "", -1, "/"), Url(FALSE, "d", 0, "/")}
MCLinks == <<Url(FALSE, "", -1, "/x"), Url(FALSE, "a", 8080, "/"),
             Url(FALSE, "c", -1, "/")>>
MCSite ==
  <<"a", 80, "/">> :> Page(200, 0, "chunked", << <<Byte(1), Byte(2)>>, <<Byte(3)>> >>)
  @@ <<"a", 443, "/">> :> Page(200, 0, "length", << <<Byte(1), <<"nul", 0>>, Byte(2)>> >>)
  @@ <<"a", 8080, "/">> :> Page(302, 1, "length", <<>>)
  @@ <<"a", 80, "/x">> :> Page(200, 0, "close", << <<Byte(1), Byte(2)>> >>)
  @@ <<"b", 80, "/">> :> Page(301, 2, "chunked", <<>>)
  @@ <<"c", 80, "/">> :> Page(307, 3, "chunked", << <<Byte(1), <<"crlf", 0>>, <<"size", 0>>, <<"crlf", 0>> >> >>)
  @@ <<"d", 80, "/">> :> Page(200, 0, "close", << [i \in 1..11 |-> Byte(i)] >>)

-----------------------------------------------------------------------------
(* The value of the variables of a part that is not running; the parts this
   module extends stay in their initial state. *)
Off == "off"
NoTcp == /\ tcp_sockets = Off /\ next_tcp_port = Off /\ isns = Off /\ net = Off
         /\ faults = Off /\ app = Off /\ own = Off /\ taken = Off /\ read = Off
         /\ reported = Off /\ wrapped = Off /\ eof = Off
NoSockets == /\ pool = Off /\ udp = Off /\ tcp = Off /\ next_ephemeral_port = Off
             /\ call = Off /\ refs = Off /\ numbered = Off /\ calls = Off
             /\ got = Off
NoIpv4 == /\ sent = Off /\ wire = Off /\ reasm_slots = Off /\ returning = Off
          /\ ticks = Off /\ received = Off /\ delivered = Off
NoTls == /\ session = Off /\ down = Off /\ up = Off /\ server = Off
         /\ opened = Off /\ tlsCalls = Off
NoHttp == /\ http = Off /\ sockets = Off /\ sessions = Off /\ reply = Off
NoHttpd == /\ httpd = Off /\ stack = Off /\ conns = Off /\ body = Off /\ renders = Off
           /\ out = Off /\ shared = Off /\ httpd_requests_count = Off

NetworkInit ==
  /\ part \in {"tcp", "sockets", "arp", "ipv4", "dhcp", "dns", "e1000", "tls",
              "icmp", "http", "httpd"}
  /\ IF part = "tcp" THEN Init ELSE NoTcp
  /\ IF part = "sockets" THEN S!SocketInit ELSE NoSockets
  /\ ArpInit
  /\ IF part = "ipv4" THEN I!IpInit ELSE NoIpv4
  /\ DhcpInit
  /\ DnsInit
  /\ NicInit
  /\ IF part = "tls" THEN T!TlsInit ELSE NoTls
  /\ IcmpInit
  /\ IF part = "http" THEN C!HttpInit ELSE NoHttp
  /\ IF part = "httpd" THEN W!HttpdInit ELSE NoHttpd

NetworkNext ==
  \/ /\ part = "tcp" /\ Next
     /\ UNCHANGED <<part, sockVars, lowVars, nameVars, webVars>>
  \/ /\ part = "sockets" /\ S!SocketNext
     /\ UNCHANGED <<part, vars, lowVars, nameVars, webVars>>
  \/ /\ part = "arp" /\ ArpNext
     /\ UNCHANGED <<part, vars, sockVars, ipVars, nicVars, icmpVars, nameVars, webVars>>
  \/ /\ part = "ipv4" /\ I!IpNext
     /\ UNCHANGED <<part, vars, sockVars, arpVars, nicVars, icmpVars, nameVars, webVars>>
  \/ /\ part = "dhcp" /\ DhcpNext
     /\ UNCHANGED <<part, vars, sockVars, lowVars, dnsVars, webVars>>
  \/ /\ part = "dns" /\ DnsNext
     /\ UNCHANGED <<part, vars, sockVars, lowVars, dhcpVars, webVars>>
  \/ /\ part = "e1000" /\ NicNext
     /\ UNCHANGED <<part, vars, sockVars, arpVars, ipVars, icmpVars, nameVars, webVars>>
  \/ /\ part = "tls" /\ T!TlsNext
     /\ UNCHANGED <<part, vars, sockVars, lowVars, nameVars, httpVars, httpdVars>>
  \/ /\ part = "icmp" /\ IcmpNext
     /\ UNCHANGED <<part, vars, sockVars, arpVars, ipVars, nicVars, nameVars, webVars>>
  \/ /\ part = "http" /\ C!HttpNext
     /\ UNCHANGED <<part, vars, sockVars, lowVars, nameVars, tlsVars, httpdVars>>
  \/ /\ part = "httpd" /\ W!HttpdNext
     /\ UNCHANGED <<part, vars, sockVars, lowVars, nameVars, tlsVars, httpVars>>

NetworkSpec ==
  NetworkInit /\ [][NetworkNext]_<<part, vars, sockVars, lowVars, nameVars, webVars>>

-----------------------------------------------------------------------------
(* Properties *)

(* TCP delivers the bytes sent once and in order, says they are sent only when
   they are received, ends the stream only after the last of them, and never
   has two connections for one pair of ports, whatever the network loses,
   repeats or reorders. *)
TcpFaithful ==
  part = "tcp" => /\ TypeOK /\ StreamIntegrity /\ SentMeansReceived
                  /\ EofAfterData /\ OneConnection

(* A socket that is referenced has its transport and no other socket has it;
   bound ports are exclusive; datagrams are received in order. *)
SocketsSound ==
  part = "sockets" => /\ S!SocketTypeOK /\ S!ReferenceKeepsSocket
                      /\ S!TransportsOwned /\ S!BindExclusive /\ S!ReceiveInOrder

(* What ipv4_handle_fragment hands up is a datagram as it was sent, in time,
   and collected in one slot. *)
DatagramsSound ==
  part = "ipv4" => I!ReassemblyIntact /\ I!ReassemblyInTime /\ I!OneSlotPerDatagram

(* What net_tls_recv returns is what the server sent, in order, and only after
   a handshake whose certificate chain and Finished were verified;
   net_http_get returns the page the server meant and closes what it opened
   within its redirects; httpd_poll answers and closes every connection it
   accepts, nested polls included. *)
WebFaithful ==
  /\ part = "tls" => T!TlsFaithful
  /\ part = "http" => C!ResponseExact /\ C!ConnectionsReturned /\ C!RedirectsBounded
  /\ part = "httpd" => W!EveryClientClosed /\ W!PagesWhole
=============================================================================
