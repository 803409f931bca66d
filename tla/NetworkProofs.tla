--------------------------- MODULE NetworkProofs ---------------------------
(* The services under the transports, for any number of callers, names,      *)
(* slots and packets: what a ping heard, which address DHCP configures, and  *)
(* which address a name resolves to.                                         *)
EXTENDS Icmp, Dhcp, Dns, TLAPS

-----------------------------------------------------------------------------
(* Echo requests: the one ping_waiter and packets that come at any time.     *)

IcmpTypeOK ==
  /\ ping_waiter \in [waiting : BOOLEAN, reply_received : BOOLEAN,
                      destination : PingHosts \cup {Us}, sequence : Numbers \cup {0},
                      sent_at_tick : Nat, round_trip_ticks : Nat]
  /\ ping \in [at : {"idle", "send", "wait"}, to : PingHosts \cup {Us},
               seq : Numbers \cup {0}, started : Nat]
  /\ time \in Nat /\ ping_waiter.round_trip_ticks <= time /\ ping_waiter.sent_at_tick <= time

\* The waiter is the ping in progress, and a ping in progress has no result.
WaiterIsPing ==
  /\ ping_waiter.waiting <=> ping.at # "idle"
  /\ ping.at # "idle" => /\ ping_waiter.destination = ping.to /\ ping.to # Us
                         /\ ping_waiter.sequence = ping.seq
                         /\ ~result.ok

\* Every reply on its way answers a request that was sent.
RepliesAnswer ==
  \A p \in air :
    /\ p = EchoPacket(p.type, p.from, p.to, p.seq, p.tag)
    /\ p.type = "request" => (p.from = Us <=> p.to # Us)
    /\ p.type = "reply" => /\ p.from = Us <=> p.to # Us
                           /\ EchoPacket("request", p.to, p.from, p.seq, p.tag) \in air

\* The reply the waiter has is the one that was heard.
ReplyHeard ==
  ping_waiter.waiting /\ ping_waiter.reply_received =>
    /\ heard \in air /\ heard.type = "reply"
    /\ heard.from = ping_waiter.destination /\ heard.seq = ping_waiter.sequence

ResultHeard ==
  result.ok =>
    /\ heard \in air /\ heard.type = "reply" /\ result.to # Us
    /\ heard.from = result.to /\ heard.seq = result.seq
    /\ result.rtt \in Nat /\ result.rtt <= time

IcmpInv == IcmpTypeOK /\ WaiterIsPing /\ RepliesAnswer /\ ReplyHeard /\ ResultHeard

LEMMA EchoFields ==
  ASSUME NEW type, NEW from, NEW to, NEW seq, NEW tag
  PROVE  LET p == EchoPacket(type, from, to, seq, tag)
         IN /\ p.type = type /\ p.from = from /\ p.to = to /\ p.seq = seq /\ p.tag = tag
            /\ p = EchoPacket(p.type, p.from, p.to, p.seq, p.tag)
BY DEF EchoPacket

LEMMA IcmpInvAnswers == IcmpInv => PingsAnswered /\ WaiterFreed
<1> SUFFICES ASSUME IcmpInv PROVE PingsAnswered /\ WaiterFreed
  OBVIOUS
<1>1. ASSUME result.ok
      PROVE  EchoPacket("request", Us, result.to, result.seq, heard.tag) \in air
  <2>1. /\ heard \in air /\ heard.type = "reply" /\ heard.from # Us
        /\ heard.from = result.to /\ heard.seq = result.seq
    BY <1>1 DEF IcmpInv, ResultHeard
  <2>2. heard.to = Us
    BY <2>1 DEF IcmpInv, RepliesAnswer
  <2>3. EchoPacket("request", heard.to, heard.from, heard.seq, heard.tag) \in air
    BY <2>1 DEF IcmpInv, RepliesAnswer
  <2> QED
    BY <2>1, <2>2, <2>3
<1>2. PingsAnswered
  BY <1>1 DEF IcmpInv, ResultHeard, PingsAnswered
<1>3. \A p \in air : p.from = Us /\ p.type = "reply" =>
        EchoPacket("request", p.to, Us, p.seq, p.tag) \in air
  BY DEF IcmpInv, RepliesAnswer
<1> QED
  BY <1>2, <1>3 DEF IcmpInv, WaiterIsPing, WaiterFreed

LEMMA IcmpStarts == IcmpInit => IcmpInv
<1> SUFFICES ASSUME IcmpInit PROVE IcmpInv
  OBVIOUS
<1>1. IcmpTypeOK
  BY DEF IcmpInit, IcmpTypeOK, NoPing
<1>2. ~ping_waiter.waiting /\ ping.at = "idle" /\ ~result.ok /\ air = {}
  BY DEF IcmpInit, NoPing, NoResult
<1> QED
  BY <1>1, <1>2 DEF IcmpInv, WaiterIsPing, RepliesAnswer, ReplyHeard, ResultHeard

\* Packets are only added, and requests first: the last packet sent is all
\* there is to look at.
LEMMA PacketAdded ==
  ASSUME RepliesAnswer, NEW p, air' = air \cup {p},
         p = EchoPacket(p.type, p.from, p.to, p.seq, p.tag),
         p.type \in {"request", "reply"}, p.from = Us <=> p.to # Us,
         p.type = "reply" => EchoPacket("request", p.to, p.from, p.seq, p.tag) \in air
  PROVE  RepliesAnswer'
BY DEF RepliesAnswer

LEMMA PingBegins ==
  ASSUME IcmpInv, NEW host \in PingHosts, NEW n \in Numbers, net_icmp_ping(host, n)
  PROVE  IcmpInv'
<1> USE DEF net_icmp_ping
<1>1. IcmpTypeOK'
  BY DEF IcmpInv, IcmpTypeOK
<1>2. WaiterIsPing'
  BY IcmpAssumption DEF IcmpInv, WaiterIsPing, NoResult
<1>3. RepliesAnswer'
  BY DEF IcmpInv, RepliesAnswer
<1>4. (ReplyHeard /\ ResultHeard)'
  BY DEF ReplyHeard, ResultHeard, NoResult
<1> QED
  BY <1>1, <1>2, <1>3, <1>4 DEF IcmpInv

LEMMA PingSends ==
  ASSUME IcmpInv, NEW works \in BOOLEAN, Send(works)
  PROVE  IcmpInv'
<1>1. CASE works
  <2> DEFINE p == EchoPacket("request", Us, ping.to, ping.seq, pings)
  <2>1. /\ ping.at = "send" /\ air' = air \cup {p}
        /\ ping' = [ping EXCEPT !.at = "wait", !.started = time]
        /\ UNCHANGED <<ping_waiter, time, heard, result, pings>>
    BY <1>1 DEF Send
  <2>2. /\ p.type = "request" /\ p.from = Us /\ p.to # Us
        /\ p = EchoPacket(p.type, p.from, p.to, p.seq, p.tag)
    BY <2>1, EchoFields DEF IcmpInv, WaiterIsPing
  <2> HIDE DEF p
  <2>3. RepliesAnswer'
    BY <2>1, <2>2, PacketAdded DEF IcmpInv
  <2>4. IcmpTypeOK'
    BY <2>1, Zenon DEF IcmpInv, IcmpTypeOK
  <2>5. WaiterIsPing'
    BY <2>1 DEF IcmpInv, IcmpTypeOK, WaiterIsPing
  <2>6. (ReplyHeard /\ ResultHeard)'
    BY <2>1 DEF IcmpInv, ReplyHeard, ResultHeard
  <2> QED
    BY <2>3, <2>4, <2>5, <2>6 DEF IcmpInv
<1>2. CASE ~works
  <2>1. /\ ping' = NoPing /\ ping_waiter' = [ping_waiter EXCEPT !.waiting = FALSE]
        /\ UNCHANGED <<air, time, heard, result, pings>>
    BY <1>2 DEF Send, PingFails
  <2> QED
    BY <2>1, Zenon DEF IcmpInv, IcmpTypeOK, WaiterIsPing, RepliesAnswer, ReplyHeard, ResultHeard, NoPing
<1> QED
  BY <1>1, <1>2

LEMMA PingEnds ==
  ASSUME IcmpInv, ReplySeen \/ TimesOut
  PROVE  IcmpInv'
<1>1. /\ ping.at = "wait" /\ ping' = NoPing
      /\ ping_waiter' = [ping_waiter EXCEPT !.waiting = FALSE]
      /\ UNCHANGED <<air, time, heard, pings>>
  BY DEF ReplySeen, TimesOut, PingFails
<1>2. IcmpTypeOK'
  BY <1>1, Zenon DEF IcmpInv, IcmpTypeOK, NoPing
<1>3. ~ping_waiter'.waiting /\ ping'.at = "idle"
  BY <1>1 DEF NoPing, IcmpInv, IcmpTypeOK
<1>4. (WaiterIsPing /\ RepliesAnswer /\ ReplyHeard)'
  BY <1>1, <1>3 DEF IcmpInv, WaiterIsPing, RepliesAnswer, ReplyHeard
<1>5. ResultHeard'
  <2>1. CASE ReplySeen
    <3>1. /\ ping_waiter.waiting /\ ping_waiter.reply_received
          /\ ping_waiter.destination = ping.to /\ ping.to # Us /\ ping_waiter.sequence = ping.seq
      BY <1>1, <2>1 DEF ReplySeen, IcmpInv, WaiterIsPing
    <3>2. /\ result'.to = ping.to /\ result'.seq = ping.seq
          /\ result'.rtt = ping_waiter.round_trip_ticks
      BY <2>1 DEF ReplySeen
    <3>3. /\ heard \in air /\ heard.type = "reply"
          /\ heard.from = ping.to /\ heard.seq = ping.seq
      BY <3>1 DEF IcmpInv, ReplyHeard
    <3>4. ping_waiter.round_trip_ticks \in Nat /\ ping_waiter.round_trip_ticks <= time
      BY DEF IcmpInv, IcmpTypeOK
    <3> QED
      BY <1>1, <3>1, <3>2, <3>3, <3>4 DEF ResultHeard
  <2>2. CASE TimesOut
    BY <1>1, <2>2 DEF TimesOut, IcmpInv, ResultHeard
  <2> QED
    BY <2>1, <2>2
<1> QED
  BY <1>2, <1>4, <1>5 DEF IcmpInv

LEMMA PacketReceived ==
  ASSUME IcmpInv, NEW p \in air, NEW intact \in BOOLEAN, net_icmp_receive(p, intact)
  PROVE  IcmpInv'
<1>1. /\ p.to = Us /\ UNCHANGED <<ping, time, result, pings>>
      /\ air' = IF intact /\ p.type = "request" THEN air \cup {icmp_send_echo_reply(p)} ELSE air
  BY DEF net_icmp_receive
<1>2. RepliesAnswer' /\ air \subseteq air'
  <2>1. CASE intact /\ p.type = "request"
    <3> DEFINE r == icmp_send_echo_reply(p)
    <3>1. /\ r.type = "reply" /\ r.from = Us /\ r.to = p.from /\ r.seq = p.seq /\ r.tag = p.tag
          /\ r = EchoPacket(r.type, r.from, r.to, r.seq, r.tag)
      BY <1>1 DEF icmp_send_echo_reply, EchoPacket
    <3>2. p.from # Us
      BY <1>1, <2>1 DEF IcmpInv, RepliesAnswer
    <3>3. air' = air \cup {r}
      BY <1>1, <2>1
    <3>4. EchoPacket("request", r.to, r.from, r.seq, r.tag) \in air
      <4>1. EchoPacket("request", p.from, p.to, p.seq, p.tag) = p
        BY <1>1, <2>1 DEF IcmpInv, RepliesAnswer
      <4> QED
        BY <3>1, <1>1, <4>1
    <3> HIDE DEF r
    <3> QED
      BY <3>1, <3>2, <3>3, <3>4, PacketAdded DEF IcmpInv
  <2>2. CASE ~(intact /\ p.type = "request")
    <3>1. air' = air
      BY <1>1, <2>2
    <3> QED
      BY <3>1 DEF IcmpInv, RepliesAnswer
  <2> QED
    BY <2>1, <2>2
<1>3. CASE intact /\ p.type = "reply" /\ MatchesWaiter(p)
  <2>1. /\ ping_waiter' = [ping_waiter EXCEPT !.round_trip_ticks = time - ping_waiter.sent_at_tick,
                                              !.reply_received = TRUE]
        /\ heard' = p
    BY <1>3 DEF net_icmp_receive
  <2>2. time - ping_waiter.sent_at_tick \in Nat /\ time - ping_waiter.sent_at_tick <= time
    BY DEF IcmpInv, IcmpTypeOK
  <2>3. IcmpTypeOK'
    BY <1>1, <2>1, <2>2, Zenon DEF IcmpInv, IcmpTypeOK
  <2>4. /\ ping_waiter'.waiting = ping_waiter.waiting
        /\ ping_waiter'.destination = ping_waiter.destination
        /\ ping_waiter'.sequence = ping_waiter.sequence
    BY <2>1 DEF IcmpInv, IcmpTypeOK
  <2>5. WaiterIsPing'
    BY <1>1, <2>4 DEF IcmpInv, WaiterIsPing
  <2>6. /\ ping_waiter.waiting
        /\ p.from = ping_waiter.destination /\ p.seq = ping_waiter.sequence
    BY <1>3 DEF MatchesWaiter
  <2>7. ReplyHeard'
    BY <1>2, <1>3, <2>1, <2>4, <2>6 DEF ReplyHeard
  <2>8. ResultHeard'
    BY <1>1, <2>6 DEF IcmpInv, WaiterIsPing, ResultHeard
  <2> QED
    BY <1>2, <2>3, <2>5, <2>7, <2>8 DEF IcmpInv
<1>4. CASE ~(intact /\ p.type = "reply" /\ MatchesWaiter(p))
  <2>1. UNCHANGED <<ping_waiter, heard>>
    BY <1>4 DEF net_icmp_receive
  <2>2. IcmpTypeOK' /\ WaiterIsPing'
    BY <1>1, <2>1 DEF IcmpInv, IcmpTypeOK, WaiterIsPing
  <2>3. ReplyHeard' /\ ResultHeard'
    BY <1>1, <1>2, <2>1 DEF IcmpInv, ReplyHeard, ResultHeard
  <2> QED
    BY <1>2, <2>2, <2>3 DEF IcmpInv
<1> QED
  BY <1>3, <1>4

LEMMA PeerActs ==
  ASSUME IcmpInv, (\E p \in air : PeerReplies(p)) \/ (\E host \in PingHosts : PeerAsks(host))
  PROVE  IcmpInv'
<1>1. UNCHANGED <<ping_waiter, ping, time, heard, result, pings>>
  BY DEF PeerReplies, PeerAsks
<1>2. RepliesAnswer' /\ air \subseteq air'
  <2>1. ASSUME NEW p \in air, PeerReplies(p)
        PROVE  RepliesAnswer' /\ air \subseteq air'
    <3> DEFINE r == EchoPacket("reply", p.to, p.from, p.seq, p.tag)
    <3>1. /\ r.type = "reply" /\ r.from = p.to /\ r.to = p.from /\ r.seq = p.seq /\ r.tag = p.tag
          /\ r = EchoPacket(r.type, r.from, r.to, r.seq, r.tag)
      BY DEF EchoPacket
    <3>2. /\ p.to # Us /\ p.from = Us /\ p.type = "request" /\ air' = air \cup {r}
      BY <2>1 DEF PeerReplies, IcmpInv, RepliesAnswer
    <3>3. EchoPacket("request", r.to, r.from, r.seq, r.tag) \in air
      <4>1. EchoPacket("request", p.from, p.to, p.seq, p.tag) = p
        BY <3>2 DEF IcmpInv, RepliesAnswer
      <4> QED
        BY <3>1, <4>1
    <3> HIDE DEF r
    <3> QED
      BY <3>1, <3>2, <3>3, PacketAdded DEF IcmpInv
  <2>2. ASSUME NEW host \in PingHosts, PeerAsks(host)
        PROVE  RepliesAnswer' /\ air \subseteq air'
    <3> DEFINE r == EchoPacket("request", host, Us, 0, 0)
    <3>1. /\ r.type = "request" /\ r.from = host /\ r.to = Us
          /\ r = EchoPacket(r.type, r.from, r.to, r.seq, r.tag)
      BY EchoFields
    <3>2. air' = air \cup {r} /\ host # Us
      BY <2>2, IcmpAssumption DEF PeerAsks
    <3> HIDE DEF r
    <3> QED
      BY <3>1, <3>2, PacketAdded DEF IcmpInv
  <2> QED
    BY <2>1, <2>2
<1>3. IcmpTypeOK' /\ WaiterIsPing'
  BY <1>1 DEF IcmpInv, IcmpTypeOK, WaiterIsPing
<1>4. ReplyHeard' /\ ResultHeard'
  BY <1>1, <1>2 DEF IcmpInv, ReplyHeard, ResultHeard
<1> QED
  BY <1>2, <1>3, <1>4 DEF IcmpInv

\* A ping that succeeds heard a reply of the host it asked to the number it
\* sent, and a ping that ends leaves the waiter free, for any number of hosts,
\* numbers and pings and whatever the network repeats, delays or loses.
THEOREM PingsAreAnswered == IcmpSpec => []PingsSound
<1>1. IcmpInv /\ [IcmpNext]_icmpVars => IcmpInv'
  <2> SUFFICES ASSUME IcmpInv, [IcmpNext]_icmpVars PROVE IcmpInv'
    OBVIOUS
  <2>1. CASE \E host \in PingHosts, seq \in Numbers : net_icmp_ping(host, seq)
    BY <2>1, PingBegins
  <2>2. CASE \E works \in BOOLEAN : Send(works)
    BY <2>2, PingSends
  <2>3. CASE ReplySeen \/ TimesOut
    BY <2>3, PingEnds
  <2>4. CASE PingTick
    <3>1. /\ UNCHANGED <<ping_waiter, ping, air, heard, result, pings>>
          /\ time \in Nat /\ time' = time + 1
      BY <2>4 DEF PingTick, IcmpInv, IcmpTypeOK
    <3>2. IcmpTypeOK' /\ ResultHeard'
      BY <3>1 DEF IcmpInv, IcmpTypeOK, ResultHeard
    <3>3. WaiterIsPing' /\ RepliesAnswer' /\ ReplyHeard'
      BY <3>1 DEF IcmpInv, WaiterIsPing, RepliesAnswer, ReplyHeard
    <3> QED
      BY <3>2, <3>3 DEF IcmpInv
  <2>5. CASE \E p \in air, intact \in BOOLEAN : net_icmp_receive(p, intact)
    BY <2>5, PacketReceived
  <2>6. CASE (\E p \in air : PeerReplies(p)) \/ (\E host \in PingHosts : PeerAsks(host))
    BY <2>6, PeerActs
  <2>7. CASE UNCHANGED icmpVars
    BY <2>7 DEF icmpVars, IcmpInv, IcmpTypeOK, WaiterIsPing, RepliesAnswer, ReplyHeard, ResultHeard
  <2> QED
    BY <2>1, <2>2, <2>3, <2>4, <2>5, <2>6, <2>7 DEF IcmpNext
<1> QED
  BY IcmpStarts, <1>1, IcmpInvAnswers, PTL DEF IcmpSpec, PingsSound

-----------------------------------------------------------------------------
(* The DHCP client: replies of any age from any server.                      *)

DhcpPackets ==
  [type : {"DISCOVER", "OFFER", "REQUEST", "ACK", "NAK"}, xid : Nat, ip : Leases \cup {0},
   server : Servers \cup {Nobody}, mask : {0, 16}]
DhcpOffers ==
  [type : {"none", "OFFER", "ACK", "NAK"}, ip : Leases \cup {0},
   server : Servers \cup {Nobody}, mask : {0, 16}]

DhcpTypeOK ==
  /\ interface \in [address : Leases \cup {0}, mask : Nat, source : {"STATIC", "DHCP"},
                    dhcp_state : {"IDLE", "DISCOVERING", "REQUESTING", "BOUND", "FAILED"},
                    by : Servers \cup {Nobody}]
  /\ client \in [Callers -> [pc : {"idle", "offer", "ack"}, xid : Nat, offer : DhcpOffers]]
  /\ port68 \in Callers \cup {Nobody}
  /\ ether \subseteq DhcpPackets /\ clock \in Nat

\* Port 68 is held by the one thread that is in a call.
OneCall == \A t \in Callers : client[t].pc # "idle" <=> port68 = t

\* A transaction id is new when it is taken.
XidsFresh == \A p \in ether : p.xid < clock

\* A transaction makes one request, and none before it has an offer.
Requests(x) == {p \in ether : p.type = "REQUEST" /\ p.xid = x}
OneRequest ==
  /\ \A x \in Nat : \A p, q \in Requests(x) : p.ip = q.ip /\ p.server = q.server
  /\ \A t \in Callers :
       /\ client[t].pc = "offer" => Requests(client[t].xid) = {}
       /\ client[t].pc # "idle" => client[t].xid < clock
       /\ client[t].pc = "ack" =>
            \E p \in Requests(client[t].xid) :
              p.ip = client[t].offer.ip /\ p.server = client[t].offer.server

\* An acknowledgement was granted, for a request of its transaction.
AcksGranted ==
  \A a \in ether : a.type = "ACK" =>
    \E p \in Requests(a.xid) :
      /\ a.ip \in {0, p.ip}
      /\ \E g \in granted : g.ip = p.ip /\ g.server = p.server

DhcpInv == DhcpTypeOK /\ OneCall /\ XidsFresh /\ OneRequest /\ AcksGranted /\ LeaseGranted

LEMMA DhcpStarts == DhcpInit => DhcpInv
<1> SUFFICES ASSUME DhcpInit PROVE DhcpInv
  OBVIOUS
<1>1. DhcpTypeOK
  BY DEF DhcpInit, DhcpTypeOK, NotCalled, NoOffer, DhcpOffers
<1>2. \A t \in Callers : client[t].pc = "idle"
  BY DEF DhcpInit, NotCalled
<1>3. OneCall /\ XidsFresh /\ AcksGranted
  BY <1>2, DhcpAssumption DEF DhcpInit, OneCall, XidsFresh, AcksGranted
<1>4. OneRequest
  BY <1>2 DEF DhcpInit, OneRequest, Requests
<1>5. LeaseGranted
  BY DEF DhcpInit, LeaseGranted, AddressWasGranted, NegotiationCloses, Negotiating
<1> QED
  BY <1>1, <1>3, <1>4, <1>5 DEF DhcpInv

\* A packet that is not a request, with a transaction id that was taken.
LEMMA OtherPacket ==
  ASSUME DhcpInv, NEW p \in DhcpPackets, ether' = ether \cup {p}, p.type # "REQUEST",
         p.xid < clock', clock' \in Nat, clock <= clock'
  PROVE  /\ \A x \in Nat : Requests(x)' = Requests(x)
         /\ XidsFresh'
         /\ ether' \subseteq DhcpPackets
<1>1. \A q \in ether : q.xid \in Nat /\ q.xid < clock
  BY DEF DhcpInv, DhcpTypeOK, DhcpPackets, XidsFresh
<1>2. \A q \in ether : q.xid < clock'
  BY <1>1 DEF DhcpInv, DhcpTypeOK
<1> QED
  BY <1>2 DEF Requests, XidsFresh, DhcpInv, DhcpTypeOK

LEMMA PacketTyped ==
  ASSUME NEW type \in {"DISCOVER", "OFFER", "REQUEST", "ACK", "NAK"}, NEW x \in Nat,
         NEW ip \in Leases \cup {0}, NEW s \in Servers \cup {Nobody}, NEW m \in {0, 16}
  PROVE  /\ Packet(type, x, ip, s, m) \in DhcpPackets
         /\ Packet(type, x, ip, s, m).type = type /\ Packet(type, x, ip, s, m).xid = x
         /\ Packet(type, x, ip, s, m).ip = ip /\ Packet(type, x, ip, s, m).server = s
BY DEF Packet, DhcpPackets

\* The call opens with an id that no packet has.
LEMMA AcquireKeeps ==
  ASSUME DhcpInv, NEW t \in Callers, net_dhcp_acquire(t)
  PROVE  DhcpInv'
<1>1. client[t].pc = "idle" /\ clock' = clock + 1 /\ granted' = granted
  BY DEF net_dhcp_acquire
<1>2. CASE port68 # Nobody /\ UNCHANGED <<interface, client, port68, ether>>
  <2>1. DhcpTypeOK' /\ OneCall'
    BY <1>1, <1>2 DEF DhcpInv, DhcpTypeOK, OneCall
  <2>2. XidsFresh'
    BY <1>1, <1>2 DEF DhcpInv, DhcpTypeOK, DhcpPackets, XidsFresh
  <2>3. \A u \in Callers : client[u].xid < clock => client[u].xid < clock'
    BY <1>1 DEF DhcpInv, DhcpTypeOK
  <2>4. OneRequest'
    BY <1>1, <1>2, <2>3 DEF DhcpInv, OneRequest, Requests
  <2>5. AcksGranted' /\ LeaseGranted'
    BY <1>1, <1>2 DEF DhcpInv, AcksGranted, Requests, LeaseGranted, AddressWasGranted,
                      NegotiationCloses
  <2> QED
    BY <2>1, <2>2, <2>4, <2>5 DEF DhcpInv
<1>3. CASE port68 = Nobody /\ port68' = t
  <2> DEFINE p == Packet("DISCOVER", clock, 0, Nobody, 0)
  <2>1. /\ interface' = [interface EXCEPT !.dhcp_state = "DISCOVERING"]
        /\ ether' = ether \cup {p}
        /\ client' = [client EXCEPT ![t] = [NotCalled EXCEPT !.pc = "offer", !.xid = clock]]
    BY <1>3, DhcpAssumption DEF net_dhcp_acquire, SetState
  <2>2. p \in DhcpPackets /\ p.type = "DISCOVER" /\ p.xid = clock
    BY DEF DhcpInv, DhcpTypeOK, Packet, DhcpPackets
  <2> HIDE DEF p
  <2>3. /\ \A x \in Nat : Requests(x)' = Requests(x)
        /\ XidsFresh' /\ ether' \subseteq DhcpPackets /\ clock' \in Nat
    BY <1>1, <2>1, <2>2, OtherPacket DEF DhcpInv, DhcpTypeOK
  <2>4. /\ client'[t] \in [pc : {"idle", "offer", "ack"}, xid : Nat, offer : DhcpOffers]
        /\ client'[t].pc = "offer" /\ client'[t].xid = clock
    <3>1. client'[t] = [NotCalled EXCEPT !.pc = "offer", !.xid = clock]
      BY <2>1 DEF DhcpInv, DhcpTypeOK
    <3>2. NotCalled \in [pc : {"idle", "offer", "ack"}, xid : Nat, offer : DhcpOffers]
      BY DEF NotCalled, NoOffer, DhcpOffers
    <3>3. clock \in Nat
      BY DEF DhcpInv, DhcpTypeOK
    <3> HIDE DEF NotCalled
    <3> QED
      BY <3>1, <3>2, <3>3, Zenon
  <2>5. DhcpTypeOK'
    <3>1. client' \in [Callers -> [pc : {"idle", "offer", "ack"}, xid : Nat, offer : DhcpOffers]]
      BY <2>1, <2>4 DEF DhcpInv, DhcpTypeOK
    <3> QED
      BY <1>3, <2>1, <2>3, <3>1 DEF DhcpInv, DhcpTypeOK
  <2>6. /\ client'[t].pc = "offer" /\ client'[t].xid = clock
        /\ \A u \in Callers : u # t => client'[u] = client[u] /\ client[u].pc = "idle"
    BY <1>3, <2>1, <2>4, DhcpAssumption DEF DhcpInv, DhcpTypeOK, OneCall
  <2>7. OneCall'
    BY <1>3, <2>6 DEF OneCall
  <2>8. OneRequest'
    <3>1. Requests(clock) = {}
      BY DEF DhcpInv, DhcpTypeOK, XidsFresh, Requests
    <3>2. clock \in Nat /\ clock < clock'
      BY <1>1 DEF DhcpInv, DhcpTypeOK
    <3>3. \A x \in Nat : \A a, b \in Requests(x)' : a.ip = b.ip /\ a.server = b.server
      BY <2>3 DEF DhcpInv, OneRequest
    <3>4. (Requests(client[t].xid) = {} /\ client[t].xid < clock /\ client[t].pc # "ack")'
      BY <2>3, <2>6, <3>1, <3>2
    <3>5. ASSUME NEW u \in Callers, u # t
          PROVE  client'[u].pc = "idle"
      BY <2>6, <3>5
    <3> QED
      BY <3>3, <3>4, <3>5, Zenon DEF OneRequest
  <2>9. AcksGranted'
    BY <1>1, <2>1, <2>2, <2>3 DEF DhcpInv, DhcpTypeOK, DhcpPackets, AcksGranted
  <2>10. LeaseGranted'
    BY <1>1, <1>3, <2>1, DhcpAssumption
       DEF DhcpInv, DhcpTypeOK, LeaseGranted, AddressWasGranted, NegotiationCloses, Negotiating
  <2> QED
    BY <2>3, <2>5, <2>7, <2>8, <2>9, <2>10 DEF DhcpInv
<1> QED
  BY <1>2, <1>3 DEF net_dhcp_acquire

\* Every way out of a call gives the port back and closes the negotiation.
LEMMA CallEnds ==
  ASSUME DhcpInv, NEW t \in Callers, client[t].pc # "idle",
         client' = [client EXCEPT ![t] = NotCalled], port68' = Nobody,
         UNCHANGED <<ether, clock, granted>>,
         DhcpTypeOK', interface'.dhcp_state \notin Negotiating,
         AddressWasGranted'
  PROVE  DhcpInv'
<1>1. client'[t].pc = "idle" /\ \A u \in Callers : u # t => client'[u] = client[u]
  BY DEF DhcpInv, DhcpTypeOK, NotCalled
<1>2. \A u \in Callers : client'[u].pc = "idle"
  BY <1>1 DEF DhcpInv, OneCall
<1>3. OneCall'
  BY <1>2, DhcpAssumption DEF OneCall
<1>4. \A x : Requests(x)' = Requests(x)
  BY DEF Requests
<1>5. OneRequest' /\ AcksGranted' /\ XidsFresh'
  BY <1>2, <1>4 DEF DhcpInv, OneRequest, AcksGranted, XidsFresh
<1> QED
  BY <1>3, <1>5 DEF DhcpInv, LeaseGranted, NegotiationCloses

LEMMA GiveUpKeeps ==
  ASSUME DhcpInv, NEW t \in Callers, client[t].pc # "idle", GiveUp(t),
         UNCHANGED <<ether, clock, granted>>
  PROVE  DhcpInv'
<1>1. /\ interface' = [interface EXCEPT !.dhcp_state = "FAILED"] /\ port68' = Nobody
      /\ client' = [client EXCEPT ![t] = NotCalled]
  BY DEF GiveUp, SetState
<1>2. DhcpTypeOK'
  BY <1>1, Zenon DEF DhcpInv, DhcpTypeOK, NotCalled, NoOffer, DhcpOffers
<1>3. interface'.dhcp_state \notin Negotiating
  BY <1>1 DEF DhcpInv, DhcpTypeOK, Negotiating
<1>4. AddressWasGranted'
  BY <1>1 DEF DhcpInv, DhcpTypeOK, LeaseGranted, AddressWasGranted
<1> QED
  BY <1>1, <1>2, <1>3, <1>4, CallEnds, Zenon

\* The acknowledgement of this call's request, of which there is one.
LEMMA AckKeeps ==
  ASSUME DhcpInv, NEW t \in Callers, await_ack(t)
  PROVE  DhcpInv'
<1>1. PICK p \in ether :
        /\ client[t].pc = "ack" /\ validate_dhcp_packet(t, p)
        /\ \/ /\ p.type = "ACK" /\ configure(t, p) /\ port68' = Nobody
              /\ client' = [client EXCEPT ![t] = NotCalled]
           \/ p.type = "NAK" /\ GiveUp(t)
        /\ UNCHANGED <<ether, clock, granted>>
  BY DEF await_ack
<1>2. CASE p.type = "NAK" /\ GiveUp(t)
  BY <1>1, <1>2, GiveUpKeeps
<1>3. CASE /\ p.type = "ACK" /\ configure(t, p) /\ port68' = Nobody
           /\ client' = [client EXCEPT ![t] = NotCalled]
  <2>1. p.xid = client[t].xid
    BY <1>1 DEF validate_dhcp_packet
  <2>2. PICK q \in Requests(p.xid) :
          p.ip \in {0, q.ip} /\ \E g \in granted : g.ip = q.ip /\ g.server = q.server
    BY <1>3 DEF DhcpInv, AcksGranted
  <2>3. q.ip = client[t].offer.ip /\ q.server = client[t].offer.server
    <3>1. client[t].xid \in Nat
      BY DEF DhcpInv, DhcpTypeOK
    <3>2. PICK o \in Requests(client[t].xid) :
            o.ip = client[t].offer.ip /\ o.server = client[t].offer.server
      BY <1>1, Zenon DEF DhcpInv, OneRequest
    <3>3. q.ip = o.ip /\ q.server = o.server
      BY <2>1, <2>2, <3>1, <3>2 DEF DhcpInv, OneRequest
    <3> QED
      BY <3>2, <3>3
  <2>4. /\ interface'.address = client[t].offer.ip /\ interface'.by = client[t].offer.server
        /\ interface'.dhcp_state = "BOUND"
    BY <1>3, <2>2, <2>3 DEF configure
  <2>5. DhcpTypeOK'
    <3>1. p \in DhcpPackets /\ client[t].offer \in DhcpOffers
      BY <1>1 DEF DhcpInv, DhcpTypeOK
    <3>2. /\ p.ip \in Leases \cup {0} /\ client[t].offer.ip \in Leases \cup {0}
          /\ p.mask \in Nat /\ client[t].offer.mask \in Nat
          /\ client[t].offer.server \in Servers \cup {Nobody}
      BY <3>1 DEF DhcpPackets, DhcpOffers
    <3>3. interface' \in [address : Leases \cup {0}, mask : Nat, source : {"STATIC", "DHCP"},
                          dhcp_state : {"IDLE", "DISCOVERING", "REQUESTING", "BOUND", "FAILED"},
                          by : Servers \cup {Nobody}]
      BY <1>3, <3>2 DEF configure
    <3>4. NotCalled \in [pc : {"idle", "offer", "ack"}, xid : Nat, offer : DhcpOffers]
      BY DEF NotCalled, NoOffer, DhcpOffers
    <3>5. client' \in [Callers -> [pc : {"idle", "offer", "ack"}, xid : Nat, offer : DhcpOffers]]
      BY <1>3, <3>4 DEF DhcpInv, DhcpTypeOK
    <3> QED
      BY <1>1, <1>3, <3>3, <3>5 DEF DhcpInv, DhcpTypeOK
  <2>6. AddressWasGranted'
    BY <1>1, <2>2, <2>3, <2>4 DEF AddressWasGranted
  <2> QED
    BY <1>1, <1>3, <2>4, <2>5, <2>6, CallEnds, Zenon DEF Negotiating
<1> QED
  BY <1>1, <1>2, <1>3

\* The offer that is taken is the one requested, and nothing was requested in
\* this transaction before.
LEMMA OfferKeeps ==
  ASSUME DhcpInv, NEW t \in Callers, await_offer(t)
  PROVE  DhcpInv'
<1>1. PICK p \in ether :
        LET offer == parse_dhcp_options(client[t].offer, p) IN
        /\ client[t].pc = "offer" /\ validate_dhcp_packet(t, p)
        /\ IF offer.type = "OFFER" /\ offer.ip # 0
           THEN /\ client' = [client EXCEPT ![t].offer = offer, ![t].pc = "ack"]
                /\ SetState("REQUESTING")
                /\ ether' = ether \cup {Packet("REQUEST", client[t].xid, offer.ip, offer.server, 0)}
           ELSE /\ client' = [client EXCEPT ![t].offer = offer]
                /\ UNCHANGED <<interface, ether>>
        /\ UNCHANGED <<port68, clock, granted>>
  BY DEF await_offer
<1>2. PICK offer \in DhcpOffers : offer = parse_dhcp_options(client[t].offer, p)
  <2>1. p \in DhcpPackets /\ client[t].offer \in DhcpOffers /\ p.type \in {"OFFER", "ACK", "NAK"}
    BY <1>1 DEF DhcpInv, DhcpTypeOK, validate_dhcp_packet
  <2> QED
    BY <2>1, Zenon DEF parse_dhcp_options, DhcpPackets, DhcpOffers
<1>3. /\ port68 = t /\ client[t].xid \in Nat /\ client[t].xid < clock
      /\ Requests(client[t].xid) = {}
      /\ \A u \in Callers : u # t => client[u].pc = "idle"
  BY <1>1, Zenon DEF DhcpInv, DhcpTypeOK, OneCall, OneRequest
<1>4. CASE offer.type = "OFFER" /\ offer.ip # 0
  <2> DEFINE r == Packet("REQUEST", client[t].xid, offer.ip, offer.server, 0)
  <2>1. /\ client' = [client EXCEPT ![t].offer = offer, ![t].pc = "ack"]
        /\ interface' = [interface EXCEPT !.dhcp_state = "REQUESTING"]
        /\ ether' = ether \cup {r}
        /\ UNCHANGED <<port68, clock, granted>>
    BY <1>1, <1>2, <1>4 DEF SetState
  <2>2. /\ r \in DhcpPackets /\ r.type = "REQUEST" /\ r.xid = client[t].xid
        /\ r.ip = offer.ip /\ r.server = offer.server
    BY <1>2, <1>3 DEF Packet, DhcpPackets, DhcpOffers
  <2> HIDE DEF r
  <2>3. /\ client'[t].pc = "ack" /\ client'[t].offer = offer /\ client'[t].xid = client[t].xid
        /\ \A u \in Callers : u # t => client'[u] = client[u]
    BY <2>1 DEF DhcpInv, DhcpTypeOK
  <2>4. DhcpTypeOK'
    <3>1. client'[t] \in [pc : {"idle", "offer", "ack"}, xid : Nat, offer : DhcpOffers]
      BY <1>2, <2>1, Zenon DEF DhcpInv, DhcpTypeOK
    <3>2. client' \in [Callers -> [pc : {"idle", "offer", "ack"}, xid : Nat, offer : DhcpOffers]]
      BY <2>1, <3>1 DEF DhcpInv, DhcpTypeOK
    <3> QED
      BY <2>1, <2>2, <3>2 DEF DhcpInv, DhcpTypeOK
  <2>5. OneCall'
    BY <1>3, <2>1, <2>3, Zenon DEF DhcpInv, OneCall
  <2>6. XidsFresh'
    BY <1>3, <2>1, <2>2 DEF DhcpInv, XidsFresh
  <2>7. /\ Requests(client[t].xid)' = {r}
        /\ \A x : x # client[t].xid => Requests(x)' = Requests(x)
    BY <1>3, <2>1, <2>2, <2>3 DEF Requests
  <2>8. OneRequest'
    <3>1. ASSUME NEW x \in Nat, NEW a \in Requests(x)', NEW b \in Requests(x)'
          PROVE  a.ip = b.ip /\ a.server = b.server
      <4>1. CASE x = client[t].xid
        <5>1. Requests(x)' = {r}
          BY <1>3, <2>1, <2>2, <4>1 DEF Requests
        <5> QED
          BY <5>1
      <4>2. CASE x # client[t].xid
        <5>1. Requests(x)' = Requests(x)
          BY <2>7, <4>2
        <5> QED
          BY <5>1 DEF DhcpInv, OneRequest
      <4> QED
        BY <4>1, <4>2
    <3>2. client'[t].pc = "ack" /\ client'[t].xid = client[t].xid /\ client'[t].xid < clock'
      BY <1>3, <2>1, <2>3
    <3>3. (\E q \in Requests(client[t].xid) :
             q.ip = client[t].offer.ip /\ q.server = client[t].offer.server)'
      BY <2>2, <2>3, <2>7, <3>2
    <3>4. ASSUME NEW u \in Callers, u # t
          PROVE  client'[u].pc = "idle"
      BY <1>3, <2>3, <3>4
    <3> QED
      BY <3>1, <3>2, <3>3, <3>4, Zenon DEF OneRequest
  <2>9. AcksGranted'
    <3>1. \A x : Requests(x) \subseteq Requests(x)'
      BY <2>1 DEF Requests
    <3> QED
      BY <2>1, <2>2, <3>1 DEF DhcpInv, AcksGranted
  <2>10. LeaseGranted'
    BY <1>3, <2>1, DhcpAssumption
       DEF DhcpInv, DhcpTypeOK, LeaseGranted, AddressWasGranted, NegotiationCloses, Negotiating
  <2> QED
    BY <2>4, <2>5, <2>6, <2>8, <2>9, <2>10 DEF DhcpInv
<1>5. CASE ~(offer.type = "OFFER" /\ offer.ip # 0)
  <2>1. /\ client' = [client EXCEPT ![t].offer = offer]
        /\ UNCHANGED <<interface, ether, port68, clock, granted>>
    BY <1>1, <1>2, <1>5
  <2>2. /\ client'[t].pc = "offer" /\ client'[t].xid = client[t].xid
        /\ \A u \in Callers : u # t => client'[u] = client[u]
    BY <1>1, <2>1 DEF DhcpInv, DhcpTypeOK
  <2>3. DhcpTypeOK'
    BY <1>2, <2>1 DEF DhcpInv, DhcpTypeOK
  <2>4. \A x : Requests(x)' = Requests(x)
    BY <2>1 DEF Requests
  <2>5. OneCall' /\ XidsFresh' /\ LeaseGranted'
    BY <1>1, <2>1, <2>2 DEF DhcpInv, OneCall, XidsFresh, LeaseGranted, AddressWasGranted, NegotiationCloses
  <2>6. OneRequest'
    BY <1>3, <2>1, <2>2, <2>4 DEF DhcpInv, OneRequest
  <2>7. AcksGranted'
    BY <2>1, <2>4 DEF DhcpInv, AcksGranted
  <2> QED
    BY <2>3, <2>5, <2>6, <2>7 DEF DhcpInv
<1> QED
  BY <1>4, <1>5

\* What a server sends is no request, and an acknowledgement is granted first.
LEMMA ServerKeeps ==
  ASSUME DhcpInv, NEW s \in Servers, server_offer(s) \/ server_answer(s)
  PROVE  DhcpInv'
<1> DEFINE Sent(p) ==
        /\ ether' = ether \cup {p} /\ p.type \in {"OFFER", "ACK", "NAK"} /\ p.xid < clock
        /\ granted \subseteq granted'
        /\ p.type = "ACK" => \E q \in Requests(p.xid) :
             p.ip \in {0, q.ip} /\ \E g \in granted' : g.ip = q.ip /\ g.server = q.server
<1>1. PICK p \in DhcpPackets : Sent(p)
  <2>1. CASE server_offer(s)
    <3>1. PICK d \in ether, ip \in Leases \cup {0}, mask \in {0, 16} :
            /\ ether' = ether \cup {Packet("OFFER", d.xid, ip, s, mask)}
            /\ UNCHANGED granted
      BY <2>1 DEF server_offer
    <3>2. d.xid \in Nat /\ d.xid < clock
      BY DEF DhcpInv, DhcpTypeOK, DhcpPackets, XidsFresh
    <3>3. PICK p \in DhcpPackets : /\ p = Packet("OFFER", d.xid, ip, s, mask)
                                   /\ p.type = "OFFER" /\ p.xid = d.xid
      BY <3>2, PacketTyped
    <3> QED
      BY <3>1, <3>2, <3>3
  <2>2. CASE server_answer(s)
    <3>1. PICK d \in ether :
            /\ d.type = "REQUEST" /\ d.server = s
            /\ \/ \E ip \in {0, d.ip} :
                    /\ ether' = ether \cup {Packet("ACK", d.xid, ip, s, 0)}
                    /\ granted' = granted \cup {[server |-> s, ip |-> d.ip, xid |-> d.xid]}
               \/ ether' = ether \cup {Packet("NAK", d.xid, 0, s, 0)} /\ UNCHANGED granted
      BY <2>2, Zenon DEF server_answer
    <3>2. d.xid \in Nat /\ d.xid < clock /\ d.ip \in Leases \cup {0} /\ d \in Requests(d.xid)
      BY <3>1 DEF DhcpInv, DhcpTypeOK, DhcpPackets, XidsFresh, Requests
    <3>3. CASE ether' = ether \cup {Packet("NAK", d.xid, 0, s, 0)} /\ UNCHANGED granted
      <4>1. PICK p \in DhcpPackets : /\ p = Packet("NAK", d.xid, 0, s, 0)
                                     /\ p.type = "NAK" /\ p.xid = d.xid
        <5>1. Packet("NAK", d.xid, 0, s, 0) \in DhcpPackets
          BY <3>2 DEF Packet, DhcpPackets
        <5>2. Packet("NAK", d.xid, 0, s, 0).type = "NAK" /\ Packet("NAK", d.xid, 0, s, 0).xid = d.xid
          BY DEF Packet
        <5> QED
          BY <5>1, <5>2
      <4> QED
        BY <3>2, <3>3, <4>1
    <3>4. ASSUME NEW ip \in {0, d.ip}, ether' = ether \cup {Packet("ACK", d.xid, ip, s, 0)},
                 granted' = granted \cup {[server |-> s, ip |-> d.ip, xid |-> d.xid]}
          PROVE  \E p \in DhcpPackets : Sent(p)
      <4>1. PICK p \in DhcpPackets : /\ p = Packet("ACK", d.xid, ip, s, 0)
                                     /\ p.type = "ACK" /\ p.xid = d.xid /\ p.ip = ip
        <5>1. ip \in Leases \cup {0}
          BY <3>2
        <5>2. Packet("ACK", d.xid, ip, s, 0) \in DhcpPackets
          BY <3>2, <5>1 DEF Packet, DhcpPackets
        <5>3. /\ Packet("ACK", d.xid, ip, s, 0).type = "ACK"
              /\ Packet("ACK", d.xid, ip, s, 0).xid = d.xid
              /\ Packet("ACK", d.xid, ip, s, 0).ip = ip
          BY DEF Packet
        <5> QED
          BY <5>2, <5>3
      <4>2. \E g \in granted' : g.ip = d.ip /\ g.server = d.server
        <5> DEFINE g == [server |-> s, ip |-> d.ip, xid |-> d.xid]
        <5>1. g \in granted' /\ g.ip = d.ip /\ g.server = d.server
          BY <3>1, <3>4
        <5> QED
          BY <5>1
      <4> QED
        BY <3>2, <3>4, <4>1, <4>2
    <3> QED
      BY <3>1, <3>3, <3>4
  <2> QED
    BY <2>1, <2>2
<1>2. UNCHANGED <<interface, client, port68, clock>>
  BY DEF server_offer, server_answer
<1>3. /\ \A x \in Nat : Requests(x)' = Requests(x)
      /\ XidsFresh' /\ ether' \subseteq DhcpPackets
  BY <1>1, <1>2, OtherPacket DEF DhcpInv, DhcpTypeOK
<1>4. DhcpTypeOK' /\ OneCall'
  BY <1>2, <1>3 DEF DhcpInv, DhcpTypeOK, OneCall
<1>5. OneRequest'
  BY <1>2, <1>3 DEF DhcpInv, DhcpTypeOK, OneRequest
<1>6. AcksGranted'
  <2>1. p.xid \in Nat /\ \A a \in ether : a.xid \in Nat
    BY DEF DhcpInv, DhcpTypeOK, DhcpPackets
  <2> QED
    BY <1>1, <1>3, <2>1 DEF DhcpInv, AcksGranted
<1>7. LeaseGranted'
  BY <1>1, <1>2 DEF DhcpInv, LeaseGranted, AddressWasGranted, NegotiationCloses
<1> QED
  BY <1>3, <1>4, <1>5, <1>6, <1>7 DEF DhcpInv

\* The address net_dhcp_acquire configures is one its chosen server granted,
\* and the interface is negotiating exactly while a call is, for any number of
\* callers, servers and transactions.
THEOREM LeasesAreGranted == DhcpSpec => []LeaseGranted
<1>1. DhcpInv /\ [DhcpNext]_dhcpVars => DhcpInv'
  <2> SUFFICES ASSUME DhcpInv, [DhcpNext]_dhcpVars PROVE DhcpInv'
    OBVIOUS
  <2>1. ASSUME NEW t \in Callers, dhcp_timeout(t) PROVE DhcpInv'
    <3>1. client[t].pc # "idle" /\ GiveUp(t) /\ UNCHANGED <<ether, clock, granted>>
      BY <2>1 DEF dhcp_timeout
    <3> QED
      BY <3>1, GiveUpKeeps
  <2>2. CASE UNCHANGED dhcpVars
    BY <2>2 DEF dhcpVars, DhcpInv, DhcpTypeOK, OneCall, XidsFresh, OneRequest, Requests, AcksGranted,
                LeaseGranted, AddressWasGranted, NegotiationCloses
  <2> QED
    BY <2>1, <2>2, AcquireKeeps, OfferKeeps, AckKeeps, ServerKeeps DEF DhcpNext
<1>2. DhcpInv => LeaseGranted
  BY DEF DhcpInv
<1> QED
  BY DhcpStarts, <1>1, <1>2, PTL DEF DhcpSpec

-----------------------------------------------------------------------------
(* The resolver: ports are reused at once, so that an answer is told from a  *)
(* late one by its query id alone; and the cache keeps one entry a name      *)
(* because its slots are used from the first on.                             *)

DnsName == Names \cup {NoName}
DnsTypeOK ==
  /\ dns_cache \in [CacheSlots -> [name : DnsName, address : DnsName, at : Nat]]
  /\ next_query_id \in Nat /\ order \in Nat
  /\ lookup \in [Resolvers -> [pc : {"idle", "wait"}, name : DnsName, id : Nat, port : DnsPorts \cup {0}]]
  /\ datagrams \subseteq [type : {"query", "answer"}, id : Nat, port : DnsPorts, name : Names]
  /\ answer \in [Resolvers -> [name : DnsName, address : DnsName]]

\* The next id is new to the network.
IdsIssued == \A d \in datagrams : d.id <= next_query_id

\* Whatever carries a waiting call's id is about the name it asks for.
IdMeansName ==
  \A r \in Resolvers : lookup[r].pc = "wait" =>
    /\ lookup[r].name \in Names /\ lookup[r].id <= next_query_id
    /\ \A d \in datagrams : d.id = lookup[r].id => d.name = lookup[r].name

\* No free slot before a used one: the scan of dns_cache_insert, which stops at
\* the first free slot, has then passed every entry.
SlotsFilledInOrder ==
  \A i, j \in CacheSlots : i < j /\ dns_cache[j].name # NoName => dns_cache[i].name # NoName

DnsInv == DnsTypeOK /\ IdsIssued /\ IdMeansName /\ SlotsFilledInOrder /\ NamesResolved

LEMMA DnsStarts == DnsInit => DnsInv
  BY DEF DnsInit, DnsInv, DnsTypeOK, DnsName, IdsIssued, IdMeansName, SlotsFilledInOrder,
         NamesResolved, DnsAnswersTheName, DnsCacheUnique, Vacant, NoLookup

\* The slot dns_cache_insert fills: every slot before it is in use, and no
\* other slot has the name.
LEMMA InsertSlot ==
  ASSUME DnsInv, NEW n \in Names, NEW s \in InsertionSlot(n)
  PROVE  /\ s \in CacheSlots
         /\ \A i \in CacheSlots : i < s => dns_cache[i].name # NoName
         /\ \A i \in CacheSlots : dns_cache[i].name = n => i = s
<1> DEFINE ends == {i \in CacheSlots : dns_cache[i].name \in {n, NoName}}
           oldest == {i \in CacheSlots : \A j \in CacheSlots : dns_cache[i].at <= dns_cache[j].at}
<1>1. CacheSlots \subseteq Nat /\ NoName \notin Names
  BY DnsAssumption DEF CacheSlots
<1>2. InsertionSlot(n) = IF ends # {} THEN First(ends) ELSE First(oldest)
  BY DEF InsertionSlot
<1>3. CASE ends # {}
  <2>1. s \in ends /\ \A y \in ends : s <= y
    <3> HIDE DEF ends, oldest
    <3> QED
      BY <1>2, <1>3 DEF First
  <2>2. s \in CacheSlots /\ dns_cache[s].name \in {n, NoName}
    BY <2>1
  <2>3. \A i \in CacheSlots : i < s => dns_cache[i].name \notin {n, NoName}
    <3>1. \A i \in CacheSlots : i < s => i \notin ends
      <4> HIDE DEF ends
      <4> QED
        BY <2>1, <2>2, <1>1
    <3> QED
      BY <3>1
  <2>4. ASSUME NEW i \in CacheSlots, dns_cache[i].name = n
        PROVE  i = s
    <3>1. s <= i /\ n # NoName
      BY <2>1, <2>4, <1>1
    <3>2. CASE dns_cache[s].name = n
      BY <3>1, <3>2, <2>2, <2>4 DEF DnsInv, NamesResolved, DnsCacheUnique
    <3>3. CASE dns_cache[s].name = NoName
      <4>1. ~(s < i)
        BY <3>1, <3>3, <2>2, <2>4 DEF DnsInv, SlotsFilledInOrder
      <4> QED
        BY <4>1, <3>1, <2>2, <1>1
    <3> QED
      BY <3>2, <3>3, <2>2
  <2> QED
    BY <2>2, <2>3, <2>4
<1>4. CASE ends = {}
  <2>1. s \in CacheSlots
    <3>1. s \in oldest
      <4> HIDE DEF ends, oldest
      <4> QED
        BY <1>2, <1>4 DEF First
    <3> QED
      BY <3>1
  <2>2. \A i \in CacheSlots : dns_cache[i].name \notin {n, NoName}
    BY <1>4
  <2> QED
    BY <2>1, <2>2
<1> QED
  BY <1>3, <1>4

\* net_dns_resolve, from the cache or by a query under a fresh id.
LEMMA ResolveKeeps ==
  ASSUME DnsInv, NEW r \in Resolvers, net_dns_resolve(r)
  PROVE  DnsInv'
<1>1. PICK n \in Names, port \in DnsPorts :
        /\ lookup[r].pc = "idle"
        /\ \/ /\ \E hit \in First(Cached(n)) :
                   answer' = [answer EXCEPT ![r] = [name |-> n, address |-> dns_cache[hit].address]]
              /\ UNCHANGED <<next_query_id, lookup, datagrams>>
           \/ /\ Cached(n) = {} /\ next_query_id < Lookups
              /\ next_query_id' = next_query_id + 1
              /\ lookup' = [lookup EXCEPT ![r] =
                   [pc |-> "wait", name |-> n, id |-> next_query_id + 1, port |-> port]]
              /\ datagrams' = datagrams \cup
                   {[type |-> "query", id |-> next_query_id + 1, port |-> port, name |-> n]}
              /\ UNCHANGED answer
        /\ UNCHANGED <<dns_cache, order>>
  BY DEF net_dns_resolve
<1>2. CASE /\ \E hit \in First(Cached(n)) :
                answer' = [answer EXCEPT ![r] = [name |-> n, address |-> dns_cache[hit].address]]
           /\ UNCHANGED <<next_query_id, lookup, datagrams>>
  <2>1. PICK hit \in First(Cached(n)) :
          answer' = [answer EXCEPT ![r] = [name |-> n, address |-> dns_cache[hit].address]]
    BY <1>2, Zenon
  <2>2. hit \in CacheSlots /\ dns_cache[hit].name = n
    BY DEF First, Cached
  <2>3. dns_cache[hit].address = n
    BY <2>2 DEF DnsInv, NamesResolved, DnsAnswersTheName
  <2>4. answer' = [answer EXCEPT ![r] = [name |-> n, address |-> n]]
    BY <2>1, <2>3
  <2>5. DnsTypeOK'
    BY <1>1, <1>2, <2>4 DEF DnsInv, DnsTypeOK, DnsName
  <2>6. NamesResolved'
    BY <1>1, <1>2, <2>4 DEF DnsInv, DnsTypeOK, NamesResolved, DnsAnswersTheName, DnsCacheUnique
  <2> QED
    BY <1>1, <1>2, <2>5, <2>6 DEF DnsInv, IdsIssued, IdMeansName, SlotsFilledInOrder
<1>3. CASE /\ next_query_id' = next_query_id + 1
           /\ lookup' = [lookup EXCEPT ![r] =
                [pc |-> "wait", name |-> n, id |-> next_query_id + 1, port |-> port]]
           /\ datagrams' = datagrams \cup
                {[type |-> "query", id |-> next_query_id + 1, port |-> port, name |-> n]}
           /\ UNCHANGED answer
  <2>1. DnsTypeOK'
    BY <1>1, <1>3 DEF DnsInv, DnsTypeOK, DnsName
  <2>2. IdsIssued'
    <3> DEFINE query == [type |-> "query", id |-> next_query_id + 1, port |-> port, name |-> n]
    <3>1. next_query_id \in Nat /\ \A d \in datagrams : d.id \in Nat /\ d.id <= next_query_id
      BY DEF DnsInv, DnsTypeOK, IdsIssued
    <3>2. datagrams' = datagrams \cup {query} /\ query.id = next_query_id + 1
      BY <1>3
    <3> HIDE DEF query
    <3> QED
      BY <3>1, <3>2, <1>3 DEF IdsIssued
  <2>3. ASSUME NEW q \in Resolvers, lookup'[q].pc = "wait"
        PROVE  /\ lookup'[q].name \in Names /\ lookup'[q].id <= next_query_id'
               /\ \A d \in datagrams' : d.id = lookup'[q].id => d.name = lookup'[q].name
    <3>1. CASE q = r
      <4>1. lookup'[r].id = next_query_id + 1 /\ lookup'[r].name = n
        BY <1>3 DEF DnsInv, DnsTypeOK
      <4>2. \A d \in datagrams : d.id # next_query_id + 1
        BY DEF DnsInv, DnsTypeOK, IdsIssued
      <4> QED
        BY <3>1, <4>1, <4>2, <1>3 DEF DnsInv, DnsTypeOK
    <3>2. CASE q # r
      <4>1. lookup'[q] = lookup[q] /\ lookup[q].id \in Nat
        BY <3>2, <1>3 DEF DnsInv, DnsTypeOK
      <4> QED
        BY <4>1, <2>3, <1>3 DEF DnsInv, DnsTypeOK, IdMeansName
    <3> QED
      BY <3>1, <3>2
  <2>4. IdMeansName'
    BY <2>3 DEF IdMeansName
  <2> QED
    BY <1>1, <1>3, <2>1, <2>2, <2>4
       DEF DnsInv, SlotsFilledInOrder, NamesResolved, DnsAnswersTheName, DnsCacheUnique
<1> QED
  BY <1>1, <1>2, <1>3

\* An answer is returned and cached under the name asked for.
LEMMA AnsweredKeeps ==
  ASSUME DnsInv, NEW r \in Resolvers, dns_answered(r)
  PROVE  DnsInv'
<1>1. PICK d \in datagrams :
        /\ lookup[r].pc = "wait" /\ MyAnswer(r, d)
        /\ answer' = [answer EXCEPT ![r] = [name |-> lookup[r].name, address |-> d.name]]
        /\ dns_cache_insert(lookup[r].name, d.name)
        /\ lookup' = [lookup EXCEPT ![r] = NoLookup]
        /\ UNCHANGED <<next_query_id, datagrams>>
  BY Zenon DEF dns_answered
<1>2. PICK n \in Names : n = lookup[r].name
  BY <1>1 DEF DnsInv, IdMeansName
<1>3. d.name = n
  BY <1>1, <1>2 DEF MyAnswer, DnsInv, IdMeansName
<1>a. /\ \E s \in InsertionSlot(n) :
           dns_cache' = [dns_cache EXCEPT ![s] = [name |-> n, address |-> n, at |-> order + 1]]
      /\ order' = order + 1
      /\ answer' = [answer EXCEPT ![r] = [name |-> n, address |-> n]]
  BY <1>1, <1>2, <1>3, Zenon DEF dns_cache_insert
<1>4. PICK s \in CacheSlots :
        /\ dns_cache' = [dns_cache EXCEPT ![s] = [name |-> n, address |-> n, at |-> order + 1]]
        /\ \A i \in CacheSlots : i < s => dns_cache[i].name # NoName
        /\ \A i \in CacheSlots : dns_cache[i].name = n => i = s
  BY <1>a, InsertSlot, Zenon
<1>5. /\ dns_cache' = [dns_cache EXCEPT ![s] = [name |-> n, address |-> n, at |-> order + 1]]
      /\ order' = order + 1
      /\ answer' = [answer EXCEPT ![r] = [name |-> n, address |-> n]]
  BY <1>a, <1>4, Zenon
<1>6. n # NoName /\ CacheSlots \subseteq Nat
  BY DnsAssumption DEF CacheSlots
<1>7. DnsTypeOK'
  <2>1. NoLookup \in [pc : {"idle", "wait"}, name : DnsName, id : Nat, port : DnsPorts \cup {0}]
    BY DEF NoLookup, DnsName
  <2>2. lookup' \in [Resolvers -> [pc : {"idle", "wait"}, name : DnsName, id : Nat, port : DnsPorts \cup {0}]]
    BY <2>1, <1>1 DEF DnsInv, DnsTypeOK
  <2>3. dns_cache' \in [CacheSlots -> [name : DnsName, address : DnsName, at : Nat]]
    BY <1>5 DEF DnsInv, DnsTypeOK, DnsName
  <2>4. answer' \in [Resolvers -> [name : DnsName, address : DnsName]]
    BY <1>5 DEF DnsInv, DnsTypeOK, DnsName
  <2> QED
    BY <1>1, <1>5, <2>2, <2>3, <2>4 DEF DnsInv, DnsTypeOK
<1>8. IdsIssued'
  BY <1>1 DEF DnsInv, IdsIssued
<1>9. IdMeansName'
  <2>1. \A q \in Resolvers : lookup'[q].pc = "wait" => lookup'[q] = lookup[q] /\ lookup[q].pc = "wait"
    BY <1>1 DEF DnsInv, DnsTypeOK, NoLookup
  <2> QED
    BY <2>1, <1>1 DEF DnsInv, IdMeansName
<1>10. \A i \in CacheSlots : i # s => dns_cache'[i] = dns_cache[i]
  BY <1>5 DEF DnsInv, DnsTypeOK
<1>11. dns_cache'[s].name = n /\ dns_cache'[s].address = n
  BY <1>5 DEF DnsInv, DnsTypeOK
<1>12. SlotsFilledInOrder'
  <2> SUFFICES ASSUME NEW i \in CacheSlots, NEW j \in CacheSlots, i < j, dns_cache'[j].name # NoName
               PROVE  dns_cache'[i].name # NoName
    BY DEF SlotsFilledInOrder
  <2>1. CASE i = s
    BY <2>1, <1>11, <1>6
  <2>2. CASE i # s /\ j = s
    BY <2>2, <1>4, <1>10
  <2>3. CASE i # s /\ j # s
    BY <2>3, <1>10 DEF DnsInv, SlotsFilledInOrder
  <2> QED
    BY <2>1, <2>2, <2>3
<1>13. DnsCacheUnique'
  <2> SUFFICES ASSUME NEW i \in CacheSlots, NEW j \in CacheSlots,
                      dns_cache'[i].name = dns_cache'[j].name, dns_cache'[i].name # NoName
               PROVE  i = j
    BY DEF DnsCacheUnique
  <2>1. CASE i = s /\ j # s
    BY <2>1, <1>4, <1>10, <1>11
  <2>2. CASE i # s /\ j = s
    BY <2>2, <1>4, <1>10, <1>11
  <2>3. CASE i # s /\ j # s
    BY <2>3, <1>10 DEF DnsInv, NamesResolved, DnsCacheUnique
  <2> QED
    BY <2>1, <2>2, <2>3
<1>14. DnsAnswersTheName'
  <2>1. \A q \in Resolvers : answer'[q].address = answer'[q].name
    BY <1>5 DEF DnsInv, DnsTypeOK, NamesResolved, DnsAnswersTheName
  <2>2. \A i \in CacheSlots : dns_cache'[i].address = dns_cache'[i].name
    BY <1>10, <1>11 DEF DnsInv, NamesResolved, DnsAnswersTheName
  <2> QED
    BY <2>1, <2>2 DEF DnsAnswersTheName
<1> QED
  BY <1>7, <1>8, <1>9, <1>12, <1>13, <1>14 DEF DnsInv, NamesResolved

LEMMA TimeoutKeeps ==
  ASSUME DnsInv, NEW r \in Resolvers, dns_timeout(r)
  PROVE  DnsInv'
<1>1. NoLookup \in [pc : {"idle", "wait"}, name : DnsName, id : Nat, port : DnsPorts \cup {0}]
  BY DEF NoLookup, DnsName
<1>2. DnsTypeOK'
  BY <1>1 DEF dns_timeout, DnsInv, DnsTypeOK
<1>3. \A q \in Resolvers : lookup'[q].pc = "wait" => lookup'[q] = lookup[q] /\ lookup[q].pc = "wait"
  BY DEF dns_timeout, DnsInv, DnsTypeOK, NoLookup
<1>4. IdMeansName'
  BY <1>3 DEF dns_timeout, DnsInv, IdMeansName
<1> QED
  BY <1>2, <1>4
     DEF dns_timeout, DnsInv, IdsIssued, SlotsFilledInOrder, NamesResolved, DnsAnswersTheName, DnsCacheUnique

\* The server's answer has the id and the name of the query.
LEMMA DnsServerKeeps ==
  ASSUME DnsInv, dns_server
  PROVE  DnsInv'
<1>1. PICK d \in datagrams :
        /\ datagrams' = datagrams \cup {[d EXCEPT !.type = "answer"]}
        /\ UNCHANGED <<dns_cache, next_query_id, lookup, order, answer>>
  BY DEF dns_server
<1>2. d \in [type : {"query", "answer"}, id : Nat, port : DnsPorts, name : Names]
  BY DEF DnsInv, DnsTypeOK
<1> DEFINE copy == [d EXCEPT !.type = "answer"]
<1>a. copy \in [type : {"query", "answer"}, id : Nat, port : DnsPorts, name : Names]
  BY <1>2
<1>b. copy.id = d.id /\ copy.name = d.name
  BY <1>2
<1>3. PICK e \in [type : {"query", "answer"}, id : Nat, port : DnsPorts, name : Names] :
        e = copy /\ e.id = d.id /\ e.name = d.name
  <2> HIDE DEF copy
  <2> QED
    BY <1>a, <1>b
<1>4. datagrams' = datagrams \cup {e}
  BY <1>1, <1>3
<1>5. DnsTypeOK'
  BY <1>1, <1>4 DEF DnsInv, DnsTypeOK
<1>6. IdsIssued'
  BY <1>1, <1>3, <1>4 DEF DnsInv, IdsIssued
<1>7. IdMeansName'
  BY <1>1, <1>3, <1>4 DEF DnsInv, IdMeansName
<1> QED
  BY <1>1, <1>5, <1>6, <1>7
     DEF DnsInv, SlotsFilledInOrder, NamesResolved, DnsAnswersTheName, DnsCacheUnique

\* net_dns_resolve returns the address of the name it was asked for, and the
\* cache holds a name once, for any number of threads, names and ports, as long
\* as no more than 65535 queries are sent.
THEOREM NamesAreResolved == DnsSpec => []NamesResolved
<1>1. DnsInv /\ [DnsNext]_dnsVars => DnsInv'
  <2> SUFFICES ASSUME DnsInv, [DnsNext]_dnsVars
               PROVE  DnsInv'
    OBVIOUS
  <2>1. CASE UNCHANGED dnsVars
    BY <2>1 DEF dnsVars, DnsInv, DnsTypeOK, IdsIssued, IdMeansName, SlotsFilledInOrder,
                NamesResolved, DnsAnswersTheName, DnsCacheUnique
  <2>2. CASE \E r \in Resolvers : net_dns_resolve(r) \/ dns_answered(r) \/ dns_timeout(r)
    BY <2>2, ResolveKeeps, AnsweredKeeps, TimeoutKeeps
  <2> QED
    BY <2>1, <2>2, DnsServerKeeps DEF DnsNext
<1>2. DnsInv => NamesResolved
  BY DEF DnsInv
<1> QED
  BY <1>1, <1>2, DnsStarts, PTL DEF DnsSpec
=============================================================================
