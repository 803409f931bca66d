-------------------------------- MODULE Icmp --------------------------------
(* Echo requests and replies of net/icmp.c.  One global ping_waiter stands for
   the ping in progress; whoever polls the network delivers packets to it.  The
   peers and the network are external: a packet once sent may be delivered any
   number of times, at any time or never, and damaged. *)
EXTENDS Naturals, FiniteSets

CONSTANTS PingHosts,  \* the peers
          Numbers,    \* sequence numbers; the ping command starts again at the first
          PingTimeout,
          Pings,      \* bound on pings
          LastPingTick

VARIABLES ping_waiter,
          ping,   \* net_icmp_ping in progress
          air,    \* packets sent so far
          time,   \* timer_ticks
          heard,  \* the packet that ended the wait
          result, \* what the last ping returned
          pings

Us == "us"
ASSUME IcmpAssumption == Us \notin PingHosts

icmpVars == <<ping_waiter, ping, air, time, heard, result, pings>>

EchoPacket(type, from, to, seq, tag) ==
  [type |-> type, from |-> from, to |-> to, seq |-> seq, tag |-> tag]
NoPacket == EchoPacket("none", Us, Us, 0, 0)
NoPing == [at |-> "idle", to |-> Us, seq |-> 0, started |-> 0]
NoResult == [ok |-> FALSE, to |-> Us, seq |-> 0, tag |-> 0, rtt |-> 0]

IcmpInit ==
  /\ ping_waiter = [waiting |-> FALSE, reply_received |-> FALSE, destination |-> Us,
                    sequence |-> 0, sent_at_tick |-> 0, round_trip_ticks |-> 0]
  /\ ping = NoPing /\ air = {} /\ time = 0 /\ heard = NoPacket /\ result = NoResult
  /\ pings = 0

-----------------------------------------------------------------------------
(* net_icmp_ping up to its net_ipv4_send, which may poll while it resolves. *)
net_icmp_ping(host, seq) ==
  /\ ping.at = "idle" /\ ~ping_waiter.waiting /\ pings < Pings
  /\ pings' = pings + 1
  /\ ping_waiter' = [waiting |-> TRUE, reply_received |-> FALSE, destination |-> host,
                     sequence |-> seq, sent_at_tick |-> time, round_trip_ticks |-> 0]
  /\ ping' = [at |-> "send", to |-> host, seq |-> seq, started |-> 0]
  /\ heard' = NoPacket /\ result' = NoResult
  /\ UNCHANGED <<air, time>>

PingFails == ping' = NoPing /\ ping_waiter' = [ping_waiter EXCEPT !.waiting = FALSE]

Send(works) ==
  /\ ping.at = "send"
  /\ IF works THEN /\ air' = air \cup {EchoPacket("request", Us, ping.to, ping.seq, pings)}
                   /\ ping' = [ping EXCEPT !.at = "wait", !.started = time]
                   /\ UNCHANGED ping_waiter
              ELSE PingFails /\ UNCHANGED air
  /\ UNCHANGED <<time, heard, result, pings>>

ReplySeen ==
  /\ ping.at = "wait" /\ time - ping.started < PingTimeout
  /\ ping_waiter.reply_received
  /\ ping' = NoPing /\ ping_waiter' = [ping_waiter EXCEPT !.waiting = FALSE]
  /\ result' = [ok |-> TRUE, to |-> ping.to, seq |-> ping.seq, tag |-> pings,
                rtt |-> ping_waiter.round_trip_ticks]
  /\ UNCHANGED <<air, time, heard, pings>>

TimesOut ==
  /\ ping.at = "wait" /\ time - ping.started >= PingTimeout
  /\ PingFails
  /\ UNCHANGED <<air, time, heard, result, pings>>

-----------------------------------------------------------------------------
(* net_icmp_receive *)

MatchesAnyReply(p) == ping_waiter.waiting /\ p.from = ping_waiter.destination
MatchesWaiter(p) == /\ ping_waiter.waiting
              /\ p.from = ping_waiter.destination /\ p.seq = ping_waiter.sequence

icmp_send_echo_reply(p) == EchoPacket("reply", p.to, p.from, p.seq, p.tag)

net_icmp_receive(p, intact) ==
  /\ p \in air /\ p.to = Us
  /\ air' = IF intact /\ p.type = "request" THEN air \cup {icmp_send_echo_reply(p)} ELSE air
  /\ IF intact /\ p.type = "reply" /\ MatchesWaiter(p)
       THEN /\ ping_waiter' = [ping_waiter EXCEPT
                                 !.round_trip_ticks = time - ping_waiter.sent_at_tick,
                                 !.reply_received = TRUE]
            /\ heard' = p
       ELSE UNCHANGED <<ping_waiter, heard>>
  /\ UNCHANGED <<ping, time, result, pings>>

(* The peers answer what reaches them and send requests of their own. *)
PeerReplies(p) ==
  /\ p \in air /\ p.to # Us /\ p.type = "request"
  /\ air' = air \cup {EchoPacket("reply", p.to, p.from, p.seq, p.tag)}
  /\ UNCHANGED <<ping_waiter, ping, time, heard, result, pings>>
PeerAsks(host) ==
  /\ air' = air \cup {EchoPacket("request", host, Us, 0, 0)}
  /\ UNCHANGED <<ping_waiter, ping, time, heard, result, pings>>

PingTick == /\ time < LastPingTick /\ time' = time + 1
            /\ UNCHANGED <<ping_waiter, ping, air, heard, result, pings>>

IcmpNext ==
  \/ \E host \in PingHosts, seq \in Numbers : net_icmp_ping(host, seq)
  \/ \E works \in BOOLEAN : Send(works)
  \/ ReplySeen \/ TimesOut \/ PingTick
  \/ \E p \in air, intact \in BOOLEAN : net_icmp_receive(p, intact)
  \/ \E p \in air : PeerReplies(p)
  \/ \E host \in PingHosts : PeerAsks(host)

IcmpSpec == IcmpInit /\ [][IcmpNext]_icmpVars

-----------------------------------------------------------------------------
(* Properties *)

(* A ping that succeeds heard a reply of the host it asked to a request with
   its sequence number, within its time, and its own request unless an earlier
   ping asked that host with the same number. *)
PingsAnswered ==
  result.ok =>
    /\ heard.type = "reply" /\ heard.from = result.to /\ heard.seq = result.seq
    /\ heard.tag # result.tag => EchoPacket("request", Us, result.to, result.seq, heard.tag) \in air
    /\ result.rtt <= time

(* However a ping ends the waiter is free for the next one, and requests of
   peers are answered to them and unchanged. *)
WaiterFreed ==
  /\ ping_waiter.waiting <=> ping.at # "idle"
  /\ \A p \in air : p.from = Us /\ p.type = "reply" =>
       EchoPacket("request", p.to, Us, p.seq, p.tag) \in air

(* net_icmp_ping is sound: both of the above. *)
PingsSound == PingsAnswered /\ WaiterFreed
=============================================================================
