-------------------------------- MODULE Tls --------------------------------
(* The TLS client of net/tls.c: handshake, record layer, application data.
   Cryptography is ideal: a key is named by what it is derived from (the
   phase, the direction and the transcript so far), and a record opens only
   under the key and sequence number it was sealed with.  The server and the
   damage a record may suffer on its way are external. *)
EXTENDS Naturals, SequencesExt

CONSTANTS Flights,   \* the server's handshake records after ServerHello
          Payloads,  \* lengths of application data
          Chunk,     \* 1400: the most one record carries
          Capacity,  \* the buffer given to net_tls_recv
          TlsCalls   \* bound on records the server sends and calls the client makes

VARIABLES session,  \* struct net_tls_session
          down,     \* what tcp_receive will return: header halves and bodies
          up,       \* records tcp_send took, oldest first
          server,   \* the server's half of the connection
          opened,   \* what net_tls_recv returned
          tlsCalls
tlsVars == <<session, down, up, server, opened, tlsCalls>>

NoKey == <<"none">>
NoKeys == [client |-> NoKey, server |-> NoKey]

derive_handshake_secrets(transcript) ==
  [client |-> <<"hs", "c", transcript>>, server |-> <<"hs", "s", transcript>>]
derive_application_secrets(transcript) ==
  [client |-> <<"app", "c", transcript>>, server |-> <<"app", "s", transcript>>]

TlsInit ==
  /\ session \in {[state |-> "IDLE", insecure |-> i, transcript |-> <<>>, chain |-> "none",
                   handshake |-> NoKeys, app |-> NoKeys, client_seq |-> 0, server_seq |-> 0]
                    : i \in BOOLEAN}
  /\ down = <<>> /\ up = <<>> /\ opened = <<>> /\ tlsCalls = 0
  /\ server = [state |-> "listen", transcript |-> <<>>, flight |-> <<>>,
               handshake |-> 0, app |-> 0, data |-> <<>>, seen |-> 0]

-----------------------------------------------------------------------------
(* Records and transport *)

encrypt_record(key, seq, type, body) == [key |-> key, seq |-> seq, type |-> type, body |-> body]
Plain(type, body) == encrypt_record(NoKey, 0, type, body)
build_client_hello == Plain("handshake", <<"CH">>)

(* A record on its way: two halves of its header, and the rest. *)
Units(record) == <<[part |-> "h1", of |-> record], [part |-> "h2", of |-> record],
                   [part |-> "body", of |-> record]>>

(* socket_read_exact of a record: n units have come before its time is up
   (3 is all of it).  What was read is gone either way. *)
socket_read_exact(n) ==
  /\ n <= Len(down) /\ n <= 3
  /\ down' = SubSeq(down, n + 1, Len(down))

(* What was read is a record only if it starts where one starts. *)
Aligned == /\ Len(down) >= 3 /\ down[1].part = "h1"
           /\ down[2].part = "h2" /\ down[3].part = "body"
Arrived == down[1].of

decrypt_record(record, key, seq) == record.key = key /\ record.seq = seq

Failed == session' = [session EXCEPT !.state = "FAILED"]

-----------------------------------------------------------------------------
(* The handshake *)

net_tls_client_hello ==
  /\ session.state = "IDLE"
  /\ \/ /\ session' = [session EXCEPT !.state = "SERVER_HELLO", !.transcript = <<"CH">>]
        /\ up' = Append(up, build_client_hello)
     \/ Failed /\ UNCHANGED up
  /\ UNCHANGED <<down, server, opened, tlsCalls>>

(* ServerHello: a plaintext handshake record with a usable key share. *)
net_tls_server_hello ==
  /\ session.state = "SERVER_HELLO"
  /\ \E n \in 0 .. 3 :
       /\ socket_read_exact(n)
       /\ IF n = 3 /\ Arrived.body = <<"SH">>
          THEN LET transcript == Append(session.transcript, "SH")
               IN session' = [session EXCEPT !.state = "ENCRYPTED", !.transcript = transcript,
                                !.handshake = derive_handshake_secrets(transcript), !.server_seq = 0, !.client_seq = 0]
          ELSE Failed
  /\ UNCHANGED <<up, server, opened, tlsCalls>>

(* The messages of a decrypted record that the client knows go into the
   transcript, others are passed over; Finished must carry the transcript
   before it. *)
Message(s, m) ==
  IF s.state = "FAILED" THEN s
  ELSE CASE m.name = "FIN" -> IF m.mac = s.transcript
                              THEN [s EXCEPT !.state = "FINISHED", !.transcript = Append(@, "FIN")]
                              ELSE [s EXCEPT !.state = "FAILED"]
         [] m.name = "CERT" -> [s EXCEPT !.transcript = Append(@, "CERT"), !.chain = m.chain]
         [] m.name \in {"EE", "CV"} -> [s EXCEPT !.transcript = Append(@, m.name)]
         [] OTHER -> s

HandshakeRecord(s, record) == FoldLeft(Message, s, record.body)

net_tls_handshake_record ==
  /\ session.state = "ENCRYPTED"
  /\ \E n \in 0 .. 3 :
       /\ socket_read_exact(n)
       /\ IF n < 3 THEN Failed
          ELSE IF Arrived.type = "ccs" THEN UNCHANGED session
          ELSE IF ~decrypt_record(Arrived, session.handshake.server, session.server_seq)
          THEN Failed
          ELSE session' = HandshakeRecord([session EXCEPT !.server_seq = @ + 1], Arrived)
  /\ UNCHANGED <<up, server, opened, tlsCalls>>

\* Mutant: the application keys are derived before the server's Finished is
\* part of the transcript.
EstablishedEarly(s) ==
  [s EXCEPT !.state = "ESTABLISHED", !.app = derive_application_secrets(Front(s.transcript)),
              !.client_seq = 0, !.server_seq = 0]

Established(s) ==
  [s EXCEPT !.state = "ESTABLISHED", !.app = derive_application_secrets(s.transcript),
             !.client_seq = 0, !.server_seq = 0]

(* The chain is verified, the application keys derived, the client's
   Finished sent. *)
net_tls_finish ==
  /\ session.state = "FINISHED"
  /\ IF ~session.insecure /\ session.chain = "bad"
     THEN Failed /\ UNCHANGED up
     ELSE \/ Failed /\ UNCHANGED up
          \/ /\ session' = Established(session)
             /\ up' = Append(up, encrypt_record(session.handshake.client, session.client_seq,
                                        "handshake", <<"CFIN", session.transcript>>))
  /\ UNCHANGED <<down, server, opened, tlsCalls>>

-----------------------------------------------------------------------------
(* Application data *)

Records(length) == (length + Chunk - 1) \div Chunk

net_tls_send(length) ==
  LET seal(k) == encrypt_record(session.app.client, session.client_seq + k - 1, "data",
                        IF k < Records(length) THEN Chunk ELSE length - (Chunk * (k - 1)))
  IN /\ session.state = "ESTABLISHED" /\ tlsCalls < TlsCalls /\ tlsCalls' = tlsCalls + 1
     /\ \E sent \in 1 .. Records(length) :  \* tcp_send may fail before the last
          /\ up' = up \o [k \in 1 .. sent |-> seal(k)]
          /\ session' = [session EXCEPT !.client_seq = @ + sent]
     /\ UNCHANGED <<down, server, opened>>

(* A record that does not come in time leaves the session as it is, and
   what was read of it lost. *)
net_tls_recv ==
  /\ session.state = "ESTABLISHED"
  /\ \E n \in 1 .. 3 :
       /\ socket_read_exact(n)
       /\ IF n < 3 THEN UNCHANGED <<session, opened>>
          ELSE LET good == /\ Aligned
                           /\ decrypt_record(Arrived, session.app.server, session.server_seq)
               IN /\ session' = [session EXCEPT !.server_seq = @ + 1,
                                   !.state = IF good /\ Arrived.type = "alert" THEN "CLOSED" ELSE @]
                  /\ opened' = IF good /\ Arrived.type # "alert"
                               THEN Append(opened, [seq |-> session.server_seq,
                                      length |-> IF Arrived.body < Capacity THEN Arrived.body ELSE Capacity])
                               ELSE opened
  /\ UNCHANGED <<up, server, tlsCalls>>

net_tls_close ==
  /\ session.state = "ESTABLISHED"
  /\ up' = Append(up, encrypt_record(session.app.client, session.client_seq, "alert", 0))
  /\ session' = [session EXCEPT !.client_seq = @ + 1, !.state = "CLOSED"]
  /\ UNCHANGED <<down, server, opened, tlsCalls>>

-----------------------------------------------------------------------------
(* The server and the network *)

server_hello ==
  /\ server.state = "listen" /\ up # <<>>
  /\ \E hello \in {"SH", "NoKeyShare"}, flight \in Flights :
       /\ server' = [server EXCEPT !.state = "flight", !.transcript = <<"CH", "SH">>,
                       !.flight = flight, !.seen = 1]
       /\ down' = Units(Plain("handshake", <<hello>>))
  /\ UNCHANGED <<session, up, opened, tlsCalls>>

server_flight ==
  LET Sent(acc, m) == [transcript |-> Append(acc.transcript, m.name),
                       body |-> Append(acc.body, IF m.name = "FIN"
                                  THEN [name |-> "FIN", mac |-> acc.transcript] ELSE m)]
      record == Head(server.flight)
      sent == FoldLeft(Sent, [transcript |-> server.transcript, body |-> <<>>], record)
  IN /\ server.state = "flight" /\ server.flight # <<>>
     /\ IF record[1].name = "CCS"
        THEN /\ down' = down \o Units(Plain("ccs", <<>>))
             /\ server' = [server EXCEPT !.flight = Tail(@)]
        ELSE /\ down' = down \o Units(encrypt_record(derive_handshake_secrets(<<"CH", "SH">>).server, server.handshake,
                                             "handshake", sent.body))
             /\ server' = [server EXCEPT !.flight = Tail(@), !.handshake = @ + 1,
                             !.transcript = sent.transcript]
     /\ UNCHANGED <<session, up, opened, tlsCalls>>

server_data ==
  /\ server.state = "flight" /\ server.flight = <<>> /\ tlsCalls < TlsCalls
  /\ \E type \in {"data", "alert"}, length \in Payloads :
       /\ down' = down \o Units(encrypt_record(derive_application_secrets(server.transcript).server, server.app, type, length))
       /\ server' = [server EXCEPT !.app = @ + 1, !.data = Append(@, length)]
  /\ tlsCalls' = tlsCalls + 1
  /\ UNCHANGED <<session, up, opened>>

Damage ==
  /\ tlsCalls < TlsCalls /\ tlsCalls' = tlsCalls + 1
  /\ \E i \in DOMAIN down : down' = [down EXCEPT ![i].of.key = <<"damaged">>]
  /\ UNCHANGED <<session, up, server, opened>>

TlsNext ==
  \/ net_tls_client_hello \/ net_tls_server_hello \/ net_tls_handshake_record \/ net_tls_finish
  \/ \E length \in Payloads : net_tls_send(length)
  \/ net_tls_recv \/ net_tls_close
  \/ server_hello \/ server_flight \/ server_data \/ Damage

-----------------------------------------------------------------------------
(* Properties *)

(* An established session has the keys the server has, from the same
   transcript; no two records are ever sealed with the same key and sequence
   number; and what net_tls_recv returns are the server's records, each at
   most once, in order, with its own data cut to the caller's buffer,
   whatever was damaged or timed out. *)
TlsFaithful ==
  /\ session.state = "ESTABLISHED" =>
       session.app = derive_application_secrets(server.transcript)
  /\ \A i, j \in DOMAIN up : i # j /\ up[i].key # NoKey =>
       <<up[i].key, up[i].seq>> # <<up[j].key, up[j].seq>>
  /\ \A i \in DOMAIN opened :
       /\ i > 1 => opened[i - 1].seq < opened[i].seq
       /\ LET length == server.data[opened[i].seq + 1]
          IN opened[i].length = IF length < Capacity THEN length ELSE Capacity
=============================================================================
