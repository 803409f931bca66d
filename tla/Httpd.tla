------------------------------- MODULE Httpd -------------------------------
(* The web server of net/httpd.c.  httpd_poll runs at the end of every
   net_poll, and the tcp_receive and tcp_send it makes call net_poll while they
   wait: a poll may find another one unfinished below it on the stack.  The
   dashboard page is rendered into one static buffer and goes out in segments. *)
EXTENDS Naturals, FiniteSets, SequencesExt

CONSTANTS Clients,   \* connections that may arrive
          ListenPorts,  \* ports httpd_start is asked for
          Segments,  \* segments of the dashboard page
          Nesting    \* bound on polls in progress

VARIABLES httpd,    \* running, port and the port listened on (0: no socket)
          stack,    \* polls in progress, the innermost first
          conns,    \* state of each connection
          body,     \* the static buffer: the rendering in it
          renders,  \* renderings so far
          out,      \* what each client was sent, after the header
          shared,   \* clients whose dashboard was in progress at another's
          httpd_requests_count
httpdVars == <<httpd, stack, conns, body, renders, out, shared, httpd_requests_count>>

Pages == {"dashboard", "sysinfo", "netinfo", "204", "404"}

HttpdInit ==
  /\ httpd = [running |-> FALSE, port |-> 0, listen |-> 0]
  /\ stack = <<>> /\ conns = [c \in Clients |-> "none"]
  /\ body = 0 /\ renders = 0 /\ out = [c \in Clients |-> <<>>] /\ shared = {}
  /\ httpd_requests_count = 0

(* tcp_close of the listener leaves the connections in its backlog in use. *)
Abandoned == [c \in Clients |-> IF conns[c] = "queued" THEN "abandoned" ELSE conns[c]]
StoppedHttpd == [httpd EXCEPT !.running = FALSE, !.listen = 0]

(* The terminal runs the command between polls, with a port other than 0;
   tcp_listen fails when no TCP socket is free. *)
httpd_start(port, works) ==
  /\ stack = <<>> /\ ~(httpd.running /\ httpd.port = port)
  /\ httpd' = IF works THEN [running |-> TRUE, port |-> port, listen |-> port]
              ELSE StoppedHttpd
  /\ conns' = Abandoned
  /\ UNCHANGED <<stack, body, renders, out, shared, httpd_requests_count>>

httpd_stop ==
  /\ stack = <<>> /\ httpd.running
  /\ httpd' = StoppedHttpd /\ conns' = Abandoned
  /\ UNCHANGED <<stack, body, renders, out, shared, httpd_requests_count>>

Arrive(c) ==
  /\ conns[c] = "none" /\ httpd.listen # 0
  /\ conns' = [conns EXCEPT ![c] = "queued"]
  /\ UNCHANGED <<httpd, stack, body, renders, out, shared, httpd_requests_count>>

-----------------------------------------------------------------------------
(* httpd_poll, up to its tcp_receive. *)
httpd_poll(c) ==
  /\ httpd.running /\ httpd.listen # 0
  /\ conns[c] = "queued" /\ Len(stack) < Nesting
  /\ stack' = <<[client |-> c, at |-> "receive", page |-> "none", sent |-> 0]>> \o stack
  /\ conns' = [conns EXCEPT ![c] = "open"]
  /\ UNCHANGED <<httpd, body, renders, out, shared, httpd_requests_count>>

Top == stack[1]
Rendering == {i \in DOMAIN stack : stack[i].page = "dashboard" /\ stack[i].at = "send"}

(* tcp_receive found nothing: the connection is closed unanswered. *)
ReceiveFailsOpen ==
  /\ stack # <<>> /\ Top.at = "receive"
  /\ stack' = Tail(stack)
  /\ UNCHANGED <<httpd, conns, body, renders, out, shared, httpd_requests_count>>
ReceiveFails ==
  /\ stack # <<>> /\ Top.at = "receive"
  /\ stack' = [stack EXCEPT ![1].at = "close"]
  /\ UNCHANGED <<httpd, conns, body, renders, out, shared, httpd_requests_count>>

(* The request line selects the page; the dashboard is rendered, with the
   figures of the moment, before its header is sent. *)
Answer(page) ==
  /\ stack # <<>> /\ Top.at = "receive"
  /\ stack' = [stack EXCEPT ![1].page = page, ![1].at = "send"]
  /\ IF page = "dashboard"
       THEN /\ renders' = renders + 1 /\ body' = renders + 1
            /\ shared' = shared \cup {stack[i].client : i \in Rendering}
       ELSE UNCHANGED <<renders, body, shared>>
  /\ UNCHANGED <<httpd, conns, out, httpd_requests_count>>

SegmentsOf(page) == IF page = "dashboard" THEN Segments ELSE 1

(* The header has gone, or a segment of the page has: the next is copied.  A
   tcp_send that fails is not noticed. *)
tcp_send(works) ==
  /\ stack # <<>> /\ Top.at = "send" /\ Top.sent < SegmentsOf(Top.page)
  /\ stack' = [stack EXCEPT ![1].sent = IF works THEN @ + 1 ELSE SegmentsOf(Top.page)]
  /\ out' = [out EXCEPT ![Top.client] =
               IF works THEN Append(@, IF Top.page = "dashboard" THEN body ELSE 0) ELSE @]
  /\ UNCHANGED <<httpd, conns, body, renders, shared, httpd_requests_count>>

Served ==
  /\ stack # <<>> /\ Top.at = "send" /\ Top.sent = SegmentsOf(Top.page)
  /\ stack' = [stack EXCEPT ![1].at = "close"]
  /\ httpd_requests_count' = httpd_requests_count + 1
  /\ UNCHANGED <<httpd, conns, body, renders, out, shared>>

(* tcp_close, which polls until the peer has answered, is done. *)
Closed ==
  /\ stack # <<>> /\ Top.at = "close"
  /\ stack' = Tail(stack)
  /\ conns' = [conns EXCEPT ![Top.client] = IF Top.page = "none" THEN "closed" ELSE "answered"]
  /\ UNCHANGED <<httpd, body, renders, out, shared, httpd_requests_count>>

HttpdNext ==
  \/ \E port \in ListenPorts, works \in BOOLEAN : httpd_start(port, works)
  \/ httpd_stop
  \/ \E c \in Clients : Arrive(c) \/ httpd_poll(c)
  \/ ReceiveFails \/ Served \/ Closed
  \/ \E works \in BOOLEAN : tcp_send(works)
  \/ \E page \in Pages : Answer(page)

-----------------------------------------------------------------------------
(* Properties *)

(* A connection httpd_poll accepted is served by exactly one poll in progress
   until it is closed, connections wait only at the listener, which is open
   exactly while the server runs, and a request is counted once, when it has
   been answered. *)
EveryClientClosed ==
  /\ {stack[i].client : i \in DOMAIN stack} = {c \in Clients : conns[c] = "open"}
  /\ IsInjective([i \in DOMAIN stack |-> stack[i].client])
  /\ httpd.running <=> httpd.listen # 0
  /\ (\E c \in Clients : conns[c] = "queued") => httpd.running
  /\ httpd_requests_count
       = Cardinality({c \in Clients : conns[c] = "answered"})
         + Cardinality({i \in DOMAIN stack : stack[i].at = "close" /\ stack[i].page # "none"})

(* No client is sent more than its page, and a dashboard is one rendering
   unless another was rendered into the static buffer while it was sent. *)
PagesWhole ==
  \A c \in Clients :
    /\ Len(out[c]) <= Segments
    /\ c \notin shared => \A i, j \in DOMAIN out[c] : out[c][i] = out[c][j]
=============================================================================
