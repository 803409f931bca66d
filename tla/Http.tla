-------------------------------- MODULE Http --------------------------------
(* The HTTP client of net/http.c: net_http_get follows redirects, sends each
   request over TCP or TLS, collects the response until its framing says it is
   complete, and decodes a chunked body in place.  Text is a sequence of
   tokens, each a line, a byte of content or the NUL that ends a C string; the
   servers, their framing included, are external. *)
EXTENDS Integers, SequencesExt

CONSTANTS Urls,         \* URLs that callers ask for
          Links,        \* URLs that Location headers name, as a sequence
          Site,         \* responses of the servers, by <<host, port, path>>
          Room,         \* tokens of the response buffer, its final NUL included
          MaxRedirects  \* HTTP_MAX_REDIRECTS

VARIABLES http,      \* the call in progress
          sockets,   \* TCP connections the client holds
          sessions,  \* TLS sessions it holds
          reply      \* what the last call returned
httpVars == <<http, sockets, sessions, reply>>

NoPort == -1
NUL == <<"nul", 0>>
Crlf == <<"crlf", 0>>
EndOfHeader == <<"end", 0>>
LastChunk == <<"size", 0>>

-----------------------------------------------------------------------------
(* The servers *)

Content(r) == FlattenSeq(r.chunks)
Framing(r) == CASE r.framing = "length" -> << <<"length", Len(Content(r))>> >>
                [] r.framing = "chunked" -> << <<"chunked", 0>> >>
                [] OTHER -> <<>>
Location(r) == IF r.link = 0 THEN <<>> ELSE << <<"location", r.link>> >>
Header(r) == << <<"status", r.status>> >> \o Location(r) \o Framing(r) \o <<EndOfHeader>>
Body(r) ==
  IF r.framing = "chunked"
    THEN FlattenSeq([i \in DOMAIN r.chunks |->
                       << <<"size", Len(r.chunks[i])>> >> \o r.chunks[i] \o <<Crlf>>])
         \o <<LastChunk, Crlf>>
    ELSE Content(r)
Wire(r) == Header(r) \o Body(r)

-----------------------------------------------------------------------------
(* URLs.  One that starts with its path has no host. *)

parse_http_url(url) ==
  [https |-> url.https, host |-> url.host, path |-> url.path,
   port |-> CASE url.port # NoPort -> url.port
              [] url.https -> 443
              [] OTHER -> 80]
Parses(url) == url.host # "" /\ (url.port = NoPort \/ url.port \in 1..65535)

Place(url) == LET p == parse_http_url(url) IN <<p.host, p.port, p.path>>
use_tls(url) == url.https \/ parse_http_url(url).port = 443

(* Where a Location header leads: a path alone keeps scheme and host. *)
NextUrl(url, to) ==
  IF to.host = "" THEN [https |-> url.https, host |-> url.host, port |-> NoPort,
                        path |-> to.path]
  ELSE to

-----------------------------------------------------------------------------
(* Reading a response *)

(* The text as string functions see it: up to the first NUL. *)
Text(buffer) ==
  LET nul == SelectInSeq(buffer, LAMBDA t : t = NUL)
  IN IF nul = 0 THEN buffer ELSE SubSeq(buffer, 1, nul - 1)

find_substring_case_insensitive(buffer, kind) ==
  SelectInSeq(Text(buffer), LAMBDA t : t[1] = kind)
HeaderEnd(buffer) == find_substring_case_insensitive(buffer, "end")
InHeader(buffer, kind) ==
  find_substring_case_insensitive(buffer, kind) \in 1..(HeaderEnd(buffer) - 1)

(* A line end followed by a chunk of size 0 and an empty line. *)
Terminated(buffer) ==
  \E i \in HeaderEnd(buffer)..(Len(Text(buffer)) - 2) :
     /\ buffer[i][1] \in {"end", "crlf", "size"}
     /\ buffer[i + 1] = LastChunk /\ buffer[i + 2] = Crlf

(* The test after each tcp_receive. *)
CompleteEarly(buffer) ==
  \/ /\ InHeader(buffer, "length")
     /\ Len(buffer) - HeaderEnd(buffer) + 1
          >= buffer[find_substring_case_insensitive(buffer, "length")][2]
  \/ InHeader(buffer, "chunked") /\ Terminated(buffer)
Complete(buffer) ==
  \/ /\ InHeader(buffer, "length")
     /\ Len(buffer) - HeaderEnd(buffer)
          >= buffer[find_substring_case_insensitive(buffer, "length")][2]
  \/ InHeader(buffer, "chunked") /\ Terminated(buffer)

(* Size of the chunk whose size line is t; other text reads as 0. *)
decode_hex_size(t) == IF t[1] = "size" THEN t[2] ELSE 0

(* A chunk's data is copied, the line end after it skipped once, and a size of
   0 ends the body. *)
unchunk_http_body(text) ==
  FoldLeft(LAMBDA s, t :
      CASE s.done -> s
        [] s.left > 0 -> [s EXCEPT !.out = Append(@, t), !.left = @ - 1, !.skip = TRUE]
        [] s.skip /\ t = Crlf -> [s EXCEPT !.skip = FALSE]
        [] OTHER -> [s EXCEPT !.left = decode_hex_size(t), !.skip = FALSE,
                              !.done = decode_hex_size(t) = 0],
    [out |-> <<>>, left |-> 0, skip |-> FALSE, done |-> FALSE], text).out

Decoded(buffer) ==
  LET end == HeaderEnd(buffer)
  IN IF InHeader(buffer, "chunked")
       THEN Text(SubSeq(buffer, 1, end)
                 \o unchunk_http_body(SubSeq(buffer, end + 1, Len(buffer))))
       ELSE buffer

Status(buffer) == IF buffer[1][1] = "status" THEN buffer[1][2] ELSE 0
Redirects(buffer) == /\ Status(buffer) \in {301, 302, 303, 307, 308}
                     /\ find_substring_case_insensitive(buffer, "location") # 0

-----------------------------------------------------------------------------
NoReply == [ok |-> FALSE, text |-> <<>>, page |-> <<>>, cut |-> FALSE]
IdleCall == [at |-> "idle", url |-> [https |-> FALSE, host |-> "", port |-> NoPort, path |-> ""],
             tries |-> 0, buffer |-> <<>>, wire |-> <<>>, cut |-> FALSE]

HttpInit == http = IdleCall /\ sockets = 0 /\ sessions = 0 /\ reply = NoReply

net_http_get(url) ==
  /\ http.at = "idle"
  /\ http' = [IdleCall EXCEPT !.at = "request", !.url = url]
  /\ reply' = NoReply /\ UNCHANGED <<sockets, sessions>>

Fail == http' = IdleCall /\ reply' = NoReply

(* The URL is parsed, the host resolved and the connection made; each may fail. *)
Connect(works) ==
  /\ http.at = "request"
  /\ works => Parses(http.url) /\ Place(http.url) \in DOMAIN Site
  /\ IF works THEN /\ http' = [http EXCEPT !.at = IF use_tls(http.url) THEN "secure" ELSE "send",
                                           !.tries = @ + 1]
                   /\ sockets' = sockets + 1 /\ UNCHANGED reply
              ELSE Fail /\ UNCHANGED sockets
  /\ UNCHANGED sessions

(* Only the servers of port 443 speak TLS. *)
HandshakeLeaks(works) ==
  /\ http.at = "secure"
  /\ works => parse_http_url(http.url).port = 443
  /\ IF works THEN http' = [http EXCEPT !.at = "send"] /\ UNCHANGED <<sockets, reply>>
              ELSE Fail /\ UNCHANGED sockets
  /\ sessions' = IF works THEN sessions + 1 ELSE sessions
Handshake(works) ==
  /\ http.at = "secure"
  /\ works => parse_http_url(http.url).port = 443
  /\ IF works THEN http' = [http EXCEPT !.at = "send"] /\ UNCHANGED <<sockets, reply>>
              ELSE Fail /\ sockets' = sockets - 1
  /\ sessions' = IF works THEN sessions + 1 ELSE sessions

(* net_tls_close and tcp_close. *)
CloseBoth == /\ sockets' = sockets - 1
             /\ sessions' = IF use_tls(http.url) THEN sessions - 1 ELSE sessions

SendRequest(works) ==
  /\ http.at = "send"
  /\ IF works THEN /\ http' = [http EXCEPT !.at = "receive", !.buffer = <<>>,
                                           !.wire = Wire(Site[Place(http.url)])]
                   /\ UNCHANGED <<sockets, sessions, reply>>
              ELSE Fail /\ CloseBoth

(* One pass of the receive loop: n tokens, or none when the stream ends, is
   cut off or times out. *)
Receive(n) ==
  /\ http.at = "receive" /\ Len(http.buffer) + 1 < Room
  /\ n <= Len(http.wire) /\ n <= Room - Len(http.buffer) - 1
  /\ LET more == http.buffer \o SubSeq(http.wire, 1, n)
     IN http' = [http EXCEPT
                   !.buffer = more, !.wire = SubSeq(@, n + 1, Len(@)),
                   !.cut = n = 0 /\ http.wire # <<>>,
                   !.at = IF n = 0 \/ Complete(more) THEN "close" ELSE "receive"]
  /\ UNCHANGED <<sockets, sessions, reply>>

(* The connection is closed, the response interpreted. *)
Interpret ==
  /\ \/ http.at = "close"
     \/ http.at = "receive" /\ Len(http.buffer) + 1 >= Room
  /\ CloseBoth
  /\ IF http.buffer = <<>> THEN Fail
     ELSE LET to == http.buffer[find_substring_case_insensitive(http.buffer, "location")][2]
          IN IF Redirects(http.buffer) /\ http.tries < MaxRedirects
               THEN /\ http' = [IdleCall EXCEPT !.at = "request", !.tries = http.tries,
                                                !.url = NextUrl(http.url, Links[to])]
                    /\ UNCHANGED reply
               ELSE /\ http' = [IdleCall EXCEPT !.tries = http.tries]
                    /\ reply' = [ok |-> TRUE, text |-> Decoded(http.buffer),
                                 page |-> Place(http.url), cut |-> http.cut]

HttpNext == \/ \E url \in Urls : net_http_get(url)
            \/ \E works \in BOOLEAN : Connect(works) \/ Handshake(works) \/ SendRequest(works)
            \/ \E n \in 0..Room : Receive(n)
            \/ Interpret

-----------------------------------------------------------------------------
(* Properties *)

(* Content that the client takes for framing: a NUL in a chunked body, or the
   terminator before the end. *)
Ambiguous(r) ==
  /\ r.framing = "chunked"
  /\ \/ NUL \in ToSet(Content(r))
     \/ Terminated(SubSeq(Wire(r), 1, Len(Wire(r)) - 1))

(* A response that arrives whole and fits is returned as the server meant it:
   the header, and the content without its chunk framing, however the bytes
   were split over tcp_receive calls. *)
ResponseExact ==
  reply.ok /\ ~reply.cut =>
    LET r == Site[reply.page]
    IN Len(Wire(r)) < Room /\ ~Ambiguous(r) => reply.text = Header(r) \o Content(r)

(* However the call ends, its connection and its TLS session are closed; while
   it runs it holds at most one of each, and a session only with a connection. *)
ConnectionsReturned ==
  /\ http.at = "idle" => sockets = 0
  /\ 0 <= sessions /\ sessions <= sockets /\ sockets <= 1

(* A page that redirects is returned only by the last of MaxRedirects
   requests, and no call makes more requests than that. *)
RedirectsBounded ==
  /\ http.tries <= MaxRedirects
  /\ (reply.ok /\ Site[reply.page].link # 0 /\ Redirects(Wire(Site[reply.page]))
        /\ Len(Wire(Site[reply.page])) < Room /\ ~reply.cut) => http.tries = MaxRedirects
=============================================================================
