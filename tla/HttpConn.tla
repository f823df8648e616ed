------------------------------ MODULE HttpConn ------------------------------
(***************************************************************************)
(* The HTTP request state machine of one client connection               *)
(* (phttp_on_read and after_send_http_res in phttp_server.cpp, with       *)
(* http_parse_request, http_request_determine_body_len and                *)
(* http_request_reset from http.cpp), for handlers that answer with an    *)
(* ordinary status.                                                        *)
(*                                                                         *)
(* The client sends whole requests; TCP hands them to phttp_on_read in    *)
(* reads of any size.  Positions are absolute offsets in the client's     *)
(* byte stream; the request arena req.mem is the window [begin, cur) of   *)
(* it, and prev is where the last read started (membuf_consume).          *)
(***************************************************************************)
EXTENDS Integers, Sequences

CONSTANTS
  HdrSizes,      \* lengths of a request line plus headers
  BodySizes,     \* body lengths (a request with a body has Content-Length)
  MaxReqs,       \* requests the client sends
  Serial,        \* TRUE: the client waits for each response before sending on
  SplitHeaders,  \* TRUE: a read may end inside a request's headers
  BadRequests,   \* TRUE: the client may send malformed or oversized requests
  AnyCase,       \* TRUE: the client may spell the header "content-length"
  Tls,           \* TRUE: the server socket has a TLS context (on_connection)
  FalseStart,    \* TRUE: the client sends data right after its Finished
  Handoffs       \* TRUE: the handler may answer 600 (hand the request off)

ASSUME MaxReqs \in Nat
ASSUME {Serial, SplitHeaders, BadRequests, AnyCase, Tls, FalseStart, Handoffs} \subseteq BOOLEAN

\* A request is well formed, malformed (phr_parse_request rejects its
\* headers) or oversized (it carries one byte more than its Content-Length).
Kinds == IF BadRequests THEN {"good", "malformed", "oversized"} ELSE {"good"}

MaxHdr == CHOOSE m \in HdrSizes : \A x \in HdrSizes : x <= m
MaxBody == CHOOSE m \in BodySizes : \A x \in BodySizes : x <= m
(***************************************************************************)
(* The TLS 1.2 handshake the client runs first when Tls holds: its first   *)
(* flight (ClientHello), answered by the server's (ServerHello ...         *)
(* ServerHelloDone), then its second (ClientKeyExchange, ChangeCipherSpec, *)
(* Finished), answered by the server's ChangeCipherSpec and Finished.      *)
(* A flight is FlightLen bytes, so that a read can end inside one.        *)
(***************************************************************************)
FlightLen == 2
HsFlights == IF Tls THEN 2 ELSE 0
HandshakeLen == HsFlights * FlightLen

MaxStream == HandshakeLen + MaxReqs * (MaxHdr + MaxBody)

\* req->body = NULL (http_request_init, http_request_reset).
Null == -1

VARIABLES
  reqs,      \* requests the client has sent: [kind, hdr, body]
  rcvd,      \* responses the client has received
  fin,       \* the client has shut down its side
  cur,       \* req.mem.cur: bytes read so far
  begin,     \* req.mem.begin
  prev,      \* req.mem.prev
  st,        \* hcs->http_state
  serving,   \* the request whose headers were parsed
  bodyAt,    \* req->body
  bodyLen,   \* req->body_len
  writing,   \* the response write: none, "sync" when uv_write finished it at
             \* once (its callback runs before the next read), or "async";
             \* "handoff" after status 600 until the state is exported, and
             \* "exported" until the peer imports it
  answered,  \* requests the handler was called for, in order
  conn,      \* the server's side: open, closed by the server, or at EOF
  phase,     \* the read callback: on_tls_handshake_read or phttp_on_read
  flights,   \* handshake flights the client has sent
  ex,        \* the exported prism::HTTPReq on its way to the peer
  views      \* the request each handler call was given, in order

tlsVars == <<phase, flights>>
hoVars == <<ex, views>>

vars == <<reqs, rcvd, fin, cur, begin, prev, st, serving, bodyAt, bodyLen,
          writing, answered, conn, tlsVars, hoVars>>

\* Offset at which the k-th request starts in the client's stream.
RECURSIVE ReqOffset(_)
ReqOffset(k) == IF k = 1 THEN HandshakeLen
                ELSE ReqOffset(k - 1) + reqs[k - 1].hdr + reqs[k - 1].body

Sent == IF flights < HsFlights THEN flights * FlightLen ELSE ReqOffset(Len(reqs) + 1)

(***************************************************************************)
(* Content-Length.  Header names and values are the characters the client  *)
(* writes: field names are case-insensitive (RFC 9110, 5.1), so            *)
(* "content-length" names the same field as "Content-Length".             *)
(***************************************************************************)
ContentLength == <<"C","o","n","t","e","n","t","-","L","e","n","g","t","h">>
ContentLengthLower == <<"c","o","n","t","e","n","t","-","l","e","n","g","t","h">>
Host == <<"H","o","s","t">>

ClNames == IF AnyCase THEN {ContentLength, ContentLengthLower} ELSE {ContentLength}

\* The decimal digits of a body length below 10, as the client writes them.
DecimalChars == <<"0","1","2","3","4","5","6","7","8","9">>
Decimal(n) == <<DecimalChars[n + 1]>>

\* The headers of a request declaring a body of len bytes under the name
\* cl: a request without a body carries no Content-Length.
RequestHeaders(cl, len, hasBody) ==
  IF hasBody THEN <<[name |-> Host, val |-> <<"x">>], [name |-> cl, val |-> Decimal(len)]>>
  ELSE <<[name |-> Host, val |-> <<"x">>]>>

\* strncmp(a, b, n) == 0 over names without NUL bytes.
strncmp_eq(a, b, n) == SubSeq(a, 1, n) = SubSeq(b, 1, n)

MinLen(a, b) == IF a < b THEN a ELSE b

\* http_request_find_header: the first header whose name agrees with name
\* over the shorter of the two lengths, case-sensitively; 0 for NULL.
http_request_find_header(hs, name) ==
  LET RECURSIVE From(_)
      From(i) == IF i > Len(hs) THEN 0
                 ELSE IF strncmp_eq(hs[i].name, name, MinLen(Len(hs[i].name), Len(name)))
                      THEN i ELSE From(i + 1)
  IN From(1)

\* The value of a digit character, 99 for any other character.
DigitValue(c) ==
  LET hex == <<"0","1","2","3","4","5","6","7","8","9","a","b","c","d","e","f">>
      HEX == <<"0","1","2","3","4","5","6","7","8","9","A","B","C","D","E","F">>
  IN IF \E i \in 1..16 : hex[i] = c \/ HEX[i] = c
     THEN CHOOSE d \in 0..15 : hex[d + 1] = c \/ HEX[d + 1] = c ELSE 99

\* strtoll(s, &endptr, 0) on a value without overflow: leading spaces, a
\* sign, then "0x" for base 16, "0" for base 8, or base 10; the result and
\* the number of characters endptr is past (0 when no digit was read).
strtoll(s) ==
  LET RECURSIVE Spaces(_)
      Spaces(i) == IF i <= Len(s) /\ s[i] = " " THEN Spaces(i + 1) ELSE i
      i0 == Spaces(1)
      i1 == IF i0 <= Len(s) /\ s[i0] \in {"+", "-"} THEN i0 + 1 ELSE i0
      neg == i0 <= Len(s) /\ s[i0] = "-"
      hex == i1 + 2 <= Len(s) /\ s[i1] = "0" /\ s[i1 + 1] \in {"x", "X"}
             /\ DigitValue(s[i1 + 2]) < 16
      base == IF hex THEN 16 ELSE IF i1 <= Len(s) /\ s[i1] = "0" THEN 8 ELSE 10
      RECURSIVE Digits(_, _)
      Digits(i, acc) == IF i <= Len(s) /\ DigitValue(s[i]) < base
                        THEN Digits(i + 1, acc * base + DigitValue(s[i]))
                        ELSE [val |-> acc, end |-> i - 1]
      r == Digits(IF hex THEN i1 + 2 ELSE i1, 0)
  IN IF r.end < i1 THEN [val |-> 0, end |-> 0]
     ELSE [val |-> IF neg THEN -r.val ELSE r.val, end |-> r.end]

\* http_request_determine_body_len: 0 without a Content-Length header or
\* when strtoll stops before the end of its value.
http_request_determine_body_len(hs) ==
  LET h == http_request_find_header(hs, ContentLength)
      r == strtoll(hs[h].val)
  IN IF h = 0 THEN 0
     ELSE IF r.end # Len(hs[h].val) THEN 0 ELSE r.val

\* The header lists a client writes (a constant set, so that TLC parses
\* each once).
HeaderLists == {RequestHeaders(n, l, b) : n \in ClNames, l \in BodySizes, b \in BOOLEAN}

BodyLenOf == [hs \in HeaderLists |-> http_request_determine_body_len(hs)]

Declared(k) == BodyLenOf[reqs[k].headers]

\* The request starting at offset o, or 0 when o is inside a request.
ReqAt(o) == IF \E k \in 1..Len(reqs) : ReqOffset(k) = o
            THEN CHOOSE k \in 1..Len(reqs) : ReqOffset(k) = o ELSE 0

InsideHeaders(o) ==
  \E k \in 1..Len(reqs) : ReqOffset(k) < o /\ o < ReqOffset(k) + reqs[k].hdr

(***************************************************************************)
(* Handoff of a request (status 600): http_request_export keeps the arena  *)
(* [begin, cur) as buf and the body as an offset from begin; the peer's    *)
(* http_request_import copies buf into a fresh arena and rebuilds the     *)
(* pointers from its begin.  The bytes of buf are the client's bytes at    *)
(* [from, from + len), so an arena holding them is the stream window      *)
(* starting at from, and a pointer into it is a stream offset.            *)
(***************************************************************************)
NoExport == [none |-> TRUE]

ExRecords == [from : 0..MaxStream, len : 0..MaxStream,
              body_ofs : 0..MaxStream, body_len : 0..MaxBody]

\* http_request_export: buf = [begin, cur), body_ofs = body - begin, or
\* 0 and 0 for a NULL body.
http_request_export(b, c, at, len) ==
  [from |-> b, len |-> c - b,
   body_ofs |-> IF at = Null THEN 0 ELSE at - b,
   body_len |-> IF at = Null THEN 0 ELSE len]

\* A mutant of http_request_import that rebuilds the pointers from
\* mem->cur, which membuf_consume has moved past the copy.
http_request_import_cur(x) ==
  [begin |-> x.from, prev |-> x.from, cur |-> x.from + x.len,
   body |-> IF x.body_len = 0 THEN Null ELSE x.from + x.len + x.body_ofs,
   body_len |-> x.body_len]

\* http_request_import into a fresh arena (begin = cur): membuf_consume
\* leaves begin and prev at the copy's start; body is NULL for a zero
\* body_len, begin + body_ofs otherwise.
http_request_import(x) ==
  [begin |-> x.from, prev |-> x.from, cur |-> x.from + x.len,
   body |-> IF x.body_len = 0 THEN Null ELSE x.from + x.body_ofs,
   body_len |-> x.body_len]

\* What a handler call is given: the request found at the arena's start,
\* the arena [from, to), and req->body and req->body_len.
Views == [req : 0..MaxReqs, from : 0..MaxStream, to : 0..MaxStream,
          body : {Null} \cup 0..(2 * MaxStream), len : 0..MaxBody]

TypeOK ==
  /\ \A k \in 1..Len(reqs) :
       /\ reqs[k].kind \in Kinds /\ reqs[k].hdr \in HdrSizes /\ reqs[k].body \in BodySizes
       /\ reqs[k].headers \in HeaderLists
  /\ Len(reqs) <= MaxReqs
  /\ rcvd \in 0..MaxReqs /\ fin \in BOOLEAN
  /\ {cur, begin, prev} \subseteq 0..MaxStream
  /\ begin <= prev /\ prev <= cur
  /\ st \in {"PARSING_HEADER", "RECEIVING_BODY"}
  /\ serving \in 0..MaxReqs
  /\ bodyAt \in {Null} \cup 0..(2 * MaxStream) /\ bodyLen \in 0..MaxBody
  /\ writing \in {"none", "sync", "async", "handoff", "exported"}
  /\ answered \in Seq(1..MaxReqs)
  /\ conn \in {"open", "closed", "eof"}
  /\ phase \in {"handshake", "http"} /\ flights \in 0..HsFlights
  /\ ex \in {NoExport} \cup ExRecords
  /\ views \in Seq(Views)

Init ==
  /\ reqs = <<>> /\ rcvd = 0 /\ fin = FALSE
  /\ cur = 0 /\ begin = 0 /\ prev = 0
  /\ st = "PARSING_HEADER" /\ serving = 0 /\ bodyAt = Null /\ bodyLen = 0
  /\ writing = "none" /\ answered = <<>> /\ conn = "open"
  /\ phase = IF Tls THEN "handshake" ELSE "http"
  /\ flights = 0
  /\ ex = NoExport /\ views = <<>>

(***************************************************************************)
(* The client.                                                             *)
(***************************************************************************)

SendRequest ==
  /\ ~fin
  /\ Len(reqs) < MaxReqs
  /\ Serial => rcvd = Len(reqs)
  /\ flights = HsFlights
  /\ ~FalseStart => cur >= HandshakeLen
  /\ \E h \in HdrSizes, b \in BodySizes, kd \in Kinds, cl \in ClNames :
       /\ kd = "oversized" => b > 0
       /\ LET len == IF kd = "oversized" THEN b - 1 ELSE b
          IN reqs' = Append(reqs, [kind |-> kd, hdr |-> h, body |-> b,
                                   headers |-> RequestHeaders(cl, len, b > 0)])
  /\ UNCHANGED <<rcvd, fin, cur, begin, prev, st, serving, bodyAt, bodyLen,
                 writing, answered, conn, tlsVars, hoVars>>

\* The client sends its next handshake flight once the server has answered
\* the one before (the server's reply goes out in the read that completes
\* the client's flight).
ClientFlight ==
  /\ flights < HsFlights
  /\ cur >= flights * FlightLen
  /\ flights' = flights + 1
  /\ UNCHANGED <<reqs, rcvd, fin, cur, begin, prev, st, serving, bodyAt, bodyLen,
                 writing, answered, conn, phase, hoVars>>

\* The client has all its responses and shuts down its side.
ClientFin ==
  /\ ~fin
  /\ Len(reqs) = MaxReqs /\ rcvd = MaxReqs
  /\ fin' = TRUE
  /\ UNCHANGED <<reqs, rcvd, cur, begin, prev, st, serving, bodyAt, bodyLen,
                 writing, answered, conn, tlsVars, hoVars>>

(***************************************************************************)
(* phttp_on_read with nread = n > 0.                                      *)
(***************************************************************************)

\* http_parse_request (phr_parse_request over [begin, cur)): the length of
\* the headers when they are complete, -2 while incomplete, -1 when
\* malformed.  Bytes that do not start at a request are not a request;
\* the parser may find them malformed or not yet complete.
ParseResults(b, e) ==
  LET k == ReqAt(b)
  IN IF k = 0 THEN {-1, -2}
     ELSE IF e - b < reqs[k].hdr THEN {-2}
     ELSE IF reqs[k].kind = "malformed" THEN {-1}
     ELSE {reqs[k].hdr}

BodyCheck(e, at, len) ==
  IF at = Null \/ e < at THEN "over"
  ELSE IF e - at = len THEN "done"
  ELSE IF e - at > len THEN "over" ELSE "wait"

\* The request handler is called with request k, its body at at of
\* length len, in the arena [begin, e).  It answers, and
\* phttp_send_http_res starts the write, which the kernel may take at once
\* or not (a large response); or it answers 600 and phttp_start_handoff
\* stops reading and asks the switch to add (or lock) the flow.
InvokeHandler(k, at, len, e) ==
  /\ views' = Append(views, [req |-> k, from |-> begin, to |-> e, body |-> at, len |-> len])
  /\ \/ answered' = Append(answered, k) /\ writing' \in {"sync", "async"}
     \/ Handoffs /\ writing' = "handoff" /\ UNCHANGED answered

\* The RECEIVING_BODY case of phttp_on_read for the body of request k
\* at offset at with length len, after the read ending at e.
BodyStep(k, at, len, e) ==
  LET r == BodyCheck(e, at, len)
  IN \/ r = "done" /\ st' = "PARSING_HEADER" /\ InvokeHandler(k, at, len, e) /\ UNCHANGED conn
     \/ r = "over" /\ st' = "RECEIVING_BODY" /\ conn' = "closed"
        /\ UNCHANGED <<writing, answered, views>>
     \/ r = "wait" /\ st' = "RECEIVING_BODY" /\ UNCHANGED <<conn, writing, answered, views>>

\* A mutant of the PARSING_HEADER case with a break where the code falls
\* through to RECEIVING_BODY: a body that came in the same read as the
\* headers is not seen until the next read.
HeadersParsedNoFallthrough(np, e) ==
  LET k == ReqAt(begin)
      len == Declared(k)
  IN /\ serving' = k
     /\ bodyLen' = len
     /\ \/ len = 0 /\ InvokeHandler(k, bodyAt, len, e) /\ UNCHANGED <<conn, st, bodyAt>>
        \/ len > 0 /\ bodyAt' = cur + np /\ st' = "RECEIVING_BODY"
           /\ UNCHANGED <<conn, writing, answered, views>>

\* The PARSING_HEADER case when http_parse_request returned np > 0: the
\* body length from Content-Length, then the body test on the same read
\* with req->body = mem->prev + nparsed.
HeadersParsed(np, e) ==
  LET k == ReqAt(begin)
      len == Declared(k)
  IN /\ serving' = k
     /\ bodyLen' = len
     /\ \/ len = 0 /\ InvokeHandler(k, bodyAt, len, e) /\ UNCHANGED <<conn, st, bodyAt>>
        \/ len > 0 /\ bodyAt' = cur + np /\ BodyStep(k, cur + np, len, e)

\* membuf_consume: the read's bytes are appended; prev marks where they
\* start.
MembufConsume(n) == cur' = cur + n /\ prev' = cur

OnRead(n) ==
  LET e == cur + n
  IN /\ conn = "open" /\ phase = "http"
     /\ writing \in {"none", "async"}
     /\ e <= Sent
     /\ ~SplitHeaders => ~InsideHeaders(e)
     /\ MembufConsume(n)
     /\ UNCHANGED <<reqs, rcvd, fin, begin, tlsVars, ex>>
     /\ \/ /\ st = "PARSING_HEADER"
           /\ \E np \in ParseResults(begin, e) :
                \/ np = -1 /\ conn' = "closed"
                   /\ UNCHANGED <<st, serving, bodyAt, bodyLen, writing, answered, views>>
                \/ np = -2
                   /\ UNCHANGED <<conn, st, serving, bodyAt, bodyLen, writing, answered, views>>
                \/ np > 0 /\ HeadersParsed(np, e)
        \/ /\ st = "RECEIVING_BODY"
           /\ BodyStep(serving, bodyAt, bodyLen, e)
           /\ UNCHANGED <<serving, bodyAt, bodyLen>>

\* phttp_on_read with nread < 0 (the client's FIN): phttp_start_close.
OnEOF ==
  /\ conn = "open" /\ phase = "http" /\ writing \in {"none", "async"}
  /\ fin /\ cur = Sent
  /\ conn' = "eof"
  /\ UNCHANGED <<reqs, rcvd, fin, cur, begin, prev, st, serving, bodyAt,
                 bodyLen, writing, answered, tlsVars, hoVars>>

\* A mutant of after_send_http_res without http_request_reset.
AfterSendHttpResNoReset ==
  /\ writing \in {"sync", "async"}
  /\ writing' = "none"
  /\ rcvd' = rcvd + 1
  /\ UNCHANGED <<reqs, fin, cur, begin, prev, st, serving, bodyAt, bodyLen,
                 answered, conn, tlsVars, hoVars>>

\* after_send_http_res: the client gets the response; http_request_reset
\* and http_response_reset rewind the arena to its start.
\* A mutant of membuf_reset that rewinds cur but leaves prev.
RequestResetKeepPrev == begin' = cur /\ bodyAt' = Null /\ bodyLen' = 0 /\ UNCHANGED prev

\* http_request_reset: membuf_reset empties the arena (what remains of
\* the stream is not kept), body and body_len are cleared.
RequestReset == begin' = cur /\ prev' = cur /\ bodyAt' = Null /\ bodyLen' = 0

AfterSendHttpRes ==
  /\ writing \in {"sync", "async"}
  /\ writing' = "none"
  /\ rcvd' = rcvd + 1
  /\ RequestReset
  /\ UNCHANGED <<reqs, fin, cur, st, serving, answered, conn, tlsVars, hoVars>>

(***************************************************************************)
(* on_tls_handshake_read with nread = n > 0.  tls_consume_stream takes the *)
(* whole buffer into tlse, which keeps a partial record for the next call  *)
(* and queues the server's flight for every client flight it completes;    *)
(* tls_send_pending writes it (the socket has nothing else queued, so the  *)
(* write goes out at once).  When tls_established holds, tls_make_ktls and *)
(* uv_read_start hand the socket to phttp_on_alloc and phttp_on_read; the  *)
(* arena is still empty, and whatever this read carried past the          *)
(* handshake stays in tlse.                                                *)
(***************************************************************************)

\* A mutant that tests tls_established before consuming the read, so the
\* switch to phttp_on_read waits for the read after the Finished.
TlsHandshakeReadEarlyTest(n) ==
  LET e == cur + n
  IN /\ conn = "open" /\ phase = "handshake"
     /\ e <= Sent
     /\ cur' = e /\ begin' = e /\ prev' = e
     /\ phase' = IF cur >= HandshakeLen THEN "http" ELSE "handshake"
     /\ UNCHANGED <<reqs, rcvd, fin, st, serving, bodyAt, bodyLen, writing,
                    answered, conn, flights, hoVars>>

TlsHandshakeRead(n) ==
  LET e == cur + n
  IN /\ conn = "open" /\ phase = "handshake"
     /\ e <= Sent
     /\ cur' = e /\ begin' = e /\ prev' = e
     /\ phase' = IF e >= HandshakeLen THEN "http" ELSE "handshake"
     /\ UNCHANGED <<reqs, rcvd, fin, st, serving, bodyAt, bodyLen, writing,
                    answered, conn, flights, hoVars>>

(***************************************************************************)
(* The handoff.  The switch steps, the TCP and TLS state and the framing   *)
(* of the record are the subject of Handoff, TcpTransplant and            *)
(* HandoffFraming; here the request state goes from the arena to the      *)
(* peer's and the peer's handler runs on it.                              *)
(***************************************************************************)

\* after_configure_switch: export_all exports the request (export_http),
\* and the socket is closed; the record goes to the peer.
ExportHttp ==
  /\ writing = "handoff"
  /\ writing' = "exported"
  /\ ex' = http_request_export(begin, cur, bodyAt, bodyLen)
  /\ UNCHANGED <<reqs, rcvd, fin, cur, begin, prev, st, serving, bodyAt,
                 bodyLen, answered, conn, tlsVars, views>>

\* phttp_on_handoff: a fresh request imports the record and the handler is
\* called with it; for a status up to 500 continue_import sets up the
\* socket (http_state PARSING_HEADER), the request is copied in, and after
\* the switch makes the peer the owner (after_change_owner) reading starts
\* again and phttp_send_http_res sends the response.  The socket carries
\* the stream on from where the exporter stopped reading.
OnHandoff ==
  LET r == http_request_import(ex)
      k == ReqAt(r.begin)
  IN /\ writing = "exported"
     /\ begin' = r.begin /\ prev' = r.prev /\ cur' = r.cur
     /\ bodyAt' = r.body /\ bodyLen' = r.body_len
     /\ st' = "PARSING_HEADER" /\ serving' = k
     /\ views' = Append(views, [req |-> k, from |-> r.begin, to |-> r.cur,
                                body |-> r.body, len |-> r.body_len])
     /\ answered' = Append(answered, k)
     /\ writing' \in {"sync", "async"}
     /\ ex' = NoExport
     /\ UNCHANGED <<reqs, rcvd, fin, conn, tlsVars>>

\* The connection is over.
Done ==
  /\ conn # "open" /\ writing = "none"
  /\ UNCHANGED vars

ServerStep ==
  \/ \E n \in 1..MaxStream : OnRead(n) \/ TlsHandshakeRead(n)
  \/ OnEOF \/ AfterSendHttpRes \/ ExportHttp \/ OnHandoff

Next == SendRequest \/ ClientFlight \/ ClientFin \/ ServerStep \/ Done

(* The event loop delivers every readable byte and every write completion. *)
Spec == Init /\ [][Next]_vars /\ WF_vars(ServerStep)

(***************************************************************************)
(* Properties.                                                             *)
(***************************************************************************)

(* The handler is called for the client's requests one at a time, in the *)
(* order they were sent, none skipped and none twice.                     *)
ServedInOrder ==
  \A i \in 1..Len(answered) : answered[i] = i

(* A client that sends well-formed requests one at a time is never cut   *)
(* off by the server: phttp_on_read closes the connection only after a   *)
(* malformed request or bytes beyond a declared body.                    *)
NeverClosed == conn = "closed" => \E k \in 1..Len(reqs) : reqs[k].kind # "good"

(* The handler, on this server or on the peer a request was handed off   *)
(* to, is given the request the client sent: the arena starts at one of   *)
(* the client's requests, req->body_len is its Content-Length, and a body *)
(* lies in the arena right after that request's headers.  This is what    *)
(* phttp_on_read (body = prev + nparsed), http_request_reset and the      *)
(* offsets of http_request_export and http_request_import must agree on.  *)
HandlerSeesRequest ==
  \A i \in 1..Len(views) :
    LET v == views[i]
        k == v.req
    IN /\ k \in 1..Len(reqs)
       /\ v.from = ReqOffset(k)
       /\ v.len = Declared(k)
       /\ v.len > 0 => /\ v.body = ReqOffset(k) + reqs[k].hdr
                       /\ v.body + v.len <= v.to

(* Every request the client sends is eventually answered, or the         *)
(* connection is closed: no request is silently dropped.                  *)
NoRequestLost ==
  \A i \in 1..MaxReqs :
    Len(reqs) >= i ~> (conn = "closed" \/ \E j \in 1..Len(answered) : answered[j] = i)

=============================================================================
