-------------------------------- MODULE Http --------------------------------
(***************************************************************************)
(* The request parser and rewriter (http.cpp) as Connection::do_read_client*)
(* (connection.cpp) drives them: bytes arrive in reads of any size, the    *)
(* whole buffer is parsed again after each read until the header is        *)
(* complete, and the request is rebuilt for the origin.                    *)
(*                                                                         *)
(* The client's stream is a sequence of units: one per line, line end and  *)
(* byte of the body.  A URL is a scheme and a sequence of characters, of   *)
(* which only the delimiters and digits matter; "80" is one character.  A  *)
(* header carries its name in lower case next to the name as spelled.      *)
(***************************************************************************)
EXTENDS Integers, Sequences, FiniteSetsExt

CONSTANTS
  Messages,           \* the streams that clients send
  Chars,              \* the characters of their URLs
  Number,             \* the digit strings among the header values, and their numbers
  max_header_bytes,   \* limits of Config, in units
  max_body_bytes,
  SizeValues          \* how many values a size_t has: 2^64

CRLF == [unit |-> "crlf"]
Byte == [unit |-> "byte"]
Junk == [unit |-> "junk"]    \* a request line without two spaces, a header without ':'
RequestLine(method, http, url) == [unit |-> "line", method |-> method, http |-> http, url |-> url]
Header(name, lname, value) == [unit |-> "header", name |-> name, lname |-> lname, value |-> value]

RequestLines == [unit : {"line"}, method : STRING, http : BOOLEAN, url : Seq(Chars)]
Headers      == [unit : {"header"}, name : STRING, lname : STRING, value : STRING]

\* A stream starts with a request line, a line that is none, or an empty one, and a
\* buffer that holds it and a body within the limit has a size.
ASSUME HttpAssumption ==
  /\ max_header_bytes \in Nat /\ max_body_bytes \in Nat /\ SizeValues \in Nat \ {0}
  /\ {"80", "/", ":"} \subseteq Chars /\ Number \in [DOMAIN Number -> Nat]
  /\ \A m \in Messages :
       /\ m \in Seq({CRLF, Byte, Junk} \cup RequestLines \cup Headers)
       /\ m # <<>> => m[1] \in {CRLF, Junk} \cup RequestLines
       /\ Len(m) + max_body_bytes < SizeValues

Empty  == ""
Space  == " "
Port80 == <<"80">>

\* A Request with its defaults.
NoRequest == [method |-> Empty, host |-> <<>>, port |-> Port80, path |-> <<"/">>, headers |-> <<>>,
              content_length |-> 0, header_bytes |-> 0]

VARIABLES
  msg,          \* what the client sends, in the end
  in_client,    \* in_client_: what has been read of it
  req, parsed,  \* req_, parsed_
  state,        \* "ReadClient", "Failing", "Forward" (the lookup begins), "Done" (hung up)
  reply,        \* the status of the error reply, 0 if none
  out_upstream  \* out_upstream_, as the list of its lines and the body's length

vars == <<msg, in_client, req, parsed, state, reply, out_upstream>>

-----------------------------------------------------------------------------
(* http.cpp *)

is_hop_by_hop(lname) ==
  lname \in {"connection", "proxy-connection", "keep-alive", "transfer-encoding", "upgrade", "te", "trailer",
             "proxy-authorization", "proxy-authenticate"}

\* std::string's find and rfind: where c is first, or last; 0 if nowhere.
find(s, c)  == LET at == {i \in 1..Len(s) : s[i] = c} IN IF at = {} THEN 0 ELSE Min(at)
rfind(s, c) == LET at == {i \in 1..Len(s) : s[i] = c} IN IF at = {} THEN 0 ELSE Max(at)

\* The elements of s in their order, but for those that are in Skipped.
Without(s, Skipped) ==
  LET kept[n \in 0..Len(s)] ==
        IF n = 0 THEN <<>> ELSE IF s[n] \in Skipped THEN kept[n - 1] ELSE Append(kept[n - 1], s[n])
  IN kept[Len(s)]

\* The first header of that name, or nothing.
header_value(r, lname) ==
  LET named == {i \in 1..Len(r.headers) : r.headers[i].lname = lname}
  IN IF named = {} THEN Empty ELSE r.headers[Min(named)].value

\* An authority's host and port; the port stays as it was where none is given.
BracketedHost(authority, port) ==
  LET shut == find(authority, "]")
      more == shut + 1 <= Len(authority) /\ authority[shut + 1] = ":"
  IN IF shut = 0 THEN [host |-> <<>>, port |-> port]
     ELSE [host |-> SubSeq(authority, 2, shut - 1),
           port |-> IF more THEN SubSeq(authority, shut + 2, Len(authority)) ELSE port]

PlainHost(authority, port) ==
  LET colon == rfind(authority, ":")
  IN IF colon = 0 THEN [host |-> authority, port |-> port]
     ELSE [host |-> SubSeq(authority, 1, colon - 1), port |-> SubSeq(authority, colon + 1, Len(authority))]

split_absolute_url(http, url, r) ==
  LET slash     == find(url, "/")
      authority == IF slash = 0 THEN url ELSE SubSeq(url, 1, slash - 1)
      hp        == IF authority[1] = "[" THEN BracketedHost(authority, r.port) ELSE PlainHost(authority, r.port)
  IN IF ~http \/ authority = <<>> THEN [ok |-> FALSE, req |-> r]
     ELSE [ok  |-> hp.host # <<>> /\ hp.port # <<>> /\ Range(hp.port) \subseteq {"80"},
           req |-> [r EXCEPT !.path = IF slash = 0 THEN <<"/">> ELSE SubSeq(url, slash, Len(url)),
                             !.host = hp.host, !.port = hp.port]]

\* strtoul stops at the largest number.
strtoul(value) == IF Number[value] >= SizeValues THEN SizeValues - 1 ELSE Number[value]

\* What follows the request line: r has its method and target.
ParseHeaders(lines, r) ==
  LET full == [r EXCEPT !.headers = @ \o lines]
      cl   == header_value(full, "content-length")
  IN IF \E i \in DOMAIN lines : lines[i] = Junk THEN [result |-> "BadRequest", req |-> r]
     ELSE IF header_value(full, "transfer-encoding") = "chunked" THEN [result |-> "NotImplemented", req |-> full]
     ELSE IF cl = Empty THEN [result |-> "Ok", req |-> full]
     ELSE IF cl \notin DOMAIN Number THEN [result |-> "BadRequest", req |-> full]
     ELSE [result |-> "Ok", req |-> [full EXCEPT !.content_length = strtoul(cl)]]

\* Where a line end is followed by an empty line.
BlankLines(buf) == {i \in 1..(Len(buf) - 1) : buf[i] = CRLF /\ buf[i + 1] = CRLF}

parse_request(buf, r) ==
  LET end   == Min(BlankLines(buf))
      out   == [r EXCEPT !.header_bytes = end + 1]
      first == buf[1]
      split == split_absolute_url(first.http, first.url, [out EXCEPT !.method = first.method])
      rest  == Without(SubSeq(buf, 2, end), {CRLF})
  IN IF BlankLines(buf) = {} THEN [result |-> "Incomplete", req |-> r]
     ELSE IF first \in {CRLF, Junk} THEN [result |-> "BadRequest", req |-> out]
     ELSE IF first.method \notin {"GET", "HEAD", "POST"} THEN [result |-> "NotImplemented", req |-> out]
     ELSE IF ~split.ok THEN [result |-> "BadRequest", req |-> split.req]
     ELSE ParseHeaders(rest, split.req)

HostValue(r) == r.host \o (IF r.port = Port80 THEN <<>> ELSE <<":">> \o r.port)

\* The client's own Host is passed on too.
build_with_both_hosts(r, body) ==
  [method |-> r.method, path |-> r.path, body |-> body,
   headers |-> <<Header("Host", "host", HostValue(r))>>
               \o Without(r.headers, {h \in Range(r.headers) : is_hop_by_hop(h.lname)})
               \o <<Header("Connection", "connection", "close")>>]

build_upstream_request(r, body) ==
  [method |-> r.method, path |-> r.path, body |-> body,
   headers |-> <<Header("Host", "host", HostValue(r))>>
               \o Without(r.headers, {h \in Range(r.headers) : h.lname = "host" \/ is_hop_by_hop(h.lname)})
               \o <<Header("Connection", "connection", "close")>>]

\* cache.cpp.  One origin for all ports:
cache_key_without_port(r) == <<r.method, Space>> \o r.host \o <<":">> \o r.path

cache_key(r) == <<r.method, Space>> \o r.host \o <<":">> \o r.port \o r.path

-----------------------------------------------------------------------------
(* Connection::do_read_client *)

Init ==
  /\ msg \in Messages
  /\ in_client = <<>> /\ req = NoRequest /\ parsed = FALSE
  /\ state = "ReadClient" /\ reply = 0 /\ out_upstream = <<>>

fail_with(status) ==
  /\ state' = "Failing" /\ reply' = status
  /\ UNCHANGED <<parsed, out_upstream>>

\* The header is parsed: wait for the whole body, then rebuild the request.
BodyWhole(buf, r) ==
  /\ parsed' = TRUE
  /\ reply' = reply
  /\ LET needed == (r.header_bytes + r.content_length) % SizeValues
     IN IF Len(buf) < needed THEN UNCHANGED <<state, out_upstream>>
        ELSE /\ state' = "Forward"
             /\ out_upstream' = build_upstream_request(
                  r, Len(SubSeq(buf, r.header_bytes + 1, r.header_bytes + r.content_length)))

Parsed(buf, p) ==
  \/ p.result = "Incomplete" /\ Len(buf) <= max_header_bytes /\ UNCHANGED <<parsed, state, reply, out_upstream>>
  \/ p.result = "Incomplete" /\ Len(buf) > max_header_bytes /\ fail_with(400)
  \/ p.result = "BadRequest" /\ fail_with(400)
  \/ p.result = "NotImplemented" /\ fail_with(501)
  \/ p.result = "Ok" /\ p.req.content_length > max_body_bytes /\ fail_with(413)
  \/ p.result = "Ok" /\ p.req.content_length <= max_body_bytes /\ BodyWhole(buf, p.req)

\* Only the bytes just read are parsed.
ReadAndParseChunk(n) ==
  /\ state = "ReadClient" /\ n <= Len(msg) - Len(in_client)
  /\ LET buf == SubSeq(msg, 1, Len(in_client) + n)
         p   == parse_request(SubSeq(msg, Len(in_client) + 1, Len(in_client) + n), req)
     IN /\ in_client' = buf
        /\ \/ parsed /\ req' = req /\ BodyWhole(buf, req)
           \/ ~parsed /\ req' = p.req /\ Parsed(buf, p)
  /\ UNCHANGED msg

\* One read brings n units.
Read(n) ==
  /\ state = "ReadClient" /\ n <= Len(msg) - Len(in_client)
  /\ LET buf == SubSeq(msg, 1, Len(in_client) + n)
         p   == parse_request(buf, req)
     IN /\ in_client' = buf
        /\ \/ parsed /\ req' = req /\ BodyWhole(buf, req)
           \/ ~parsed /\ req' = p.req /\ Parsed(buf, p)
  /\ UNCHANGED msg

\* The client hangs up, or its socket fails.
HangUp ==
  /\ state = "ReadClient"
  /\ state' = "Done"
  /\ UNCHANGED <<msg, in_client, req, parsed, reply, out_upstream>>

\* The rest is module Connection's business.
Over == state # "ReadClient" /\ UNCHANGED vars

Next == (\E n \in 1..Len(msg) : Read(n)) \/ HangUp \/ Over

Spec == Init /\ [][Next]_vars

-----------------------------------------------------------------------------
(* Properties *)

Whole == parse_request(msg, NoRequest)

\* The streams as module Intake sees them.  A header that never ends is longer than its stream.
Holds ==
  [m \in Messages |->
    LET w == parse_request(m, NoRequest)
    IN [header  |-> IF w.result = "Incomplete" THEN Len(m) + 1 ELSE w.req.header_bytes,
        length  |-> w.req.content_length,
        verdict |-> IF w.result = "Incomplete" THEN "BadRequest" ELSE w.result]]

Outcome ==
  CASE state = "ReadClient" -> "reading"
    [] state = "Forward" -> "forward"
    [] state = "Done" -> "gone"
    [] state = "Failing" -> IF reply = 400 THEN "400" ELSE IF reply = 413 THEN "413" ELSE "501"

Promise == INSTANCE Intake WITH
  MaxHeaderBytes <- max_header_bytes, MaxBodyBytes <- max_body_bytes,
  request <- Holds[msg], received <- Len(in_client), outcome <- Outcome

\* After each read do_read_client has made of the stream what Intake says of as much as has
\* come: the repeated calls of parse_request leave nothing behind in req_, no verdict comes
\* late, and the request that goes on is that of one parse of the whole stream.  So the
\* verdict is that of the whole stream wherever the reads cut it, with one exception.  A
\* header of more than max_header_bytes + 1 gets 400 if a read ends past the limit and inside
\* the header; if none does it is parsed, and may go on, although config.hpp:22 says that
\* it gets 400.
ReadsMatterPastLimitOnly ==
  Promise!Spec /\ [](Promise!OneVerdict /\ (state = "Forward" => req = Whole.req))

\* A request goes to the origin with exactly the body that its first Content-Length
\* declares, or none, never early and never cut, although header_bytes + content_length is
\* computed in a size_t and strtoul saturates.  header_value reads no second one.
BodyIsWhole ==
  state = "Forward" =>
    LET declared == header_value(req, "content-length")
    IN /\ out_upstream.body = IF declared = Empty THEN 0 ELSE Number[declared]
       /\ Len(in_client) >= req.header_bytes + out_upstream.body

Names(headers, lname) == {i \in DOMAIN headers : headers[i].lname = lname}

\* Whether a Host for r's target can be read back.  build_upstream_request writes an IPv6
\* literal without its brackets, so that its last colon is taken for that of a port,
\* unless a port follows.
Legible(r) == r.host[1] # "[" /\ (":" \in Range(r.host) => r.port # Port80)

\* What the origin gets: one Host, however the client spelled its own, and read as the
\* authority of a URL it names the host and port of the request's URL if it is Legible, and
\* something else if not; one Connection, which says close; no other header that is
\* meant for this hop; and the client's other headers, all of them and in their order, a
\* second Content-Length included.
RewrittenForOrigin ==
  state = "Forward" =>
    LET hs   == out_upstream.headers
        back == split_absolute_url(TRUE, hs[1].value, NoRequest)
    IN /\ Names(hs, "host") = {1}
       /\ Names(hs, "connection") = {Len(hs)} /\ hs[Len(hs)].value = "close"
       /\ \E from \in [2..(Len(hs) - 1) -> DOMAIN req.headers] :
            /\ \A i, j \in 2..(Len(hs) - 1) : i < j => from[i] < from[j]
            /\ \A i \in 2..(Len(hs) - 1) : hs[i] = req.headers[from[i]]
            /\ Range(from) = {j \in DOMAIN req.headers :
                                req.headers[j].lname # "host" /\ ~is_hop_by_hop(req.headers[j].lname)}
       /\ Legible(req) <=> back.ok /\ back.req.host = req.host /\ back.req.port = req.port

\* The origin gets the request that was sent to the proxy, made over for it by
\* build_upstream_request and with all of the body that the first Content-Length declares.
\* Its Host names the URL's host and port except where an IPv6 literal, which loses its
\* brackets, has no port after it (or a host begins with a bracket of its own).
OriginGetsRequest == BodyIsWhole /\ RewrittenForOrigin

\* A cache key stands for one method, host, port and path: they can be read off it, even
\* where the host itself has colons; and a URL without a path has the key of the URL that
\* ends in "/".
KeyDeterminesTarget ==
  state = "Forward" =>
    LET key   == cache_key(req)
        slash == find(key, "/")
        front == SubSeq(key, 1, slash - 1)
        colon == rfind(front, ":")
        url   == msg[1].url
    IN /\ key[1] = req.method /\ req.path = SubSeq(key, slash, Len(key))
       /\ req.host = SubSeq(key, 3, colon - 1) /\ req.port = SubSeq(front, colon + 1, Len(front))
       /\ "/" \notin Range(url) =>
            cache_key([split_absolute_url(TRUE, url \o <<"/">>, NoRequest).req EXCEPT !.method = req.method]) = key
=============================================================================
