----------------------------- MODULE Connection -----------------------------
(***************************************************************************)
(* One proxied exchange: the state machine of connection.cpp, driven by    *)
(* on_ready() calls, with the client, the origin, the resolver and the     *)
(* response cache around it.                                               *)
(*                                                                         *)
(* Bytes are counted in units.  The client's unit j is its j-th; a         *)
(* response is a sequence of units <<source, i>>.  read_some and           *)
(* write_some move any number of units up to what the call allows, report  *)
(* end of stream, or fail; EAGAIN changes nothing and is a stuttering      *)
(* step.  A descriptor is 0 when it is closed; upstream_ carries the index *)
(* of the candidate address it was opened for, so that two sockets of one  *)
(* exchange are different even when the kernel gives them one number.      *)
(***************************************************************************)
EXTENDS Integers, Sequences, ConnMoves

CONSTANTS
  MaxHeaderBytes, MaxBodyBytes, IoChunkBytes, CacheMaxEntryBytes,  \* Config
  AsyncResolve, CacheEnabled,                                      \* Config
  Requests,      \* what a client may send: [header, length, verdict, shared]
  Responses,     \* what an origin may answer: [ok, cookie], see RequestAssumption
  Trailing,      \* bound: units a client sends after its request
  MaxResponse,   \* bound: units an origin sends
  MaxEndpoints   \* bound: addresses a lookup returns

ASSUME ConfigAssumption ==
  /\ MaxHeaderBytes \in Nat /\ MaxBodyBytes \in Nat /\ CacheMaxEntryBytes \in Nat
  /\ IoChunkBytes \in Nat \ {0}
  /\ AsyncResolve \in BOOLEAN /\ CacheEnabled \in BOOLEAN
  /\ Trailing \in Nat /\ MaxResponse \in Nat /\ MaxEndpoints \in Nat \ {0}

\* A response is a 200 or not, and may have a header that sets a cookie: cookie is its name
\* as the origin spells it, which may be in any mix of cases, or "".
ASSUME RequestAssumption ==
  /\ Requests \subseteq [header : Nat \ {0}, length : Nat, shared : BOOLEAN,
                         verdict : {"Ok", "BadRequest", "NotImplemented"}]
  /\ Responses \subseteq [ok : BOOLEAN, cookie : STRING]

VARIABLES
  state, want, epoch,              \* state_, want_, epoch_
  client, upstream,                \* client_, upstream_: 0 when closed
  job,                             \* resolve_job_: "none", or how its lookup stands
  req, received, parsed,           \* the request, in_client_.size(), parsed_
  endpoints, endpoint_idx,         \* endpoints_.size(), endpoint_idx_
  out_upstream, out_upstream_off,  \* the rebuilt request, and how much of it is sent
  out_client, out_client_off,      \* response units to send, and how many are sent
  upstream_eof,                    \* upstream_eof_
  cache_key, cache_accum,          \* cache_key_ # "", cache_accum_
  cache_too_big,                   \* cache_too_big_
  cache,                           \* the cache's entry for this request, <<>> if none
  \* The peers, and what they have seen:
  resp,                            \* the origin's answer
  read,                            \* how many of its units were read
  sent,                            \* what the origin received
  got,                             \* what the client received
  reply,                           \* the reply the proxy chose itself, <<>> if none
  clientFault,                     \* the client hung up, or its socket failed
  alive                            \* the Connection object exists

vars == <<state, want, epoch, client, upstream, job, req, received, parsed, endpoints,
          endpoint_idx, out_upstream, out_upstream_off, out_client, out_client_off,
          upstream_eof, cache_key, cache_accum, cache_too_big, cache, resp, read, sent,
          got, reply, clientFault, alive>>

peerVars    == <<req, resp, alive>>
requestVars == <<received, parsed>>
routeVars   == <<endpoints, endpoint_idx>>
sendVars    == <<out_upstream, out_upstream_off, sent>>
relayVars   == <<upstream_eof, read>>
cacheVars   == <<cache_key, cache_accum, cache_too_big, cache>>
replyVars   == <<out_client, out_client_off, reply>>
ctlVars     == <<state, want, epoch>>

States == {"ReadingRequest", "Resolving", "Connecting", "SendingUpstream", "Relaying", "Failing", "Done"}

\* Where the units of a response come from, and the first n from one source.
Sources == {"origin", "cached", "400", "413", "501", "502"}
Unit    == Sources \X Nat
Units(source, n) == [i \in 1..n |-> <<source, i>>]

\* error_response, and a response stored by an earlier exchange.
Reply(code) == Units(code, 2)
CachedReply == Units("cached", 2)

\* build_upstream_request, with n units of the request received: a rebuilt
\* header, then up to content_length of the units that follow the request's own
\* header, and nothing the client sent after them.
UpstreamRequest(n) ==
  <<0>> \o [i \in {j \in 1..req.length : req.header + j <= n} |-> req.header + i]

Init ==
  /\ state = "ReadingRequest" /\ want = "ReadClient" /\ epoch = 0
  /\ client = 1 /\ upstream = 0 /\ job = "none"
  /\ req \in Requests /\ received = 0 /\ parsed = FALSE
  /\ endpoints = 0 /\ endpoint_idx = 0
  /\ out_upstream = <<>> /\ out_upstream_off = 0
  /\ out_client = <<>> /\ out_client_off = 0
  /\ upstream_eof = FALSE
  /\ cache_key = FALSE /\ cache_accum = <<>> /\ cache_too_big = FALSE
  /\ cache \in {<<>>, CachedReply}
  /\ resp \in Responses /\ read = 0 /\ sent = <<>> /\ got = <<>> /\ reply = <<>>
  /\ clientFault = FALSE /\ alive = TRUE

-----------------------------------------------------------------------------
(* Pieces shared by the handlers *)

\* A set_want that forgets the epoch.
SetWantOnly(w) == want' = w /\ epoch' = epoch

SetWant(w) == want' = w /\ epoch' = epoch + 1

\* Drop the upstream and serve these units instead, then close.
FailWith(units) ==
  /\ upstream' = 0
  /\ out_client' = units /\ out_client_off' = 0 /\ reply' = units
  /\ state' = "Failing"
  /\ SetWant("WriteClient")

Finish ==
  /\ state' = "Done"
  /\ SetWant("None")
  /\ job' = "none" /\ upstream' = 0 /\ client' = 0

\* begin_connect gives up after the first candidate that fails at once.
BeginConnectFirstOnly(n, tried) ==
  \/ /\ tried + 1 <= n
     /\ upstream' = tried + 1 /\ endpoint_idx' = tried + 1
     /\ state' \in {"SendingUpstream", "Connecting"}
     /\ SetWant("WriteUpstream")
     /\ UNCHANGED replyVars
  \/ /\ endpoint_idx' = IF tried < n THEN tried + 1 ELSE n
     /\ FailWith(Reply("502"))

\* Of n candidates the first `tried` are used up.  Some may fail at once; one
\* connects at once or is in progress, or all of them have failed.
BeginConnect(n, tried) ==
  \/ \E i \in (tried + 1)..n :
       /\ upstream' = i /\ endpoint_idx' = i
       /\ state' \in {"SendingUpstream", "Connecting"}
       /\ SetWant("WriteUpstream")
       /\ UNCHANGED replyVars
  \/ /\ endpoint_idx' = n
     /\ FailWith(Reply("502"))

\* start (or resolve_blocking) has the addresses, fails, or leaves a job behind.
BeginResolve ==
  \/ \E n \in 1..MaxEndpoints :
       /\ endpoints' = n
       /\ BeginConnect(n, 0)
       /\ UNCHANGED job
  \/ /\ FailWith(Reply("502"))
     /\ UNCHANGED <<routeVars, job>>
  \/ /\ AsyncResolve
     /\ job' = "pending" /\ state' = "Resolving"
     /\ SetWant("ReadResolver")
     /\ UNCHANGED <<routeVars, upstream, replyVars>>
-----------------------------------------------------------------------------
(* do_read_client, with n units of the request received after the read *)

Accepted == req.verdict = "Ok" /\ req.length <= MaxBodyBytes

HeaderDone(n) == parsed \/ (n >= req.header /\ Accepted)

BodyDone(n) == n >= req.header + req.length

RejectCode ==
  IF req.verdict = "BadRequest" THEN "400"
  ELSE IF req.verdict = "NotImplemented" THEN "501" ELSE "413"

\* The client hung up before its request was complete, or its socket failed.
ReadClientGone ==
  /\ want = "ReadClient"
  /\ Finish
  /\ clientFault' = TRUE
  /\ UNCHANGED <<peerVars, requestVars, routeVars, sendVars, relayVars, cacheVars, replyVars, got>>

\* The size of an unfinished header is not looked at.
KeepReadingUnlimited(n) ==
  /\ \/ ~parsed /\ n < req.header /\ UNCHANGED parsed
     \/ HeaderDone(n) /\ ~BodyDone(n) /\ parsed' = TRUE
  /\ UNCHANGED <<ctlVars, client, upstream, job, routeVars, sendVars, cacheVars, replyVars>>

\* The header or the body is not there yet.
KeepReading(n) ==
  /\ \/ ~parsed /\ n < req.header /\ n <= MaxHeaderBytes /\ UNCHANGED parsed
     \/ HeaderDone(n) /\ ~BodyDone(n) /\ parsed' = TRUE
  /\ UNCHANGED <<ctlVars, client, upstream, job, routeVars, sendVars, cacheVars, replyVars>>

\* An unfinished header past the limit, or a request parse_request or the body
\* limit turns down.
Reject(n) ==
  /\ ~parsed
  /\ \/ n < req.header /\ n > MaxHeaderBytes /\ FailWith(Reply("400"))
     \/ n >= req.header /\ ~Accepted /\ FailWith(Reply(RejectCode))
  /\ UNCHANGED <<client, parsed, job, routeVars, sendVars, cacheVars>>

\* All of it is there: rebuild it, and answer from the cache or look for the origin.
RequestComplete(n) ==
  /\ HeaderDone(n) /\ BodyDone(n)
  /\ parsed' = TRUE
  /\ out_upstream' = UpstreamRequest(n) /\ out_upstream_off' = 0
  /\ cache_key' = (CacheEnabled /\ req.shared)
  /\ \/ cache_key' /\ cache # <<>> /\ FailWith(cache) /\ UNCHANGED <<job, routeVars>>
     \/ ~(cache_key' /\ cache # <<>>) /\ BeginResolve
  /\ UNCHANGED <<client, sent, cache_accum, cache_too_big, cache>>

DoReadClient ==
  /\ want = "ReadClient"
  /\ \E n \in (received + 1)..(received + IoChunkBytes) :
       /\ n <= req.header + req.length + Trailing
       /\ received' = n
       /\ KeepReading(n) \/ Reject(n) \/ RequestComplete(n)
  /\ UNCHANGED <<peerVars, relayVars, got, clientFault>>

-----------------------------------------------------------------------------
(* The resolver's answer, and the connect *)

\* A resolver thread publishes the result into the job and wakes its pipe.
Publish ==
  /\ job = "pending"
  /\ job' \in {"ok", "failed"}
  /\ UNCHANGED <<ctlVars, client, upstream, peerVars, requestVars, routeVars, sendVars,
                 relayVars, cacheVars, replyVars, got, clientFault>>

\* finish_resolve that forgets to act on a failed lookup.
FinishResolveIgnoringFailure ==
  /\ want = "ReadResolver" /\ job = "ok"
  /\ job' = "none"
  /\ \E n \in 1..MaxEndpoints : endpoints' = n /\ BeginConnect(n, 0)
  /\ UNCHANGED <<client, peerVars, requestVars, sendVars, relayVars, cacheVars, got, clientFault>>

\* Before the job is ready the wake-up is spurious and nothing changes.
FinishResolve ==
  /\ want = "ReadResolver" /\ job \in {"ok", "failed"}
  /\ job' = "none"
  /\ \/ job = "ok" /\ \E n \in 1..MaxEndpoints : endpoints' = n /\ BeginConnect(n, 0)
     \/ job = "failed" /\ FailWith(Reply("502")) /\ UNCHANGED routeVars
  /\ UNCHANGED <<client, peerVars, requestVars, sendVars, relayVars, cacheVars, got, clientFault>>

FinishConnect ==
  /\ want = "WriteUpstream" /\ state = "Connecting"
  /\ \/ /\ state' = "SendingUpstream"
        /\ SetWant("WriteUpstream")
        /\ UNCHANGED <<upstream, endpoint_idx, replyVars>>
     \/ BeginConnect(endpoints, endpoint_idx)
  /\ UNCHANGED <<client, job, endpoints, peerVars, requestVars, sendVars, relayVars,
                 cacheVars, got, clientFault>>

-----------------------------------------------------------------------------
(* Sending the request, relaying the response *)

\* How many of `remaining` units one successful write_some may take.
Takes(remaining) == IF remaining = 0 THEN {0} ELSE 1..remaining

\* The units such a write hands over, and the same by a write that ignores the offset.
TakenFromStart(buffer, off, k) == SubSeq(buffer, 1, k)

Taken(buffer, off, k) == SubSeq(buffer, off + 1, off + k)

Flushed(buffer, off) == off >= Len(buffer)

\* do_write_upstream that closes on a failed write instead of answering.
WriteUpstreamFailsSilently ==
  /\ want = "WriteUpstream" /\ state # "Connecting"
  /\ Finish
  /\ UNCHANGED <<peerVars, requestVars, routeVars, sendVars, relayVars, cacheVars, replyVars,
                 got, clientFault>>

WriteUpstreamFails ==
  /\ want = "WriteUpstream" /\ state # "Connecting"
  /\ FailWith(Reply("502"))
  /\ UNCHANGED <<client, job, peerVars, requestVars, routeVars, sendVars, relayVars, cacheVars,
                 got, clientFault>>

\* A short write leaves the rest for the next call; the last one starts the relay.
DoWriteUpstream ==
  /\ want = "WriteUpstream" /\ state # "Connecting"
  /\ \E k \in Takes(Len(out_upstream) - out_upstream_off) :
       LET off == out_upstream_off + k IN
       /\ sent' = sent \o Taken(out_upstream, out_upstream_off, k)
       /\ \/ /\ ~Flushed(out_upstream, off)
             /\ out_upstream_off' = off
             /\ UNCHANGED <<out_upstream, ctlVars>>
          \/ /\ Flushed(out_upstream, off)
             /\ out_upstream' = <<>> /\ out_upstream_off' = 0
             /\ state' = "Relaying" /\ SetWant("ReadUpstream")
  /\ UNCHANGED <<client, upstream, job, peerVars, requestVars, routeVars, relayVars, cacheVars,
                 replyVars, got, clientFault>>

\* The upstream socket fails: close without a word, whatever was relayed so far.
ReadUpstreamFails ==
  /\ want = "ReadUpstream"
  /\ Finish
  /\ UNCHANGED <<peerVars, requestVars, routeVars, sendVars, relayVars, cacheVars, replyVars,
                 got, clientFault>>

\* The spellings that store_in_cache looks for.  Any other goes unnoticed.
LookedFor == {"Set-Cookie", "set-cookie"}

\* The response's first unit holds its status line, the second the header that sets a cookie.
Storable(units) ==
  /\ units # <<>>
  /\ resp.ok
  /\ ~(resp.cookie \in LookedFor /\ Len(units) >= 2)

StoreInCache ==
  cache' = IF cache_key /\ ~cache_too_big /\ upstream_eof' /\ Storable(cache_accum)
           THEN cache_accum ELSE cache

\* End of stream: the response is complete.  Close now, or after the rest is flushed.
ReadUpstreamEof ==
  /\ want = "ReadUpstream"
  /\ upstream_eof' = TRUE
  /\ StoreInCache
  /\ IF Flushed(out_client, out_client_off)
     THEN Finish
     ELSE upstream' = 0 /\ SetWant("WriteClient") /\ UNCHANGED <<state, job, client>>
  /\ UNCHANGED <<read, cache_key, cache_accum, cache_too_big, peerVars, requestVars, routeVars,
                 sendVars, replyVars, got, clientFault>>

\* do_read_upstream accumulates only what fits, and goes on after what does not.
AccumulateWhatFits(units) ==
  /\ cache_accum' = IF cache_key /\ Len(cache_accum) + Len(units) <= CacheMaxEntryBytes
                    THEN cache_accum \o units ELSE cache_accum
  /\ UNCHANGED cache_too_big

\* Collect the response for the cache until it outgrows the largest entry.
Accumulate(units) ==
  LET collecting == cache_key /\ ~cache_too_big
      fits       == Len(cache_accum) + Len(units) <= CacheMaxEntryBytes
  IN  /\ cache_accum' = IF ~collecting THEN cache_accum
                        ELSE IF fits THEN cache_accum \o units ELSE <<>>
      /\ cache_too_big' = (cache_too_big \/ (collecting /\ ~fits))

DoReadUpstream ==
  /\ want = "ReadUpstream"
  /\ \E k \in 1..IoChunkBytes :
       LET units == SubSeq(Units("origin", read + k), read + 1, read + k) IN
       /\ read + k <= MaxResponse
       /\ read' = read + k
       /\ Accumulate(units)
       /\ out_client' = out_client \o units
  /\ SetWant("WriteClient")
  /\ UNCHANGED <<state, client, upstream, job, peerVars, requestVars, routeVars, sendVars,
                 upstream_eof, cache_key, cache, out_client_off, reply, got, clientFault>>

WriteClientFails ==
  /\ want = "WriteClient"
  /\ Finish
  /\ clientFault' = TRUE
  /\ UNCHANGED <<peerVars, requestVars, routeVars, sendVars, relayVars, cacheVars, replyVars, got>>

\* A short write leaves the rest; once all is flushed, close or read some more.
DoWriteClient ==
  /\ want = "WriteClient"
  /\ \E k \in Takes(Len(out_client) - out_client_off) :
       LET off == out_client_off + k IN
       /\ got' = got \o Taken(out_client, out_client_off, k)
       /\ \/ /\ ~Flushed(out_client, off)
             /\ out_client_off' = off
             /\ UNCHANGED <<out_client, ctlVars, client, upstream, job>>
          \/ /\ Flushed(out_client, off)
             /\ out_client' = <<>> /\ out_client_off' = 0
             /\ IF state = "Failing" \/ upstream_eof
                THEN Finish
                ELSE SetWant("ReadUpstream") /\ UNCHANGED <<state, client, upstream, job>>
  /\ UNCHANGED <<peerVars, requestVars, routeVars, sendVars, relayVars, cacheVars, reply, clientFault>>

-----------------------------------------------------------------------------
\* The backend destroys a Connection that is not done: poll_timeout_ms went by
\* in a blocking backend, or the event loop's drain gave up.
Abandon ==
  /\ alive /\ state # "Done"
  /\ alive' = FALSE
  /\ client' = 0 /\ upstream' = 0 /\ job' = "none" /\ want' = "None"
  /\ UNCHANGED <<state, epoch, req, resp, requestVars, routeVars, sendVars, relayVars, cacheVars,
                 replyVars, got, clientFault>>

\* The driver has nothing left to do.
Over == (state = "Done" \/ ~alive) /\ UNCHANGED vars

\* What happens when the peers answer and no socket fails.
Progress ==
  \/ DoReadClient \/ Publish \/ FinishResolve \/ FinishConnect \/ DoWriteUpstream
  \/ DoReadUpstream \/ ReadUpstreamEof \/ DoWriteClient

Next ==
  \/ Progress
  \/ ReadClientGone \/ WriteUpstreamFails \/ ReadUpstreamFails \/ WriteClientFails
  \/ Abandon \/ Over

Spec == Init /\ [][Next]_vars

\* The peers keep answering and the backend calls on_ready for what is ready.
FairSpec == Spec /\ WF_vars(Progress)

-----------------------------------------------------------------------------
(* Properties *)

ControlType ==
  /\ state \in States /\ want \in Wants /\ epoch \in Nat
  /\ client \in {0, 1} /\ upstream \in 0..MaxEndpoints
  /\ job \in {"none", "pending", "ok", "failed"}
  /\ endpoints \in 0..MaxEndpoints /\ endpoint_idx \in 0..endpoints

RequestType ==
  /\ req \in Requests /\ resp \in Responses
  /\ received \in Nat /\ parsed \in BOOLEAN
  /\ clientFault \in BOOLEAN /\ alive \in BOOLEAN

SendType ==
  /\ out_upstream \in Seq(Nat) /\ out_upstream_off \in 0..Len(out_upstream)
  /\ sent \in Seq(Nat)

ReplyType ==
  /\ out_client \in Seq(Unit) /\ out_client_off \in 0..Len(out_client)
  /\ got \in Seq(Unit) /\ reply \in Seq(Unit)
  /\ read \in 0..MaxResponse

CacheType ==
  /\ cache_key \in BOOLEAN /\ cache_too_big \in BOOLEAN /\ upstream_eof \in BOOLEAN
  /\ cache_accum \in Seq(Unit) /\ cache \in Seq(Unit)

\* Every field keeps its type; offsets stay inside their buffers and the
\* candidate index inside the candidate list.
TypeOK == ControlType /\ RequestType /\ SendType /\ ReplyType /\ CacheType

\* want_fd() names an open descriptor until the exchange is over, and then none
\* is left open: a backend never waits on -1, nor keeps a finished connection's
\* sockets or resolver pipe.
WantsAnOpenDescriptor ==
  /\ want \in {"ReadClient", "WriteClient"} => client # 0
  /\ want \in {"ReadUpstream", "WriteUpstream"} => upstream # 0 /\ client # 0
  /\ want = "ReadResolver" => job # "none" /\ client # 0
  /\ (want = "None") <=> (state = "Done" \/ ~alive)
  /\ want = "None" => client = 0 /\ upstream = 0 /\ job = "none"

\* A connection asks for writability only when it has something to write, or a
\* connect to finish: a writable socket with nothing to send would spin.
WritesHaveBytes ==
  /\ want = "WriteClient" => out_client_off < Len(out_client)
  /\ want = "WriteUpstream" => state = "Connecting" \/ out_upstream_off < Len(out_upstream)

\* At most one chunk of the response is in the proxy, and the next read waits until
\* all of that is flushed.
OneChunkInFlight ==
  /\ want = "ReadUpstream" => out_client = <<>>
  /\ reply = <<>> => Len(out_client) <= IoChunkBytes

\* All that goes to the client: the proxy's own reply, or what the origin sent.
FullReply == IF reply # <<>> THEN reply ELSE Units("origin", read)

\* The client gets one reply, from one source, complete so far and in order:
\* across short writes no unit is lost, repeated or swapped, and no error reply
\* ever follows response bytes.
OneReplyInOrder ==
  got \o SubSeq(out_client, out_client_off + 1, Len(out_client)) = FullReply

\* The request as the origin must see it.
WholeRequest == <<0>> \o [i \in 1..req.length |-> req.header + i]

\* The origin receives the rebuilt header and exactly the announced body, once,
\* whatever the sizes of the reads and writes and however many candidates were
\* tried; and the response is read only after all of it was sent.
RequestForwardedWhole ==
  /\ sent \o SubSeq(out_upstream, out_upstream_off + 1, Len(out_upstream)) \in {<<>>, WholeRequest}
  /\ want = "ReadUpstream" => sent = WholeRequest

\* Whatever the sizes of reads and writes, and whichever side is slow or fails, nothing
\* is lost, repeated, reordered or mixed on the way: the client has a prefix of one
\* reply, and the origin one of the rebuilt request.
BytesInOrder == OneReplyInOrder /\ RequestForwardedWhole

\* A client that stayed to the end was answered: it has the whole of an error
\* or cached reply, or all the units its origin sent for the whole request.
DoneMeansAnswered ==
  (state = "Done" /\ ~clientFault) =>
    /\ got = FullReply
    /\ reply # <<>> \/ sent = WholeRequest

\* An entry this exchange puts in the cache (store_in_cache) is a complete response, up to
\* the origin's clean end of stream, however its reads were cut; a 200, no larger than the
\* largest entry, to a request that may be shared.  Of cookies it says only that the
\* response has no header spelled Set-Cookie or set-cookie: one that is spelled otherwise
\* does not keep a response out of the cache, although docs/phase5.md:61 says that no
\* response with a Set-Cookie is cached.
CachedIsWhole ==
  \/ cache \in {<<>>, CachedReply}
  \/ /\ CacheEnabled /\ req.shared /\ resp.ok /\ upstream_eof
     /\ ~(resp.cookie \in LookedFor /\ read >= 2)
     /\ cache = Units("origin", read)
     /\ Len(cache) <= CacheMaxEntryBytes

\* What has become of the request, as module Intake sees it.
Outcome ==
  IF want = "ReadClient" THEN "reading"
  ELSE IF out_upstream # <<>> \/ sent # <<>> THEN "forward"
  ELSE IF reply # <<>> THEN reply[1][1] ELSE "gone"

Promise == INSTANCE Intake WITH request <- req, outcome <- Outcome

\* The lookup, as module Lookups sees it.
Asked == [c \in {1} |-> job]
Found == [c \in {1} |-> endpoints # 0]

Asking == INSTANCE Lookups WITH Callers <- {1}, job <- Asked, found <- Found

\* The connection keeps to what Http and Resolver are shown to provide.  After each read
\* do_read_client makes of a request what Intake says of as much as has come by then, and
\* that is settled once and for all: nothing that fails later turns a request that was sent
\* on into one that was refused.  A header over the limit is refused by a read that ends
\* past the limit and inside it, and accepted when no read does.  And a lookup is asked for
\* once, and its answer is taken as given.
ImplementsInterfaces == Promise!Spec /\ Asking!Spec

\* What becomes of the upstream socket in a step.
UpstreamChange(op) ==
  \/ op = "keep"   /\ upstream' = upstream
  \/ op = "open"   /\ upstream = 0 /\ upstream' # 0
  \/ op = "reopen" /\ upstream # 0 /\ upstream' \notin {0, upstream}
  \/ op = "close"  /\ upstream' = 0

\* The epoch stands, and with it the descriptor and the direction waited on; or it
\* goes up by one and the connection makes one of the moves of ConnMoves.
SameWant == epoch' = epoch /\ want' = want /\ upstream' = upstream /\ client' = client

OneMove ==
  /\ epoch' = epoch + 1
  /\ \E op \in {"keep", "open", "reopen", "close"} :
       <<want, want', op>> \in Moves /\ UpstreamChange(op)
  /\ want' # "None" => client' = client

\* A step of a live connection either changes nothing the backend waits for or makes one
\* of the known moves, and says so with its epoch.  The client's socket stays open until
\* the last.
OnlyTheseMoves == [][alive' => SameWant \/ OneMove]_vars

\* What a backend may rely on (want, want_fd, epoch, on_ready): whatever fails and whoever is
\* slow, the descriptor it is told to wait for is open, being ready to write leads to a
\* write, and what it waits for changes by the known moves only, each with a new epoch.
BackendCanRely == [](WantsAnOpenDescriptor /\ WritesHaveBytes) /\ OnlyTheseMoves

GivesUp ==
  /\ state \notin {"SendingUpstream", "Failing"}
  /\ state' = "Failing" /\ reply' = Reply("502")

\* Before the request is on its way, an exchange gives up with 502 only when every
\* candidate address was tried.
AllCandidatesTried == [][GivesUp => endpoint_idx' = endpoints']_vars

\* If the peers keep answering, every exchange ends: it never waits for a thing
\* nobody will provide.
ExchangeEnds == <>(state = "Done" \/ ~alive)

\* What a client can make the proxy hold (do_read_client): the limit on the header is
\* looked at only while it is incomplete, so a header may pass it by what one read
\* brings, and in_client_ may pass header and body together by one read more.
InputBounded ==
  /\ parsed => req.header <= MaxHeaderBytes + IoChunkBytes
  /\ received <= MaxHeaderBytes + MaxBodyBytes + 2 * IoChunkBytes

\* Neither side can make a connection hold more than its limits allow: not an origin
\* that sends faster than the client reads (do_read_upstream waits for the flush), nor
\* a client that sends its request in whatever pieces (do_read_client).
MemoryBounded == OneChunkInFlight /\ InputBounded
=============================================================================
