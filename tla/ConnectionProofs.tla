-------------------------- MODULE ConnectionProofs --------------------------
(***************************************************************************)
(* Proofs about Connection, for every limit, chunk size, request, response *)
(* and number of candidate addresses.                                      *)
(***************************************************************************)
EXTENDS Connection, SequenceTheorems, TLAPS

\* Where the exchange is, and which descriptors are open there.
Ended ==
  /\ want = "None" /\ (state = "Done" \/ ~alive)
  /\ client = 0 /\ upstream = 0 /\ job = "none"

Open ==
  /\ alive /\ client = 1
  /\ \/ state = "ReadingRequest" /\ want = "ReadClient" /\ upstream = 0 /\ job = "none"
     \/ state = "Resolving" /\ want = "ReadResolver" /\ upstream = 0 /\ job # "none"
     \/ /\ state \in {"Connecting", "SendingUpstream"} /\ want = "WriteUpstream"
        /\ upstream # 0 /\ upstream = endpoint_idx /\ job = "none"
     \/ /\ state = "Relaying" /\ want \in {"ReadUpstream", "WriteClient"}
        /\ upstream # 0 /\ job = "none"
     \/ state = "Failing" /\ want = "WriteClient" /\ upstream = 0 /\ job = "none"

Control ==
  /\ Ended \/ Open
  /\ upstream_eof => want = "None"
  /\ want \in {"ReadClient", "ReadResolver"} => endpoints = 0 /\ endpoint_idx = 0

\* Nothing was read from the origin, and nothing given to the client.
Untouched == out_client = <<>> /\ out_client_off = 0 /\ reply = <<>> /\ got = <<>> /\ read = 0

\* What is in the buffer towards the client.
Buffers ==
  /\ want \in {"ReadClient", "ReadResolver", "WriteUpstream"} => Untouched
  /\ want = "ReadUpstream" => out_client = <<>> /\ out_client_off = 0
  /\ want = "WriteClient" => out_client_off < Len(out_client)
  /\ state = "Relaying" => reply = <<>>
  /\ state = "Failing" => reply # <<>>
  /\ reply = <<>> => Len(out_client) <= IoChunkBytes

\* What is in the buffer towards the origin.
Sending ==
  /\ want = "ReadClient" => out_upstream = <<>> /\ out_upstream_off = 0 /\ sent = <<>>
  /\ want = "ReadResolver" => out_upstream = WholeRequest /\ out_upstream_off = 0 /\ sent = <<>>
  /\ want = "WriteUpstream" => /\ out_upstream_off < Len(out_upstream)
                               /\ state = "Connecting" => sent = <<>>
                               /\ sent \o SubSeq(out_upstream, out_upstream_off + 1, Len(out_upstream)) = WholeRequest
  /\ state = "Relaying" => sent = WholeRequest

\* What is collected for the cache.
Collecting ==
  /\ cache_key => CacheEnabled /\ req.shared
  /\ want = "ReadClient" => ~cache_key
  /\ ~cache_key => cache_accum = <<>>
  /\ (cache_key /\ ~cache_too_big) => cache_accum = Units("origin", read) /\ read <= CacheMaxEntryBytes
  /\ ~cache_key => ~cache_too_big
  /\ ~upstream_eof => cache \in {<<>>, CachedReply}

\* The inductive invariant, in three parts: the exchange as its client sees it, the
\* request on its way to the origin, and the cache.
Front == ControlType /\ Control /\ ReplyType /\ Buffers /\ OneReplyInOrder /\ DoneMeansAnswered

Back == RequestType /\ SendType /\ Sending /\ RequestForwardedWhole

Store == CacheType /\ Collecting /\ CachedIsWhole

IInv == Front /\ Back /\ Store

-----------------------------------------------------------------------------
(* Units, replies and requests as sequences *)

\* n units of one source are a sequence of length n.
LEMMA UnitsSeq ==
  ASSUME NEW source \in Sources, NEW n \in Nat
  PROVE  /\ Units(source, n) \in Seq(Unit)
         /\ Len(Units(source, n)) = n
         /\ \A i \in 1..n : Units(source, n)[i] = <<source, i>>
BY DEF Units, Unit, Sources

\* Reading k more units of a response continues what was read before.
LEMMA UnitsExtend ==
  ASSUME NEW source \in Sources, NEW r \in Nat, NEW k \in Nat
  PROVE  LET more == SubSeq(Units(source, r + k), r + 1, r + k)
         IN  /\ more \in Seq(Unit) /\ Len(more) = k
             /\ Units(source, r) \o more = Units(source, r + k)
<1> DEFINE all  == Units(source, r + k)
           more == SubSeq(all, r + 1, r + k)
<1>1. all \in Seq(Unit) /\ Len(all) = r + k /\ \A i \in 1..(r + k) : all[i] = <<source, i>>
  BY UnitsSeq
<1>2. Units(source, r) \in Seq(Unit) /\ Len(Units(source, r)) = r
  BY UnitsSeq, Zenon
<1>3. \A i \in 1..r : Units(source, r)[i] = <<source, i>>
  BY UnitsSeq, Zenon
<1> HIDE DEF all
<1>4. SubSeq(all, 1, r) = Units(source, r)
  <2>1. SubSeq(all, 1, r) \in Seq(Unit) /\ Len(SubSeq(all, 1, r)) = r
    BY <1>1
  <2>2. \A i \in 1..r : SubSeq(all, 1, r)[i] = all[i]
    BY <1>1
  <2> QED
    BY <1>1, <1>2, <1>3, <2>1, <2>2, SeqEqual, SMTT(30)
<1>5. more \in Seq(Unit) /\ Len(more) = k
  BY <1>1
<1>6. SubSeq(all, 1, r) \o SubSeq(all, r + 1, r + k) = SubSeq(all, 1, r + k)
  BY <1>1, ConcatAdjacentSubSeq, SMTT(30)
<1>7. SubSeq(all, 1, r + k) = all
  BY <1>1, SubSeqFull, Zenon
<1> QED
  BY <1>4, <1>5, <1>6, <1>7, Zenon DEF all

\* Concatenation is associative; named, so that it is used for given sequences only.
Regrouped(a, b, c) == (a \o b) \o c = a \o (b \o c)

\* Any three sequences may be regrouped.
LEMMA Regroup ==
  ASSUME NEW S, NEW a \in Seq(S), NEW b \in Seq(S), NEW c \in Seq(S)
  PROVE  Regrouped(a, b, c)
BY ConcatAssociative, SMTT(30) DEF Regrouped

\* A write of k units moves them from the rest of the buffer to the receiver.
LEMMA WriteMoves ==
  ASSUME NEW S, NEW done \in Seq(S), NEW buffer \in Seq(S),
         NEW off \in 0..Len(buffer), NEW k \in 0..(Len(buffer) - off)
  PROVE  /\ Taken(buffer, off, k) \in Seq(S)
         /\ (done \o Taken(buffer, off, k)) \o SubSeq(buffer, off + k + 1, Len(buffer))
              = done \o SubSeq(buffer, off + 1, Len(buffer))
<1>1. SubSeq(buffer, off + 1, off + k) \in Seq(S) /\ SubSeq(buffer, off + k + 1, Len(buffer)) \in Seq(S)
  OBVIOUS
<1>2. SubSeq(buffer, off + 1, off + k) \o SubSeq(buffer, off + k + 1, Len(buffer))
        = SubSeq(buffer, off + 1, Len(buffer))
  <2>1. off + 1 \in 1..(Len(buffer) + 1) /\ off + k \in ((off + 1) - 1)..Len(buffer)
    OBVIOUS
  <2>2. Len(buffer) \in (off + k)..Len(buffer)
    OBVIOUS
  <2> QED
    BY <2>1, <2>2, ConcatAdjacentSubSeq, Zenon
<1> DEFINE x == SubSeq(buffer, off + 1, off + k)
           y == SubSeq(buffer, off + k + 1, Len(buffer))
<1>3. x \in Seq(S) /\ y \in Seq(S) /\ x \o y = SubSeq(buffer, off + 1, Len(buffer))
  BY <1>1, <1>2, Zenon
<1>4. Taken(buffer, off, k) = x
  BY Zenon DEF Taken
<1>5. (done \o x) \o y = done \o (x \o y)
  <2> HIDE DEF x, y
  <2>1. Regrouped(done, x, y)
    BY <1>3, Regroup, Zenon
  <2> QED
    BY <2>1, Zenon DEF Regrouped
<1> QED
  BY <1>3, <1>4, <1>5, Zenon

\* Nothing is left to send of a buffer that is flushed.
LEMMA NothingLeft ==
  ASSUME NEW S, NEW done \in Seq(S), NEW buffer \in Seq(S)
  PROVE  /\ done \o SubSeq(buffer, Len(buffer) + 1, Len(buffer)) = done
         /\ done \o SubSeq(<<>>, 0 + 1, Len(<<>>)) = done
<1>1. SubSeq(buffer, Len(buffer) + 1, Len(buffer)) = <<>>
  BY SubSeqEmpty
<1>2. SubSeq(<<>>, 0 + 1, Len(<<>>)) = <<>>
  OBVIOUS
<1>3. done \o <<>> = done
  BY ConcatEmptySeq, Zenon
<1> QED
  BY <1>1, <1>2, <1>3, Zenon

\* All of a buffer is left to send when nothing was sent.
LEMMA AllLeft ==
  ASSUME NEW S, NEW buffer \in Seq(S)
  PROVE  <<>> \o SubSeq(buffer, 0 + 1, Len(buffer)) = buffer
<1>1. SubSeq(buffer, 0 + 1, Len(buffer)) = buffer
  BY SubSeqFull
<1> QED
  BY <1>1, ConcatEmptySeq, Zenon

\* The replies the proxy makes itself.
LEMMA ReplySeq ==
  /\ \A code \in Sources : Reply(code) \in Seq(Unit) /\ Reply(code) # <<>>
  /\ CachedReply \in Seq(Unit) /\ CachedReply # <<>>
<1>1. \A code \in Sources : Units(code, 2) \in Seq(Unit) /\ Len(Units(code, 2)) = 2
  BY UnitsSeq, Zenon
<1>2. \A u \in Seq(Unit) : Len(u) = 2 => u # <<>>
  OBVIOUS
<1> QED
  <2>1. "cached" \in Sources
    BY Zenon DEF Sources
  <2>2. \A code \in Sources : Units(code, 2) # <<>>
    BY <1>1, <1>2, Zenon
  <2> QED
    BY <1>1, <2>1, <2>2, Zenon DEF Reply, CachedReply

\* The whole request is the rebuilt header and the announced body.
LEMMA WholeRequestSeq ==
  ASSUME req \in Requests
  PROVE  WholeRequest \in Seq(Nat) /\ Len(WholeRequest) > 0
<1>1. req.header \in Nat /\ req.length \in Nat
  BY RequestAssumption, Zenon
<1> DEFINE body == [i \in 1..req.length |-> req.header + i]
<1>2. body \in Seq(Nat) /\ Len(body) \in Nat
  BY <1>1
<1>3. <<0>> \in Seq(Nat) /\ Len(<<0>>) = 1
  OBVIOUS
<1>4. WholeRequest = <<0>> \o body
  BY Zenon DEF WholeRequest
<1> HIDE DEF body
<1>5. <<0>> \o body \in Seq(Nat) /\ Len(<<0>> \o body) = 1 + Len(body) /\ Len(body) \in Nat
  <2>2. <<0>> \o body \in Seq(Nat) /\ Len(<<0>> \o body) = Len(<<0>>) + Len(body)
    BY <1>2, <1>3, ConcatProperties, Zenon
  <2> QED
    BY <1>2, <1>3, <2>2, Zenon
<1> QED
  BY <1>4, <1>5

\* build_upstream_request drops what the client sent after its body.
LEMMA UpstreamRequestWhole ==
  ASSUME req \in Requests, NEW n \in Nat, BodyDone(n)
  PROVE  UpstreamRequest(n) = WholeRequest
<1>1. req.header \in Nat /\ req.length \in Nat
  BY RequestAssumption, Zenon
<1>2. {j \in 1..req.length : req.header + j <= n} = 1..req.length
  BY <1>1 DEF BodyDone
<1> QED
  BY <1>2, Zenon DEF UpstreamRequest, WholeRequest

\* The fields of a request, and the error code of one that is turned down.
LEMMA RequestFields ==
  ASSUME req \in Requests
  PROVE  /\ req.header \in Nat /\ req.length \in Nat /\ req.shared \in BOOLEAN
         /\ RejectCode \in Sources
<1>1. req.header \in Nat /\ req.length \in Nat /\ req.shared \in BOOLEAN
  BY RequestAssumption, Zenon
<1>2. RejectCode \in Sources
  BY Zenon DEF RejectCode, Sources
<1> QED
  BY <1>1, <1>2, Zenon

\* A write takes no more than there is.
LEMMA TakesRange ==
  ASSUME NEW m \in Nat, NEW k \in Takes(m)
  PROVE  k \in 0..m
BY DEF Takes

-----------------------------------------------------------------------------
(* The first state *)

\* A new exchange satisfies the invariant.
LEMMA InitInv == Init => IInv
<1> SUFFICES ASSUME Init PROVE IInv
  BY Zenon
<1> USE DEF Init
<1>1. ControlType
  BY ConfigAssumption DEF ControlType, States, Wants
<1>2. RequestType /\ SendType
  <2>1. RequestType
    BY Zenon DEF RequestType
  <2>2. SendType
    BY DEF SendType
  <2> QED
    BY <2>1, <2>2, Zenon
<1>3. ReplyType
  BY ConfigAssumption DEF ReplyType
<1>4. CacheType
  <2>1. <<>> \in Seq(Unit)
    OBVIOUS
  <2>2. cache = <<>> \/ cache = CachedReply
    BY Zenon
  <2>3. cache \in Seq(Unit)
    BY <2>1, <2>2, ReplySeq, Zenon
  <2> QED
    BY <2>1, <2>3, Zenon DEF CacheType
<1>5. Control /\ Buffers
  BY ConfigAssumption DEF Control, Open, Buffers, Untouched
<1>6. Units("origin", 0) = <<>>
  BY DEF Units
<1>7. <<>> \o SubSeq(<<>>, 0 + 1, Len(<<>>)) = <<>>
  OBVIOUS
<1>8. OneReplyInOrder /\ RequestForwardedWhole
  BY <1>6, <1>7, Zenon DEF OneReplyInOrder, RequestForwardedWhole, FullReply
<1>9. Sending /\ DoneMeansAnswered
  BY Zenon DEF Sending, DoneMeansAnswered
<1>10. Collecting /\ CachedIsWhole
  BY <1>6, ConfigAssumption, Zenon DEF Collecting, CachedIsWhole
<1> QED
  BY <1>1, <1>2, <1>3, <1>4, <1>5, <1>8, <1>9, <1>10, Zenon DEF IInv, Front, Back, Store

-----------------------------------------------------------------------------
(* Steps that leave one part alone, and the steps the handlers share *)

\* Nothing the cache part is about changes.
LEMMA StoreSame ==
  ASSUME Store, UNCHANGED <<cacheVars, upstream_eof, read, req, resp>>,
         want' = "ReadClient" => want = "ReadClient"
  PROVE  Store'
<1> USE DEF cacheVars
<1>1. CacheType'
  BY Zenon DEF Store, CacheType
<1>2. Collecting'
  BY Zenon DEF Store, Collecting
<1>3. CachedIsWhole'
  BY Zenon DEF Store, CachedIsWhole
<1> QED
  BY <1>1, <1>2, <1>3, Zenon DEF Store

\* The buffer towards the origin stays as it is; the moves of want are those that
\* do not need it filled or flushed.
LEMMA BackSame ==
  ASSUME Back, UNCHANGED <<sendVars, req, resp>>,
         received' \in Nat, parsed' \in BOOLEAN, clientFault' \in BOOLEAN, alive' \in BOOLEAN,
         want' = "ReadClient" => want = "ReadClient",
         want' = "ReadResolver" => want = "ReadResolver",
         want' = "WriteUpstream" =>
           \/ want = "ReadResolver"
           \/ want = "WriteUpstream" /\ (state' = "Connecting" => state = "Connecting"),
         state' = "Relaying" => state = "Relaying",
         want' = "ReadUpstream" => state = "Relaying"
  PROVE  Back'
<1> USE DEF sendVars
<1>1. RequestType'
  BY Zenon DEF Back, RequestType
<1>2. SendType'
  BY Zenon DEF Back, SendType
<1>3. WholeRequest' = WholeRequest
  BY Zenon DEF WholeRequest
<1>4. Sending'
  <2>1. CASE want = "ReadResolver" /\ want' = "WriteUpstream"
    <3>1. out_upstream = WholeRequest /\ out_upstream_off = 0 /\ sent = <<>> /\ req \in Requests
      BY <2>1, Zenon DEF Back, Sending, RequestType
    <3>2. WholeRequest \in Seq(Nat) /\ Len(WholeRequest) > 0
      BY <3>1, WholeRequestSeq, Zenon
    <3>3. <<>> \o SubSeq(WholeRequest, 0 + 1, Len(WholeRequest)) = WholeRequest
      BY <3>2, AllLeft, Zenon
    <3> QED
      BY <1>3, <2>1, <3>1, <3>2, <3>3, Zenon DEF Back, Sending
  <2>2. CASE ~(want = "ReadResolver" /\ want' = "WriteUpstream")
    BY <1>3, <2>2, Zenon DEF Back, Sending
  <2> QED
    BY <2>1, <2>2, Zenon
<1>5. RequestForwardedWhole'
  BY <1>3, Zenon DEF Back, Sending, RequestForwardedWhole
<1> QED
  BY <1>1, <1>2, <1>4, <1>5, Zenon DEF Back

\* fail_with: the exchange, of which the client has seen nothing yet, gets a reply.
LEMMA FailFront ==
  ASSUME Front, NEW u \in Seq(Unit), u # <<>>, FailWith(u),
         want \in {"ReadClient", "ReadResolver", "WriteUpstream"},
         job' = "none", UNCHANGED <<client, alive, upstream_eof, read, got>>,
         endpoints' \in 0..MaxEndpoints, endpoint_idx' \in 0..endpoints'
  PROVE  Front'
<1>1. Untouched /\ alive /\ client = 1 /\ ~upstream_eof /\ epoch \in Nat /\ read \in 0..MaxResponse
  BY Zenon DEF Front, Control, Ended, Open, Buffers, ControlType, ReplyType
<1>2. /\ upstream' = 0 /\ out_client' = u /\ out_client_off' = 0 /\ reply' = u
      /\ state' = "Failing" /\ want' = "WriteClient" /\ epoch' = epoch + 1
  BY Zenon DEF FailWith, SetWant
<1>3. ControlType'
  BY <1>1, <1>2, ConfigAssumption DEF ControlType, States, Wants
<1>4. Control'
  BY <1>1, <1>2, Zenon DEF Control, Open
<1>5. Len(u) > 0 /\ Len(u) \in Nat
  BY EmptySeq, LenProperties
<1>6. ReplyType'
  BY <1>1, <1>2, <1>5 DEF ReplyType, Untouched
<1>7. Buffers'
  BY <1>2, <1>5, Zenon DEF Buffers
<1>8. OneReplyInOrder'
  <2>1. got' = <<>>
    BY <1>1, Zenon DEF Untouched
  <2>2. FullReply' = u
    BY <1>2, Zenon DEF FullReply
  <2> QED
    BY <1>2, <2>1, <2>2, AllLeft, Zenon DEF OneReplyInOrder
<1>9. DoneMeansAnswered'
  BY <1>2, Zenon DEF DoneMeansAnswered
<1> QED
  BY <1>3, <1>4, <1>6, <1>7, <1>8, <1>9, Zenon DEF Front

\* The steps before anything is relayed: the reply stays empty.
LEMMA EarlyFront ==
  ASSUME Front, ControlType', Control',
         want \in {"ReadClient", "ReadResolver", "WriteUpstream"},
         want' \in {"ReadClient", "ReadResolver", "WriteUpstream", "ReadUpstream"},
         state' \notin {"Failing", "Done"},
         UNCHANGED <<replyVars, read, got>>
  PROVE  Front'
<1> USE DEF replyVars
<1>1. Untouched /\ Untouched'
  BY Zenon DEF Front, Buffers, Untouched
<1>2. ReplyType'
  BY Zenon DEF Front, ReplyType
<1>3. Buffers'
  BY <1>1, ConfigAssumption, Zenon DEF Front, Buffers, Untouched
<1>4. OneReplyInOrder'
  BY Zenon DEF Front, OneReplyInOrder, FullReply
<1>5. DoneMeansAnswered'
  BY Zenon DEF DoneMeansAnswered
<1> QED
  BY <1>2, <1>3, <1>4, <1>5, Zenon DEF Front

\* begin_connect opens a socket to one candidate, or serves 502.
LEMMA ConnectFront ==
  ASSUME Front, NEW n \in 1..MaxEndpoints, NEW tried \in 0..n, BeginConnect(n, tried),
         endpoints' = n, job' = "none",
         want \in {"ReadClient", "ReadResolver", "WriteUpstream"},
         UNCHANGED <<client, alive, upstream_eof, read, got>>
  PROVE  /\ Front'
         /\ want' \in {"WriteUpstream", "WriteClient"}
         /\ state' \in {"SendingUpstream", "Connecting", "Failing"}
<1>1. alive /\ client = 1 /\ ~upstream_eof /\ epoch \in Nat
  BY Zenon DEF Front, Control, Ended, Open, ControlType
<1>2. ASSUME NEW i \in (tried + 1)..n, upstream' = i, endpoint_idx' = i,
             state' \in {"SendingUpstream", "Connecting"}, SetWant("WriteUpstream"),
             UNCHANGED replyVars
      PROVE  Front' /\ want' = "WriteUpstream"
  <2>1. i \in 1..n /\ i # 0 /\ i \in 0..MaxEndpoints /\ n \in 0..MaxEndpoints /\ i \in 0..n
    BY ConfigAssumption
  <2>2. want' = "WriteUpstream" /\ epoch' = epoch + 1
    BY <1>2, Zenon DEF SetWant
  <2>3. ControlType'
    BY <1>1, <1>2, <2>1, <2>2 DEF Front, ControlType, States, Wants
  <2>4. Control'
    BY <1>1, <1>2, <2>1, <2>2, Zenon DEF Control, Open
  <2> QED
    BY <1>2, <2>2, <2>3, <2>4, EarlyFront, Zenon
<1>3. CASE endpoint_idx' = n /\ FailWith(Reply("502"))
  <2>1. Reply("502") \in Seq(Unit) /\ Reply("502") # <<>>
    BY ReplySeq, Zenon DEF Sources
  <2>2. endpoints' \in 0..MaxEndpoints /\ endpoint_idx' \in 0..endpoints'
    BY <1>3, ConfigAssumption
  <2>3. Front'
    BY <1>3, <2>1, <2>2, FailFront, Zenon
  <2> QED
    BY <1>3, <2>3, Zenon DEF FailWith, SetWant
<1> QED
  BY <1>2, <1>3, Zenon DEF BeginConnect

\* finish() with everything else left alone: the client is at fault, or the
\* response stops where its reading stopped.
LEMMA EndStep ==
  ASSUME IInv, Finish, want # "None",
         clientFault' \in BOOLEAN,
         clientFault' \/ want = "ReadUpstream",
         UNCHANGED <<peerVars, requestVars, routeVars, sendVars, relayVars, cacheVars, replyVars, got>>
  PROVE  IInv'
<1> USE DEF peerVars, requestVars, routeVars, sendVars, relayVars, cacheVars, replyVars
<1>1. /\ state' = "Done" /\ want' = "None" /\ epoch' = epoch + 1
      /\ job' = "none" /\ upstream' = 0 /\ client' = 0
  BY Zenon DEF Finish, SetWant
<1>2. ControlType' /\ Control'
  BY <1>1, ConfigAssumption DEF IInv, Front, ControlType, States, Wants, Control, Ended
<1>3. ReplyType'
  BY Zenon DEF IInv, Front, ReplyType
<1>4. Buffers'
  BY <1>1, Zenon DEF IInv, Front, Buffers
<1>5. OneReplyInOrder' /\ FullReply' = FullReply /\ WholeRequest' = WholeRequest
  BY Zenon DEF IInv, Front, OneReplyInOrder, FullReply, WholeRequest
<1>6. DoneMeansAnswered'
  <2> SUFFICES ASSUME ~clientFault'
               PROVE  got' = FullReply' /\ (reply' # <<>> \/ sent' = WholeRequest')
    BY Zenon DEF DoneMeansAnswered
  <2>1. out_client = <<>> /\ out_client_off = 0 /\ got \in Seq(Unit)
    BY Zenon DEF IInv, Front, Buffers, ReplyType
  <2>2. got \o SubSeq(<<>>, 0 + 1, Len(<<>>)) = got
    BY <2>1, NothingLeft, Zenon
  <2>3. got = FullReply
    BY <2>1, <2>2, Zenon DEF IInv, Front, OneReplyInOrder
  <2>4. sent = WholeRequest
    BY Zenon DEF IInv, Back, RequestForwardedWhole
  <2> QED
    BY <1>5, <2>3, <2>4, Zenon
<1>7. Front'
  BY <1>2, <1>3, <1>4, <1>5, <1>6, Zenon DEF Front
<1>8. received' \in Nat /\ parsed' \in BOOLEAN /\ alive' \in BOOLEAN
  BY Zenon DEF IInv, Back, RequestType
<1>9. Back'
  BY <1>1, <1>8, BackSame, Zenon DEF IInv
<1>10. Store'
  BY <1>1, StoreSame, Zenon DEF IInv
<1> QED
  BY <1>7, <1>9, <1>10, Zenon DEF IInv

-----------------------------------------------------------------------------
(* One lemma per step *)

\* The client is gone.
LEMMA ReadClientGoneInv == IInv /\ ReadClientGone => IInv'
BY EndStep, Zenon DEF ReadClientGone

\* The client's socket fails.
LEMMA WriteClientFailsInv == IInv /\ WriteClientFails => IInv'
BY EndStep, Zenon DEF WriteClientFails

\* The origin's socket fails.
LEMMA ReadUpstreamFailsInv == IInv /\ ReadUpstreamFails => IInv'
<1> SUFFICES ASSUME IInv, ReadUpstreamFails PROVE IInv'
  BY Zenon
<1>1. clientFault' \in BOOLEAN
  BY Zenon DEF ReadUpstreamFails, IInv, Back, RequestType
<1> QED
  BY <1>1, EndStep, Zenon DEF ReadUpstreamFails

\* The backend drops the exchange.
LEMMA AbandonInv == IInv /\ Abandon => IInv'
<1> SUFFICES ASSUME IInv, Abandon PROVE IInv'
  BY Zenon
<1> USE DEF Abandon, requestVars, routeVars, sendVars, relayVars, cacheVars, replyVars
<1>1. ControlType' /\ Control'
  BY ConfigAssumption DEF IInv, Front, ControlType, Wants, Control, Ended
<1>2. ReplyType' /\ OneReplyInOrder'
  BY Zenon DEF IInv, Front, ReplyType, OneReplyInOrder, FullReply
<1>3. Buffers' /\ DoneMeansAnswered'
  BY Zenon DEF IInv, Front, Buffers, DoneMeansAnswered
<1>4. received' \in Nat /\ parsed' \in BOOLEAN /\ clientFault' \in BOOLEAN
  BY Zenon DEF IInv, Back, RequestType
<1>5. Back'
  BY <1>4, BackSame, Zenon DEF IInv
<1>6. Store'
  BY StoreSame, Zenon DEF IInv
<1> QED
  BY <1>1, <1>2, <1>3, <1>5, <1>6, Zenon DEF IInv, Front

\* A resolver thread answers.
LEMMA PublishInv == IInv /\ Publish => IInv'
<1> SUFFICES ASSUME IInv, Publish PROVE IInv'
  BY Zenon
<1> USE DEF Publish, ctlVars, peerVars, requestVars, routeVars, sendVars, relayVars, cacheVars, replyVars
<1>1. ControlType' /\ Control'
  BY Zenon DEF IInv, Front, ControlType, Control, Ended, Open
<1>2. ReplyType' /\ OneReplyInOrder'
  BY Zenon DEF IInv, Front, ReplyType, OneReplyInOrder, FullReply
<1>3. Buffers' /\ DoneMeansAnswered'
  BY Zenon DEF IInv, Front, Buffers, Untouched, DoneMeansAnswered, FullReply, WholeRequest
<1>4. received' \in Nat /\ parsed' \in BOOLEAN /\ clientFault' \in BOOLEAN /\ alive' \in BOOLEAN
  BY Zenon DEF IInv, Back, RequestType
<1>5. want = "ReadResolver" /\ state = "Resolving"
  BY Zenon DEF IInv, Front, Control, Ended, Open
<1>6. Back'
  BY <1>4, <1>5, BackSame, Zenon DEF IInv
<1>7. Store'
  BY StoreSame, Zenon DEF IInv
<1> QED
  BY <1>1, <1>2, <1>3, <1>6, <1>7, Zenon DEF IInv, Front

\* The origin does not take the request.
LEMMA WriteUpstreamFailsInv == IInv /\ WriteUpstreamFails => IInv'
<1> SUFFICES ASSUME IInv, WriteUpstreamFails PROVE IInv'
  BY Zenon
<1> USE DEF WriteUpstreamFails, peerVars, requestVars, routeVars, sendVars, relayVars, cacheVars
<1>1. want' = "WriteClient" /\ state' = "Failing"
  BY Zenon DEF FailWith, SetWant
<1>2. Reply("502") \in Seq(Unit) /\ Reply("502") # <<>>
  BY ReplySeq, Zenon DEF Sources
<1>3. job = "none" /\ endpoints \in 0..MaxEndpoints /\ endpoint_idx \in 0..endpoints
  BY Zenon DEF IInv, Front, ControlType, Control, Ended, Open
<1>4. Front'
  BY <1>2, <1>3, FailFront, Zenon DEF IInv
<1>5. received' \in Nat /\ parsed' \in BOOLEAN /\ clientFault' \in BOOLEAN /\ alive' \in BOOLEAN
  BY Zenon DEF IInv, Back, RequestType
<1>6. Back'
  BY <1>1, <1>5, BackSame, Zenon DEF IInv
<1>7. Store'
  BY <1>1, StoreSame, Zenon DEF IInv
<1> QED
  BY <1>4, <1>6, <1>7, Zenon DEF IInv

\* The job is ready: connect, or answer 502.
LEMMA FinishResolveInv == IInv /\ FinishResolve => IInv'
<1> SUFFICES ASSUME IInv, FinishResolve PROVE IInv'
  BY Zenon
<1> USE DEF peerVars, requestVars, routeVars, sendVars, relayVars, cacheVars
<1>1. /\ want = "ReadResolver" /\ job' = "none"
      /\ UNCHANGED <<client, peerVars, requestVars, sendVars, relayVars, cacheVars, got, clientFault>>
  BY Zenon DEF FinishResolve
<1>2. /\ Front'
      /\ want' \in {"WriteUpstream", "WriteClient"}
      /\ state' \in {"SendingUpstream", "Connecting", "Failing"}
  <2>1. ASSUME NEW n \in 1..MaxEndpoints, endpoints' = n, BeginConnect(n, 0)
        PROVE  /\ Front'
               /\ want' \in {"WriteUpstream", "WriteClient"}
               /\ state' \in {"SendingUpstream", "Connecting", "Failing"}
    <3>1. 0 \in 0..n
      BY ConfigAssumption
    <3> QED
      BY <1>1, <2>1, <3>1, ConnectFront, Zenon DEF IInv
  <2>2. CASE FailWith(Reply("502")) /\ UNCHANGED routeVars
    <3>1. Reply("502") \in Seq(Unit) /\ Reply("502") # <<>>
      BY ReplySeq, Zenon DEF Sources
    <3>2. endpoints' \in 0..MaxEndpoints /\ endpoint_idx' \in 0..endpoints'
      BY <2>2, Zenon DEF IInv, Front, ControlType
    <3>3. Front'
      BY <1>1, <2>2, <3>1, <3>2, FailFront, Zenon DEF IInv
    <3> QED
      BY <2>2, <3>3, Zenon DEF FailWith, SetWant
  <2>3. \/ \E n \in 1..MaxEndpoints : endpoints' = n /\ BeginConnect(n, 0)
        \/ FailWith(Reply("502")) /\ UNCHANGED routeVars
    BY Zenon DEF FinishResolve
  <2> QED
    BY <2>1, <2>2, <2>3, Zenon
<1>3. received' \in Nat /\ parsed' \in BOOLEAN /\ clientFault' \in BOOLEAN /\ alive' \in BOOLEAN
  BY <1>1, Zenon DEF IInv, Back, RequestType
<1>4. Back'
  BY <1>1, <1>2, <1>3, BackSame, Zenon DEF IInv
<1>5. Store'
  BY <1>1, <1>2, StoreSame, Zenon DEF IInv
<1> QED
  BY <1>2, <1>4, <1>5, Zenon DEF IInv

\* The connect succeeded, or the next candidate is tried.
LEMMA FinishConnectInv == IInv /\ FinishConnect => IInv'
<1> SUFFICES ASSUME IInv, FinishConnect PROVE IInv'
  BY Zenon
<1> USE DEF peerVars, requestVars, routeVars, sendVars, relayVars, cacheVars
<1>1. /\ want = "WriteUpstream" /\ state = "Connecting"
      /\ UNCHANGED <<client, job, endpoints, peerVars, requestVars, sendVars, relayVars,
                     cacheVars, got, clientFault>>
  BY Zenon DEF FinishConnect
<1>2. /\ job = "none" /\ endpoint_idx \in 1..endpoints /\ endpoints \in 1..MaxEndpoints
      /\ alive /\ client = 1 /\ upstream # 0 /\ upstream = endpoint_idx /\ ~upstream_eof
      /\ epoch \in Nat
  BY <1>1, ConfigAssumption DEF IInv, Front, ControlType, Control, Ended, Open
<1>3. /\ Front'
      /\ want' \in {"WriteUpstream", "WriteClient"}
      /\ state' \in {"SendingUpstream", "Connecting", "Failing"}
  <2>1. CASE /\ state' = "SendingUpstream" /\ SetWant("WriteUpstream")
             /\ UNCHANGED <<upstream, endpoint_idx, replyVars>>
    <3>1. want' = "WriteUpstream" /\ epoch' = epoch + 1
      BY <2>1, Zenon DEF SetWant
    <3>2. ControlType'
      BY <1>1, <1>2, <2>1, <3>1 DEF IInv, Front, ControlType, States, Wants
    <3>3. Control'
      BY <1>1, <1>2, <2>1, <3>1, Zenon DEF Control, Open
    <3>4. Front'
      BY <1>1, <2>1, <3>1, <3>2, <3>3, EarlyFront, Zenon DEF IInv
    <3> QED
      BY <2>1, <3>1, <3>4, Zenon
  <2>2. CASE BeginConnect(endpoints, endpoint_idx)
    <3>1. PICK n \in 1..MaxEndpoints : n = endpoints
      BY <1>2, Zenon
    <3>2. PICK t \in 0..n : t = endpoint_idx
      BY <1>2, <3>1
    <3>3. BeginConnect(n, t) /\ endpoints' = n /\ job' = "none"
      BY <1>1, <1>2, <2>2, <3>1, <3>2, Zenon
    <3> QED
      BY <1>1, <3>3, ConnectFront, Zenon DEF IInv
  <2> QED
    BY <2>1, <2>2, Zenon DEF FinishConnect
<1>4. received' \in Nat /\ parsed' \in BOOLEAN /\ clientFault' \in BOOLEAN /\ alive' \in BOOLEAN
  BY <1>1, Zenon DEF IInv, Back, RequestType
<1>5. Back'
  BY <1>1, <1>3, <1>4, BackSame, Zenon DEF IInv
<1>6. Store'
  BY <1>1, <1>3, StoreSame, Zenon DEF IInv
<1> QED
  BY <1>3, <1>5, <1>6, Zenon DEF IInv

\* The request is complete: what happens to the client's side.
LEMMA RequestCompleteFront ==
  ASSUME IInv, want = "ReadClient", NEW n \in Nat, RequestComplete(n),
         UNCHANGED <<peerVars, relayVars, got, clientFault>>
  PROVE  /\ Front'
         /\ want' \in {"WriteUpstream", "WriteClient", "ReadResolver"}
         /\ state' \in {"SendingUpstream", "Connecting", "Failing", "Resolving"}
<1> USE DEF peerVars, relayVars, routeVars
<1>1. /\ job = "none" /\ endpoints = 0 /\ endpoint_idx = 0 /\ upstream = 0 /\ alive
      /\ client = 1 /\ ~upstream_eof /\ epoch \in Nat /\ cache \in Seq(Unit)
  BY Zenon DEF IInv, Front, Store, ControlType, CacheType, Control, Ended, Open
<1>2. UNCHANGED <<client, alive, upstream_eof, read, got, cache>>
  BY Zenon DEF RequestComplete
<1>3. ASSUME NEW u \in Seq(Unit), u # <<>>, FailWith(u), UNCHANGED <<routeVars, job>>
      PROVE  Front' /\ want' = "WriteClient" /\ state' = "Failing"
  <2>1. endpoints' \in 0..MaxEndpoints /\ endpoint_idx' \in 0..endpoints' /\ job' = "none"
    BY <1>1, <1>3, ConfigAssumption
  <2>2. Front'
    BY <1>2, <1>3, <2>1, FailFront, Zenon DEF IInv
  <2> QED
    BY <1>3, <2>2, Zenon DEF FailWith, SetWant
<1>4. CASE cache # <<>> /\ FailWith(cache) /\ UNCHANGED <<job, routeVars>>
  <2>1. PICK u \in Seq(Unit) : u = cache
    BY <1>1, Zenon
  <2> QED
    BY <1>3, <1>4, <2>1, Zenon
<1>5. CASE FailWith(Reply("502")) /\ UNCHANGED <<routeVars, job>>
  <2>1. Reply("502") \in Seq(Unit) /\ Reply("502") # <<>>
    BY ReplySeq, Zenon DEF Sources
  <2> QED
    BY <1>3, <1>5, <2>1, Zenon
<1>6. ASSUME NEW m \in 1..MaxEndpoints, endpoints' = m, BeginConnect(m, 0), UNCHANGED job
      PROVE  /\ Front'
             /\ want' \in {"WriteUpstream", "WriteClient"}
             /\ state' \in {"SendingUpstream", "Connecting", "Failing"}
  <2>1. 0 \in 0..m /\ job' = "none"
    BY <1>1, <1>6, ConfigAssumption
  <2> QED
    BY <1>2, <1>6, <2>1, ConnectFront, Zenon DEF IInv
<1>7. CASE /\ job' = "pending" /\ state' = "Resolving" /\ SetWant("ReadResolver")
           /\ UNCHANGED <<routeVars, upstream, replyVars>>
  <2>1. want' = "ReadResolver" /\ epoch' = epoch + 1
    BY <1>7, Zenon DEF SetWant
  <2>2. ControlType'
    BY <1>1, <1>2, <1>7, <2>1, ConfigAssumption DEF ControlType, States, Wants
  <2>3. Control'
    BY <1>1, <1>2, <1>7, <2>1 DEF Control, Open
  <2>4. Front'
    BY <1>2, <1>7, <2>1, <2>2, <2>3, EarlyFront, Zenon DEF IInv
  <2> QED
    BY <1>7, <2>1, <2>4, Zenon
<1>8. \/ cache # <<>> /\ FailWith(cache) /\ UNCHANGED <<job, routeVars>>
      \/ BeginResolve
  BY Zenon DEF RequestComplete
<1>9. CASE BeginResolve
  BY <1>5, <1>6, <1>7, <1>9, Zenon DEF BeginResolve
<1> QED
  BY <1>4, <1>8, <1>9, Zenon

\* The request is complete: it is rebuilt whole, and its cache key is known.
LEMMA RequestCompleteInv ==
  ASSUME IInv, want = "ReadClient", NEW n \in Nat, received' = n, RequestComplete(n),
         UNCHANGED <<peerVars, relayVars, got, clientFault>>
  PROVE  IInv'
<1> USE DEF peerVars, relayVars
<1>1. /\ Front'
      /\ want' \in {"WriteUpstream", "WriteClient", "ReadResolver"}
      /\ state' \in {"SendingUpstream", "Connecting", "Failing", "Resolving"}
  BY RequestCompleteFront, Zenon
<1>2. /\ req \in Requests /\ sent = <<>> /\ ~cache_key /\ cache_accum = <<>>
      /\ ~cache_too_big /\ read = 0 /\ ~upstream_eof
  BY Zenon DEF IInv, Front, Back, Store, RequestType, Sending, Collecting, Control, Buffers, Untouched
<1>3. /\ parsed' = TRUE /\ out_upstream' = UpstreamRequest(n) /\ out_upstream_off' = 0
      /\ cache_key' = (CacheEnabled /\ req.shared) /\ BodyDone(n)
      /\ UNCHANGED <<sent, cache_accum, cache_too_big, cache>>
  BY Zenon DEF RequestComplete
<1>4. out_upstream' = WholeRequest /\ WholeRequest \in Seq(Nat) /\ Len(WholeRequest) > 0
  BY <1>2, <1>3, UpstreamRequestWhole, WholeRequestSeq, Zenon
<1>5. WholeRequest' = WholeRequest
  BY Zenon DEF WholeRequest
<1>6. <<>> \o SubSeq(WholeRequest, 0 + 1, Len(WholeRequest)) = WholeRequest
  BY <1>4, AllLeft, Zenon
<1>7. RequestType'
  BY <1>3, Zenon DEF IInv, Back, RequestType
<1>8. SendType'
  BY <1>2, <1>3, <1>4 DEF SendType
<1>9. Sending' /\ RequestForwardedWhole'
  BY <1>1, <1>2, <1>3, <1>4, <1>5, <1>6, Zenon DEF Sending, RequestForwardedWhole
<1>10. CacheType'
  <2>1. cache_key' \in BOOLEAN
    BY <1>2, <1>3, RequestFields, ConfigAssumption, Zenon
  <2> QED
    BY <1>3, <2>1, Zenon DEF IInv, Store, CacheType
<1>11. Units("origin", 0) = <<>>
  BY DEF Units
<1>12. Collecting'
  <2>1. cache_key' => CacheEnabled /\ req.shared
    BY <1>3, Zenon
  <2> QED
    BY <1>1, <1>2, <1>3, <1>11, <2>1, ConfigAssumption DEF IInv, Store, Collecting
<1>13. CachedIsWhole'
  BY <1>2, <1>3, Zenon DEF IInv, Store, Collecting, CachedIsWhole
<1> QED
  BY <1>1, <1>7, <1>8, <1>9, <1>10, <1>12, <1>13, Zenon DEF IInv, Back, Store

\* do_read_client: wait for more, turn the request down, or go on with it.
LEMMA DoReadClientInv == IInv /\ DoReadClient => IInv'
<1> SUFFICES ASSUME IInv, DoReadClient PROVE IInv'
  BY Zenon
<1> USE DEF peerVars, relayVars
<1>1. want = "ReadClient" /\ UNCHANGED <<peerVars, relayVars, got, clientFault>>
  BY Zenon DEF DoReadClient
<1>2. PICK n \in (received + 1)..(received + IoChunkBytes) :
        received' = n /\ (KeepReading(n) \/ Reject(n) \/ RequestComplete(n))
  BY Zenon DEF DoReadClient
<1>3. n \in Nat
  BY ConfigAssumption DEF IInv, Back, RequestType
<1>4. clientFault' \in BOOLEAN /\ alive' \in BOOLEAN
  BY <1>1, Zenon DEF IInv, Back, RequestType
<1>5. CASE KeepReading(n)
  <2> USE DEF ctlVars, routeVars, sendVars, cacheVars, replyVars
  <2>1. /\ UNCHANGED <<ctlVars, client, upstream, job, routeVars, sendVars, cacheVars, replyVars>>
    BY <1>5, Zenon DEF KeepReading
  <2>2. ControlType' /\ Control'
    BY <1>1, <2>1, Zenon DEF IInv, Front, ControlType, Control, Ended, Open
  <2>3. Front'
    <3>1. state = "ReadingRequest"
      BY <1>1, Zenon DEF IInv, Front, Control, Ended, Open
    <3> QED
      BY <1>1, <2>1, <2>2, <3>1, EarlyFront, Zenon DEF IInv
  <2>4. parsed' \in BOOLEAN
    BY <1>5, Zenon DEF KeepReading, IInv, Back, RequestType
  <2>5. Back'
    BY <1>1, <1>2, <1>3, <1>4, <2>1, <2>4, BackSame, Zenon DEF IInv
  <2>6. Store'
    BY <1>1, <2>1, StoreSame, Zenon DEF IInv
  <2> QED
    BY <2>3, <2>5, <2>6, Zenon DEF IInv
<1>6. CASE Reject(n)
  <2> USE DEF routeVars, sendVars, cacheVars
  <2>1. UNCHANGED <<client, parsed, job, routeVars, sendVars, cacheVars>>
    BY <1>6, Zenon DEF Reject
  <2>2. PICK code \in Sources : FailWith(Reply(code))
    <3>1. RejectCode \in Sources /\ "400" \in Sources
      BY RequestFields, Zenon DEF IInv, Back, RequestType, Sources
    <3> QED
      BY <1>6, <3>1, Zenon DEF Reject
  <2>3. Reply(code) \in Seq(Unit) /\ Reply(code) # <<>>
    BY ReplySeq, Zenon
  <2>4. job' = "none" /\ endpoints' \in 0..MaxEndpoints /\ endpoint_idx' \in 0..endpoints'
    BY <1>1, <2>1, Zenon DEF IInv, Front, ControlType, Control, Ended, Open
  <2>5. want' = "WriteClient" /\ state' = "Failing"
    BY <2>2, Zenon DEF FailWith, SetWant
  <2>6. Front'
    BY <1>1, <2>1, <2>2, <2>3, <2>4, FailFront, Zenon DEF IInv
  <2>7. parsed' \in BOOLEAN
    BY <2>1, Zenon DEF IInv, Back, RequestType
  <2>8. Back'
    BY <1>1, <1>2, <1>3, <1>4, <2>1, <2>5, <2>7, BackSame, Zenon DEF IInv
  <2>9. Store'
    BY <1>1, <2>1, <2>5, StoreSame, Zenon DEF IInv
  <2> QED
    BY <2>6, <2>8, <2>9, Zenon DEF IInv
<1>7. CASE RequestComplete(n)
  BY <1>1, <1>2, <1>3, <1>7, RequestCompleteInv, Zenon
<1> QED
  BY <1>2, <1>5, <1>6, <1>7, Zenon

\* do_write_upstream: what was taken is sent, what is left still to be sent.
LEMMA DoWriteUpstreamInv == IInv /\ DoWriteUpstream => IInv'
<1> SUFFICES ASSUME IInv, DoWriteUpstream PROVE IInv'
  BY Zenon
<1> USE DEF peerVars, requestVars, routeVars, relayVars, cacheVars
<1>1. /\ want = "WriteUpstream" /\ state # "Connecting"
      /\ UNCHANGED <<client, upstream, job, peerVars, requestVars, routeVars, relayVars, cacheVars,
                     replyVars, got, clientFault>>
  BY Zenon DEF DoWriteUpstream
<1>2. PICK k \in Takes(Len(out_upstream) - out_upstream_off) :
        /\ sent' = sent \o Taken(out_upstream, out_upstream_off, k)
        /\ \/ /\ ~Flushed(out_upstream, out_upstream_off + k)
              /\ out_upstream_off' = out_upstream_off + k
              /\ UNCHANGED <<out_upstream, ctlVars>>
           \/ /\ Flushed(out_upstream, out_upstream_off + k)
              /\ out_upstream' = <<>> /\ out_upstream_off' = 0
              /\ state' = "Relaying" /\ SetWant("ReadUpstream")
  BY Zenon DEF DoWriteUpstream
<1>3. /\ out_upstream \in Seq(Nat) /\ sent \in Seq(Nat) /\ Len(out_upstream) \in Nat
      /\ out_upstream_off \in 0..Len(out_upstream)
      /\ sent \o SubSeq(out_upstream, out_upstream_off + 1, Len(out_upstream)) = WholeRequest
  <2>1. out_upstream \in Seq(Nat) /\ sent \in Seq(Nat) /\ out_upstream_off \in 0..Len(out_upstream)
    BY Zenon DEF IInv, Back, SendType
  <2>2. sent \o SubSeq(out_upstream, out_upstream_off + 1, Len(out_upstream)) = WholeRequest
    BY <1>1, Zenon DEF IInv, Back, Sending
  <2> QED
    BY <2>1, <2>2, LenProperties, Zenon
<1>4. k \in 0..(Len(out_upstream) - out_upstream_off)
  BY <1>3, TakesRange
<1> DEFINE off == out_upstream_off + k
<1>5. /\ Taken(out_upstream, out_upstream_off, k) \in Seq(Nat)
      /\ sent' \o SubSeq(out_upstream, off + 1, Len(out_upstream)) = WholeRequest
  BY <1>2, <1>3, <1>4, WriteMoves, ZenonT(30)
<1>6. off \in 0..Len(out_upstream)
  BY <1>3, <1>4
<1>7. sent' \in Seq(Nat)
  <2>1. \A a, b \in Seq(Nat) : a \o b \in Seq(Nat)
    BY ConcatProperties, Zenon
  <2> QED
    BY <1>2, <1>3, <1>5, <2>1, Zenon
<1>8. WholeRequest' = WholeRequest
  BY <1>1, Zenon DEF WholeRequest
<1>9. RequestType'
  BY <1>1, Zenon DEF IInv, Back, RequestType
<1> HIDE DEF off
<1>10. CASE /\ ~Flushed(out_upstream, off) /\ out_upstream_off' = off
            /\ UNCHANGED <<out_upstream, ctlVars>>
  <2> USE DEF ctlVars
  <2>1. off < Len(out_upstream)
    BY <1>3, <1>6, <1>10 DEF Flushed
  <2>2. SendType'
    BY <1>3, <1>6, <1>7, <1>10, Zenon DEF SendType
  <2>3. Sending' /\ RequestForwardedWhole'
    <3>1. sent' \o SubSeq(out_upstream', out_upstream_off' + 1, Len(out_upstream')) = WholeRequest'
      BY <1>5, <1>8, <1>10, Zenon
    <3>2. state # "Relaying"
      BY <1>1, Zenon DEF IInv, Front, Control, Ended, Open
    <3> QED
      BY <1>1, <1>10, <2>1, <3>1, <3>2, Zenon DEF Sending, RequestForwardedWhole
  <2>4. ControlType' /\ Control'
    BY <1>1, <1>10, Zenon DEF IInv, Front, ControlType, Control, Ended, Open
  <2>5. Front'
    <3>1. state \notin {"Failing", "Done"}
      BY <1>1, Zenon DEF IInv, Front, Control, Ended, Open
    <3> QED
      BY <1>1, <1>10, <2>4, <3>1, EarlyFront, Zenon DEF IInv
  <2>6. Store'
    BY <1>1, <1>10, StoreSame, Zenon DEF IInv
  <2> QED
    BY <1>9, <2>2, <2>3, <2>5, <2>6, Zenon DEF IInv, Back
<1>11. CASE /\ Flushed(out_upstream, off)
            /\ out_upstream' = <<>> /\ out_upstream_off' = 0
            /\ state' = "Relaying" /\ SetWant("ReadUpstream")
  <2>1. want' = "ReadUpstream" /\ epoch' = epoch + 1
    BY <1>11, Zenon DEF SetWant
  <2>2. off = Len(out_upstream)
    BY <1>3, <1>6, <1>11 DEF Flushed
  <2>3. sent' = WholeRequest
    BY <1>3, <1>5, <1>7, <2>2, NothingLeft, Zenon
  <2>4. sent' \o SubSeq(<<>>, 0 + 1, Len(<<>>)) = sent'
    BY <1>7, NothingLeft, Zenon
  <2>5. SendType'
    BY <1>7, <1>11 DEF SendType
  <2>6. Sending' /\ RequestForwardedWhole'
    BY <1>8, <1>11, <2>1, <2>3, <2>4, Zenon DEF Sending, RequestForwardedWhole
  <2>7. ControlType' /\ Control'
    <3>1. Open /\ want = "WriteUpstream" /\ ~upstream_eof
      BY <1>1, Zenon DEF IInv, Front, Control, Ended
    <3>2. Open' /\ ~upstream_eof'
      BY <1>1, <1>11, <2>1, <3>1, Zenon DEF Open
    <3>3. ControlType'
      BY <1>1, <1>11, <2>1 DEF IInv, Front, ControlType, States, Wants
    <3> QED
      BY <2>1, <3>2, <3>3, Zenon DEF Control
  <2>8. Front'
    BY <1>1, <1>11, <2>1, <2>7, EarlyFront, Zenon DEF IInv
  <2>9. Store'
    BY <1>1, <2>1, StoreSame, Zenon DEF IInv
  <2> QED
    BY <1>9, <2>5, <2>6, <2>8, <2>9, Zenon DEF IInv, Back
<1> QED
  BY <1>2, <1>10, <1>11, Zenon DEF off

\* The response ended: nothing is left to flush, so the exchange is done.
LEMMA ReadUpstreamEofInv == IInv /\ ReadUpstreamEof => IInv'
<1> SUFFICES ASSUME IInv, ReadUpstreamEof PROVE IInv'
  BY Zenon
<1> USE DEF peerVars, requestVars, routeVars, sendVars, replyVars
<1>1. /\ want = "ReadUpstream" /\ upstream_eof' = TRUE /\ StoreInCache
      /\ UNCHANGED <<read, cache_key, cache_accum, cache_too_big, peerVars, requestVars, routeVars,
                     sendVars, replyVars, got, clientFault>>
  BY Zenon DEF ReadUpstreamEof
<1>2. /\ out_client = <<>> /\ out_client_off = 0 /\ got \in Seq(Unit) /\ read \in Nat
      /\ sent = WholeRequest /\ reply = <<>> /\ ~upstream_eof
  BY <1>1, ConfigAssumption DEF IInv, Front, Back, Buffers, ReplyType, RequestForwardedWhole, Control, Ended, Open
<1>3. Finish
  BY <1>2 DEF ReadUpstreamEof, Flushed
<1>4. /\ state' = "Done" /\ want' = "None" /\ epoch' = epoch + 1
      /\ job' = "none" /\ upstream' = 0 /\ client' = 0
  BY <1>3, Zenon DEF Finish, SetWant
<1>5. ControlType' /\ Control'
  BY <1>1, <1>4, ConfigAssumption DEF IInv, Front, ControlType, States, Wants, Control, Ended
<1>6. ReplyType' /\ Buffers'
  BY <1>1, <1>4, Zenon DEF IInv, Front, ReplyType, Buffers
<1>7. OneReplyInOrder' /\ FullReply' = FullReply /\ WholeRequest' = WholeRequest
  BY <1>1, Zenon DEF IInv, Front, OneReplyInOrder, FullReply, WholeRequest
<1>8. DoneMeansAnswered'
  <2>1. got \o SubSeq(<<>>, 0 + 1, Len(<<>>)) = got
    BY <1>2, NothingLeft, Zenon
  <2>2. got = FullReply
    BY <1>2, <2>1, Zenon DEF IInv, Front, OneReplyInOrder
  <2> QED
    BY <1>1, <1>2, <1>7, <2>2, Zenon DEF DoneMeansAnswered
<1>9. received' \in Nat /\ parsed' \in BOOLEAN /\ alive' \in BOOLEAN /\ clientFault' \in BOOLEAN
  BY <1>1, Zenon DEF IInv, Back, RequestType
<1>10. Back'
  BY <1>1, <1>4, <1>9, BackSame, Zenon DEF IInv
<1>11. CacheType' /\ Collecting'
  <2>1. cache' \in Seq(Unit)
    BY <1>1, Zenon DEF StoreInCache, IInv, Store, CacheType
  <2>2. CacheType'
    BY <1>1, <2>1, Zenon DEF IInv, Store, CacheType
  <2>3. Collecting'
    BY <1>1, <1>4, Zenon DEF IInv, Store, Collecting
  <2> QED
    BY <2>2, <2>3, Zenon
<1>12. CachedIsWhole'
  <2>1. CASE cache_key /\ ~cache_too_big /\ Storable(cache_accum)
    <3>1. /\ cache' = cache_accum /\ cache_accum = Units("origin", read) /\ read <= CacheMaxEntryBytes
          /\ CacheEnabled /\ req.shared
      BY <1>1, <2>1, Zenon DEF StoreInCache, IInv, Store, Collecting
    <3>2. Len(cache_accum) = read
      BY <1>2, <3>1, UnitsSeq, Zenon DEF Sources
    <3>3. resp.ok /\ ~(resp.cookie \in LookedFor /\ read >= 2)
      BY <2>1, <3>2, Zenon DEF Storable
    <3> QED
      BY <1>1, <3>1, <3>2, <3>3, Zenon DEF CachedIsWhole
  <2>2. CASE ~(cache_key /\ ~cache_too_big /\ Storable(cache_accum))
    BY <1>1, <1>2, <2>2, Zenon DEF StoreInCache, IInv, Store, Collecting, CachedIsWhole
  <2> QED
    BY <2>1, <2>2, Zenon
<1> QED
  BY <1>5, <1>6, <1>7, <1>8, <1>10, <1>11, <1>12, Zenon DEF IInv, Front, Store

\* do_read_upstream: the units read follow those already relayed.
LEMMA DoReadUpstreamInv == IInv /\ DoReadUpstream => IInv'
<1> SUFFICES ASSUME IInv, DoReadUpstream PROVE IInv'
  BY Zenon
<1> USE DEF peerVars, requestVars, routeVars, sendVars
<1>1. /\ want = "ReadUpstream" /\ want' = "WriteClient" /\ epoch' = epoch + 1
      /\ UNCHANGED <<state, client, upstream, job, peerVars, requestVars, routeVars, sendVars,
                     upstream_eof, cache_key, cache, out_client_off, reply, got, clientFault>>
  BY Zenon DEF DoReadUpstream, SetWant
<1>2. PICK k \in 1..IoChunkBytes :
        LET units == SubSeq(Units("origin", read + k), read + 1, read + k) IN
        /\ read + k <= MaxResponse /\ read' = read + k
        /\ Accumulate(units) /\ out_client' = out_client \o units
  BY Zenon DEF DoReadUpstream
<1> DEFINE units == SubSeq(Units("origin", read + k), read + 1, read + k)
<1>3. /\ out_client = <<>> /\ out_client_off = 0 /\ reply = <<>> /\ got \in Seq(Unit) /\ read \in Nat
      /\ state = "Relaying" /\ ~upstream_eof
  <2>1. state = "Relaying" /\ ~upstream_eof
    BY <1>1, Zenon DEF IInv, Front, Control, Ended, Open
  <2>2. out_client = <<>> /\ out_client_off = 0 /\ reply = <<>>
    BY <1>1, <2>1, Zenon DEF IInv, Front, Buffers
  <2>3. got \in Seq(Unit) /\ read \in Nat
    BY ConfigAssumption DEF IInv, Front, ReplyType
  <2> QED
    BY <2>1, <2>2, <2>3, Zenon
<1>4. k \in Nat /\ k > 0 /\ k <= IoChunkBytes /\ read + k \in 0..MaxResponse
  BY <1>2, <1>3, ConfigAssumption
<1>5. /\ units \in Seq(Unit) /\ Len(units) = k
      /\ Units("origin", read) \o units = Units("origin", read + k)
  BY <1>3, <1>4, UnitsExtend, ZenonT(30) DEF Sources
<1>6. read' = read + k /\ Accumulate(units) /\ out_client' = out_client \o units
  BY <1>2, Zenon
<1> HIDE DEF units
<1>7. out_client' = units
  BY <1>3, <1>5, <1>6, ConcatEmptySeq, Zenon
<1>8. ControlType' /\ Control'
  <2>1. Open
    BY <1>1, Zenon DEF IInv, Front, Control, Ended
  <2>2. Open' /\ ~upstream_eof'
    BY <1>1, <1>3, <2>1, Zenon DEF Open
  <2>3. ControlType'
    BY <1>1 DEF IInv, Front, ControlType, Wants
  <2> QED
    BY <1>1, <2>2, <2>3, Zenon DEF Control
<1>9. ReplyType'
  BY <1>1, <1>3, <1>4, <1>5, <1>6, <1>7 DEF ReplyType
<1>10. Buffers'
  BY <1>1, <1>3, <1>4, <1>5, <1>7, Zenon DEF Buffers
<1>11. OneReplyInOrder'
  <2>1. got \o SubSeq(<<>>, 0 + 1, Len(<<>>)) = got
    BY <1>3, NothingLeft, Zenon
  <2>2. got = Units("origin", read)
    BY <1>3, <2>1, Zenon DEF IInv, Front, OneReplyInOrder, FullReply
  <2>3. SubSeq(units, 0 + 1, Len(units)) = units
    BY <1>5, SubSeqFull
  <2>4. FullReply' = Units("origin", read + k)
    BY <1>1, <1>3, <1>6, Zenon DEF FullReply
  <2> QED
    BY <1>1, <1>3, <1>5, <1>7, <2>2, <2>3, <2>4, Zenon DEF OneReplyInOrder
<1>12. DoneMeansAnswered'
  BY <1>1, <1>3, Zenon DEF DoneMeansAnswered
<1>13. received' \in Nat /\ parsed' \in BOOLEAN /\ alive' \in BOOLEAN /\ clientFault' \in BOOLEAN
  BY <1>1, Zenon DEF IInv, Back, RequestType
<1>14. Back'
  BY <1>1, <1>3, <1>13, BackSame, Zenon DEF IInv
<1>15. CacheType' /\ Collecting' /\ CachedIsWhole'
  <2>1. /\ cache_key \in BOOLEAN /\ cache_too_big \in BOOLEAN
        /\ cache_accum \in Seq(Unit) /\ cache \in Seq(Unit)
    BY Zenon DEF IInv, Store, CacheType
  <2>2. CachedIsWhole'
    BY <1>1, <1>3, Zenon DEF IInv, Store, Collecting, CachedIsWhole
  <2>3. CASE ~(cache_key /\ ~cache_too_big)
    <3>1. cache_accum' = cache_accum /\ cache_too_big' = cache_too_big
      <4>1. cache_accum' = cache_accum
        BY <1>6, <2>3, Zenon DEF Accumulate
      <4>2. cache_too_big' = cache_too_big
        BY <1>6, <2>1, <2>3, Zenon DEF Accumulate
      <4> QED
        BY <4>1, <4>2, Zenon
    <3>2. CacheType'
      BY <1>1, <3>1, Zenon DEF IInv, Store, CacheType
    <3>3. Collecting'
      BY <1>1, <2>3, <3>1, Zenon DEF IInv, Store, Collecting
    <3> QED
      BY <2>2, <3>2, <3>3, Zenon
  <2>4. CASE cache_key /\ ~cache_too_big
    <3>1. cache_accum = Units("origin", read) /\ Len(cache_accum) = read
      BY <1>3, <2>4, UnitsSeq, Zenon DEF IInv, Store, Collecting, Sources
    <3>2. CASE Len(cache_accum) + Len(units) <= CacheMaxEntryBytes
      <4>1. cache_accum' = Units("origin", read + k)
        BY <1>5, <1>6, <2>4, <3>1, <3>2, Zenon DEF Accumulate
      <4>2. ~cache_too_big' /\ cache_too_big' \in BOOLEAN
        BY <1>6, <2>4, <3>2, Zenon DEF Accumulate
      <4>3. Units("origin", read + k) \in Seq(Unit)
        BY <1>3, <1>4, UnitsSeq DEF Sources
      <4>4. read' <= CacheMaxEntryBytes
        BY <1>5, <1>6, <3>1, <3>2, Zenon
      <4>5. CacheType'
        BY <1>1, <4>1, <4>2, <4>3, Zenon DEF IInv, Store, CacheType
      <4>6. Collecting'
        BY <1>1, <1>6, <2>4, <4>1, <4>2, <4>4 DEF IInv, Store, Collecting
      <4> QED
        BY <2>2, <4>5, <4>6, Zenon
    <3>3. CASE ~(Len(cache_accum) + Len(units) <= CacheMaxEntryBytes)
      <4>1. cache_accum' = <<>> /\ <<>> \in Seq(Unit)
        BY <1>6, <2>4, <3>3 DEF Accumulate
      <4>2. cache_too_big' = TRUE
        BY <1>6, <2>4, <3>3, Zenon DEF Accumulate
      <4>3. CacheType'
        BY <1>1, <4>1, <4>2, Zenon DEF IInv, Store, CacheType
      <4>4. Collecting'
        BY <1>1, <2>4, <4>1, <4>2, Zenon DEF IInv, Store, Collecting
      <4> QED
        BY <2>2, <4>3, <4>4, Zenon
    <3> QED
      BY <3>2, <3>3, Zenon
  <2> QED
    BY <2>3, <2>4, Zenon
<1> QED
  BY <1>8, <1>9, <1>10, <1>11, <1>12, <1>14, <1>15 DEF IInv, Front, Store

\* do_write_client: what was taken is with the client, what is left still to be sent.
LEMMA DoWriteClientInv == IInv /\ DoWriteClient => IInv'
<1> SUFFICES ASSUME IInv, DoWriteClient PROVE IInv'
  BY Zenon
<1> USE DEF peerVars, requestVars, routeVars, sendVars, relayVars, cacheVars
<1>1. /\ want = "WriteClient"
      /\ UNCHANGED <<peerVars, requestVars, routeVars, sendVars, relayVars, cacheVars, reply, clientFault>>
  BY Zenon DEF DoWriteClient
<1>2. PICK k \in Takes(Len(out_client) - out_client_off) :
        /\ got' = got \o Taken(out_client, out_client_off, k)
        /\ \/ /\ ~Flushed(out_client, out_client_off + k)
              /\ out_client_off' = out_client_off + k
              /\ UNCHANGED <<out_client, ctlVars, client, upstream, job>>
           \/ /\ Flushed(out_client, out_client_off + k)
              /\ out_client' = <<>> /\ out_client_off' = 0
              /\ IF state = "Failing" \/ upstream_eof
                 THEN Finish
                 ELSE SetWant("ReadUpstream") /\ UNCHANGED <<state, client, upstream, job>>
  BY Zenon DEF DoWriteClient
<1>3. /\ out_client \in Seq(Unit) /\ got \in Seq(Unit) /\ reply \in Seq(Unit)
      /\ Len(out_client) \in Nat /\ out_client_off \in 0..Len(out_client) /\ read \in 0..MaxResponse
  BY LenProperties, Zenon DEF IInv, Front, ReplyType
<1>4. /\ ~upstream_eof /\ alive /\ client = 1 /\ job = "none"
      /\ state \in {"Relaying", "Failing"} /\ epoch \in Nat
      /\ state = "Failing" => reply # <<>>
      /\ state = "Relaying" => upstream # 0 /\ reply = <<>>
  BY <1>1, Zenon DEF IInv, Front, ControlType, Control, Ended, Open, Buffers
<1>5. k \in 0..(Len(out_client) - out_client_off)
  BY <1>3, TakesRange
<1> DEFINE off == out_client_off + k
<1>6. /\ Taken(out_client, out_client_off, k) \in Seq(Unit)
      /\ got' \o SubSeq(out_client, off + 1, Len(out_client)) = FullReply
  BY <1>2, <1>3, <1>5, WriteMoves, ZenonT(30) DEF IInv, Front, OneReplyInOrder
<1>7. off \in 0..Len(out_client)
  BY <1>3, <1>5
<1>8. got' \in Seq(Unit)
  <2>1. \A a, b \in Seq(Unit) : a \o b \in Seq(Unit)
    BY ConcatProperties, Zenon
  <2> QED
    BY <1>2, <1>3, <1>6, <2>1, Zenon
<1>9. FullReply' = FullReply /\ WholeRequest' = WholeRequest
  BY <1>1, Zenon DEF FullReply, WholeRequest
<1>10. received' \in Nat /\ parsed' \in BOOLEAN /\ alive' \in BOOLEAN /\ clientFault' \in BOOLEAN
  BY <1>1, Zenon DEF IInv, Back, RequestType
<1> HIDE DEF off
<1>11. CASE /\ ~Flushed(out_client, off) /\ out_client_off' = off
            /\ UNCHANGED <<out_client, ctlVars, client, upstream, job>>
  <2> USE DEF ctlVars
  <2>1. off < Len(out_client)
    BY <1>3, <1>7, <1>11 DEF Flushed
  <2>2. ControlType' /\ Control'
    BY <1>1, <1>11, Zenon DEF IInv, Front, ControlType, Control, Ended, Open
  <2>3. ReplyType'
    BY <1>1, <1>3, <1>7, <1>8, <1>11, Zenon DEF ReplyType
  <2>4. Buffers'
    BY <1>1, <1>11, <2>1, Zenon DEF IInv, Front, Buffers
  <2>5. OneReplyInOrder'
    BY <1>6, <1>9, <1>11, Zenon DEF OneReplyInOrder
  <2>6. DoneMeansAnswered'
    BY <1>4, <1>11, Zenon DEF DoneMeansAnswered
  <2>7. Back'
    BY <1>1, <1>4, <1>10, <1>11, BackSame, Zenon DEF IInv
  <2>8. Store'
    BY <1>1, <1>11, StoreSame, Zenon DEF IInv
  <2> QED
    BY <2>2, <2>3, <2>4, <2>5, <2>6, <2>7, <2>8, Zenon DEF IInv, Front
<1>12. CASE /\ Flushed(out_client, off) /\ out_client' = <<>> /\ out_client_off' = 0
            /\ IF state = "Failing" \/ upstream_eof
               THEN Finish
               ELSE SetWant("ReadUpstream") /\ UNCHANGED <<state, client, upstream, job>>
  <2>1. off = Len(out_client)
    BY <1>3, <1>7, <1>12 DEF Flushed
  <2>2. got' = FullReply
    BY <1>3, <1>6, <1>8, <2>1, NothingLeft, Zenon
  <2>3. got' \o SubSeq(<<>>, 0 + 1, Len(<<>>)) = got'
    BY <1>8, NothingLeft, Zenon
  <2>4. OneReplyInOrder'
    BY <1>9, <1>12, <2>2, <2>3, Zenon DEF OneReplyInOrder
  <2>5. ReplyType'
    BY <1>1, <1>3, <1>8, <1>12 DEF ReplyType
  <2>6. CASE state = "Failing"
    <3>1. /\ state' = "Done" /\ want' = "None" /\ epoch' = epoch + 1
          /\ job' = "none" /\ upstream' = 0 /\ client' = 0
      BY <1>12, <2>6, Zenon DEF Finish, SetWant
    <3>2. ControlType' /\ Control'
      BY <1>1, <3>1, ConfigAssumption DEF IInv, Front, ControlType, States, Wants, Control, Ended
    <3>3. Buffers'
      BY <1>1, <1>4, <2>6, <3>1, Zenon DEF Buffers
    <3>4. DoneMeansAnswered'
      BY <1>1, <1>4, <1>9, <2>2, <2>6, Zenon DEF DoneMeansAnswered
    <3>5. Back'
      BY <1>1, <1>10, <3>1, BackSame, Zenon DEF IInv
    <3>6. Store'
      BY <1>1, <3>1, StoreSame, SMTT(30) DEF IInv
    <3> QED
      BY <2>4, <2>5, <3>2, <3>3, <3>4, <3>5, <3>6, Zenon DEF IInv, Front
  <2>7. CASE state = "Relaying"
    <3>1. want' = "ReadUpstream" /\ epoch' = epoch + 1 /\ UNCHANGED <<state, client, upstream, job>>
      BY <1>4, <1>12, <2>7, Zenon DEF SetWant
    <3>2. ControlType' /\ Control'
      <4>1. Open'
        BY <1>1, <1>4, <2>7, <3>1, SMTT(30) DEF IInv, Front, Control, Ended, Open
      <4>2. ControlType'
        BY <1>1, <3>1 DEF IInv, Front, ControlType, Wants
      <4> QED
        BY <1>1, <1>4, <2>7, <3>1, <4>1, <4>2, SMTT(30) DEF IInv, Front, Control
    <3>3. Buffers'
      BY <1>1, <1>4, <1>12, <2>7, <3>1, ConfigAssumption DEF Buffers
    <3>4. DoneMeansAnswered'
      BY <2>7, <3>1, Zenon DEF DoneMeansAnswered
    <3>5. Back'
      BY <1>1, <1>10, <2>7, <3>1, BackSame DEF IInv
    <3>6. Store'
      BY <1>1, <3>1, StoreSame, Zenon DEF IInv
    <3> QED
      BY <2>4, <2>5, <3>2, <3>3, <3>4, <3>5, <3>6, Zenon DEF IInv, Front
  <2> QED
    BY <1>4, <2>6, <2>7, Zenon
<1> QED
  BY <1>2, <1>11, <1>12, Zenon DEF off

\* A stuttering step.
LEMMA StutterInv == IInv /\ UNCHANGED vars => IInv'
<1> SUFFICES ASSUME IInv, UNCHANGED vars PROVE IInv'
  BY Zenon
<1> USE DEF vars
<1>1. ControlType' /\ Control' /\ ReplyType'
  BY Zenon DEF IInv, Front, ControlType, Control, Ended, Open, ReplyType
<1>2. Buffers' /\ OneReplyInOrder' /\ DoneMeansAnswered'
  BY Zenon DEF IInv, Front, Buffers, Untouched, OneReplyInOrder, DoneMeansAnswered, FullReply, WholeRequest
<1>3. Back'
  BY Zenon DEF IInv, Back, RequestType, SendType, Sending, RequestForwardedWhole, WholeRequest
<1>4. Store'
  BY StoreSame, Zenon DEF IInv, cacheVars
<1> QED
  BY <1>1, <1>2, <1>3, <1>4, Zenon DEF IInv, Front

-----------------------------------------------------------------------------
(* The theorems *)

\* Every step of an exchange keeps the three parts of the invariant.
THEOREM Invariance == Spec => []IInv
<1>1. IInv /\ [Next]_vars => IInv'
  <2> SUFFICES ASSUME IInv, [Next]_vars PROVE IInv'
    BY Zenon
  <2>1. CASE Progress
    BY <2>1, DoReadClientInv, PublishInv, FinishResolveInv, FinishConnectInv, DoWriteUpstreamInv,
       DoReadUpstreamInv, ReadUpstreamEofInv, DoWriteClientInv, SMTT(30) DEF Progress
  <2>2. CASE ReadClientGone \/ WriteUpstreamFails \/ ReadUpstreamFails \/ WriteClientFails
    BY <2>2, ReadClientGoneInv, WriteUpstreamFailsInv, ReadUpstreamFailsInv, WriteClientFailsInv, Zenon
  <2>3. CASE Abandon
    BY <2>3, AbandonInv, Zenon
  <2>4. CASE Over \/ UNCHANGED vars
    BY <2>4, StutterInv, Zenon DEF Over
  <2> QED
    BY <2>1, <2>2, <2>3, <2>4, Zenon DEF Next
<1> QED
  BY InitInv, <1>1, PTL DEF Spec

\* Every field keeps its type, for all limits, requests and responses.
THEOREM TypeCorrect == Spec => []TypeOK
<1>1. IInv => TypeOK
  BY Zenon DEF IInv, Front, Back, Store, TypeOK
<1> QED
  BY <1>1, Invariance, PTL

\* on_ready leaves a want whose descriptor is open, and none open after the end.
THEOREM DescriptorOpen == Spec => []WantsAnOpenDescriptor
<1>1. IInv => WantsAnOpenDescriptor
  BY DEF IInv, Front, Control, Ended, Open, WantsAnOpenDescriptor
<1> QED
  BY <1>1, Invariance, PTL

\* on_ready asks for writability only with bytes to write or a connect to finish.
THEOREM BytesToWrite == Spec => []WritesHaveBytes
<1>1. IInv => WritesHaveBytes
  BY Zenon DEF IInv, Front, Back, Buffers, Sending, WritesHaveBytes
<1> QED
  BY <1>1, Invariance, PTL

\* At most one chunk of a response is in the proxy, whatever the chunk size.
THEOREM ChunkInFlight == Spec => []OneChunkInFlight
<1>1. IInv => OneChunkInFlight
  BY Zenon DEF IInv, Front, Buffers, OneChunkInFlight
<1> QED
  BY <1>1, Invariance, PTL

\* The client gets one reply, in order, across all short reads and writes.
THEOREM ReplyInOrder == Spec => []OneReplyInOrder
<1>1. IInv => OneReplyInOrder
  BY Zenon DEF IInv, Front
<1> QED
  BY <1>1, Invariance, PTL

\* The origin gets the rebuilt request, whole and once.
THEOREM RequestWhole == Spec => []RequestForwardedWhole
<1>1. IInv => RequestForwardedWhole
  BY Zenon DEF IInv, Back
<1> QED
  BY <1>1, Invariance, PTL

\* A client that stayed was answered in full.
THEOREM Answered == Spec => []DoneMeansAnswered
<1>1. IInv => DoneMeansAnswered
  BY Zenon DEF IInv, Front
<1> QED
  BY <1>1, Invariance, PTL

\* store_in_cache stores whole responses only, to requests that may be shared, and none with
\* a Set-Cookie in one of the two spellings that it looks for.
THEOREM CacheWhole == Spec => []CachedIsWhole
<1>1. IInv => CachedIsWhole
  BY Zenon DEF IInv, Store
<1> QED
  BY <1>1, Invariance, PTL

\* begin_connect opens the upstream for a candidate not tried yet, or closes it and
\* has tried them all.
LEMMA ConnectMoves ==
  ASSUME NEW n \in Nat, NEW tried \in 0..n, BeginConnect(n, tried)
  PROVE  /\ epoch' = epoch + 1
         /\ \/ want' = "WriteUpstream" /\ upstream' # 0 /\ upstream' # tried /\ state' # "Failing"
            \/ want' = "WriteClient" /\ upstream' = 0 /\ endpoint_idx' = n
BY DEF BeginConnect, FailWith, SetWant

\* fail_with and finish close the upstream.
LEMMA CloseMoves ==
  /\ \A u : FailWith(u) => want' = "WriteClient" /\ upstream' = 0 /\ epoch' = epoch + 1
  /\ Finish => want' = "None" /\ upstream' = 0 /\ epoch' = epoch + 1
BY Zenon DEF FailWith, Finish, SetWant

\* A move of the table, named by what it waits for.
LEMMA AMove ==
  ASSUME NEW op \in {"keep", "open", "reopen", "close"}, <<want, want', op>> \in Moves,
         UpstreamChange(op), epoch' = epoch + 1, want' # "None" => client' = client
  PROVE  OneMove
BY Zenon DEF OneMove

\* What begin_resolve waits for next.
LEMMA ResolveMoves ==
  ASSUME IInv, want = "ReadClient", BeginResolve
  PROVE  /\ epoch' = epoch + 1
         /\ \/ want' = "WriteUpstream" /\ upstream' # 0
            \/ want' = "WriteClient" /\ upstream' = 0
            \/ want' = "ReadResolver" /\ upstream' = upstream
         /\ state' = "Failing" => endpoint_idx' = endpoints'
<1>1. endpoints = 0 /\ endpoint_idx = 0
  BY Zenon DEF IInv, Front, Control
<1>2. ASSUME NEW n \in 1..MaxEndpoints, endpoints' = n, BeginConnect(n, 0)
      PROVE  /\ epoch' = epoch + 1
             /\ \/ want' = "WriteUpstream" /\ upstream' # 0
                \/ want' = "WriteClient" /\ upstream' = 0
             /\ state' = "Failing" => endpoint_idx' = endpoints'
  <2>1. n \in Nat /\ 0 \in 0..n
    BY ConfigAssumption
  <2> QED
    BY <1>2, <2>1, ConnectMoves, Zenon
<1>3. CASE FailWith(Reply("502")) /\ UNCHANGED <<routeVars, job>>
  BY <1>1, <1>3, CloseMoves, Zenon DEF routeVars
<1>4. CASE job' = "pending" /\ state' = "Resolving" /\ SetWant("ReadResolver") /\ UNCHANGED <<routeVars, upstream, replyVars>>
  BY <1>4, Zenon DEF SetWant
<1> QED
  BY <1>2, <1>3, <1>4, Zenon DEF BeginResolve

\* do_read_client waits on, or moves on from the client.
LEMMA DoReadClientMoves ==
  ASSUME IInv, DoReadClient
  PROVE  (SameWant \/ OneMove) /\ (GivesUp => endpoint_idx' = endpoints')
<1>1. /\ want = "ReadClient" /\ endpoints = 0 /\ endpoint_idx = 0 /\ upstream = 0
      /\ state = "ReadingRequest"
  BY Zenon DEF DoReadClient, IInv, Front, Control, Ended, Open
<1>2. PICK n : KeepReading(n) \/ Reject(n) \/ RequestComplete(n)
  BY Zenon DEF DoReadClient
<1>3. CASE KeepReading(n)
  BY <1>1, <1>3, Zenon DEF KeepReading, ctlVars, SameWant, GivesUp
<1>4. ASSUME UNCHANGED client, epoch' = epoch + 1,
             \/ want' = "WriteUpstream" /\ upstream' # 0
             \/ want' = "WriteClient" /\ upstream' = 0
             \/ want' = "ReadResolver" /\ upstream' = upstream
      PROVE  OneMove
  <2>1. CASE want' = "WriteUpstream" /\ upstream' # 0
    <3>1. <<want, want', "open">> \in Moves /\ UpstreamChange("open")
      BY <1>1, <2>1, Zenon DEF Moves, UpstreamChange
    <3> QED
      BY <1>4, <3>1, AMove, Zenon
  <2>2. CASE want' = "WriteClient" /\ upstream' = 0
    <3>1. <<want, want', "close">> \in Moves /\ UpstreamChange("close")
      BY <1>1, <2>2, Zenon DEF Moves, UpstreamChange
    <3> QED
      BY <1>4, <3>1, AMove, Zenon
  <2>3. CASE want' = "ReadResolver" /\ upstream' = upstream
    <3>1. <<want, want', "keep">> \in Moves /\ UpstreamChange("keep")
      BY <1>1, <2>3, Zenon DEF Moves, UpstreamChange
    <3> QED
      BY <1>4, <3>1, AMove, Zenon
  <2> QED
    BY <1>4, <2>1, <2>2, <2>3, Zenon
<1>5. CASE Reject(n)
  <2>1. UNCHANGED client /\ UNCHANGED routeVars /\ \E u : FailWith(u)
    BY <1>5, Zenon DEF Reject
  <2> QED
    BY <1>1, <1>4, <2>1, CloseMoves, Zenon DEF routeVars
<1>6. CASE RequestComplete(n)
  <2>1. UNCHANGED client
    BY <1>6, Zenon DEF RequestComplete
  <2>2. CASE FailWith(cache) /\ UNCHANGED <<job, routeVars>>
    BY <1>1, <1>4, <2>1, <2>2, CloseMoves, SMTT(30) DEF routeVars
  <2>3. CASE BeginResolve
    BY <1>1, <1>4, <2>1, <2>3, ResolveMoves DEF GivesUp
  <2> QED
    BY <1>6, <2>2, <2>3, Zenon DEF RequestComplete
<1> QED
  BY <1>2, <1>3, <1>5, <1>6, Zenon

\* The step after a resolve or a connect moves on from there.
LEMMA ConnectStepMoves ==
  ASSUME IInv, FinishResolve \/ FinishConnect
  PROVE  OneMove /\ (GivesUp => endpoint_idx' = endpoints')
<1>1. CASE FinishResolve
  <2>1. want = "ReadResolver" /\ endpoints = 0 /\ endpoint_idx = 0 /\ upstream = 0 /\ client' = client
    BY <1>1, Zenon DEF FinishResolve, IInv, Front, Control, Ended, Open
  <2>2. /\ epoch' = epoch + 1
        /\ \/ want' = "WriteUpstream" /\ upstream' # 0 /\ state' # "Failing"
           \/ want' = "WriteClient" /\ upstream' = 0 /\ endpoint_idx' = endpoints'
    <3>1. ASSUME NEW n \in 1..MaxEndpoints, endpoints' = n, BeginConnect(n, 0)
          PROVE  /\ epoch' = epoch + 1
                 /\ \/ want' = "WriteUpstream" /\ upstream' # 0 /\ state' # "Failing"
                    \/ want' = "WriteClient" /\ upstream' = 0 /\ endpoint_idx' = endpoints'
      <4>1. n \in Nat /\ 0 \in 0..n
        BY ConfigAssumption
      <4> QED
        BY <3>1, <4>1, ConnectMoves, Zenon
    <3>2. CASE FailWith(Reply("502")) /\ UNCHANGED routeVars
      BY <2>1, <3>2, CloseMoves, Zenon DEF routeVars
    <3> QED
      BY <1>1, <3>1, <3>2, Zenon DEF FinishResolve
  <2>3. CASE want' = "WriteUpstream" /\ upstream' # 0
    <3>1. <<want, want', "open">> \in Moves /\ UpstreamChange("open")
      BY <2>1, <2>3, Zenon DEF Moves, UpstreamChange
    <3> QED
      BY <2>1, <2>2, <2>3, <3>1, AMove, Zenon DEF GivesUp
  <2>4. CASE want' = "WriteClient" /\ upstream' = 0
    <3>1. <<want, want', "close">> \in Moves /\ UpstreamChange("close")
      BY <2>1, <2>4, Zenon DEF Moves, UpstreamChange
    <3> QED
      BY <2>1, <2>2, <2>4, <3>1, AMove, Zenon DEF GivesUp
  <2> QED
    BY <2>2, <2>3, <2>4, Zenon
<1>2. CASE FinishConnect
  <2>1. /\ want = "WriteUpstream" /\ upstream # 0 /\ upstream = endpoint_idx
        /\ client' = client /\ endpoints' = endpoints
        /\ endpoints \in Nat /\ endpoint_idx \in 0..endpoints
    <3>1. want = "WriteUpstream" /\ client' = client /\ endpoints' = endpoints
      BY <1>2, Zenon DEF FinishConnect
    <3>2. upstream # 0 /\ upstream = endpoint_idx
      BY <3>1, Zenon DEF IInv, Front, Control, Ended, Open
    <3>3. endpoints \in 0..MaxEndpoints /\ endpoint_idx \in 0..endpoints
      BY Zenon DEF IInv, Front, ControlType
    <3> QED
      BY <3>1, <3>2, <3>3, ConfigAssumption
  <2>2. /\ epoch' = epoch + 1
        /\ \/ want' = "WriteUpstream" /\ upstream' = upstream /\ state' # "Failing"
           \/ want' = "WriteUpstream" /\ upstream' \notin {0, upstream} /\ state' # "Failing"
           \/ want' = "WriteClient" /\ upstream' = 0 /\ endpoint_idx' = endpoints'
    <3>1. CASE state' = "SendingUpstream" /\ SetWant("WriteUpstream") /\ UNCHANGED <<upstream, endpoint_idx, replyVars>>
      BY <3>1, Zenon DEF SetWant
    <3>2. CASE BeginConnect(endpoints, endpoint_idx)
      BY <2>1, <3>2, ConnectMoves, Zenon
    <3> QED
      BY <1>2, <3>1, <3>2, Zenon DEF FinishConnect
  <2>3. PICK op \in {"keep", "reopen", "close"} : <<want, want', op>> \in Moves /\ UpstreamChange(op)
    BY <2>1, <2>2, Zenon DEF Moves, UpstreamChange
  <2> QED
    BY <2>1, <2>2, <2>3, AMove, Zenon DEF GivesUp
<1> QED
  BY <1>1, <1>2, Zenon

\* Every other handler's step makes one move, or none.
LEMMA OtherMoves ==
  ASSUME IInv, \/ DoWriteUpstream \/ WriteUpstreamFails \/ DoReadUpstream \/ ReadUpstreamEof
               \/ ReadUpstreamFails \/ DoWriteClient \/ WriteClientFails \/ ReadClientGone
  PROVE  (SameWant \/ OneMove) /\ ~GivesUp
<1>1. CASE DoWriteUpstream
  <2>1. /\ want = "WriteUpstream" /\ upstream' = upstream /\ client' = client
        /\ \/ want' = want /\ epoch' = epoch /\ state' = state
           \/ want' = "ReadUpstream" /\ epoch' = epoch + 1 /\ state' = "Relaying"
    BY <1>1, Zenon DEF DoWriteUpstream, ctlVars, SetWant
  <2>2. want' = "ReadUpstream" => <<want, want', "keep">> \in Moves /\ UpstreamChange("keep")
    BY <2>1, Zenon DEF Moves, UpstreamChange
  <2> QED
    BY <2>1, <2>2, AMove, Zenon DEF SameWant, GivesUp
<1>2. CASE WriteUpstreamFails
  <2>1. /\ want = "WriteUpstream" /\ want' = "WriteClient" /\ upstream' = 0 /\ epoch' = epoch + 1
        /\ client' = client /\ state = "SendingUpstream"
    BY <1>2, CloseMoves, Zenon DEF WriteUpstreamFails, IInv, Front, Control, Ended, Open
  <2>2. <<want, want', "close">> \in Moves /\ UpstreamChange("close")
    BY <2>1, Zenon DEF Moves, UpstreamChange
  <2> QED
    BY <2>1, <2>2, AMove, Zenon DEF GivesUp
<1>3. CASE DoReadUpstream
  <2>1. /\ want = "ReadUpstream" /\ want' = "WriteClient" /\ epoch' = epoch + 1
        /\ upstream' = upstream /\ client' = client /\ state' = state
    BY <1>3, Zenon DEF DoReadUpstream, SetWant
  <2>2. <<want, want', "keep">> \in Moves /\ UpstreamChange("keep")
    BY <2>1, Zenon DEF Moves, UpstreamChange
  <2> QED
    BY <2>1, <2>2, AMove, Zenon DEF GivesUp
<1>4. ASSUME Finish, want \in {"ReadClient", "ReadUpstream", "WriteClient"}
      PROVE  OneMove /\ ~GivesUp
  <2>1. want' = "None" /\ upstream' = 0 /\ epoch' = epoch + 1 /\ state' = "Done"
    BY <1>4, CloseMoves, Zenon DEF Finish
  <2>2. <<want, want', "close">> \in Moves /\ UpstreamChange("close")
    BY <1>4, <2>1, Zenon DEF Moves, UpstreamChange
  <2> QED
    BY <2>1, <2>2, AMove, Zenon DEF GivesUp
<1>5. CASE ReadUpstreamFails \/ WriteClientFails \/ ReadClientGone
  BY <1>4, <1>5, Zenon DEF ReadUpstreamFails, WriteClientFails, ReadClientGone
<1>6. CASE ReadUpstreamEof
  <2>1. want = "ReadUpstream" /\ out_client = <<>> /\ out_client_off = 0
    BY <1>6, Zenon DEF ReadUpstreamEof, IInv, Front, Buffers
  <2>2. Finish
    <3>1. Flushed(out_client, out_client_off)
      BY <2>1 DEF Flushed
    <3> QED
      BY <1>6, <3>1, Zenon DEF ReadUpstreamEof
  <2> QED
    BY <1>4, <2>1, <2>2, Zenon
<1>7. CASE DoWriteClient
  <2>1. want = "WriteClient"
    BY <1>7, Zenon DEF DoWriteClient
  <2>2. \/ SameWant /\ state' = state
        \/ Finish
        \/ SetWant("ReadUpstream") /\ UNCHANGED <<state, client, upstream, job>>
    BY <1>7, Zenon DEF DoWriteClient, ctlVars, SameWant
  <2>3. CASE SetWant("ReadUpstream") /\ UNCHANGED <<state, client, upstream, job>>
    <3>1. want' = "ReadUpstream" /\ epoch' = epoch + 1
      BY <2>3, Zenon DEF SetWant
    <3>2. <<want, want', "keep">> \in Moves /\ UpstreamChange("keep")
      BY <2>1, <2>3, <3>1, Zenon DEF Moves, UpstreamChange
    <3> QED
      BY <2>3, <3>1, <3>2, AMove, Zenon DEF GivesUp
  <2> QED
    BY <1>4, <2>1, <2>2, <2>3, Zenon DEF GivesUp
<1> QED
  BY <1>1, <1>2, <1>3, <1>5, <1>6, <1>7, SMTT(30)

\* All the steps together.
LEMMA StepMoves ==
  ASSUME IInv, Next
  PROVE  /\ alive' => SameWant \/ OneMove
         /\ GivesUp => endpoint_idx' = endpoints'
<1>1. CASE Publish \/ Over
  BY <1>1, Zenon DEF Publish, Over, ctlVars, vars, SameWant, GivesUp
<1>2. CASE Abandon
  BY <1>2, Zenon DEF Abandon, GivesUp
<1> QED
  BY <1>1, <1>2, DoReadClientMoves, ConnectStepMoves, OtherMoves, Zenon DEF Next, Progress

\* Every step makes one of the moves the event loop relies on, and every change of
\* what to wait for is a new epoch.
THEOREM MovesOnly == Spec => OnlyTheseMoves
<1>1. IInv /\ [Next]_vars => [alive' => SameWant \/ OneMove]_vars
  BY StepMoves, Zenon
<1> QED
  BY <1>1, Invariance, PTL DEF Spec, OnlyTheseMoves

\* A backend can rely on what a connection asks it to wait for (want, want_fd, epoch), for
\* all limits, chunk sizes and numbers of candidates: the assumption EventLoop is built on.
THEOREM BackendRelies == Spec => BackendCanRely
BY DescriptorOpen, BytesToWrite, MovesOnly, PTL DEF BackendCanRely

\* begin_connect answers 502 only at the end of the candidate list.
THEOREM CandidatesTried == Spec => AllCandidatesTried
<1>1. IInv /\ [Next]_vars => [GivesUp => endpoint_idx' = endpoints']_vars
  BY StepMoves, Zenon
<1> QED
  BY <1>1, Invariance, PTL DEF Spec, AllCandidatesTried

-----------------------------------------------------------------------------
(* How much a client can make the proxy hold *)

\* While the request is being read, what was received is within the header's limit,
\* or, once the header is parsed, short of the request's end.
Reading ==
  /\ parsed => req.header <= MaxHeaderBytes + IoChunkBytes /\ req.length <= MaxBodyBytes
  /\ want = "ReadClient" => IF parsed THEN received < req.header + req.length
                            ELSE received <= MaxHeaderBytes
  /\ received <= MaxHeaderBytes + MaxBodyBytes + 2 * IoChunkBytes

\* No step goes back to reading the request, and only do_read_client adds to it.
LEMMA ReadingIsOver ==
  ASSUME IInv, Next, ~DoReadClient
  PROVE  UNCHANGED <<req, received, parsed>> /\ (want' = "ReadClient" => want = "ReadClient")
<1>1. UNCHANGED <<req, received, parsed>>
  BY Zenon DEF Next, Progress, Publish, FinishResolve, FinishConnect, DoWriteUpstream, DoReadUpstream,
         ReadUpstreamEof, DoWriteClient, ReadClientGone, WriteUpstreamFails, ReadUpstreamFails,
         WriteClientFails, Abandon, Over, peerVars, requestVars, vars
<1>2. CASE Abandon \/ Over
  BY <1>1, <1>2, Zenon DEF Abandon, Over, vars
<1>3. CASE ~Abandon /\ ~Over
  <2>1. alive'
    BY <1>3, Zenon DEF IInv, Front, Control, Ended, Open, Next, Progress, Publish, FinishResolve, FinishConnect, DoWriteUpstream,
         DoReadUpstream, ReadUpstreamEof, DoWriteClient, ReadClientGone, WriteUpstreamFails,
         ReadUpstreamFails, WriteClientFails, peerVars
  <2>2. SameWant \/ OneMove
    BY <2>1, StepMoves, Zenon
  <2> QED
    BY <1>1, <2>2, Zenon DEF SameWant, OneMove, Moves
<1> QED
  BY <1>2, <1>3, Zenon

\* A read leaves the request within its limits, or refuses it.
LEMMA ReadWithinLimits == IInv /\ Reading /\ DoReadClient => Reading'
<1> SUFFICES ASSUME IInv, Reading, DoReadClient PROVE Reading'
  BY Zenon
<1>1. /\ req.header \in Nat /\ req.length \in Nat /\ received \in Nat
      /\ parsed \in BOOLEAN /\ want = "ReadClient" /\ req' = req
  BY RequestFields, Zenon DEF IInv, Back, RequestType, DoReadClient, peerVars
<1>2. MaxHeaderBytes \in Nat /\ MaxBodyBytes \in Nat /\ IoChunkBytes \in Nat
  BY ConfigAssumption, Zenon
<1>3. PICK n \in (received + 1)..(received + IoChunkBytes) :
        received' = n /\ (KeepReading(n) \/ Reject(n) \/ RequestComplete(n))
  BY Zenon DEF DoReadClient
<1>4. n \in Nat /\ n <= received + IoChunkBytes
  BY <1>1, <1>2, <1>3, SMTT(30)
<1>5. parsed => /\ req.header <= MaxHeaderBytes + IoChunkBytes /\ req.length <= MaxBodyBytes
                /\ n <= MaxHeaderBytes + MaxBodyBytes + 2 * IoChunkBytes
  BY <1>1, <1>2, <1>4, SMTT(30) DEF Reading
<1>6. ~parsed => n <= MaxHeaderBytes + IoChunkBytes
  BY <1>1, <1>2, <1>4 DEF Reading
<1>7. HeaderDone(n) => req.header <= MaxHeaderBytes + IoChunkBytes /\ req.length <= MaxBodyBytes
  BY <1>1, <1>2, <1>4, <1>5, <1>6, SMTT(30) DEF HeaderDone, Accepted
<1>8. n <= MaxHeaderBytes + MaxBodyBytes + 2 * IoChunkBytes
  BY <1>1, <1>2, <1>4, <1>5, <1>6, SMTT(30)
\* What is left to show of the three outcomes of a read.
<1>9. parsed' => HeaderDone(n)
  <2>1. CASE KeepReading(n)
    BY <2>1, Zenon DEF KeepReading, HeaderDone
  <2>2. CASE Reject(n)
    BY <2>2, Zenon DEF Reject
  <2>3. CASE RequestComplete(n)
    BY <2>3, Zenon DEF RequestComplete
  <2> QED
    BY <1>3, <2>1, <2>2, <2>3, Zenon
<1>10. want' = "ReadClient" => IF parsed' THEN n < req.header + req.length ELSE n <= MaxHeaderBytes
  <2>1. CASE KeepReading(n)
    <3>1. CASE ~parsed /\ n <= MaxHeaderBytes /\ parsed' = parsed
      BY <3>1, Zenon
    <3>2. CASE ~BodyDone(n) /\ parsed' = TRUE
      BY <1>1, <1>4, <3>2 DEF BodyDone
    <3> QED
      BY <2>1, <3>1, <3>2, Zenon DEF KeepReading
  <2>2. CASE Reject(n)
    BY <2>2, Zenon DEF Reject, FailWith, SetWant
  <2>3. CASE RequestComplete(n)
    BY <2>3, Zenon DEF RequestComplete, BeginResolve, BeginConnect, FailWith, SetWant
  <2> QED
    BY <1>3, <2>1, <2>2, <2>3, Zenon
<1> QED
  BY <1>1, <1>3, <1>7, <1>8, <1>9, <1>10, Zenon DEF Reading

\* do_read_client bounds what it buffers, for all limits and chunk sizes.
THEOREM InputLimited == Spec => []InputBounded
<1>1. Init => Reading
  BY ConfigAssumption DEF Init, Reading
<1>2. IInv /\ Reading /\ [Next]_vars => Reading'
  <2> SUFFICES ASSUME IInv, Reading, [Next]_vars PROVE Reading'
    BY Zenon
  <2>1. CASE Next /\ ~DoReadClient
    BY <2>1, ReadingIsOver DEF Reading
  <2>2. CASE UNCHANGED vars
    BY <2>2, Zenon DEF vars, Reading
  <2> QED
    BY <2>1, <2>2, ReadWithinLimits, Zenon
<1>3. Reading => InputBounded
  BY Zenon DEF Reading, InputBounded
<1> QED
  BY <1>1, <1>2, <1>3, Invariance, PTL DEF Spec

\* Whatever the sizes of reads and writes, and whatever fails, the client has a prefix of
\* one reply and the origin one of the rebuilt request (the do_write handlers).
THEOREM BytesForwarded == Spec => []BytesInOrder
<1>1. OneReplyInOrder /\ RequestForwardedWhole => BytesInOrder
  BY Zenon DEF BytesInOrder
<1> QED
  BY <1>1, ReplyInOrder, RequestWhole, PTL

\* Neither a fast origin nor a client makes a connection hold more than its limits allow
\* (do_read_upstream, do_read_client).
THEOREM MemoryLimited == Spec => []MemoryBounded
<1>1. OneChunkInFlight /\ InputBounded => MemoryBounded
  BY Zenon DEF MemoryBounded
<1> QED
  BY <1>1, ChunkInFlight, InputLimited, PTL

-----------------------------------------------------------------------------
(* do_read_client as Intake *)

\* A header that is parsed while the request is being read is there, and was accepted.
HeaderRead == (want = "ReadClient" /\ parsed) => Accepted /\ received >= req.header

\* The request was sent on, or is about to be.
SentOn == out_upstream # <<>> \/ sent # <<>>

\* Steps that are no read leave the request as sent on, or as not sent on, as it was.
LEMMA SentOnStays ==
  ASSUME IInv, IInv', Next, want # "ReadClient"
  PROVE  SentOn' = SentOn
<1>1. CASE DoWriteUpstream
  <2>1. out_upstream \in Seq(Nat) /\ want = "WriteUpstream" /\ out_upstream_off < Len(out_upstream) /\ out_upstream_off \in Nat
    BY <1>1 DEF DoWriteUpstream, IInv, Back, Sending, SendType
  <2>2. out_upstream # <<>>
    BY <2>1
  <2>3. out_upstream' = out_upstream \/ want' = "ReadUpstream"
    BY <1>1, Zenon DEF DoWriteUpstream, SetWant
  <2>4. want' = "ReadUpstream" => sent' = WholeRequest' /\ req' \in Requests
    BY Zenon DEF IInv, Back, RequestForwardedWhole, RequestType
  <2>5. req' = req /\ WholeRequest' = WholeRequest
    BY <1>1, Zenon DEF DoWriteUpstream, peerVars, WholeRequest
  <2>6. want' = "ReadUpstream" => sent' # <<>>
    BY <2>4, <2>5, WholeRequestSeq
  <2> QED
    BY <2>2, <2>3, <2>6, Zenon DEF SentOn
<1>2. CASE ~DoWriteUpstream
  <2>1. UNCHANGED <<out_upstream, sent>>
    BY <1>2, Zenon DEF Next, Progress, DoReadClient, Publish, FinishResolve, FinishConnect, DoReadUpstream,
         ReadUpstreamEof, DoWriteClient, ReadClientGone, WriteUpstreamFails, ReadUpstreamFails,
         WriteClientFails, Abandon, Over, sendVars, vars
  <2> QED
    BY <2>1, Zenon DEF SentOn
<1> QED
  BY <1>1, <1>2, Zenon

\* A reply of the proxy's own is chosen at the end of the reads, or for a request that was
\* to be sent on.
LEMMA ReplyStays ==
  ASSUME IInv, Next, want # "ReadClient", ~SentOn
  PROVE  reply' = reply
<1>1. want # "WriteUpstream"
  BY DEF IInv, Back, Sending, SendType, SentOn
<1>2. want # "ReadResolver"
  <2>1. req \in Requests
    BY Zenon DEF IInv, Back, RequestType
  <2>2. WholeRequest # <<>>
    BY <2>1, WholeRequestSeq
  <2> QED
    BY <2>2, Zenon DEF IInv, Back, Sending, SentOn
<1> QED
  BY <1>1, <1>2, Zenon DEF Next, Progress, DoReadClient, Publish, FinishResolve, FinishConnect, DoWriteUpstream,
     DoReadUpstream, ReadUpstreamEof, DoWriteClient, ReadClientGone, WriteUpstreamFails, ReadUpstreamFails,
     WriteClientFails, Abandon, Over, replyVars, vars

\* No step but a read changes what became of the request, unless the client leaves.
LEMMA OtherAsIntake ==
  ASSUME IInv, IInv', Next, ~DoReadClient
  PROVE  Promise!Leave \/ UNCHANGED Promise!vars
<1>1. UNCHANGED <<req, received>> /\ (want' = "ReadClient" => want = "ReadClient")
  BY ReadingIsOver, Zenon
<1>2. CASE want = "ReadClient" /\ want' = "ReadClient"
  BY <1>1, <1>2, Zenon DEF Outcome, Promise!vars
<1>3. CASE want = "ReadClient" /\ want' # "ReadClient"
  <2>1. ReadClientGone \/ Abandon
    BY <1>3, Zenon DEF Next, Progress, Publish, FinishResolve, FinishConnect, DoWriteUpstream, DoReadUpstream,
       ReadUpstreamEof, DoWriteClient, WriteUpstreamFails, ReadUpstreamFails, WriteClientFails, Over, vars, ctlVars
  <2>2. UNCHANGED <<out_upstream, sent, reply>>
    BY <2>1, Zenon DEF ReadClientGone, Abandon, sendVars, replyVars
  <2>3. out_upstream = <<>> /\ sent = <<>> /\ reply = <<>>
    BY <1>3, Zenon DEF IInv, Front, Back, Sending, Buffers, Untouched
  <2>4. Outcome = "reading" /\ Outcome' = "gone"
    BY <1>3, <2>2, <2>3, Zenon DEF Outcome
  <2> QED
    BY <1>1, <2>4, Zenon DEF Promise!Leave
<1>4. CASE want # "ReadClient"
  <2>1. SentOn' = SentOn /\ (~SentOn => reply' = reply)
    BY <1>4, SentOnStays, ReplyStays, Zenon
  <2>2. want' # "ReadClient"
    BY <1>1, <1>4, Zenon
  <2>3. Outcome' = Outcome
    BY <1>4, <2>1, <2>2, Zenon DEF Outcome, SentOn
  <2> QED
    BY <1>1, <2>3, Zenon DEF Promise!vars
<1> QED
  BY <1>2, <1>3, <1>4, Zenon

\* The status of an error reply is read off its first unit.
LEMMA ReplyCode ==
  ASSUME NEW code
  PROVE  Reply(code) # <<>> /\ Reply(code)[1][1] = code
BY DEF Reply, Units

\* A read makes of the request what Intake says, and keeps the header.
LEMMA ReadAsIntake ==
  ASSUME IInv, IInv', HeaderRead, DoReadClient
  PROVE  Promise!Read /\ HeaderRead'
<1>1. /\ req \in Requests /\ received \in Nat /\ parsed \in BOOLEAN /\ want = "ReadClient" /\ req' = req
      /\ req.header \in Nat /\ req.length \in Nat /\ req.verdict \in {"Ok", "BadRequest", "NotImplemented"}
      /\ MaxHeaderBytes \in Nat /\ MaxBodyBytes \in Nat /\ IoChunkBytes \in Nat
  BY RequestAssumption, ConfigAssumption, Zenon DEF IInv, Back, RequestType, DoReadClient, peerVars
<1>2. PICK n \in (received + 1)..(received + IoChunkBytes) :
        received' = n /\ (KeepReading(n) \/ Reject(n) \/ RequestComplete(n))
  BY Zenon DEF DoReadClient
<1>3. n \in Nat /\ n > received
  BY <1>1, <1>2
<1>4. parsed => Accepted /\ n >= req.header
  BY <1>1, <1>3 DEF HeaderRead
<1>5. HeaderDone(n) => Accepted /\ n >= req.header
  BY <1>4, Zenon DEF HeaderDone
<1>6. out_upstream = <<>> /\ sent = <<>> /\ reply = <<>>
  BY <1>1, Zenon DEF IInv, Front, Back, Sending, Buffers, Untouched
<1>7. (Accepted /\ n >= req.header) =>
        Promise!Outcome(req, n) = IF BodyDone(n) THEN "forward" ELSE "reading"
  BY <1>1, <1>3, SMTT(30) DEF Accepted, BodyDone, Promise!Outcome
<1>8. Outcome' = Promise!Outcome(req, n) /\ HeaderRead'
  <2>1. CASE KeepReading(n)
    <3>1. want' = "ReadClient"
      BY <1>1, <2>1, Zenon DEF KeepReading, ctlVars
    <3>2. Outcome' = "reading"
      BY <3>1, Zenon DEF Outcome
    <3>3. CASE ~parsed /\ n < req.header /\ n <= MaxHeaderBytes /\ parsed' = parsed
      <4>1. Promise!Outcome(req, n) = "reading"
        BY <1>1, <1>3, <3>3 DEF Promise!Outcome
      <4> QED
        BY <3>2, <3>3, <4>1, Zenon DEF HeaderRead
    <3>4. CASE HeaderDone(n) /\ ~BodyDone(n)
      <4>1. Promise!Outcome(req, n) = "reading"
        BY <1>5, <1>7, <3>4, Zenon
      <4>2. Accepted' /\ received' >= req'.header
        BY <1>1, <1>2, <1>5, <3>4, Zenon DEF Accepted
      <4> QED
        BY <3>2, <4>1, <4>2, Zenon DEF HeaderRead
    <3> QED
      BY <2>1, <3>3, <3>4, Zenon DEF KeepReading
  <2>2. CASE Reject(n)
    <3>1. PICK code \in {"400", "413", "501"} :
            reply' = Reply(code) /\ code = Promise!Outcome(req, n) /\ want' = "WriteClient"
      <4>1. CASE n < req.header /\ n > MaxHeaderBytes /\ FailWith(Reply("400"))
        BY <1>1, <1>3, <4>1, Zenon DEF FailWith, SetWant, Promise!Outcome
      <4>2. CASE n >= req.header /\ ~Accepted /\ FailWith(Reply(RejectCode))
        <5>1. reply' = Reply(RejectCode) /\ want' = "WriteClient"
          BY <4>2, Zenon DEF FailWith, SetWant
        <5>2. RejectCode = Promise!Outcome(req, n) /\ RejectCode \in {"400", "413", "501"}
          BY <1>1, <1>3, <4>2 DEF RejectCode, Accepted, Promise!Outcome
        <5> QED
          BY <5>1, <5>2, Zenon
      <4> QED
        BY <2>2, <4>1, <4>2, Zenon DEF Reject
    <3>2. out_upstream' = <<>> /\ sent' = <<>>
      BY <1>6, <2>2, Zenon DEF Reject, sendVars
    <3>3. reply' # <<>> /\ reply'[1][1] = code
      BY <3>1, ReplyCode, Zenon
    <3>4. Outcome' = code
      BY <3>1, <3>2, <3>3, Zenon DEF Outcome
    <3> QED
      BY <3>1, <3>4, Zenon DEF HeaderRead
  <2>3. CASE RequestComplete(n)
    <3>1. HeaderDone(n) /\ BodyDone(n) /\ out_upstream' = WholeRequest
      BY <1>1, <1>3, <2>3, UpstreamRequestWhole, SMTT(30) DEF RequestComplete
    <3>2. want' # "ReadClient"
      BY <2>3, Zenon DEF RequestComplete, BeginResolve, BeginConnect, FailWith, SetWant
    <3>3. out_upstream' # <<>>
      BY <1>1, <3>1, WholeRequestSeq
    <3>4. Outcome' = "forward"
      BY <3>2, <3>3, Zenon DEF Outcome
    <3> QED
      BY <1>5, <1>7, <3>1, <3>2, <3>4, SMTT(30) DEF HeaderRead
  <2> QED
    BY <1>2, <2>1, <2>2, <2>3, SMTT(30)
<1>9. Outcome = "reading"
  BY <1>1, Zenon DEF Outcome
<1> QED
  BY <1>1, <1>2, <1>3, <1>8, <1>9 DEF Promise!Read

\* do_read_client: how a request is received does not depend on the reads that bring it,
\* and what was decided at their end stands, whatever fails later.
THEOREM IntakeIsImplemented == Spec => Promise!Spec
<1>1. Init => Promise!Init
  BY RequestAssumption, Zenon DEF Init, Promise!Init, Outcome
<1>2. Init => HeaderRead
  BY Zenon DEF Init, HeaderRead
<1>3. IInv /\ IInv' /\ HeaderRead /\ [Next]_vars => HeaderRead' /\ [Promise!Next]_(Promise!vars)
  <2> SUFFICES ASSUME IInv, IInv', HeaderRead, [Next]_vars
               PROVE  HeaderRead' /\ [Promise!Next]_(Promise!vars)
    BY Zenon
  <2>1. CASE DoReadClient
    BY <2>1, ReadAsIntake, Zenon DEF Promise!Next
  <2>2. CASE Next /\ ~DoReadClient
    <3>1. HeaderRead'
      BY <2>2, ReadingIsOver, Zenon DEF HeaderRead, Accepted
    <3> QED
      BY <2>2, <3>1, OtherAsIntake, Zenon DEF Promise!Next
  <2>3. CASE UNCHANGED vars
    BY <2>3, Zenon DEF vars, HeaderRead, Accepted, Outcome, Promise!vars
  <2> QED
    BY <2>1, <2>2, <2>3, Zenon
<1> QED
  BY <1>1, <1>2, <1>3, Invariance, PTL DEF Spec, Promise!Spec

-----------------------------------------------------------------------------
(* resolve_job_ as Lookups *)

\* What the steps of Lookups are to the one connection.
LEMMA AskingMoves ==
  /\ (job' = job /\ endpoints' = endpoints) => UNCHANGED Asking!vars
  /\ (job = "none" /\ job' = job) => Asking!AtOnce(1)
  /\ (job = "none" /\ job' = "pending" /\ endpoints' = endpoints) => Asking!Ask(1)
  /\ (job = "pending" /\ job' \in {"ok", "failed"} /\ endpoints' = endpoints) => Asking!Answer(1)
  /\ (job \in {"ok", "failed"} /\ job' = "none" /\ (endpoints' # 0) = (job = "ok")) => Asking!Take(1)
  /\ (job # "none" /\ job' = "none" /\ endpoints' = endpoints) => Asking!Drop(1)
<1>1. Asked[1] = job /\ Found[1] = (endpoints # 0)
  BY Zenon DEF Asked, Found
<1>2. Asked' = [Asked EXCEPT ![1] = job'] /\ Found' = [Found EXCEPT ![1] = endpoints' # 0]
  BY Zenon DEF Asked, Found
<1>3. job' = job => Asked' = Asked
  BY Zenon DEF Asked
<1>4. endpoints' = endpoints => Found' = Found
  BY Zenon DEF Found
<1>5. (endpoints' # 0) \in BOOLEAN
  BY Zenon
<1>6. (job' = job /\ endpoints' = endpoints) => UNCHANGED Asking!vars
  BY <1>3, <1>4, Zenon DEF Asking!vars
<1>7. (job = "none" /\ job' = job) => Asking!AtOnce(1)
  BY <1>1, <1>2, <1>3, <1>5, Zenon DEF Asking!AtOnce
<1>8. (job = "none" /\ job' = "pending" /\ endpoints' = endpoints) => Asking!Ask(1)
  BY <1>1, <1>2, <1>4, Zenon DEF Asking!Ask
<1>9. (job = "pending" /\ job' \in {"ok", "failed"} /\ endpoints' = endpoints) => Asking!Answer(1)
  BY <1>1, <1>2, <1>4, Zenon DEF Asking!Answer
<1>10. (job \in {"ok", "failed"} /\ job' = "none" /\ (endpoints' # 0) = (job = "ok")) => Asking!Take(1)
  BY <1>1, <1>2, Zenon DEF Asking!Take
<1>11. (job # "none" /\ job' = "none" /\ endpoints' = endpoints) => Asking!Drop(1)
  BY <1>1, <1>2, <1>4, Zenon DEF Asking!Drop
<1> QED
  BY <1>6, <1>7, <1>8, <1>9, <1>10, <1>11, Zenon

\* Where a connection stands with its job when it wants something other than the resolver.
LEMMA NoJobElsewhere ==
  ASSUME IInv, want # "ReadResolver"
  PROVE  job = "none"
BY Zenon DEF IInv, Front, Control, Ended, Open

\* finish_resolve takes the answer that is there.
LEMMA FinishResolveAsks ==
  ASSUME IInv, FinishResolve PROVE Asking!Take(1)
<1>1. job \in {"ok", "failed"} /\ job' = "none" /\ endpoints = 0
  BY Zenon DEF IInv, Front, Control, FinishResolve
<1>2. job = "ok" => endpoints' # 0
  BY DEF FinishResolve
<1>3. job = "failed" => endpoints' = endpoints
  BY Zenon DEF FinishResolve, routeVars
<1>4. (endpoints' # 0) = (job = "ok")
  BY <1>1, <1>2, <1>3, Zenon
<1> QED
  BY <1>1, <1>4, AskingMoves, Zenon

\* begin_resolve asks when there is no job, and every other step keeps to its job.
LEMMA AskingStep ==
  ASSUME IInv, [Next]_vars PROVE [Asking!Next]_(Asking!vars)
<1>1. CASE FinishResolve
  BY <1>1, FinishResolveAsks, Zenon DEF Asking!Next
<1>2. CASE Publish
  <2>1. job = "pending" /\ job' \in {"ok", "failed"} /\ endpoints' = endpoints
    BY <1>2, Zenon DEF Publish, routeVars
  <2> QED
    BY <2>1, AskingMoves, Zenon DEF Asking!Next
<1>3. CASE DoReadClient
  <2>1. job = "none"
    BY <1>3, NoJobElsewhere, Zenon DEF DoReadClient
  <2>2. job' = job \/ (job' = "pending" /\ endpoints' = endpoints)
    BY <1>3, Zenon DEF DoReadClient, KeepReading, Reject, RequestComplete, BeginResolve, routeVars
  <2> QED
    BY <2>1, <2>2, AskingMoves, Zenon DEF Asking!Next
<1>4. CASE Abandon
  <2>1. job' = "none" /\ endpoints' = endpoints
    BY <1>4, Zenon DEF Abandon, routeVars
  <2> QED
    BY <2>1, AskingMoves, Zenon DEF Asking!Next
<1>5. CASE \/ FinishConnect \/ DoWriteUpstream \/ DoReadUpstream \/ ReadUpstreamEof \/ DoWriteClient
           \/ ReadClientGone \/ WriteUpstreamFails \/ ReadUpstreamFails \/ WriteClientFails
  <2>1. want # "ReadResolver" /\ endpoints' = endpoints /\ (job' = job \/ job' = "none")
    BY <1>5, Zenon DEF FinishConnect, DoWriteUpstream, DoReadUpstream, ReadUpstreamEof, DoWriteClient,
       ReadClientGone, WriteUpstreamFails, ReadUpstreamFails, WriteClientFails, Finish, routeVars
  <2> QED
    BY <2>1, NoJobElsewhere, AskingMoves, Zenon
<1>6. CASE Over \/ UNCHANGED vars
  BY <1>6, AskingMoves, Zenon DEF Over, vars
<1> QED
  BY <1>1, <1>2, <1>3, <1>4, <1>5, <1>6, Zenon DEF Next, Progress

\* The connection keeps to what it owes those it works with: what becomes of a request does
\* not depend on the reads that bring it, and a lookup is asked for once at a time and its
\* answer taken once it is there (do_read_client, begin_resolve, finish_resolve).
THEOREM InterfacesAreImplemented == Spec => ImplementsInterfaces
<1>1. Init => Asking!Init
  BY Zenon DEF Init, Asking!Init, Asked, Found
<1>2. IInv /\ [Next]_vars => [Asking!Next]_(Asking!vars)
  BY AskingStep, Zenon
<1> QED
  BY <1>1, <1>2, IntakeIsImplemented, Invariance, PTL DEF Spec, ImplementsInterfaces, Asking!Spec
=============================================================================
