------------------------------ MODULE Sharded -------------------------------
(***************************************************************************)
(* The sharded event loop (backend/event_loop.cpp, ShardedEventLoop): one  *)
(* acceptor hands accepted connections round-robin to N loops through an   *)
(* Inbox each, a locked queue plus a pipe whose bytes wake the loop.       *)
(*                                                                         *)
(* Connections are numbered in the order of acceptance.  What a shard does *)
(* with a connection it has adopted is EventLoop's business: here it is    *)
(* live in the shard until it finishes.  A pipe is the number of bytes in  *)
(* it; its write end blocks when it is full.  Faults: a pipe that cannot   *)
(* be made, a shard without a kqueue, and a shard whose kevent fails.      *)
(***************************************************************************)
EXTENDS Integers, Sequences, FiniteSets

CONSTANTS
  NumShards,      \* shards_
  PipeCapacity,   \* bytes a pipe holds
  MayFail,        \* the shards that may be hit by a fault
  MaxConns        \* bound: how many connections arrive

ASSUME ShardAssumption ==
  /\ NumShards \in Nat \ {0}
  /\ PipeCapacity \in Nat \ {0}
  /\ MayFail \subseteq 0..(NumShards - 1)
  /\ MaxConns \in Nat

VARIABLES
  stop,       \* stop_ of the backend
  loop_stop,  \* loop_stop[s]: stop_ of shard s's EventLoop
  telling,    \* the loops that the signal handler has found and not yet told
  made,       \* how many loops are in loops_
  apc,        \* where run() is: set-up, accept_loop, the hand-off, the shutdown
  next,       \* the shard whose turn it is
  hand,       \* the connection being handed over, 0 if none
  accepted,   \* how many were accepted
  queue,      \* queue[s]: Inbox::queue
  pipe,       \* pipe[s]: bytes in its pipe
  spc,        \* spc[s]: where shard s's loop is
  live,       \* live[s]: its connections
  closed      \* connections that are over

vars == <<stop, loop_stop, telling, made, apc, next, hand, accepted, queue, pipe, spc, live, closed>>

stopVars     == <<stop, loop_stop, telling>>
acceptorVars == <<made, apc, next, hand, accepted>>
shardVars    == <<spc, live, closed>>

Shards == 0..(NumShards - 1)
Conns  == 1..MaxConns
None   == 0

Init ==
  /\ stop = FALSE /\ loop_stop = [s \in Shards |-> FALSE] /\ telling = {}
  /\ made = 0 /\ apc = "make" /\ next = 0 /\ hand = None /\ accepted = 0
  /\ queue = [s \in Shards |-> <<>>] /\ pipe = [s \in Shards |-> 0]
  /\ spc = [s \in Shards |-> "none"]
  /\ live = [s \in Shards |-> {}] /\ closed = {}

-----------------------------------------------------------------------------
(* stop(), in a signal handler: the backend's flag, then each loop in loops_ *)

\* The acceptor waits for room in the pipe of the shard whose turn it is.
Blocked == apc = "wake" /\ pipe[next] = PipeCapacity

\* The handler sees the loops that run() has made so far.  A signal that arrives on
\* the acceptor's thread ends a write that waits for room; its byte is not written.
Signal ==
  /\ stop' = TRUE
  /\ telling' = {s \in Shards : s < made /\ ~loop_stop[s]}
  /\ \/ UNCHANGED <<apc, next>>
     \/ Blocked /\ apc' = "accept" /\ next' = (next + 1) % NumShards
  /\ UNCHANGED <<loop_stop, made, hand, accepted, queue, pipe, shardVars>>

HandlerTells(s) ==
  /\ s \in telling
  /\ \A t \in telling : s <= t
  /\ telling' = telling \ {s}
  /\ loop_stop' = [loop_stop EXCEPT ![s] = TRUE]
  /\ UNCHANGED <<stop, acceptorVars, queue, pipe, shardVars>>

-----------------------------------------------------------------------------
(* run(): one inbox, cache and loop per shard, then one thread per shard *)

MakeShard ==
  /\ apc = "make" /\ made < NumShards
  /\ made' = made + 1
  /\ UNCHANGED <<stopVars, apc, next, hand, accepted, queue, pipe, shardVars>>

\* Inbox::init fails: run() returns before any thread is started.
MakeFails ==
  /\ apc = "make" /\ made < NumShards /\ made \in MayFail
  /\ apc' = "returned"
  /\ UNCHANGED <<stopVars, made, next, hand, accepted, queue, pipe, shardVars>>

\* The threads in order; after the last one, accept_loop().
StartShard(s) ==
  /\ apc = "make" /\ made = NumShards
  /\ spc[s] = "none" /\ \A t \in Shards : t < s => spc[t] # "none"
  /\ spc' = [spc EXCEPT ![s] = "open"]
  /\ apc' = IF s = NumShards - 1 THEN "check" ELSE apc
  /\ UNCHANGED <<stopVars, made, next, hand, accepted, queue, pipe, live, closed>>

-----------------------------------------------------------------------------
(* run() and accept_loop() *)

\* The flag is read once per readiness event of the listener; an event that is
\* not there leaves the acceptor where it is.
CheckStop ==
  /\ apc = "check"
  /\ apc' = IF stop THEN "stop_loops" ELSE "accept"
  /\ UNCHANGED <<stopVars, made, next, hand, accepted, queue, pipe, shardVars>>

\* WouldBlock, out of descriptors, or another failure: back to the wait.
AcceptNothing ==
  /\ apc = "accept"
  /\ apc' = "check"
  /\ UNCHANGED <<stopVars, made, next, hand, accepted, queue, pipe, shardVars>>

Accept ==
  /\ apc = "accept"
  /\ accepted < MaxConns
  /\ accepted' = accepted + 1
  /\ hand' = accepted + 1
  /\ apc' = "push"
  /\ UNCHANGED <<stopVars, made, next, queue, pipe, shardVars>>

\* Inbox::push: first the queue, under its lock ...
Push ==
  /\ apc = "push"
  /\ queue' = [queue EXCEPT ![next] = Append(@, hand)]
  /\ hand' = None
  /\ apc' = "wake"
  /\ UNCHANGED <<stopVars, made, next, accepted, pipe, shardVars>>

\* A hand-off that leaves the wake-up to the shard's timeout.
WakeForgotten ==
  /\ apc = "wake"
  /\ next' = (next + 1) % NumShards
  /\ apc' = "accept"
  /\ UNCHANGED <<stopVars, made, hand, accepted, queue, pipe, shardVars>>

\* A round that turns over one shard too late.
WakeOffByOne ==
  /\ apc = "wake"
  /\ pipe[next] < PipeCapacity
  /\ pipe' = [pipe EXCEPT ![next] = @ + 1]
  /\ next' = (next + 2) % NumShards
  /\ apc' = "accept"
  /\ UNCHANGED <<stopVars, made, hand, accepted, queue, shardVars>>

\* ... then the wake-up byte, waiting for room.  Then the next shard's turn.
Wake ==
  /\ apc = "wake"
  /\ pipe[next] < PipeCapacity
  /\ pipe' = [pipe EXCEPT ![next] = @ + 1]
  /\ next' = (next + 1) % NumShards
  /\ apc' = "accept"
  /\ UNCHANGED <<stopVars, made, hand, accepted, queue, shardVars>>

\* The other loops are left to the handler.
RunTellsFirst(s) ==
  /\ apc = "stop_loops"
  /\ s = 0 /\ ~loop_stop[s]
  /\ loop_stop' = [loop_stop EXCEPT ![s] = TRUE]
  /\ UNCHANGED <<stop, telling, acceptorVars, queue, pipe, shardVars>>

\* After accept_loop() run() tells every loop itself ...
RunTells(s) ==
  /\ apc = "stop_loops"
  /\ ~loop_stop[s]
  /\ loop_stop' = [loop_stop EXCEPT ![s] = TRUE]
  /\ UNCHANGED <<stop, telling, acceptorVars, queue, pipe, shardVars>>

\* The threads are left to themselves.
JoinNobody ==
  /\ apc = "stop_loops"
  /\ \A s \in Shards : loop_stop[s]
  /\ apc' = "returned"
  /\ UNCHANGED <<stopVars, made, next, hand, accepted, queue, pipe, shardVars>>

\* ... and waits for the threads.
Join ==
  /\ apc = "stop_loops"
  /\ \A s \in Shards : loop_stop[s] /\ spc[s] = "exited"
  /\ apc' = "returned"
  /\ UNCHANGED <<stopVars, made, next, hand, accepted, queue, pipe, shardVars>>

-----------------------------------------------------------------------------
(* A shard's EventLoop::run *)

\* Its kqueue, with the inbox registered.
Open(s) ==
  /\ spc[s] = "open"
  /\ spc' = [spc EXCEPT ![s] = "check"]
  /\ UNCHANGED <<stopVars, acceptorVars, queue, pipe, live, closed>>

\* No kqueue, or the inbox cannot be registered: the loop returns, and nobody is told.
OpenFails(s) ==
  /\ spc[s] = "open" /\ s \in MayFail
  /\ spc' = [spc EXCEPT ![s] = "exited"]
  /\ UNCHANGED <<stopVars, acceptorVars, queue, pipe, live, closed>>

\* kevent fails: the loop ends, drains its connections, and nobody is told.
PollFails(s) ==
  /\ spc[s] = "poll" /\ s \in MayFail
  /\ spc' = [spc EXCEPT ![s] = "drain"]
  /\ UNCHANGED <<stopVars, acceptorVars, queue, pipe, live, closed>>

\* The head of the loop.
ShardCheckStop(s) ==
  /\ spc[s] = "check"
  /\ spc' = [spc EXCEPT ![s] = IF loop_stop[s] THEN "drain" ELSE "poll"]
  /\ UNCHANGED <<stopVars, acceptorVars, queue, pipe, live, closed>>

\* kevent reports other descriptors, or nothing within 200 ms.
OtherEvents(s) ==
  /\ spc[s] = "poll"
  /\ spc' = [spc EXCEPT ![s] = "check"]
  /\ UNCHANGED <<stopVars, acceptorVars, queue, pipe, live, closed>>

\* take_from_inbox: first read all the bytes ...
TakeBytes(s) ==
  /\ spc[s] = "poll"
  /\ pipe[s] > 0
  /\ pipe' = [pipe EXCEPT ![s] = 0]
  /\ spc' = [spc EXCEPT ![s] = "adopt"]
  /\ UNCHANGED <<stopVars, acceptorVars, queue, live, closed>>

\* ... then swap the queue out and make a Connection of each descriptor.  One that
\* cannot be registered is destroyed at once.
TakeQueue(s) ==
  /\ spc[s] = "adopt"
  /\ queue' = [queue EXCEPT ![s] = <<>>]
  /\ \E refused \in SUBSET {queue[s][i] : i \in 1..Len(queue[s])} :
       /\ live' = [live EXCEPT ![s] = @ \cup ({queue[s][i] : i \in 1..Len(queue[s])} \ refused)]
       /\ closed' = closed \cup refused
  /\ spc' = [spc EXCEPT ![s] = "check"]
  /\ UNCHANGED <<stopVars, acceptorVars, pipe>>

\* A connection reaches Done while its shard services events.
Finish(s, c) ==
  /\ spc[s] \in {"poll", "drain"}
  /\ c \in live[s]
  /\ live' = [live EXCEPT ![s] = @ \ {c}]
  /\ closed' = closed \cup {c}
  /\ UNCHANGED <<stopVars, acceptorVars, queue, pipe, spc>>

\* drain() ends: nothing is live, or the grace is over and live_.clear() closes the rest.
Drained(s) ==
  /\ spc[s] = "drain"
  /\ closed' = closed \cup live[s]
  /\ live' = [live EXCEPT ![s] = {}]
  /\ spc' = [spc EXCEPT ![s] = "exited"]
  /\ UNCHANGED <<stopVars, acceptorVars, queue, pipe>>

Returned == apc = "returned" /\ UNCHANGED vars

\* The acceptor waits for room in the pipe of a shard that no longer reads.
Stuck == Blocked /\ spc[next] = "exited"

Hangs == Stuck /\ UNCHANGED vars

AcceptorStep ==
  \/ MakeShard \/ CheckStop \/ AcceptNothing \/ Accept \/ Push \/ Wake \/ Join
  \/ \E s \in Shards : StartShard(s) \/ RunTells(s)

ShardStep(s) ==
  \/ Open(s) \/ ShardCheckStop(s) \/ OtherEvents(s) \/ TakeBytes(s) \/ TakeQueue(s) \/ Drained(s)
  \/ \E c \in Conns : Finish(s, c)

Fault == MakeFails \/ \E s \in Shards : OpenFails(s) \/ PollFails(s)

Next ==
  \/ Signal \/ AcceptorStep \/ Fault \/ Returned \/ Hangs
  \/ \E s \in Shards : HandlerTells(s) \/ ShardStep(s)

Spec == Init /\ [][Next]_vars

\* Threads are scheduled, a readable pipe is reported, and a handler that has begun
\* ends.  Faults and signals may or may not happen.
Fairness ==
  /\ WF_vars(AcceptorStep)
  /\ \A s \in Shards : /\ WF_vars(HandlerTells(s))
                       /\ WF_vars(ShardStep(s))
                       /\ SF_vars(TakeBytes(s))

FairSpec == Spec /\ Fairness

-----------------------------------------------------------------------------
(* Properties *)

\* The fields keep their types; the round-robin cursor stays inside the shards.
TypeOK ==
  /\ stop \in BOOLEAN /\ loop_stop \in [Shards -> BOOLEAN] /\ telling \subseteq Shards
  /\ made \in 0..NumShards
  /\ apc \in {"make", "check", "accept", "push", "wake", "stop_loops", "returned"}
  /\ next \in Shards /\ hand \in Conns \cup {None} /\ accepted \in 0..MaxConns
  /\ queue \in [Shards -> Seq(Conns)] /\ pipe \in [Shards -> 0..PipeCapacity]
  /\ spc \in [Shards -> {"none", "open", "check", "poll", "adopt", "drain", "exited"}]
  /\ live \in [Shards -> SUBSET Conns] /\ closed \subseteq Conns

Queued(s) == {queue[s][i] : i \in 1..Len(queue[s])}

\* No lost wake-up: while a descriptor sits in an inbox, there is a byte in the
\* pipe, or the acceptor is about to write one, or the loop is past reading the
\* bytes and about to take the queue.  The two orders, queue then byte and bytes
\* then queue, are what makes this true.
NoLostHandOff ==
  \A s \in Shards : queue[s] # <<>> =>
    pipe[s] > 0 \/ (apc = "wake" /\ next = s) \/ spc[s] = "adopt"

\* The connections that shard s has or is about to have.
Of(s) == Queued(s) \cup live[s]

\* Every accepted connection is in exactly one place: in the acceptor's hand, once
\* in one inbox, live in one shard, or closed.
InOnePlace ==
  /\ 1..accepted = (closed \cup ({hand} \ {None})) \cup UNION {Of(s) : s \in Shards}
  /\ hand \notin closed
  /\ \A s \in Shards :
       /\ Queued(s) \cap live[s] = {}
       /\ Of(s) \cap (closed \cup {hand}) = {}
       /\ \A t \in Shards \ {s} : Of(s) \cap Of(t) = {}
       /\ \A i, j \in 1..Len(queue[s]) : i # j => queue[s][i] # queue[s][j]

\* Distribution is exact: connection c belongs to shard (c - 1) % N, whatever the
\* interleaving, and an inbox holds its connections in the order of acceptance.
RoundRobin ==
  \A s \in Shards :
    /\ \A c \in Of(s) : (c - 1) % NumShards = s
    /\ \A i, j \in 1..Len(queue[s]) : i < j => queue[s][i] < queue[s][j]

\* The hand-off neither loses nor doubles a connection nor gives it to the wrong shard:
\* each is in one place, and that place is with the shard whose turn it was.
OneShardEach == InOnePlace /\ RoundRobin

\* Every connection handed over is taken up by its shard, as long as that shard's own
\* loop has not ended: the failure of another shard, an acceptor that is stuck and a
\* stop() in the middle of the hand-off do not keep it waiting.
HandOffsAreTaken ==
  \A s \in Shards, c \in Conns :
    c \in Queued(s) ~> (c \in live[s] \cup closed \/ spc[s] \in {"drain", "exited"})

\* After stop() run() returns, also when the handler ran while loops_ was being filled
\* and missed some of the loops, and with any shards failed.  The one exception is an
\* acceptor that waits for room in the pipe of a shard whose loop has ended.
StopEndsRun == stop ~> (apc = "returned" \/ Stuck)

\* Is connection c yet to come, alive, or over?  One in the inbox of a shard that has
\* ended never becomes a Connection.
Life == [c \in Conns |->
          IF c > accepted THEN "new"
          ELSE IF c \in closed \/ (\E s \in Shards : spc[s] = "exited" /\ c \in Queued(s)) THEN "closed"
          ELSE "live"]

Promise == INSTANCE Backend WITH life <- Life, returned <- (apc = "returned")

\* The shards together do what a backend promises, also when some of them have failed and
\* when stop() finds connections in the inboxes: ShardedEventLoop::run returns only after a
\* stop, or with nothing accepted, and no shard has a connection then.
ImplementsBackend == Promise!Spec

\* "stops accepting, drains in-flight connections, then exits 0": when run()
\* returns no accepted connection is left unserved in an inbox.
InFlightDrained == apc = "returned" => closed = 1..accepted
=============================================================================
