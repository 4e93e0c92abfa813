------------------------------ MODULE Resolver ------------------------------
(***************************************************************************)
(* The resolver (resolver.cpp): threads that take lookups off a queue,     *)
(* publish each answer into its ResolveJob and wake the connection that    *)
(* waits on the job's pipe, with a cache of answers in front.              *)
(*                                                                         *)
(* An answer is the version of the DNS record that the lookup saw, 0 for   *)
(* an empty endpoint list.  Jobs are numbered in the order of start().     *)
(***************************************************************************)
EXTENDS Integers, Sequences, FiniteSets

CONSTANTS
  Threads,    \* resolver threads
  Callers,    \* connections that look a name up
  Keys,       \* host:port
  Ttl,        \* cache_ttl_s_
  MaxJobs,    \* bound: how many jobs are started
  MaxVersion  \* bound: how often the record changes

ASSUME ResolverAssumption ==
  /\ Ttl \in Nat /\ MaxJobs \in Nat /\ MaxVersion \in Nat \ {0}
  /\ Threads # {} /\ Threads \cap Callers = {}

VARIABLES
  async_resolve,  \* cfg_.async_resolve, fixed when the program starts
  version,        \* the DNS record
  queue,          \* queue_: jobs nobody has taken
  closed,         \* closed_
  waiting,        \* threads blocked in queue_cv_.wait
  mpc,            \* where shutdown() is
  tpc, tjob,      \* tpc[t], tjob[t]: where worker t is, and its job
  answer,         \* answer[t]: what its lookup returned, 0 if it failed
  cpc, cjob,      \* cpc[c], cjob[c]: where caller c is, and its job
  key,            \* key[j]: what job j looks up
  endpoints,      \* endpoints[j], ok[j], ready[j]: fields of job j
  ok,
  ready,
  byte,           \* byte[j]: a byte was written to its pipe
  cache,          \* cache_: [answer, left], the time left until it expires; NoAnswer if none
  got             \* got[c]: the last answer caller c was given, 0 if it failed

vars == <<async_resolve, version, queue, closed, waiting, mpc, tpc, tjob, answer, cpc, cjob, key,
          endpoints, ok, ready, byte, cache, got>>

threadVars == <<tpc, tjob, answer>>
jobVars    == <<endpoints, ok, ready, byte>>
callVars   == <<cpc, cjob, key, got>>

Jobs     == 1..MaxJobs
NoAnswer == [answer |-> 0, left |-> 0]

\* How many jobs were started; key[j] is set when job j is.
Started == Len(key)

\* main() makes no resolver threads when lookups are blocking.
Init ==
  /\ async_resolve \in BOOLEAN /\ version = 1
  /\ queue = <<>> /\ closed = FALSE /\ waiting = {} /\ mpc = "running"
  /\ tpc = [t \in Threads |-> IF async_resolve THEN "pop" ELSE "exited"] /\ tjob = [t \in Threads |-> 0]
  /\ answer = [t \in Threads |-> 0]
  /\ cpc = [c \in Callers |-> "idle"] /\ cjob = [c \in Callers |-> 0]
  /\ key = <<>> /\ got = [c \in Callers |-> 0]
  /\ endpoints = [j \in Jobs |-> 0] /\ ok = [j \in Jobs |-> FALSE]
  /\ ready = [j \in Jobs |-> FALSE] /\ byte = [j \in Jobs |-> FALSE]
  /\ cache = [k \in Keys |-> NoAnswer]

\* Time passes.
Tick ==
  /\ \E k \in Keys : cache[k].left > 0
  /\ cache' = [k \in Keys |-> [cache[k] EXCEPT !.left = IF @ = 0 THEN 0 ELSE @ - 1]]
  /\ UNCHANGED <<async_resolve, version, queue, closed, waiting, mpc, threadVars, callVars, jobVars>>

DnsChanges ==
  /\ version < MaxVersion
  /\ version' = version + 1
  /\ UNCHANGED <<async_resolve, queue, closed, waiting, mpc, threadVars, callVars, jobVars, cache>>

-----------------------------------------------------------------------------
(* start() and resolve_blocking(): cache_get, then the queue or the lookup *)

\* An entry is served for as long as it is there.
FreshForever(k) == cache[k].answer # 0

Fresh(k) == cache[k].answer # 0 /\ cache[k].left > 0

\* cache_put, without effect when there is no TTL.
Put(k, a) == IF Ttl > 0 THEN [cache EXCEPT ![k] = [answer |-> a, left |-> Ttl]] ELSE cache

StartHit(c, k) ==
  /\ cpc[c] = "idle" /\ Fresh(k)
  /\ got' = [got EXCEPT ![c] = cache[k].answer]
  /\ UNCHANGED <<async_resolve, version, queue, closed, waiting, mpc, threadVars, cpc, cjob, key, jobVars, cache>>

\* A miss, which erases an entry that has expired; then make the job, or, in the
\* blocking form (which has a number only for its key), look up at once.
StartMiss(c, k) ==
  /\ cpc[c] = "idle" /\ ~Fresh(k) /\ Started < MaxJobs
  /\ cache' = [cache EXCEPT ![k] = NoAnswer]
  /\ key' = Append(key, k)
  /\ cjob' = [cjob EXCEPT ![c] = Started + 1]
  /\ cpc' = [cpc EXCEPT ![c] = IF async_resolve THEN "enqueue" ELSE "lookup"]
  /\ UNCHANGED <<async_resolve, version, queue, closed, waiting, mpc, threadVars, got, jobVars>>

\* No pipe, or the resolver is shutting down: Failed.
StartFails(c) ==
  /\ cpc[c] = "enqueue"
  /\ got' = [got EXCEPT ![c] = 0]
  /\ cjob' = [cjob EXCEPT ![c] = 0]
  /\ cpc' = [cpc EXCEPT ![c] = "idle"]
  /\ UNCHANGED <<async_resolve, version, queue, closed, waiting, mpc, threadVars, key, jobVars, cache>>

\* start() without the test of closed_.
StartQueueLate(c) ==
  /\ cpc[c] = "enqueue"
  /\ queue' = Append(queue, cjob[c])
  /\ cpc' = [cpc EXCEPT ![c] = "notify"]
  /\ UNCHANGED <<async_resolve, version, closed, waiting, mpc, threadVars, cjob, key, got, jobVars, cache>>

StartQueue(c) ==
  /\ cpc[c] = "enqueue" /\ ~closed
  /\ queue' = Append(queue, cjob[c])
  /\ cpc' = [cpc EXCEPT ![c] = "notify"]
  /\ UNCHANGED <<async_resolve, version, closed, waiting, mpc, threadVars, cjob, key, got, jobVars, cache>>

\* Who may still be waiting after a notify_one.
Notified == IF waiting = {} THEN {{}} ELSE {waiting \ {t} : t \in waiting}

StartNotify(c) ==
  /\ cpc[c] = "notify"
  /\ waiting' \in Notified
  /\ cpc' = [cpc EXCEPT ![c] = "pending"]
  /\ UNCHANGED <<async_resolve, version, queue, closed, mpc, threadVars, cjob, key, got, jobVars, cache>>

\* finish_resolve that takes a spurious wake-up for the answer.
FinishResolveUnready(c) ==
  LET j == cjob[c] IN
  /\ cpc[c] = "pending"
  /\ got' = [got EXCEPT ![c] = IF ok[j] THEN endpoints[j] ELSE 0]
  /\ endpoints' = IF ok[j] THEN [endpoints EXCEPT ![j] = 0] ELSE endpoints
  /\ cjob' = [cjob EXCEPT ![c] = 0]
  /\ cpc' = [cpc EXCEPT ![c] = "idle"]
  /\ UNCHANGED <<async_resolve, version, queue, closed, waiting, mpc, threadVars, key, ok, ready, byte, cache>>

\* finish_resolve, called when the pipe is readable: take the endpoints out of the job.
FinishResolve(c) ==
  LET j == cjob[c] IN
  /\ cpc[c] = "pending" /\ byte[j] /\ ready[j]
  /\ got' = [got EXCEPT ![c] = IF ok[j] THEN endpoints[j] ELSE 0]
  /\ endpoints' = IF ok[j] THEN [endpoints EXCEPT ![j] = 0] ELSE endpoints
  /\ cjob' = [cjob EXCEPT ![c] = 0]
  /\ cpc' = [cpc EXCEPT ![c] = "idle"]
  /\ UNCHANGED <<async_resolve, version, queue, closed, waiting, mpc, threadVars, key, ok, ready, byte, cache>>

\* The connection is destroyed while it waits: its share of the job goes.
Abandon(c) ==
  /\ cpc[c] = "pending"
  /\ cjob' = [cjob EXCEPT ![c] = 0]
  /\ cpc' = [cpc EXCEPT ![c] = "idle"]
  /\ UNCHANGED <<async_resolve, version, queue, closed, waiting, mpc, threadVars, key, got, jobVars, cache>>

-----------------------------------------------------------------------------
(* The rest of resolve_blocking(), in the caller's own thread *)

BlockingLookup(c) ==
  /\ cpc[c] = "lookup"
  /\ \E a \in {0, version} :
       /\ got' = [got EXCEPT ![c] = a]
       /\ cpc' = [cpc EXCEPT ![c] = IF a = 0 THEN "idle" ELSE "put"]
  /\ UNCHANGED <<async_resolve, version, queue, closed, waiting, mpc, threadVars, cjob, key, jobVars, cache>>

BlockingPut(c) ==
  /\ cpc[c] = "put"
  /\ cache' = Put(key[cjob[c]], got[c])
  /\ cpc' = [cpc EXCEPT ![c] = "idle"]
  /\ UNCHANGED <<async_resolve, version, queue, closed, waiting, mpc, threadVars, cjob, key, got, jobVars>>

-----------------------------------------------------------------------------
(* worker_loop() *)

\* The predicate of the wait holds, or does not.
Take(t) ==
  /\ tpc[t] = "pop" /\ t \notin waiting
  /\ queue # <<>>
  /\ tjob' = [tjob EXCEPT ![t] = Head(queue)]
  /\ queue' = Tail(queue)
  /\ tpc' = [tpc EXCEPT ![t] = "lookup"]
  /\ UNCHANGED <<async_resolve, version, closed, waiting, mpc, answer, callVars, jobVars, cache>>

Block(t) ==
  /\ tpc[t] = "pop" /\ t \notin waiting
  /\ queue = <<>> /\ ~closed
  /\ waiting' = waiting \cup {t}
  /\ UNCHANGED <<async_resolve, version, queue, closed, mpc, threadVars, callVars, jobVars, cache>>

Spurious(t) ==
  /\ t \in waiting
  /\ waiting' = waiting \ {t}
  /\ UNCHANGED <<async_resolve, version, queue, closed, mpc, threadVars, callVars, jobVars, cache>>

\* A worker that leaves as soon as the resolver is closed.
ExitUndrained(t) ==
  /\ tpc[t] = "pop" /\ t \notin waiting
  /\ closed
  /\ tpc' = [tpc EXCEPT ![t] = "exited"]
  /\ UNCHANGED <<async_resolve, version, queue, closed, waiting, mpc, tjob, answer, callVars, jobVars, cache>>

\* Closed and drained.
Exit(t) ==
  /\ tpc[t] = "pop" /\ t \notin waiting
  /\ closed /\ queue = <<>>
  /\ tpc' = [tpc EXCEPT ![t] = "exited"]
  /\ UNCHANGED <<async_resolve, version, queue, closed, waiting, mpc, tjob, answer, callVars, jobVars, cache>>

\* do_lookup sees the record as it is, or fails; it may take long to return.
Lookup(t) ==
  /\ tpc[t] = "lookup"
  /\ \E a \in {0, version} : answer' = [answer EXCEPT ![t] = a]
  /\ tpc' = [tpc EXCEPT ![t] = "publish"]
  /\ UNCHANGED <<async_resolve, version, queue, closed, waiting, mpc, tjob, callVars, jobVars, cache>>

\* Fill in the job's fields.
Publish(t) ==
  /\ tpc[t] = "publish"
  /\ endpoints' = [endpoints EXCEPT ![tjob[t]] = answer[t]]
  /\ ok' = [ok EXCEPT ![tjob[t]] = answer[t] # 0]
  /\ tpc' = [tpc EXCEPT ![t] = "cache"]
  /\ UNCHANGED <<async_resolve, version, queue, closed, waiting, mpc, tjob, answer, callVars, ready, byte, cache>>

\* cache_put, of a success only; the entry is copied from the job.
CachePut(t) ==
  LET j == tjob[t] IN
  /\ tpc[t] = "cache"
  /\ cache' = IF ok[j] THEN Put(key[j], endpoints[j]) ELSE cache
  /\ tpc' = [tpc EXCEPT ![t] = "ready"]
  /\ UNCHANGED <<async_resolve, version, queue, closed, waiting, mpc, tjob, answer, callVars, jobVars>>

Ready(t) ==
  /\ tpc[t] = "ready"
  /\ ready' = [ready EXCEPT ![tjob[t]] = TRUE]
  /\ tpc' = [tpc EXCEPT ![t] = "byte"]
  /\ UNCHANGED <<async_resolve, version, queue, closed, waiting, mpc, tjob, answer, callVars, endpoints, ok, byte, cache>>

\* One byte, then close the write end and let the job go.
WriteByte(t) ==
  /\ tpc[t] = "byte"
  /\ byte' = [byte EXCEPT ![tjob[t]] = TRUE]
  /\ tjob' = [tjob EXCEPT ![t] = 0]
  /\ answer' = [answer EXCEPT ![t] = 0]
  /\ tpc' = [tpc EXCEPT ![t] = "pop"]
  /\ UNCHANGED <<async_resolve, version, queue, closed, waiting, mpc, callVars, endpoints, ok, ready, cache>>

-----------------------------------------------------------------------------
(* shutdown() *)

Close ==
  /\ mpc = "running"
  /\ closed' = TRUE
  /\ mpc' = "notify"
  /\ UNCHANGED <<async_resolve, version, queue, waiting, threadVars, callVars, jobVars, cache>>

\* shutdown() that wakes one thread.
NotifyOnlyOne ==
  /\ mpc = "notify"
  /\ waiting' \in Notified
  /\ mpc' = "join"
  /\ UNCHANGED <<async_resolve, version, queue, closed, threadVars, callVars, jobVars, cache>>

NotifyAll ==
  /\ mpc = "notify"
  /\ waiting' = {}
  /\ mpc' = "join"
  /\ UNCHANGED <<async_resolve, version, queue, closed, threadVars, callVars, jobVars, cache>>

Join ==
  /\ mpc = "join"
  /\ \A t \in Threads : tpc[t] = "exited"
  /\ mpc' = "joined"
  /\ UNCHANGED <<async_resolve, version, queue, closed, waiting, threadVars, callVars, jobVars, cache>>

Joined == mpc = "joined" /\ (\A c \in Callers : cpc[c] = "idle") /\ UNCHANGED vars

ThreadStep(t) ==
  \/ Take(t) \/ Block(t) \/ Exit(t) \/ Lookup(t) \/ Publish(t) \/ CachePut(t)
  \/ Ready(t) \/ WriteByte(t)

MainStep == Close \/ NotifyAll \/ Join

CallStep(c) == StartFails(c) \/ StartQueue(c) \/ StartNotify(c) \/ FinishResolve(c)
               \/ BlockingLookup(c) \/ BlockingPut(c)

Next ==
  \/ Tick \/ DnsChanges \/ MainStep \/ Joined
  \/ \E t \in Threads : ThreadStep(t) \/ Spurious(t)
  \/ \E c \in Callers : CallStep(c) \/ Abandon(c) \/ \E k \in Keys : StartHit(c, k) \/ StartMiss(c, k)

Spec == Init /\ [][Next]_vars

\* Time passes, threads run, a lookup returns, and a readable pipe is noticed.
Fairness ==
  /\ WF_vars(Tick) /\ WF_vars(NotifyAll \/ Join)
  /\ \A t \in Threads : WF_vars(ThreadStep(t))
  /\ \A c \in Callers : WF_vars(CallStep(c))

FairSpec == Spec /\ Fairness

-----------------------------------------------------------------------------
(* Properties *)

\* The fields keep their types; no entry of the cache outlives its TTL.
TypeOK ==
  /\ async_resolve \in BOOLEAN /\ version \in 1..MaxVersion
  /\ queue \in Seq(Jobs) /\ closed \in BOOLEAN /\ waiting \subseteq Threads
  /\ mpc \in {"running", "notify", "join", "joined"}
  /\ tpc \in [Threads -> {"pop", "lookup", "publish", "cache", "ready", "byte", "exited"}]
  /\ tjob \in [Threads -> 0..MaxJobs] /\ answer \in [Threads -> 0..MaxVersion]
  /\ cpc \in [Callers -> {"idle", "enqueue", "notify", "pending", "lookup", "put"}]
  /\ cjob \in [Callers -> 0..MaxJobs] /\ got \in [Callers -> 0..MaxVersion]
  /\ key \in Seq(Keys) /\ Started <= MaxJobs
  /\ endpoints \in [Jobs -> 0..MaxVersion]
  /\ ok \in [Jobs -> BOOLEAN] /\ ready \in [Jobs -> BOOLEAN] /\ byte \in [Jobs -> BOOLEAN]
  /\ cache \in [Keys -> [answer : 0..MaxVersion, left : 0..Ttl]]

\* "Publish the result BEFORE signalling": a connection that is woken finds its
\* answer ready, and never an empty list from a lookup that succeeded; and once
\* the job is ready no resolver thread reads or writes the fields that the
\* connection then takes without a lock.
PublishedThenSignalled ==
  /\ \A c \in Callers : (cpc[c] \in {"notify", "pending"} /\ byte[cjob[c]]) =>
       ready[cjob[c]] /\ (ok[cjob[c]] => endpoints[cjob[c]] # 0)
  /\ \A t \in Threads : tpc[t] \in {"lookup", "publish", "cache"} => ~ready[tjob[t]]

\* The jobs that callers wait for and what they were given, as module Lookups sees them.
Job(c) ==
  IF cpc[c] \notin {"notify", "pending"} THEN "none"
  ELSE IF ~byte[cjob[c]] THEN "pending"
  ELSE IF ok[cjob[c]] THEN "ok" ELSE "failed"

AllJobs == [c \in Callers |-> Job(c)]
Found   == [c \in Callers |-> got[c] # 0]

Promise == INSTANCE Lookups WITH job <- AllJobs, found <- Found

\* What connections may rely on (ResolveJob): a job that was queued is answered at most once,
\* the connection that waits for it takes that very answer, whatever other threads and
\* connections do meanwhile, and being woken means that the answer is there.
AnswersAreKept == Promise!Spec /\ []PublishedThenSignalled

\* After shutdown() no job is left that nobody will answer: what was queued before
\* is done, and nothing is queued after.
NoOrphanJob ==
  mpc = "joined" =>
    /\ queue = <<>>
    /\ \A c \in Callers : cpc[c] \in {"notify", "pending"} => byte[cjob[c]]

\* Every lookup that is started is answered, also while the resolver shuts down.
JobsAreAnswered == \A c \in Callers : cpc[c] # "idle" ~> cpc[c] = "idle"

\* shutdown() returns.
ShutdownEnds == mpc # "running" ~> mpc = "joined"

\* An answer that the DNS no longer gives is not served for ever.
OldAnswersExpire ==
  \A k \in Keys : (Fresh(k) /\ cache[k].answer # version) ~> ~(Fresh(k) /\ cache[k].answer # version)
=============================================================================
