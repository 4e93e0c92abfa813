# evproxy in TLA+

evproxy is an HTTP/1.1 forward proxy. One connection state machine is driven by
three interchangeable backends (a thread per connection, a bounded thread pool, a
kqueue event loop that may be sharded), with a resolver and a response cache
beside it. This directory models those parts in TLA+, checks them with TLC on
small instances, and proves the main safety properties with TLAPS for all values of
the constants. Paths below are relative to the repository.

## The system

| part | source | state | operations | what is hard about it |
|---|---|---|---|---|
| connection | `src/connection.*` | state, want, epoch, descriptors, buffers with offsets, candidate list, cache accumulator | `on_ready` and the handlers behind it | short reads and writes, failures in the middle, what may still be answered |
| bounded queue | `src/conn_queue.*` | queue, closed flag, two condition variables | `push_for`, `pop`, `close` | notification after unlock, deadline, closed but not drained |
| thread pool | `src/backend/thread_pool.cpp` | stop flag, acceptor, workers | `run`, `accept_loop`, `worker_loop`, `stop` | back-pressure, stop while blocked |
| thread per connection | `src/backend/thread_per_conn.cpp` | stop flag, live counter | `run`, `serve`, `stop` | threads that nobody can join |
| event loop | `src/backend/event_loop.cpp` | kqueue registrations, live table, drain clock | `run`, `do_accept`, `service`, `drain` | descriptor numbers and addresses that are used again, stale events |
| sharded event loop | `src/backend/event_loop.cpp` | inboxes, wake-up pipes, cursor | `accept_loop`, `push`, `take_from_inbox` | wake-ups across threads, stopping |
| resolver | `src/resolver.*` | job queue, cache with TTL, jobs | `start`, `resolve_blocking`, `worker_loop`, `shutdown` | publication without a lock, abandoned jobs, shutdown races |
| response cache | `src/cache.*` | recency list, index, byte count | `get`, `put` | three structures in step |
| configuration, start-up | `src/main.cpp`, `src/config.*` | configuration, limits, lifetimes | flags, file, merge, then everything up to `run()` and after it | which source wins, what each thread reaches |
| HTTP parsing | `src/http.*` | none | `parse_request`, `build_upstream_request`, ... | a header that arrives in pieces, numbers and delimiters at their edges |
| sockets | `src/socket.*` | the descriptor table | `Fd`, `make_pipe`, `accept_one`, `start_connect`, `fd_limit_raise`, ... | who owns a number, and what happens when there is none |
| logging | `src/log.hpp` | level | `EVP_LOG_*` | nothing here |

`main()` builds the configuration, the resolver and a backend and calls the
backend's `run(listener)`. The backend accepts, makes a `Connection` per client,
waits until the descriptor the connection *wants* is ready, and calls `on_ready`,
until `done`. A connection asks the resolver for addresses, either blocking or by a
`ResolveJob` with a pipe to wait on, and the cache for a stored response. A signal
handler calls `stop()`; `run()` then drains and returns, and `main()` destroys the
backend and the resolver.

## Modules

| module | models | state and actions, and the code they stand for |
|---|---|---|
| `ConnMoves` | `Connection`'s interface to a backend | the table of moves from one want to the next, with what happens to the upstream socket |
| `Connection` | `connection.cpp` | one variable per field; one action per handler and outcome (`DoReadClient`, `FinishResolve`, `FinishConnect`, `DoWriteUpstream`, `DoReadUpstream`, `ReadUpstreamEof`, `DoWriteClient`, and the failures), `Publish` for the resolver, `Abandon` for a backend that gives up |
| `Intake` | the outcome of `do_read_client` | abstract: what becomes of a request once so many bytes of it have come, however they came |
| `Lookups` | `ResolveJob`, `ResolveStatus` | abstract: per connection the job it waits for (none, pending, answered) and whether its latest lookup gave it addresses; asking, answering, taking the answer, going away |
| `Backend` | `backend.hpp` | abstract: every connection is new, live or closed; none is accepted or left live once `run()` has returned, and it returns only after a stop or a failure |
| `ConnQueue` | `conn_queue.cpp` | the queue, `closed_`, the two waiting sets, and what one critical section does |
| `ThreadPool` | `thread_pool.cpp` | acceptor and workers with a program counter each; every lock, unlock, notify and wait of the queue is a step of its own |
| `EventLoop` | `EventLoop` | `kq` the kernel's registrations, `slot` the `live_` table, `batch` the events still to be handled, `held` resolver pipes held by another thread; `Poll`, accepting, `service` in two steps (`on_ready`, then registration), `drain` |
| `Sharded` | `ShardedEventLoop`, `Inbox` | acceptor and shards; making the loops one by one, `push` in two steps (queue, byte), `take_from_inbox` in two (bytes, queue); `stop()` in a signal handler, which reads `loops_` as it finds it and tells the loops one by one; faults: a pipe that cannot be made, a shard without a kqueue, a shard whose `kevent` fails, a full pipe |
| `Resolver` | `resolver.cpp` | threads, callers, the thread that shuts down; publication in single steps (fields, cache, `ready`, byte) |
| `LruCache` | `cache.hpp` | `order_`, `index_`, `bytes_`, the mutex policy; inserting takes a step per statement, so that it is the lock that keeps them in step |
| `ThreadPerConn` | `thread_per_conn.cpp`, end of `main()` | the counter, the bounded wait, the destruction of the resolver |
| `Descriptors` | `Fd`, and what `thread_per_conn`, its Connections and the resolver's jobs do with it | `open` the kernel's table, `fd` the number in each `Fd` object, `refs` who shares a job; a step per system call; extends `ThreadPerConn` and implements it |
| `Startup` | `main.cpp` up to the merge, `config.cpp` | arguments, lines and the merge, per field |
| `Main` | the rest of `main()`, `factory.cpp`, `make_cache`, `fd_limit_raise`, `listen_on` | limits in an `rlim_t`, the addresses tried, the resolver's threads, the caches with the threads that reach them; extends `Startup` |
| `Http` | `http.cpp`, `cache_key`, `do_read_client` | the functions as operators; `Read` appends any part of the stream and parses the buffer again |
| `*Proofs` | | theorems about the module they extend; `MainProofs` has those about `Startup`, `Main` and `Resolver` |
| `MC*` | | the instances for TLC |

Composition. `ThreadPool` is built on `ConnQueue` by extension. `EventLoop` does not
contain `Connection`: it lets a connection make any of the moves in `ConnMoves`, and
`Connection` is proved to make no others (`BackendCanRely`), so that what is
checked of the loop holds of it together with the real state machine. `ThreadPool`,
`EventLoop` and `Sharded` each implement `Backend` under a refinement mapping
(`ImplementsBackend`), `Sharded` with all its faults: a connection in the inbox
of a shard that has ended never becomes a `Connection` and counts as closed.
`Descriptors` implements `ThreadPerConn` (`CountsAsSpecified`), so what is proved of the
counter holds with the descriptors beside it. `Main` goes on where `Startup` ends.
`Sharded` uses shards abstractly, as threads that hold connections until they finish,
`drain` included. `Connection` takes the parser's verdict as an input and counts bytes,
`Http` parses them and stops where the request is sent on. Both implement `Intake`
(`ImplementsInterfaces`, `ReadsMatterPastLimitOnly`), so that a request of `Connection` with a header, a
length and a verdict stands for the streams of `Http` that have them. In the same way
`Connection` and `Resolver` both implement `Lookups` (`ImplementsInterfaces`,
`AnswersAreKept`): the step `Publish` of `Connection` stands for all that a resolver thread
does up to the byte in the pipe, and the callers of `Resolver` for connections. No job is
answered twice or before it was asked for, its outcome does not change between the byte and
`finish_resolve`, and a successful one brings addresses.

Data. Bytes are units with an origin and a position, so that loss, repetition
and order can be seen. A request is the length of its header and body, the
parser's verdict and whether it may be shared; a response is whether it is a 200 and
how it spells the header that sets a cookie, if it has one. In `Http` the stream is a sequence of lines, line ends and body bytes, and a
URL a sequence of characters of which the delimiters and digits are told apart. A cached response in `LruCache` is its size. A DNS answer is the
version of the record the lookup saw. Time is a count of rounds where the code
counts rounds (`waited`), and an action that may happen at any moment where it is a
deadline. A would-block result changes nothing and is a stuttering step.

## What is checked

Twelve runs; nine pass, three show that the code does not do what its text says.
Every passing property has a mutant, a plausible bug in a named definition that
makes TLC report a violation of that property (`PROJECT.json`).

| run | instance | shows |
|---|---|---|
| `pool` | 3 workers, capacity 2, 5 connections (72 980 states) | `ExactlyOnceInOrder`, `BackPressure` (one connection beyond the queue and the workers, no more), `NoLostWakeup`, `ImplementsBackend`; `StopEndsRun`, `EveryConnLeaves` |
| `connection` | limits 2 (header), 2 (body), reads of at most 3, largest cache entry 4, responses up to 6, 2 addresses, 7 kinds of request, 8 of response (four spellings of a cookie's header, none among them; 137 792 states) | `BytesInOrder` (the client gets a prefix of one reply, the origin one of the whole request), `DoneMeansAnswered`, `CachedIsWhole` (complete, and without the two spellings of Set-Cookie that are looked for), `MemoryBounded` (relay buffer and input), `BackendCanRely` (open descriptors, something to write, the moves of `ConnMoves`), `ImplementsInterfaces` (`Intake` and `Lookups`), `AllCandidatesTried`; `ExchangeEnds` |
| `loop` | 2 addresses, 3 descriptors, 2 connections, epochs up to 3, failing `kevent` calls (50 280 states) | `OneRegistration`, `EventsAreFresh`, `ImplementsBackend`; `ConnectionsEnd`, `StopEndsRun` |
| `shards` | 2 shards, both may fail, pipes of 1 byte, 4 connections (59 421 states) | `NoLostHandOff`, `OneShardEach` (in one place, and round robin), `ImplementsBackend`; `HandOffsAreTaken`, `StopEndsRun` |
| `resolver` | 2 threads, 2 callers, 1 name, 2 jobs, 2 versions, TTL 1, both modes (198 826 states) | `AnswersAreKept` (`Lookups`, and publication before the signal, which also rules out two threads on one job), `NoOrphanJob`; `JobsAreAnswered`, `ShutdownEnds`, `OldAnswersExpire` |
| `cache` | 2 threads, 3 keys, sizes 1 to 3, 2 entries, 4 bytes, 5 operations, symmetry (1 453 states) | `InStep` (list, index, byte count, entry bound), `MostRecentKept` |
| `thread_per_conn` | 2 connections, 5 descriptors, 2 addresses, a grace of 2 rounds (43 748 states) | `CounterIsABarrier`, `EveryDescriptorOwned`; `RecoversFromLimit` |
| `startup` | 3 flags, lines for 5 fields, at most 3 items, 16 values of `rlim_t`, hard limits 2, 6 and infinite (1 429 485 states) | `EachFromItsSource`, `LimitRaised`, `OneUserWithoutLock` |
| `http` | every URL of up to 5 characters, a host in brackets with every end of up to 3; 5 request lines with every list of up to 2 of 10 headers and bodies of 0, 1 and 3 bytes; limits 5 (header) and 4 (body), `size_t` of 16 values (91 503 states) | `ReadsMatterPastLimitOnly` (`Intake`, and one verdict wherever the reads cut the stream, but for headers over the limit), `OriginGetsRequest` (headers, Host and body; also which Hosts cannot be read back), `KeyDeterminesTarget` |
| `cache_bytes` | as `cache` | `BytesBounded` is violated |
| `shards_drain` | 2 shards without faults, 3 connections | `InFlightDrained` is violated |
| `startup_flags` | as `startup` | `CommandLineWins` is violated |

The type invariants, `DrainedAtReturn` of `ThreadPool` and the wake-ups of the resolver
(`WorkIsNoticed`, `AllAreWoken`) have no run: they are proved.

### Why these bounds

- Three workers and five connections let a worker sleep while one is being woken and
  one is busy, with the queue full and one more connection in the acceptor's hand.
- A read of 3 units passes a header limit of 2 in one step, ends inside or after the
  request, and can take in what follows it. The response passes the largest cache
  entry, exactly and by a chunk. Two addresses give a first failure and a last.
- Two addresses for the connections to come and go at force the allocator to use one
  again while a batch still has events; three descriptors for up to four wanted at once
  make the kernel use numbers again and run out of them. Epoch 3 covers two changes of
  what a connection waits for after the first. `MaxEpoch` only bounds how many moves
  a connection makes before it may only end. The proofs have no such bounds.
- `loop` fixes the address and descriptor of the first connection (`FirstAccept`), `resolver`
  the caller of the first job (`FirstStart`), as action constraints. Before that step
  every state is the same under any renaming of addresses and descriptors, or of callers, and
  the step happens at most once. One renaming of a whole behavior therefore turns it into one
  that the constraint allows; specification, fairness and properties treat all of them alike,
  so the renamed behavior is as fair and violates the same properties. Nothing is lost,
  which could not be said of TLC's symmetry reduction together with liveness. Without the
  constraints the runs have 225 333 and 281 095 states and pass as well.
- Each of the two shards gets two connections, enough for a wake-up to be in any state
  when the next arrives; a pipe of one byte is full after the first, so that the
  acceptor blocks. Either shard may fail, or both, at any of the three places.
- Five descriptors are the listener's and four for two connections, each of which wants
  up to four (its own, a socket, two ends of a pipe): every one of them can be the one that
  is not to be had.
- Two lookups of one name overlap, succeed each other, hit the cache, and race the
  shutdown; a record that changes once has an old and a new answer.
- A cache of two entries and four bytes, with responses of one to three bytes, meets
  either limit first, and one insertion evicts none, one or two entries.
- Three items in any order set a field twice, or two fields that matter together
  (`backend` and `event_loops`), from either source. With 16 values of `rlim_t`, -1 becomes 15
  and 7 stands for infinity.
- Five characters after the scheme make a host, two colons, a port and a path, and every
  way to leave some of them out; with a host in brackets six do. Two headers are enough for a
  repeated one; content lengths lie below the body limit, above it, at the top of
  `size_t`, and beyond it. The header limit lies between the lengths of the requests.

### Fairness

- `ThreadPool`: threads that can run do (weak fairness), a worker gets done with its
  connection, since each wait in the blocking driver is limited by `poll_timeout_ms`, and
  the deadline of `wait_for` is absolute, so it passes however often spurious wake-ups
  interrupt the wait (strong fairness). Nothing is asked of clients, signals
  or spurious wake-ups.
- `Connection`: `ExchangeEnds` assumes that peers keep answering. No failure is assumed
  to happen, and none is excluded.
- `EventLoop`: only that the loop's thread runs. What a property needs beyond that is
  its hypothesis: `ConnectionsEnd` that registered descriptors get ready again
  and again (`PeersAnswer`), `StopEndsRun` that rounds without an event recur
  (`QuietRounds`). The loop has no idle timeout, so neither holds without.
- `Sharded`: threads run, a readable pipe is reported in spite of other events, a signal
  handler that has begun ends. No fault is assumed to happen and none is excluded.
  `StopEndsRun` has one exception, `Stuck`: the acceptor blocked on the full pipe of a
  shard that has ended, where nobody will read and only a second signal helps.
- `Descriptors`: threads run and lookups are answered and let go of, which takes a
  resolver with at least one thread; every wait of the blocking driver is limited, and no
  peer goes on relaying for ever. Nothing is asked of `accept`.
- `Resolver`: time passes, threads run, `getaddrinfo` returns.

## What is proved

The theorems hold for every number of threads, workers, shards, connections, addresses,
descriptors, keys and lookups, every limit, chunk size and capacity, every set of requests,
responses, flags and lines, and any number of faults, under the named `ASSUME`s of the
modules (numbers are naturals; at least one worker, one resolver thread, one shard, one
candidate address and one descriptor; a read asks for at least one byte; "none" or "free" is not the name of a thing;
a stream begins with a request line, a line that is none or an empty one, and together with
the largest body it has a size that a `size_t` can hold).

**ThreadPoolProofs.** `TypeCorrect`, `HandOff`, `WakeUps`, `Bounded`, `Drained`, and
`PoolIsBackend`: the pool implements `Backend`. The invariant `IInv` joins the type, where
the threads can be and what that says of the data (`ControlInv`), the capacity,
`ExactlyOnceInOrder` and `NoLostWakeup`. None is inductive alone: that `close` loses
nobody needs that a worker leaves only when the queue is closed and empty; the
hand-off needs that the connection in the acceptor's hand is the latest.

**ConnectionProofs.** `TypeCorrect`, `BytesForwarded`, `MemoryLimited`, `Answered`,
`CacheWhole`, `BackendRelies` (from `DescriptorOpen`, `BytesToWrite` and `MovesOnly`),
`CandidatesTried`, and `InterfacesAreImplemented` with its part `IntakeIsImplemented`. The invariant has three parts. `Front` says which
descriptors are open in which state, and that what the client has, followed by
the rest of the buffer, is what was read from the origin, or the proxy's own reply.
`Back` says the same of the request: sent, followed by the rest of the buffer,
is the whole rebuilt request. `Store` says that the accumulator is exactly what was
read while it fits. Each action keeps each part; the properties follow from it.
`MemoryLimited` adds `Reading`: while the request is being read, what has been
received is within the header's limit, or short of the end of the request.
`IntakeIsImplemented` adds `HeaderRead`: a header that is parsed while the request is being
read is all there and was accepted. After the reads no step changes whether the request was
sent on (`SentOnStays`), nor the status of the reply when it was not (`ReplyStays`). For
`Lookups` `Front` is enough: there is a job exactly while the resolver is waited for, and no
address before (`AskingStep`).

**EventLoopProofs.** `TypeCorrect`, `Registration`, `Freshness` and `LoopIsBackend`. Neither
`OneRegistration` nor `EventsAreFresh` is inductive, because both speak of moments at which nothing is half done. `Inv` adds: a
free slot has no descriptors (`DeadIsEmpty`); descriptors of two connections are apart, and
none is also held by the resolver except a pipe (`FdsApart`); every registration is on a
descriptor in use, for the connection that uses it (`RegsInUse`), so a number that the
kernel hands out again has none; between `on_ready` and the new registration the
connection served has at most the one that was captured before (`CurAtMostRecorded`); and
a batch names each live connection at most once, as it was when the batch was fetched
(`BatchIsFresh`). The refinement adds `Numbered`: the connections in the slots have
distinct numbers.

**ShardedProofs.** `TypeCorrect`, `NoWakeUpLost`, `EachToItsShard` and
`ShardsAreBackend`, with all the faults. `IInv` is the type, `NoLostHandOff`, `InOnePlace`, and that the
acceptor's hand is full exactly between accept and push, with the latest connection.
For the distribution `TurnInv` says that the cursor is the number of hand-overs
modulo the number of shards, stated as a multiple plus a rest, which the solver can
handle when the modulus is not a numeral. For the refinement
`DeadStays` says that no step brings back a connection that is over, and `Ended` that a
loop that has ended has none and that `run()` goes on to the shutdown only after a stop.

**MainProofs**, on the resolver: `TypeCorrect`, `PublishFirst`, `NoneOrphaned`, `WakeUps`
and `LookupsAreAnswered`. The invariant says where a job is: in
the queue once and untouched (`InQueue`), in the hands of one thread with the fields set
that this thread has got to (`InHand`), unseen before it is queued and on its way or
answered afterwards (`Waited`), fresh when not yet started (`NotYet`); and a thread leaves
only after `shutdown` began and with nothing queued (`Ends`). For the refinement these say
that a thread writes into a job only before its byte, that a byte goes to the one connection
that has the job (`WriteByteAsLookups`), and that a job has no byte when it is queued.
`WakeUps` is the safety that `JobsAreAnswered` and `ShutdownEnds` rest on: while a job is
queued a thread is awake or a `start` has yet to notify (`WorkIsNoticed`), and when
`shutdown` joins nobody sleeps (`AllAreWoken`). It adds that only a thread that has no job
sleeps (`Sleepers`), so whoever is notified goes on to look at the queue.

**ThreadPerConnProofs.** `TypeCorrect`. `Barrier`: `run()` returns within the grace only when
no `Connection` is left. The invariant: `live_` is the number of threads that have not
counted themselves out, and every `Connection` belongs to one of those. `Ownership`:
`EveryDescriptorOwned` for any table, from `FdInv`: what is open is what is held, no number
twice (`HeldOnce`); an `Fd` that holds one has an owner that exists (`Owners`); a job has
no holder before its pipe is complete (`NoJobYet`); only a served connection has a state
(`ServedOnly`). `CountsAsSpecified`: every step of `Descriptors` is a step of
`ThreadPerConn` or leaves its variables alone.

**LruCacheProofs.** `Recency` and `StaysInStep`. Lists are treated first, by themselves:
what splicing, pushing and popping do to a list that is sorted by last use (`SpliceKeeps`,
`PushKeeps`, `PopKeeps`). The invariant then has the lock (`LockInv`), the one entry by which
list and index may differ while somebody is inside (`IndexInv`), and that the list is sorted,
up to date and more recent than what is gone, at every step (`ListInv`). `StaysInStep` adds
what `bytes_` is at each statement of a call; that a splice, a push or a pop changes the
sum over the list by what it should is proved by induction over the list.

**HttpProofs.** `VerdictOfReads`, `OriginSeesRequest` and `KeysAreFaithful`, for streams, URLs
and header lists of any length. First come the operators: `find` and `rfind` return the first
and the last place, and what `Without` returns is exactly the elements not skipped, in order.
`ParseShape` and `PrefixParses` then say what one call of `parse_request` returns, and that
a prefix of the stream is incomplete or parses as the whole stream does. The invariant
`HttpInv` has two parts that make the properties inductive: `req_` is untouched until the header is
complete and the whole stream's request afterwards (`ReqIsWhole`), and `header_bytes +
content_length` does not wrap for a length within the limit (`NoWrap`). `VerdictOfReads` is a
refinement: the header is there when `Intake` says so (`HeaderThere`), and each read makes of the
stream what `Intake` says (`ReadAsIntake`); from what `Intake` says of any number of bytes
(`OutcomeIs`) follows that there is one verdict but for headers over the limit
(`StepKeepsVerdict`). That a `Host` names the target exactly where it is `Legible` is proved in
both directions (`HostNamesTarget`, `HostNamesAnother`). For the keys, port and
path are read off the end of the key (`KeyEnd`), method and host off its beginning
(`KeyBeginning`).

**MainProofs**, on start-up: `Sources`, `UnlockedHasOneUser` and `LimitKept`. `EachFromItsSource`
speaks of the time after the merge; the invariant says what `cfg`, `from_file` and the
set of remembered flags are before it. The limit's proof is arithmetic on `rlim_t` for
any width.

Induction over a list is done on sets: the lengths for which a claim fails would have a
least member (`LeastMember`), since the library's induction rules have an operator as a
parameter, which the provers cannot instantiate. The recursive parts of these models are
recursive functions for that reason.

Leaves that need no arithmetic name Zenon, which is much the faster of the two on them;
the time limits given elsewhere (`SMTT`, `ZenonT`) leave room on a slower machine. All the
proofs take about half an hour from nothing.

Only model-checked: the liveness properties, `EveryConnLeaves`, `StopEndsRun`, `ExchangeEnds`,
`ConnectionsEnd`, `HandOffsAreTaken`, `JobsAreAnswered`, `ShutdownEnds`, `OldAnswersExpire`
and `RecoversFromLimit`, because the prover has no rules for fairness and `ENABLED`. Every
invariant, action property and refinement that a passing run checks is also proved. One operator is
recursive, `Lay` in `MCHttp`, which only builds the messages of the instance.

## Where the text and the code differ

Shown by a run:

- `cache_bytes`: `put` of a key that is present returns before the eviction loop
  (`src/cache.hpp:66`), so a larger response for it leaves the cache over its
  byte bound.
- `shards_drain`: a shard that stops disarms its inbox and never looks at it again
  (`src/backend/event_loop.cpp:127`); connections in it are closed unserved.
- `startup_flags`: `-L`, `-C`, `-R` and `-D` are lost when a file is given
  (`src/main.cpp:92`).

Visible in the models, where the property checked is the weaker one that holds:

- The pool drops the connection in its acceptor's hand at a stop (`DrainedAtReturn` allows
  for it; `docs/phase2.md:104` calls an accepted connection a promise), and holds capacity
  + workers + 1 connections (`BackPressure`; `tests/phase2.sh:125` counts one less).
- A header over `max_header_bytes` gets 400 only if a read ends past the limit and inside the
  header; if none does, it is accepted (`Intake`, and with it `ImplementsInterfaces` and
  `ReadsMatterPastLimitOnly`, demand this of the code as it is, and `MemoryBounded` allows for it;
  `src/config.hpp:22` says such a request gets 400). With the defaults, reads of 32 KiB and a
  limit of 16 KiB, one read can bring such a header whole.
- `store_in_cache` looks for `Set-Cookie` and `set-cookie` (`src/connection.cpp:148`). A
  response that spells it in another mix of cases is stored (`CachedIsWhole` speaks of the two
  spellings only, and the instance has a third, which is stored; `docs/phase5.md:61` says that
  responses carrying `Set-Cookie` are never cached).
- The loop's drain ends after five quiet seconds with connections in flight
  (`docs/phase3.md:108` says it serves each until `Done`).
- `run()` of the thread-per-connection backend returns after 30 seconds with connections
  left, although `thread_per_conn.cpp:56` says it must not (`CounterIsABarrier` speaks of
  the time before). `src/main.cpp:121` relies on it: "no Connection can still be holding a
  ResolveJob when the resolver threads are joined".
- `make_pipe` leaves the write end blocking (`src/socket.cpp:25`), `src/socket.hpp:56` says
  "both ends": `Sharded`'s acceptor waits for room in the pipe, which is how it can get
  `Stuck`.
- `src/config.hpp:32` and `src/main.cpp:111` give each shard a listener of its own by
  SO_REUSEPORT; there is one listener, and one acceptor that deals connections out
  (`RoundRobin`). The cache that `main()` makes is used by nobody when there are shards
  (`Caches`).

Of two more things no text says what should happen, and `OriginGetsRequest` says what does:

- The host of a URL loses its brackets when it is an IPv6 literal (`src/http.cpp:142`). The
  `Host` header then names the URL's host and port if and only if a port other than 80 follows
  (`Legible`); without one, its last colon is taken for the port's.
- Of several `Content-Length` headers `header_value` reads the first, which decides how long
  the body is; all of them go on to the origin.

## What is not modelled

- Number formats (`atoi`, `strtoul` beyond saturation), letter case and blanks in request headers:
  a value is a name with a meaning, a header has its name in lower case beside it.
- Real time: `wait_ready` starts its time-out again after a signal (`src/socket.cpp:206`),
  the length of the grace periods, the TTL in seconds. Rounds are counted instead.
- A level-triggered loop that is out of descriptors and is told of the same pending
  client again and again (`src/backend/event_loop.cpp:181`): in the model the refusal
  is a step that ends the burst, and what spins is a stuttering step.
- Arrivals without a pause (`src/backend/event_loop.cpp:178`): `do_accept` and the sharded
  accept loop do not look at the stop flag inside a burst, and in the models a burst ends,
  because a finite instance has finitely many clients.
- `loops_` as a vector that is moved while a signal handler walks it
  (`src/backend/event_loop.cpp:313`): the handler reads some prefix of it.
- `resolver_threads = 0` with asynchronous lookups (`src/main.cpp:123`), `io_chunk_bytes = 0`.
- `std::thread` failing to start and running out of memory: both end the process.
- Logging, `open_fd_count`, the hit and miss counters, and the programs under `tests/` and
  `bench/`.
- A single composition of `Connection`, `Resolver`, `LruCache` and a backend: the product is
  beyond TLC. The parts meet at interfaces that are themselves checked: `ConnMoves`,
  `Intake`, `Lookups`, `Backend`, and the outcomes of cache calls, all of which each part allows.
