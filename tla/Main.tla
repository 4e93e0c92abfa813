-------------------------------- MODULE Main --------------------------------
(***************************************************************************)
(* The rest of main() (main.cpp), from the configuration that Startup put  *)
(* together to the exit: the descriptor limit, the listening socket, the   *)
(* resolver's threads, the caches and the threads that reach them, the     *)
(* signal handlers, run() and the shutdown.  What run() does is the        *)
(* backends' business: it returns after a stop, or because it failed.      *)
(***************************************************************************)
EXTENDS Startup, FiniteSets

CONSTANTS
  Meaning,    \* Meaning[f][v]: the value that field f has when it is given as v
  RlimValues, \* how many values an rlim_t has: 2^64
  HardLimits, \* hard limits that a process may be started with
  OpenMax,    \* the most that setrlimit accepts, whatever the hard limit says
  MaxAddrs,   \* bound: addresses that getaddrinfo returns for the listen host
  MaxThreads  \* bound: connections, and so threads, that thread_per_conn has at a time

ASSUME MainAssumption ==
  /\ RlimValues \in Nat \ {0} /\ MaxAddrs \in Nat /\ MaxThreads \in Nat
  /\ OpenMax \in 0..(RlimValues \div 2 - 1) /\ HardLimits \subseteq 1..(RlimValues \div 2 - 1)
  /\ \A v \in Values \cup {"default"} : Meaning["desired_fd_limit"][v] \in Int

VARIABLES
  given,      \* the soft limit that the process was started with
  soft, hard, \* RLIMIT_NOFILE
  tried,      \* addresses that listen_on has tried
  listener,   \* "none", "bound", or "shared" when bound with SO_REUSEPORT
  workers,    \* threads of the Resolver
  caches,     \* the response caches, each with its lock policy and the threads that reach it
  stopped     \* stop() was called

mainVars == <<given, soft, hard, tried, listener, workers, caches, stopped>>
allVars == <<startupVars, mainVars>>

\* The value of a field of cfg.
Cfg(f) == Meaning[f][IF f \in Fields THEN cfg[f] ELSE "default"]

MainInit ==
  /\ StartupInit
  /\ hard \in HardLimits /\ soft \in 1..hard /\ given = soft
  /\ tried = 0 /\ listener = "none" /\ workers = 0 /\ caches = {} /\ stopped = FALSE

-----------------------------------------------------------------------------
(* fd_limit_raise *)

\* On macOS, half of them.
RlimInfinity == RlimValues \div 2 - 1

\* The conversion of a long to rlim_t: a negative number becomes a huge one.
Want == Cfg("desired_fd_limit") % RlimValues

Target == IF hard = RlimInfinity \/ Want < hard THEN Want ELSE hard

\* Without the look at the limit in force.
LimitSetAlways ==
  /\ pc = "start"
  /\ soft' = IF Target <= hard /\ Target <= OpenMax THEN Target ELSE soft
  /\ pc' = "listen"
  /\ UNCHANGED <<cfg, from_file, config_path, set, items, flag, line>>
  /\ UNCHANGED <<given, hard, tried, listener, workers, caches, stopped>>

\* The limit is high enough already, or is raised; setrlimit refuses what is above
\* the hard limit or the system's own maximum.
RaiseLimit ==
  /\ pc = "start"
  /\ soft' = IF soft < Want /\ Target <= hard /\ Target <= OpenMax THEN Target ELSE soft
  /\ pc' = "listen"
  /\ UNCHANGED <<cfg, from_file, config_path, set, items, flag, line>>
  /\ UNCHANGED <<given, hard, tried, listener, workers, caches, stopped>>

-----------------------------------------------------------------------------
(* listen_on *)

Sharding == Cfg("backend") = "event_loop" /\ Cfg("event_loops") > 1

\* socket(), bind() or listen() failed for this address: its Fd goes out of scope.
NextAddress ==
  /\ pc = "listen" /\ tried < MaxAddrs
  /\ tried' = tried + 1
  /\ UNCHANGED <<startupVars, given, soft, hard, listener, workers, caches, stopped>>

Bind ==
  /\ pc = "listen" /\ tried < MaxAddrs
  /\ listener' = IF Sharding THEN "shared" ELSE "bound"
  /\ pc' = "make"
  /\ UNCHANGED <<cfg, from_file, config_path, set, items, flag, line>>
  /\ UNCHANGED <<given, soft, hard, tried, workers, caches, stopped>>

\* getaddrinfo failed, or no address could be bound: main() returns 1.
ListenFails ==
  /\ pc = "listen" /\ tried \in {0, MaxAddrs}
  /\ pc' = "exit"
  /\ UNCHANGED <<cfg, from_file, config_path, set, items, flag, line, mainVars>>

-----------------------------------------------------------------------------
(* The resolver, the caches and the backend *)

\* make_cache: the lock policy follows the backend.
Cache(users) == [locked |-> Cfg("backend") # "event_loop", users |-> users]

\* main()'s cache for every shard, and for the single loop.
OneCacheForAll ==
  {Cache(CASE Cfg("backend") = "event_loop" -> 1..Cfg("event_loops")
           [] Cfg("backend") = "thread_pool" -> 1..Cfg("thread_pool_size")
           [] OTHER -> 1..MaxThreads)}

\* make_backend: main()'s cache goes to the threads of the pool, to one thread per
\* connection, or to the only loop; shards make their own and nobody uses main()'s.
Caches ==
  IF Sharding THEN {Cache({})} \cup {Cache({s}) : s \in 1..Cfg("event_loops")}
  ELSE {Cache(CASE Cfg("backend") = "event_loop" -> {1}
                [] Cfg("backend") = "thread_pool" -> 1..Cfg("thread_pool_size")
                [] OTHER -> 1..MaxThreads)}

\* Up to g_backend = backend.get().
Make ==
  /\ pc = "make"
  /\ workers' = IF Cfg("async_resolve") THEN Cfg("resolver_threads") ELSE 0
  /\ caches' = IF Cfg("cache_enabled") THEN Caches ELSE {}
  /\ pc' = "handlers"
  /\ UNCHANGED <<cfg, from_file, config_path, set, items, flag, line>>
  /\ UNCHANGED <<given, soft, hard, tried, listener, stopped>>

\* sigaction() for SIGINT and SIGTERM.
Install ==
  /\ pc = "handlers"
  /\ pc' = "run"
  /\ UNCHANGED <<cfg, from_file, config_path, set, items, flag, line, mainVars>>

\* Until then a signal ends the process; afterwards it is the handler's.
Signal ==
  /\ pc # "exit" /\ ~stopped
  /\ IF pc \in {"run", "shutdown"}
     THEN stopped' = TRUE /\ UNCHANGED pc
     ELSE pc' = "exit" /\ UNCHANGED stopped
  /\ UNCHANGED <<cfg, from_file, config_path, set, items, flag, line>>
  /\ UNCHANGED <<given, soft, hard, tried, listener, workers, caches>>

\* run() returns: it was stopped, or it could not start (only an event loop gives
\* up by itself).
RunReturns ==
  /\ pc = "run" /\ (stopped \/ Cfg("backend") = "event_loop")
  /\ pc' = "shutdown"
  /\ UNCHANGED <<cfg, from_file, config_path, set, items, flag, line, mainVars>>

\* resolver.shutdown(), and everything is destroyed.
ShutDown ==
  /\ pc = "shutdown"
  /\ workers' = 0 /\ caches' = {} /\ listener' = "none"
  /\ pc' = "exit"
  /\ UNCHANGED <<cfg, from_file, config_path, set, items, flag, line>>
  /\ UNCHANGED <<given, soft, hard, tried, stopped>>

MainNext ==
  \/ StartupNext /\ UNCHANGED mainVars
  \/ RaiseLimit \/ NextAddress \/ Bind \/ ListenFails
  \/ Make \/ Install \/ Signal \/ RunReturns \/ ShutDown

MainSpec == MainInit /\ [][MainNext]_allVars

-----------------------------------------------------------------------------
(* Properties *)

\* The descriptor limit that the proxy runs with (fd_limit_raise): never below the
\* one it was started with nor above the hard one, and what the configuration asks
\* for whenever the two of them and the system allow it, also when the number is
\* negative or the hard limit is RLIM_INFINITY.
LimitRaised ==
  pc \notin {"args", "file", "start", "exit"} =>
    /\ soft \in given..hard
    /\ Cfg("desired_fd_limit") \in 0..OpenMax =>
         soft >= Cfg("desired_fd_limit") \/ soft = hard

\* A cache without a lock is reached from one thread at most, whatever backend and
\* number of loops the flags and the file add up to: "one type parameter apart".
OneUserWithoutLock == \A c \in caches : c.locked \/ \A u, v \in c.users : u = v
=============================================================================
