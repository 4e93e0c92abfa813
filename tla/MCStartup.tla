----------------------------- MODULE MCStartup ------------------------------
(* Instances of Startup and Main for TLC. *)
EXTENDS Main

\* The fields that main() itself looks at: their defaults (config.hpp), and two values
\* that a user may give each.
MCMeaning == [
  backend          |-> [default |-> "thread_per_conn", v |-> "event_loop", w |-> "thread_pool"],
  event_loops      |-> [default |-> 1, v |-> 0, w |-> 2],
  thread_pool_size |-> [default |-> 3, v |-> 1, w |-> 2],
  cache_enabled    |-> [default |-> TRUE, v |-> FALSE, w |-> TRUE],
  async_resolve    |-> [default |-> TRUE, v |-> FALSE, w |-> TRUE],
  resolver_threads |-> [default |-> 4, v |-> 0, w |-> 1],
  desired_fd_limit |-> [default |-> 3, v |-> -1, w |-> 5]]
=============================================================================
