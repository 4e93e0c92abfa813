--------------------------- MODULE ThreadPerConn ----------------------------
(***************************************************************************)
(* One detached thread per connection (backend/thread_per_conn.cpp), and   *)
(* what main() does after run() returns.  The threads cannot be joined: a  *)
(* counter that each thread decrements last is the only barrier before     *)
(* main() destroys the Resolver that the connections refer to.             *)
(*                                                                         *)
(* What a connection does between two waits is Connection's business: here *)
(* it is served until it is done or has idled for poll_timeout_ms.         *)
(***************************************************************************)
EXTENDS Integers, FiniteSets

CONSTANTS
  GraceRounds,   \* grace_ms / 20
  MaxConns       \* bound: how many connections arrive

ASSUME GraceAssumption == GraceRounds \in Nat \ {0} /\ MaxConns \in Nat

VARIABLES
  stop,       \* stop_
  live,       \* live_
  pc,         \* where run() is, then where main() is
  waited,     \* rounds of the drain loop
  accepted,   \* next_id
  tpc         \* tpc[c]: where the thread of connection c is

vars == <<stop, live, pc, waited, accepted, tpc>>

Conns == 1..MaxConns

Init ==
  /\ stop = FALSE /\ live = 0
  /\ pc = "check" /\ waited = 0 /\ accepted = 0
  /\ tpc = [c \in Conns |-> "none"]

\* The signal handler.
Stop ==
  /\ ~stop
  /\ stop' = TRUE
  /\ UNCHANGED <<live, pc, waited, accepted, tpc>>

-----------------------------------------------------------------------------
(* run() *)

\* The head of the accept loop; the flag is read again after every wait.
CheckStop ==
  /\ pc = "check"
  /\ pc' = IF stop THEN "drain" ELSE "accept"
  /\ UNCHANGED <<stop, live, waited, accepted, tpc>>

\* The listener was not ready in time, or accept_one returned no connection.
AcceptNothing ==
  /\ pc = "accept"
  /\ pc' = "check"
  /\ UNCHANGED <<stop, live, waited, accepted, tpc>>

\* Count the connection, then start its thread.
Accept ==
  /\ pc = "accept" /\ accepted < MaxConns
  /\ live' = live + 1
  /\ accepted' = accepted + 1
  /\ tpc' = [tpc EXCEPT ![accepted + 1] = "serving"]
  /\ pc' = "check"
  /\ UNCHANGED <<stop, waited>>

Sleep ==
  /\ pc = "drain" /\ live > 0 /\ waited < GraceRounds
  /\ waited' = waited + 1
  /\ UNCHANGED <<stop, live, pc, accepted, tpc>>

\* No connection is left, or the grace is over.
Return ==
  /\ pc = "drain"
  /\ live <= 0 \/ waited >= GraceRounds
  /\ pc' = "returned"
  /\ UNCHANGED <<stop, live, waited, accepted, tpc>>

\* main(): shut the resolver down, destroy it and the cache.
Destroy ==
  /\ pc = "returned"
  /\ pc' = "destroyed"
  /\ UNCHANGED <<stop, live, waited, accepted, tpc>>

-----------------------------------------------------------------------------
(* serve(), in the thread of connection c *)

\* The counter drops while the Connection is still alive.
ServeEndsCounted(c) ==
  /\ tpc[c] \in {"serving", "counted"}
  /\ IF tpc[c] = "serving"
     THEN tpc' = [tpc EXCEPT ![c] = "counted"] /\ live' = live - 1
     ELSE tpc' = [tpc EXCEPT ![c] = "gone"] /\ UNCHANGED live
  /\ UNCHANGED <<stop, pc, waited, accepted>>

\* The connection is done, has no descriptor to wait on, or was idle too long: it
\* is destroyed at the end of its scope ...
ServeEnds(c) ==
  /\ tpc[c] = "serving"
  /\ tpc' = [tpc EXCEPT ![c] = "unwound"]
  /\ UNCHANGED <<stop, live, pc, waited, accepted>>

\* ... and only then does the thread count itself out.
CountOut(c) ==
  /\ tpc[c] = "unwound"
  /\ live' = live - 1
  /\ tpc' = [tpc EXCEPT ![c] = "gone"]
  /\ UNCHANGED <<stop, pc, waited, accepted>>

\* main() has returned, and the process with it.
Exited == pc = "destroyed" /\ UNCHANGED vars

RunStep == CheckStop \/ AcceptNothing \/ Accept \/ Sleep \/ Return \/ Destroy

Next ==
  \/ Stop \/ RunStep \/ Exited
  \/ \E c \in Conns : ServeEnds(c) \/ CountOut(c)

Spec == Init /\ [][Next]_vars

-----------------------------------------------------------------------------
(* Properties *)

\* The fields keep their types; live_ is never negative.
TypeOK ==
  /\ stop \in BOOLEAN /\ live \in 0..MaxConns
  /\ pc \in {"check", "accept", "drain", "returned", "destroyed"}
  /\ waited \in 0..GraceRounds /\ accepted \in 0..MaxConns
  /\ tpc \in [Conns -> {"none", "serving", "unwound", "gone"}]

\* Connections whose Connection object exists, and refers to the Resolver.
Alive == {c \in Conns : tpc[c] \notin {"none", "unwound", "gone"}}

\* The counter is a barrier: run() returns before the grace is over only when no
\* Connection exists any more, so that main() may destroy what they refer to.
CounterIsABarrier ==
  (pc \in {"returned", "destroyed"} /\ waited < GraceRounds) => Alive = {}
=============================================================================
