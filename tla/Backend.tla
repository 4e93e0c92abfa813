------------------------------ MODULE Backend ------------------------------
(***************************************************************************)
(* What every backend promises main() (backend/backend.hpp, main.cpp):     *)
(* run() accepts and serves connections until stop() is observed, or gives *)
(* up before the first one, and when it returns no connection is alive any *)
(* more.  main() destroys the Resolver and the response cache after that,  *)
(* and every live connection holds references to both.                     *)
(*                                                                         *)
(* The thread pool, the event loop and the sharded event loop are shown to *)
(* implement this.                                                         *)
(***************************************************************************)
EXTENDS Naturals

CONSTANT MaxConns   \* bound: how many connections arrive

VARIABLES
  stop,      \* stop() was called, or the backend failed
  life,      \* life[c]: is the c-th accepted connection "new", "live" or "closed"
  returned   \* run() has returned

vars == <<stop, life, returned>>

Conns == 1..MaxConns

Init ==
  /\ stop = FALSE
  /\ life = [c \in Conns |-> "new"]
  /\ returned = FALSE

Stop ==
  /\ stop' = TRUE
  /\ UNCHANGED <<life, returned>>

\* Connections are numbered in the order in which they are accepted.  One that
\* cannot be taken on is closed at once.
Accept ==
  /\ ~returned
  /\ \E c \in Conns :
       /\ life[c] = "new"
       /\ \A d \in 1..(c - 1) : life[d] # "new"
       /\ \E l \in {"live", "closed"} : life' = [life EXCEPT ![c] = l]
  /\ UNCHANGED <<stop, returned>>

\* One ends, or all those of a loop at once.
CloseConns ==
  /\ \E gone \in SUBSET {c \in Conns : life[c] = "live"} :
       life' = [c \in Conns |-> IF c \in gone THEN "closed" ELSE life[c]]
  /\ UNCHANGED <<stop, returned>>

Return ==
  /\ stop \/ \A c \in Conns : life[c] = "new"
  /\ \A c \in Conns : life[c] # "live"
  /\ returned' = TRUE
  /\ UNCHANGED <<stop, life>>

Next == Stop \/ Accept \/ CloseConns \/ Return

Spec == Init /\ [][Next]_vars
=============================================================================
