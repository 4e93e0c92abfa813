------------------------------ MODULE Lookups ------------------------------
(***************************************************************************)
(* What a connection and the resolver owe each other (resolver.hpp): a     *)
(* lookup is answered at once, or by a ResolveJob that is answered once,   *)
(* whose answer then stands until the connection takes it or goes away.    *)
(*                                                                         *)
(* Resolver, which answers, and Connection, which asks, are both shown to  *)
(* implement this.                                                         *)
(***************************************************************************)
CONSTANT Callers   \* connections

VARIABLES
  job,    \* job[c]: the ResolveJob c waits for: "none", "pending", "ok" or "failed"
  found   \* found[c]: c's latest lookup gave it addresses

vars == <<job, found>>

Init == job = [c \in Callers |-> "none"] /\ found = [c \in Callers |-> FALSE]

\* A cache hit, a blocking lookup, or a start() that fails.
AtOnce(c) ==
  /\ job[c] = "none"
  /\ \E f \in BOOLEAN : found' = [found EXCEPT ![c] = f]
  /\ UNCHANGED job

Ask(c) ==
  /\ job[c] = "none"
  /\ job' = [job EXCEPT ![c] = "pending"]
  /\ UNCHANGED found

\* The result is published and the pipe is readable.
Answer(c) ==
  /\ job[c] = "pending"
  /\ \E a \in {"ok", "failed"} : job' = [job EXCEPT ![c] = a]
  /\ UNCHANGED found

Take(c) ==
  /\ job[c] \in {"ok", "failed"}
  /\ found' = [found EXCEPT ![c] = job[c] = "ok"]
  /\ job' = [job EXCEPT ![c] = "none"]

\* The connection is destroyed while it waits.
Drop(c) ==
  /\ job[c] # "none"
  /\ job' = [job EXCEPT ![c] = "none"]
  /\ UNCHANGED found

Next == \E c \in Callers : AtOnce(c) \/ Ask(c) \/ Answer(c) \/ Take(c) \/ Drop(c)

Spec == Init /\ [][Next]_vars
=============================================================================
