----------------------------- MODULE MCResolver -----------------------------
(* Instances of Resolver for TLC. *)
EXTENDS Resolver

FirstCaller == CHOOSE c \in Callers : TRUE

\* The first job is a fixed caller's.  Until then no state tells callers apart, the
\* specification, its fairness and the properties never do, and there is one first
\* job: any behavior becomes one of these by one renaming of the callers.
FirstStart ==
  key = <<>> => cjob' \in {cjob, [cjob EXCEPT ![FirstCaller] = 1]}
=============================================================================
