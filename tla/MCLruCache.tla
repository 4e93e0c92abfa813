----------------------------- MODULE MCLruCache -----------------------------
(* Instances of LruCache for TLC. *)
EXTENDS LruCache, TLC

Symmetry == Permutations(Threads) \cup Permutations(Keys)
=============================================================================
