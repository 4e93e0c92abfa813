----------------------------- MODULE MCSharded ------------------------------
(* Instances of Sharded for TLC. *)
EXTENDS Sharded
=============================================================================
