-------------------------- MODULE MCThreadPerConn ---------------------------
(* Instances of ThreadPerConn, with its descriptors, for TLC. *)
EXTENDS Descriptors
=============================================================================
