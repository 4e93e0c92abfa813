---------------------------- MODULE MCEventLoop -----------------------------
(* Instances of EventLoop for TLC. *)
EXTENDS EventLoop

FirstAddr == CHOOSE a \in Addrs : TRUE
FirstFd   == CHOOSE fd \in Fds : TRUE

\* The first connection gets a fixed address and descriptor.  Until then no state
\* tells addresses or descriptors apart, the specification, its fairness and the
\* properties never do, and the choice is made at most once: any behavior becomes one
\* of these by one renaming from its first state on, so nothing is lost, liveness
\* included.
FirstAccept ==
  accepted = 0 => client' \in {client, [client EXCEPT ![FirstAddr] = FirstFd]}
=============================================================================
