----------------------------- MODULE ConnQueue -----------------------------
(***************************************************************************)
(* The bounded producer-consumer queue of accepted connections             *)
(* (conn_queue.hpp, conn_queue.cpp).                                       *)
(*                                                                         *)
(* A critical section under mutex_ is one step.  Releasing the mutex and   *)
(* notifying are two steps, as in the code: push_for and pop unlock before *)
(* notify_one, close releases the lock before its two notify_all calls.    *)
(* A condition variable is the set of threads blocked on it.  Notifying    *)
(* takes threads out of that set; a thread that was taken out still has to *)
(* re-acquire the mutex and evaluate its predicate again.                  *)
(*                                                                         *)
(* The operators below are the steps of the three member functions; the    *)
(* threads that take them are in ThreadPool.                               *)
(***************************************************************************)
EXTENDS Integers, Sequences, FiniteSets

CONSTANT JobQueueCapacity   \* cfg.job_queue_capacity

ASSUME CapacityAssumption == JobQueueCapacity \in Nat

VARIABLES
  queue,      \* queue_
  closed,     \* closed_
  not_empty,  \* the threads blocked on not_empty_
  not_full    \* the threads blocked on not_full_

queueVars == <<queue, closed, not_empty, not_full>>

\* The constructor turns a configured capacity of 0 into 1.
Capacity == IF JobQueueCapacity = 0 THEN 1 ELSE JobQueueCapacity

QueueInit ==
  /\ queue = <<>>
  /\ closed = FALSE
  /\ not_empty = {}
  /\ not_full = {}

\* notify_one: some blocked thread, if there is one, stops being blocked.
NotifyOne(blocked) ==
  IF blocked = {} THEN {{}} ELSE {blocked \ {t} : t \in blocked}

-----------------------------------------------------------------------------
\* A push_for that tests for room with <= instead of <.
HasRoomOffByOne == Len(queue) <= Capacity

\* Room for one more: half of push_for's wait predicate, which is re-evaluated
\* under the mutex on entry, on every wake-up and at the deadline.
HasRoom == Len(queue) < Capacity

\* push_for's critical section has four ways out.
PushesNow      == ~closed /\ HasRoom
PushSeesClosed == closed
PushTimesOut(timedOut) == ~closed /\ ~HasRoom /\ timedOut
PushBlocks(timedOut)   == ~closed /\ ~HasRoom /\ ~timedOut

\* A pop that returns false as soon as the queue is closed.
PopReturnsFalseOnClose == closed

\* pop's critical section has three.  Closed alone is not enough to return
\* false: what was already accepted is still handed out.
PopsNow         == queue # <<>>
PopReturnsFalse == queue = <<>> /\ closed
PopBlocks       == queue = <<>> /\ ~closed
=============================================================================
