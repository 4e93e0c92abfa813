----------------------------- MODULE ThreadPool -----------------------------
(***************************************************************************)
(* The bounded thread pool (backend/thread_pool.cpp): run()'s thread,      *)
(* which accepts and pushes, N workers, which pop and serve, and the       *)
(* signal handler that sets stop_.                                         *)
(*                                                                         *)
(* Connections are numbered in the order accept() returned them.  Serving  *)
(* one is a single step here: it is module Connection's business.          *)
(***************************************************************************)
EXTENDS ConnQueue

CONSTANTS
  Workers,     \* the worker threads (never none: a size of 0 means 1)
  Acceptor,    \* run()'s thread, when it is blocked on not_full_
  MaxConns     \* bound: how many connections arrive

ASSUME ThreadAssumption == Workers # {} /\ IsFiniteSet(Workers) /\ Acceptor \notin Workers
ASSUME ConnsAssumption == MaxConns \in Nat

VARIABLES
  stop,      \* stop_
  apc,       \* where run()'s thread is
  hand,      \* a.conn: the accepted connection not yet pushed, or None
  timedOut,  \* push_for's wait_for ran into its 200 ms deadline
  wpc,       \* where each worker is
  serving,   \* the connection each worker holds, or None
  accepted,  \* accepted_: how many accept() calls succeeded
  served,    \* the connections a worker has finished with
  dropped    \* the connections closed without having been pushed

vars == <<queue, closed, not_empty, not_full, stop, apc, hand, timedOut,
          wpc, serving, accepted, served, dropped>>

Conns == 1..MaxConns
None == 0

APCs == {"check", "accept", "push", "wait", "pushed", "recheck",
         "close", "wake_poppers", "wake_pushers", "join", "returned"}
WPCs == {"pop", "wait", "popped", "serve", "exited"}

Init ==
  /\ QueueInit
  /\ stop = FALSE
  /\ apc = "check"
  /\ hand = None
  /\ timedOut = FALSE
  /\ wpc = [w \in Workers |-> "pop"]
  /\ serving = [w \in Workers |-> None]
  /\ accepted = 0
  /\ served = {}
  /\ dropped = {}

-----------------------------------------------------------------------------
(* The signal handler *)

Stop ==
  /\ ~stop
  /\ stop' = TRUE
  /\ UNCHANGED <<queueVars, apc, hand, timedOut, wpc, serving, accepted, served, dropped>>

-----------------------------------------------------------------------------
(* run()'s thread *)

\* The loop condition.
CheckStop ==
  /\ apc = "check"
  /\ apc' = IF stop THEN "close" ELSE "accept"
  /\ UNCHANGED <<queueVars, stop, hand, timedOut, wpc, serving, accepted, served, dropped>>

\* Nothing to accept within 200 ms, or accept_one returned no connection.
AcceptNothing ==
  /\ apc = "accept"
  /\ apc' = "check"
  /\ UNCHANGED <<queueVars, stop, hand, timedOut, wpc, serving, accepted, served, dropped>>

Accept ==
  /\ apc = "accept"
  /\ accepted < MaxConns
  /\ accepted' = accepted + 1
  /\ hand' = accepted + 1
  /\ apc' = "push"
  /\ UNCHANGED <<queueVars, stop, timedOut, wpc, serving, served, dropped>>

\* run()'s thread is about to hold the mutex: push_for was called, or its wait
\* was ended by a notification, spuriously or by the deadline.
AtPush == apc = "push" \/ (apc = "wait" /\ Acceptor \notin not_full)

PushFd ==
  /\ AtPush
  /\ PushesNow
  /\ queue' = Append(queue, hand)
  /\ hand' = None
  /\ timedOut' = FALSE
  /\ apc' = "pushed"
  /\ UNCHANGED <<closed, not_empty, not_full, stop, wpc, serving, accepted, served, dropped>>

PushBlock ==
  /\ AtPush
  /\ PushBlocks(timedOut)
  /\ not_full' = not_full \cup {Acceptor}
  /\ apc' = "wait"
  /\ UNCHANGED <<queue, closed, not_empty, stop, hand, timedOut, wpc, serving, accepted, served, dropped>>

\* TimedOut leaves the connection in hand; Closed ends accept_loop, and with it
\* the connection.
PushFail ==
  /\ AtPush
  /\ PushTimesOut(timedOut) \/ PushSeesClosed
  /\ timedOut' = FALSE
  /\ apc' = IF closed THEN "close" ELSE "recheck"
  /\ hand' = IF closed THEN None ELSE hand
  /\ dropped' = IF closed THEN dropped \cup {hand} ELSE dropped
  /\ UNCHANGED <<queueVars, stop, wpc, serving, accepted, served>>

PushTimeout ==
  /\ apc = "wait"
  /\ Acceptor \in not_full
  /\ not_full' = not_full \ {Acceptor}
  /\ timedOut' = TRUE
  /\ UNCHANGED <<queue, closed, not_empty, stop, apc, hand, wpc, serving, accepted, served, dropped>>

\* push_for without its notify_one.
PushNoNotify ==
  /\ apc = "pushed"
  /\ apc' = "check"
  /\ UNCHANGED <<queueVars, stop, hand, timedOut, wpc, serving, accepted, served, dropped>>

\* push_for's notify_one, after the unlock.
PushNotify ==
  /\ apc = "pushed"
  /\ apc' = "check"
  /\ not_empty' \in NotifyOne(not_empty)
  /\ UNCHANGED <<queue, closed, not_full, stop, hand, timedOut, wpc, serving, accepted, served, dropped>>

\* A retry of a push_for that moved from its argument although it timed out.
RecheckMovedFrom ==
  /\ apc = "recheck"
  /\ apc' = IF stop THEN "close" ELSE "push"
  /\ hand' = None
  /\ dropped' = IF stop THEN dropped \cup {hand} ELSE dropped
  /\ UNCHANGED <<queueVars, stop, timedOut, wpc, serving, accepted, served>>

\* push_for timed out: give up when stopping, else try again.
Recheck ==
  /\ apc = "recheck"
  /\ apc' = IF stop THEN "close" ELSE "push"
  /\ hand' = IF stop THEN None ELSE hand
  /\ dropped' = IF stop THEN dropped \cup {hand} ELSE dropped
  /\ UNCHANGED <<queueVars, stop, timedOut, wpc, serving, accepted, served>>

\* close(): the critical section ...
Close ==
  /\ apc = "close"
  /\ apc' = "wake_poppers"
  /\ closed' = TRUE
  /\ UNCHANGED <<queue, not_empty, not_full, stop, hand, timedOut, wpc, serving, accepted, served, dropped>>

\* A close() that wakes one consumer only.
WakePoppersOne ==
  /\ apc = "wake_poppers"
  /\ apc' = "wake_pushers"
  /\ not_empty' \in NotifyOne(not_empty)
  /\ UNCHANGED <<queue, closed, not_full, stop, hand, timedOut, wpc, serving, accepted, served, dropped>>

\* ... and its two notify_all calls.
WakePoppers ==
  /\ apc = "wake_poppers"
  /\ apc' = "wake_pushers"
  /\ not_empty' = {}
  /\ UNCHANGED <<queue, closed, not_full, stop, hand, timedOut, wpc, serving, accepted, served, dropped>>

WakePushers ==
  /\ apc = "wake_pushers"
  /\ apc' = "join"
  /\ not_full' = {}
  /\ UNCHANGED <<queue, closed, not_empty, stop, hand, timedOut, wpc, serving, accepted, served, dropped>>

\* A run() that detaches the workers instead of joining them.
JoinDetached ==
  /\ apc = "join"
  /\ apc' = "returned"
  /\ UNCHANGED <<queueVars, stop, hand, timedOut, wpc, serving, accepted, served, dropped>>

\* Every worker has been joined; run() returns.
Join ==
  /\ apc = "join"
  /\ \A w \in Workers : wpc[w] = "exited"
  /\ apc' = "returned"
  /\ UNCHANGED <<queueVars, stop, hand, timedOut, wpc, serving, accepted, served, dropped>>

-----------------------------------------------------------------------------
(* The workers *)

\* A worker is about to hold the mutex in pop.
AtPop(w) == wpc[w] = "pop" \/ (wpc[w] = "wait" /\ w \notin not_empty)

PopFd(w) ==
  /\ AtPop(w)
  /\ PopsNow
  /\ serving' = [serving EXCEPT ![w] = Head(queue)]
  /\ queue' = Tail(queue)
  /\ wpc' = [wpc EXCEPT ![w] = "popped"]
  /\ UNCHANGED <<closed, not_empty, not_full, stop, apc, hand, timedOut, accepted, served, dropped>>

PopBlock(w) ==
  /\ AtPop(w)
  /\ PopBlocks
  /\ not_empty' = not_empty \cup {w}
  /\ wpc' = [wpc EXCEPT ![w] = "wait"]
  /\ UNCHANGED <<queue, closed, not_full, stop, apc, hand, timedOut, serving, accepted, served, dropped>>

\* pop returned false: worker_loop ends.
PopExit(w) ==
  /\ AtPop(w)
  /\ PopReturnsFalse
  /\ wpc' = [wpc EXCEPT ![w] = "exited"]
  /\ UNCHANGED <<queueVars, stop, apc, hand, timedOut, serving, accepted, served, dropped>>

\* pop's notify_one, after the unlock.
PopNotify(w) ==
  /\ wpc[w] = "popped"
  /\ wpc' = [wpc EXCEPT ![w] = "serve"]
  /\ not_full' \in NotifyOne(not_full)
  /\ UNCHANGED <<queue, closed, not_empty, stop, apc, hand, timedOut, serving, accepted, served, dropped>>

\* The exchange ended or idled out, the Connection is destroyed, the seat is free.
Serve(w) ==
  /\ wpc[w] = "serve"
  /\ wpc' = [wpc EXCEPT ![w] = "pop"]
  /\ served' = served \cup {serving[w]}
  /\ serving' = [serving EXCEPT ![w] = None]
  /\ UNCHANGED <<queueVars, stop, apc, hand, timedOut, accepted, dropped>>

-----------------------------------------------------------------------------
(* A condition variable may wake a thread for no reason. *)

SpuriousPop(w) ==
  /\ w \in not_empty
  /\ not_empty' = not_empty \ {w}
  /\ UNCHANGED <<queue, closed, not_full, stop, apc, hand, timedOut, wpc, serving, accepted, served, dropped>>

SpuriousPush ==
  /\ Acceptor \in not_full
  /\ not_full' = not_full \ {Acceptor}
  /\ UNCHANGED <<queue, closed, not_empty, stop, apc, hand, timedOut, wpc, serving, accepted, served, dropped>>

\* run() has returned: nothing is left to do.
Terminated ==
  /\ apc = "returned"
  /\ UNCHANGED vars

AcceptorStep ==
  \/ CheckStop \/ AcceptNothing \/ Accept \/ PushFd \/ PushBlock \/ PushFail
  \/ PushNotify \/ Recheck \/ Close \/ WakePoppers \/ WakePushers \/ Join

WorkerStep(w) == PopFd(w) \/ PopBlock(w) \/ PopExit(w) \/ PopNotify(w) \/ Serve(w)

Next ==
  \/ Stop
  \/ AcceptorStep
  \/ PushTimeout
  \/ SpuriousPush
  \/ \E w \in Workers : WorkerStep(w) \/ SpuriousPop(w)
  \/ Terminated

Spec == Init /\ [][Next]_vars

(***************************************************************************)
(* A thread that can take a step eventually takes it.  wait_for's deadline *)
(* is absolute, so it passes however often spurious wake-ups interrupt the *)
(* wait: strong fairness.  Fairness of WorkerStep includes that a worker   *)
(* is eventually done with a connection: each wait while serving is        *)
(* bounded by poll_timeout_ms, so this asks that no exchange is endless.   *)
(* Nothing is asked of clients, of the signal or of spurious wake-ups.     *)
(***************************************************************************)
Fairness ==
  /\ WF_vars(AcceptorStep)
  /\ SF_vars(PushTimeout)
  /\ \A w \in Workers : WF_vars(WorkerStep(w))

FairSpec == Spec /\ Fairness

-----------------------------------------------------------------------------
(* Properties *)

\* Every variable keeps its type.
TypeOK ==
  /\ queue \in Seq(Conns)
  /\ closed \in BOOLEAN
  /\ not_empty \in SUBSET Workers
  /\ not_full \in SUBSET {Acceptor}
  /\ stop \in BOOLEAN
  /\ apc \in APCs
  /\ hand \in Conns \cup {None}
  /\ timedOut \in BOOLEAN
  /\ wpc \in [Workers -> WPCs]
  /\ serving \in [Workers -> Conns \cup {None}]
  /\ accepted \in 0..MaxConns
  /\ served \in SUBSET Conns
  /\ dropped \in SUBSET Conns

Holding == {w \in Workers : serving[w] # None}

\* The connection that is in the acceptor's hand, or that it dropped.
Unqueued == IF hand = None /\ dropped = {} THEN 0 ELSE 1

\* How many of the accepted connections have gone through the queue.
Taken == accepted - Len(queue) - Unqueued

\* Hand-off (accept_loop, push_for, pop): connections leave the queue in the
\* order they were accepted, each one goes to exactly one worker, and none is
\* lost or served twice.
ExactlyOnceInOrder ==
  /\ Taken >= 0
  /\ \A i \in 1..Len(queue) : queue[i] = Taken + i
  /\ served \cup {serving[w] : w \in Holding} = 1..Taken
  /\ \A w \in Holding : serving[w] \notin served
  /\ \A v, w \in Holding : serving[v] = serving[w] => v = w

\* Back-pressure (push_for blocks on a full queue, so accept() is not called):
\* beyond the workers' seats and the queue, the proxy holds one connection.
BackPressure == accepted <= Taken + Capacity + 1

\* The workers that will look at the queue without anybody notifying them.
Awake == {w \in Workers : AtPop(w)}

\* No lost wake-up (notify_one after the unlock, pop's predicate): while a
\* worker sleeps, every queued connection has an awake worker coming for it or
\* a notify_one on its way; and once close() has notified, nobody sleeps.
NoLostWakeup ==
  /\ not_empty # {} =>
       Len(queue) <= Cardinality(Awake) + (IF apc = "pushed" THEN 1 ELSE 0)
  /\ apc \in {"wake_pushers", "join", "returned"} => not_empty = {}

\* Graceful shutdown (close, pop's closed-and-drained exit, join): when run()
\* returns, the workers are gone, and every accepted connection was served
\* except possibly the last one, in hand when the stop flag was seen.
DrainedAtReturn ==
  apc = "returned" =>
    /\ \A w \in Workers : wpc[w] = "exited"
    /\ served \cup dropped = 1..accepted
    /\ dropped \subseteq {accepted}

\* A stop signal ends run(), also when the queue is full and the workers idle.
StopEndsRun == stop ~> apc = "returned"

\* Every accepted connection is served, or dropped because of a stop.
EveryConnLeaves == \A c \in Conns : accepted >= c ~> c \in served \cup dropped

\* The pool as module Backend sees it.
Life == [c \in Conns |-> IF c > accepted THEN "new"
                         ELSE IF c \in served \cup dropped THEN "closed" ELSE "live"]

Service == INSTANCE Backend WITH life <- Life, returned <- (apc = "returned")

\* run() accepts in order, and returns only after a stop and with no live
\* connection left: thread_pool.cpp's run() keeps backend.hpp's promise.
ImplementsBackend == Service!Spec
=============================================================================
