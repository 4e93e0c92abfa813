-------------------------- MODULE ThreadPoolProofs --------------------------
(***************************************************************************)
(* Proofs about ThreadPool, for every capacity, number of workers and      *)
(* number of connections.                                                  *)
(***************************************************************************)
EXTENDS ThreadPool, TLAPS, FiniteSetTheorems

Closing == {"wake_poppers", "wake_pushers", "join", "returned"}

\* Where the threads are, and what that says of the data.
ControlInv ==
  /\ (hand # None) <=> (apc \in {"push", "wait", "recheck"})
  /\ hand # None => hand = accepted
  /\ closed <=> (apc \in Closing)
  /\ apc \in Closing \cup {"close"} => stop
  /\ dropped # {} => apc \in Closing \cup {"close"} /\ accepted > 0 /\ dropped = {accepted}
  /\ apc = "returned" => \A w \in Workers : wpc[w] = "exited"
  /\ \A w \in Workers : (serving[w] # None) <=> (wpc[w] \in {"popped", "serve"})
  /\ \A w \in not_empty : wpc[w] = "wait"
  /\ \A w \in Workers : wpc[w] = "exited" => closed /\ queue = <<>>

\* The inductive invariant.
IInv ==
  /\ TypeOK
  /\ ControlInv
  /\ Len(queue) <= Capacity
  /\ ExactlyOnceInOrder
  /\ NoLostWakeup

-----------------------------------------------------------------------------
\* The queue holds at least one connection.
LEMMA CapacityPositive == Capacity \in Nat /\ Capacity > 0
BY CapacityAssumption DEF Capacity

\* A fresh pool satisfies the invariant.
LEMMA InitInv == Init => IInv
<1> SUFFICES ASSUME Init PROVE IInv
  BY Zenon
<1> USE DEF Init, QueueInit
<1>1. TypeOK
  <2>1. queue \in Seq(Conns)
    OBVIOUS
  <2>2. wpc \in [Workers -> WPCs] /\ serving \in [Workers -> Conns \cup {None}]
    BY Zenon DEF WPCs, None
  <2>3. accepted \in 0..MaxConns
    BY ConnsAssumption
  <2> QED
    BY <2>1, <2>2, <2>3, Zenon DEF TypeOK, APCs
<1>2. ControlInv
  BY Zenon DEF ControlInv, Closing, None
<1>3. Len(queue) <= Capacity
  BY CapacityPositive
<1>4. Holding = {} /\ Taken = 0
  <2>1. Holding = {}
    BY Zenon DEF Holding
  <2>2. Len(queue) = 0 /\ Unqueued = 0 /\ accepted = 0
    BY Zenon DEF Unqueued
  <2>3. Taken = 0
    BY ONLY <2>2 DEF Taken
  <2> QED
    BY <2>1, <2>3, Zenon
<1>5. ExactlyOnceInOrder
  <2>1. {serving[w] : w \in Holding} = {}
    BY <1>4, Zenon
  <2>2. 1..Taken = {}
    BY <1>4
  <2> QED
    BY <1>4, <2>1, <2>2 DEF ExactlyOnceInOrder
<1>6. NoLostWakeup
  BY Zenon DEF NoLostWakeup
<1> QED
  BY <1>1, <1>2, <1>3, <1>5, <1>6, Zenon DEF IInv

\* Every step keeps the types.
LEMMA TypeStep == IInv /\ [Next]_vars => TypeOK'
<1> SUFFICES ASSUME IInv, [Next]_vars PROVE TypeOK'
  BY Zenon
<1> USE ConnsAssumption, ThreadAssumption DEF IInv, TypeOK, Conns, None, queueVars, APCs, WPCs
<1>1. CASE Stop
  BY <1>1, Zenon DEF Stop
<1>2. CASE CheckStop
  BY <1>2, Zenon DEF CheckStop
<1>3. CASE AcceptNothing
  BY <1>3, Zenon DEF AcceptNothing
<1>4. CASE Accept
  BY <1>4 DEF Accept
<1>5. CASE PushFd
  <2>1. hand \in Conns
    BY <1>5, Zenon DEF PushFd, AtPush, ControlInv
  <2>2. Append(queue, hand) \in Seq(Conns)
    BY <2>1
  <2> QED
    BY <1>5, <2>2, Zenon DEF PushFd
<1>6. CASE PushBlock
  BY <1>6, Zenon DEF PushBlock, AtPush, PushBlocks
<1>7. CASE PushFail
  BY <1>7, Zenon DEF PushFail, AtPush, PushTimesOut, PushSeesClosed, ControlInv
<1>8. CASE PushNotify
  BY <1>8, ZenonT(30) DEF PushNotify, NotifyOne
<1>9. CASE Recheck
  BY <1>9, Zenon DEF Recheck, ControlInv
<1>10. CASE Close
  BY <1>10, Zenon DEF Close
<1>11. CASE WakePoppers
  BY <1>11, Zenon DEF WakePoppers
<1>12. CASE WakePushers
  BY <1>12, Zenon DEF WakePushers
<1>13. CASE Join
  BY <1>13, Zenon DEF Join
<1>14. CASE PushTimeout
  BY <1>14, Zenon DEF PushTimeout
<1>15. CASE SpuriousPush
  BY <1>15, Zenon DEF SpuriousPush
<1>16. ASSUME NEW w \in Workers, PopFd(w) PROVE TypeOK'
  BY <1>16, SMTT(30) DEF PopFd, AtPop, PopsNow
<1>17. ASSUME NEW w \in Workers, PopBlock(w) PROVE TypeOK'
  BY <1>17, Zenon DEF PopBlock, AtPop, PopBlocks
<1>18. ASSUME NEW w \in Workers, PopExit(w) PROVE TypeOK'
  BY <1>18, Zenon DEF PopExit, AtPop, PopReturnsFalse
<1>19. ASSUME NEW w \in Workers, PopNotify(w) PROVE TypeOK'
  BY <1>19 DEF PopNotify, NotifyOne
<1>20. ASSUME NEW w \in Workers, Serve(w) PROVE TypeOK'
  BY <1>20, Zenon DEF Serve, ControlInv
<1>21. ASSUME NEW w \in Workers, SpuriousPop(w) PROVE TypeOK'
  BY <1>21, Zenon DEF SpuriousPop
<1>22. CASE UNCHANGED vars
  BY <1>22 DEF vars
<1> QED
  BY <1>1, <1>2, <1>3, <1>4, <1>5, <1>6, <1>7, <1>8, <1>9, <1>10, <1>11, <1>12,
     <1>13, <1>14, <1>15, <1>16, <1>17, <1>18, <1>19, <1>20, <1>21, <1>22, ZenonT(30)
     DEF Next, AcceptorStep, WorkerStep, Terminated

\* Every step keeps the control invariant.
LEMMA ControlStep == IInv /\ [Next]_vars => ControlInv'
<1> SUFFICES ASSUME IInv, [Next]_vars PROVE ControlInv'
  BY Zenon
<1> USE ConnsAssumption, ThreadAssumption DEF IInv, TypeOK, ControlInv, Closing, Conns, None, queueVars
<1>1. CASE Stop
  BY <1>1, Zenon DEF Stop
<1>2. CASE CheckStop
  BY <1>2, Zenon DEF CheckStop
<1>3. CASE AcceptNothing
  BY <1>3, Zenon DEF AcceptNothing
<1>4. CASE Accept
  BY <1>4 DEF Accept
<1>5. CASE PushFd
  BY <1>5, Zenon DEF PushFd, AtPush, PushesNow
<1>6. CASE PushBlock
  BY <1>6, Zenon DEF PushBlock, AtPush, PushBlocks
<1>7. CASE PushFail
  BY <1>7, Zenon DEF PushFail, AtPush, PushTimesOut, PushSeesClosed
<1>8. CASE PushNotify
  BY <1>8 DEF PushNotify, NotifyOne
<1>9. CASE Recheck
  BY <1>9 DEF Recheck
<1>10. CASE Close
  BY <1>10, Zenon DEF Close
<1>11. CASE WakePoppers
  BY <1>11, Zenon DEF WakePoppers
<1>12. CASE WakePushers
  BY <1>12, Zenon DEF WakePushers
<1>13. CASE Join
  BY <1>13, Zenon DEF Join
<1>14. CASE PushTimeout
  BY <1>14, Zenon DEF PushTimeout
<1>15. CASE SpuriousPush
  BY <1>15, Zenon DEF SpuriousPush
<1>16. ASSUME NEW w \in Workers, PopFd(w) PROVE ControlInv'
  BY <1>16, SMTT(30) DEF PopFd, AtPop, PopsNow
<1>17. ASSUME NEW w \in Workers, PopBlock(w) PROVE ControlInv'
  BY <1>17 DEF PopBlock, AtPop, PopBlocks
<1>18. ASSUME NEW w \in Workers, PopExit(w) PROVE ControlInv'
  BY <1>18, Zenon DEF PopExit, AtPop, PopReturnsFalse
<1>19. ASSUME NEW w \in Workers, PopNotify(w) PROVE ControlInv'
  BY <1>19, Zenon DEF PopNotify, NotifyOne
<1>20. ASSUME NEW w \in Workers, Serve(w) PROVE ControlInv'
  BY <1>20, Zenon DEF Serve
<1>21. ASSUME NEW w \in Workers, SpuriousPop(w) PROVE ControlInv'
  BY <1>21, Zenon DEF SpuriousPop
<1>22. CASE UNCHANGED vars
  BY <1>22, Zenon DEF vars
<1> QED
  BY <1>1, <1>2, <1>3, <1>4, <1>5, <1>6, <1>7, <1>8, <1>9, <1>10, <1>11, <1>12, ZenonT(30),
     <1>13, <1>14, <1>15, <1>16, <1>17, <1>18, <1>19, <1>20, <1>21, <1>22
     DEF Next, AcceptorStep, WorkerStep, Terminated

\* The queue never outgrows its capacity.
LEMMA RoomStep == IInv /\ [Next]_vars => (Len(queue) <= Capacity)'
<1> SUFFICES ASSUME IInv, [Next]_vars PROVE (Len(queue) <= Capacity)'
  BY Zenon
<1> USE CapacityPositive DEF IInv, TypeOK, Capacity, queueVars
<1>1. CASE Stop
  BY <1>1, Zenon DEF Stop
<1>2. CASE CheckStop
  BY <1>2, Zenon DEF CheckStop
<1>3. CASE AcceptNothing
  BY <1>3, Zenon DEF AcceptNothing
<1>4. CASE Accept
  BY <1>4, Zenon DEF Accept
<1>5. CASE PushFd
  BY <1>5 DEF PushFd, AtPush, PushesNow, HasRoom
<1>6. CASE PushBlock
  BY <1>6, Zenon DEF PushBlock, AtPush, PushBlocks
<1>7. CASE PushFail
  BY <1>7, Zenon DEF PushFail, AtPush, PushTimesOut, PushSeesClosed
<1>8. CASE PushNotify
  BY <1>8, Zenon DEF PushNotify, NotifyOne
<1>9. CASE Recheck
  BY <1>9, Zenon DEF Recheck
<1>10. CASE Close
  BY <1>10, Zenon DEF Close
<1>11. CASE WakePoppers
  BY <1>11, Zenon DEF WakePoppers
<1>12. CASE WakePushers
  BY <1>12, Zenon DEF WakePushers
<1>13. CASE Join
  BY <1>13, Zenon DEF Join
<1>14. CASE PushTimeout
  BY <1>14, Zenon DEF PushTimeout
<1>15. CASE SpuriousPush
  BY <1>15, Zenon DEF SpuriousPush
<1>16. ASSUME NEW w \in Workers, PopFd(w) PROVE (Len(queue) <= Capacity)'
  BY <1>16 DEF PopFd, AtPop, PopsNow
<1>17. ASSUME NEW w \in Workers, PopBlock(w) PROVE (Len(queue) <= Capacity)'
  BY <1>17, Zenon DEF PopBlock, AtPop, PopBlocks
<1>18. ASSUME NEW w \in Workers, PopExit(w) PROVE (Len(queue) <= Capacity)'
  BY <1>18, Zenon DEF PopExit, AtPop, PopReturnsFalse
<1>19. ASSUME NEW w \in Workers, PopNotify(w) PROVE (Len(queue) <= Capacity)'
  BY <1>19, Zenon DEF PopNotify, NotifyOne
<1>20. ASSUME NEW w \in Workers, Serve(w) PROVE (Len(queue) <= Capacity)'
  BY <1>20, Zenon DEF Serve
<1>21. ASSUME NEW w \in Workers, SpuriousPop(w) PROVE (Len(queue) <= Capacity)'
  BY <1>21, Zenon DEF SpuriousPop
<1>22. CASE UNCHANGED vars
  BY <1>22, Zenon DEF vars
<1> QED
  BY <1>1, <1>2, <1>3, <1>4, <1>5, <1>6, <1>7, <1>8, <1>9, <1>10, <1>11, <1>12,
     <1>13, <1>14, <1>15, <1>16, <1>17, <1>18, <1>19, <1>20, <1>21, <1>22, ZenonT(30)
     DEF Next, AcceptorStep, WorkerStep, Terminated

\* Every step keeps the connections in order and accounted for.
LEMMA OrderStep == IInv /\ [Next]_vars => ExactlyOnceInOrder'
<1> SUFFICES ASSUME IInv, [Next]_vars PROVE ExactlyOnceInOrder'
  BY Zenon
<1> USE DEF IInv
<1>1. CASE Stop
  <2>1. UNCHANGED <<queue, hand, dropped, accepted, served, serving>>
    BY <1>1, Zenon DEF Stop, queueVars
  <2> QED
    BY <2>1 DEF ExactlyOnceInOrder, Taken, Unqueued, Holding
<1>2. CASE CheckStop
  <2>1. UNCHANGED <<queue, hand, dropped, accepted, served, serving>>
    BY <1>2, Zenon DEF CheckStop, queueVars
  <2> QED
    BY <2>1 DEF ExactlyOnceInOrder, Taken, Unqueued, Holding
<1>3. CASE AcceptNothing
  <2>1. UNCHANGED <<queue, hand, dropped, accepted, served, serving>>
    BY <1>3, Zenon DEF AcceptNothing, queueVars
  <2> QED
    BY <2>1 DEF ExactlyOnceInOrder, Taken, Unqueued, Holding
<1>4. CASE Accept
  <2>1. hand = None /\ dropped = {}
    BY <1>4, Zenon DEF Accept, ControlInv, Closing
  <2>2. hand' # None /\ accepted' = accepted + 1
    BY <1>4 DEF Accept, None, TypeOK
  <2>3. Unqueued = 0 /\ Unqueued' = 1
    BY <2>1, <2>2, Zenon DEF Unqueued
  <2>4. UNCHANGED <<queue, served, serving>>
    BY <1>4, Zenon DEF Accept, queueVars
  <2>5. Taken' = Taken
    BY <2>2, <2>3, <2>4 DEF Taken, TypeOK
  <2> QED
    BY <2>4, <2>5 DEF ExactlyOnceInOrder, Holding
<1>5. CASE PushFd
  <2>1. hand \in Conns /\ hand = accepted /\ dropped = {} /\ hand' = None /\ dropped' = {}
    BY <1>5, Zenon DEF PushFd, AtPush, ControlInv, Closing, TypeOK
  <2>2. Unqueued = 1 /\ Unqueued' = 0
    BY <2>1 DEF Unqueued, None, Conns
  <2>3. queue' = Append(queue, hand) /\ UNCHANGED <<accepted, served, serving>>
    BY <1>5, Zenon DEF PushFd
  <2>4. /\ Len(queue') = Len(queue) + 1
        /\ \A i \in 1..Len(queue) : queue'[i] = queue[i]
        /\ queue'[Len(queue) + 1] = hand
    BY <2>1, <2>3 DEF TypeOK
  <2>5. Taken' = Taken /\ Taken + Len(queue) + 1 = accepted
    BY <2>2, <2>3, <2>4 DEF Taken, TypeOK
  <2>6. \A i \in 1..Len(queue') : queue'[i] = Taken' + i
    <3> SUFFICES ASSUME NEW i \in 1..Len(queue') PROVE queue'[i] = Taken + i
      BY <2>5, Zenon
    <3>1. Len(queue) \in Nat /\ Taken \in Int
      BY DEF TypeOK, ExactlyOnceInOrder, Taken, Unqueued
    <3>2. CASE i = Len(queue) + 1
      BY <2>1, <2>4, <2>5, <3>1, <3>2
    <3>3. CASE i \in 1..Len(queue)
      BY <2>4, <3>3, Zenon DEF ExactlyOnceInOrder
    <3> QED
      BY <2>4, <3>1, <3>2, <3>3
  <2> QED
    BY <2>3, <2>5, <2>6, Zenon DEF ExactlyOnceInOrder, Holding
<1>6. CASE PushBlock
  <2>1. UNCHANGED <<queue, hand, dropped, accepted, served, serving>>
    BY <1>6, Zenon DEF PushBlock, queueVars
  <2> QED
    BY <2>1 DEF ExactlyOnceInOrder, Taken, Unqueued, Holding
<1>7. CASE PushFail
  <2>1. UNCHANGED <<queue, hand, dropped, accepted, served, serving>>
    BY <1>7, Zenon DEF PushFail, AtPush, ControlInv, Closing, queueVars
  <2> QED
    BY <2>1 DEF ExactlyOnceInOrder, Taken, Unqueued, Holding
<1>8. CASE PushNotify
  <2>1. UNCHANGED <<queue, hand, dropped, accepted, served, serving>>
    BY <1>8, Zenon DEF PushNotify, queueVars
  <2> QED
    BY <2>1 DEF ExactlyOnceInOrder, Taken, Unqueued, Holding
<1>9. CASE Recheck
  <2>1. hand \in Conns /\ (stop => dropped' # {}) /\ (~stop => UNCHANGED <<hand, dropped>>)
    BY <1>9, Zenon DEF Recheck, ControlInv, TypeOK
  <2>2. Unqueued = 1 /\ Unqueued' = 1
    BY <2>1 DEF Unqueued, None, Conns
  <2>3. UNCHANGED <<queue, accepted, served, serving>>
    BY <1>9, Zenon DEF Recheck, queueVars
  <2> QED
    BY <2>2, <2>3 DEF ExactlyOnceInOrder, Taken, Holding
<1>10. CASE Close
  <2>1. UNCHANGED <<queue, hand, dropped, accepted, served, serving>>
    BY <1>10, Zenon DEF Close, queueVars
  <2> QED
    BY <2>1 DEF ExactlyOnceInOrder, Taken, Unqueued, Holding
<1>11. CASE WakePoppers
  <2>1. UNCHANGED <<queue, hand, dropped, accepted, served, serving>>
    BY <1>11, Zenon DEF WakePoppers, queueVars
  <2> QED
    BY <2>1 DEF ExactlyOnceInOrder, Taken, Unqueued, Holding
<1>12. CASE WakePushers
  <2>1. UNCHANGED <<queue, hand, dropped, accepted, served, serving>>
    BY <1>12, Zenon DEF WakePushers, queueVars
  <2> QED
    BY <2>1 DEF ExactlyOnceInOrder, Taken, Unqueued, Holding
<1>13. CASE Join
  <2>1. UNCHANGED <<queue, hand, dropped, accepted, served, serving>>
    BY <1>13, Zenon DEF Join, queueVars
  <2> QED
    BY <2>1 DEF ExactlyOnceInOrder, Taken, Unqueued, Holding
<1>14. CASE PushTimeout
  <2>1. UNCHANGED <<queue, hand, dropped, accepted, served, serving>>
    BY <1>14, Zenon DEF PushTimeout, queueVars
  <2> QED
    BY <2>1 DEF ExactlyOnceInOrder, Taken, Unqueued, Holding
<1>15. CASE SpuriousPush
  <2>1. UNCHANGED <<queue, hand, dropped, accepted, served, serving>>
    BY <1>15, Zenon DEF SpuriousPush, queueVars
  <2> QED
    BY <2>1 DEF ExactlyOnceInOrder, Taken, Unqueued, Holding
<1>16. ASSUME NEW w \in Workers, PopFd(w) PROVE ExactlyOnceInOrder'
  <2>1. /\ queue # <<>> /\ queue' = Tail(queue)
        /\ serving' = [serving EXCEPT ![w] = Head(queue)]
        /\ UNCHANGED <<hand, dropped, accepted, served>>
    BY <1>16, Zenon DEF PopFd, PopsNow
  <2>2. serving[w] = None
    BY <1>16, Zenon DEF PopFd, AtPop, ControlInv
  <2>3. /\ Len(queue) > 0 /\ Len(queue') = Len(queue) - 1
        /\ \A i \in 1..Len(queue') : queue'[i] = queue[i + 1]
        /\ Head(queue) = queue[1]
    BY <2>1 DEF TypeOK
  <2>4. Taken \in Nat /\ Taken' = Taken + 1
    BY <2>1, <2>3 DEF Taken, Unqueued, TypeOK, ExactlyOnceInOrder
  <2>5. Head(queue) = Taken + 1
    BY <2>3 DEF ExactlyOnceInOrder, TypeOK
  <2>6. \A i \in 1..Len(queue') : queue'[i] = Taken' + i
    <3>1. Len(queue) \in Nat
      BY DEF TypeOK
    <3>2. ASSUME NEW i \in 1..Len(queue') PROVE queue'[i] = Taken' + i
      <4>1. i \in Nat /\ i + 1 \in 1..Len(queue) /\ queue'[i] = queue[i + 1]
        BY <2>3, <3>1
      <4>2. queue[i + 1] = Taken + (i + 1)
        BY <4>1, Zenon DEF ExactlyOnceInOrder
      <4> QED
        BY <2>4, <4>1, <4>2
    <3> QED
      BY <3>2, Zenon
  <2>7. Holding' = Holding \cup {w} /\ w \notin Holding
    BY <2>1, <2>2, <2>4, <2>5 DEF Holding, None, TypeOK
  <2>8. /\ serving'[w] = Taken + 1
        /\ \A v \in Holding : serving'[v] = serving[v]
    BY <2>1, <2>5, <2>7, Zenon DEF TypeOK, Holding
  <2>9. \A v \in Holding : serving[v] \in 1..Taken
    BY Zenon DEF ExactlyOnceInOrder
  <2>10. {serving'[v] : v \in Holding'} = {serving[v] : v \in Holding} \cup {Taken + 1}
    BY <2>7, <2>8, Zenon
  <2>11. served' \cup {serving'[v] : v \in Holding'} = 1..Taken'
    <3>1. served \cup {serving[v] : v \in Holding} = 1..Taken
      BY Zenon DEF ExactlyOnceInOrder
    <3>2. 1..Taken' = (1..Taken) \cup {Taken + 1}
      BY <2>4
    <3> QED
      BY <2>1, <2>10, <3>1, <3>2, Zenon
  <2>12. \A v \in Holding' : serving'[v] \notin served'
    <3>1. Taken + 1 \notin served
      BY <2>4 DEF ExactlyOnceInOrder
    <3> QED
      BY <2>1, <2>7, <2>8, <3>1, SMTT(30) DEF ExactlyOnceInOrder
  <2>13. \A u, v \in Holding' : serving'[u] = serving'[v] => u = v
    <3>1. \A v \in Holding : serving[v] # Taken + 1
      BY <2>4, <2>9
    <3> QED
      BY <2>7, <2>8, <3>1 DEF ExactlyOnceInOrder
  <2> QED
    BY <2>4, <2>6, <2>11, <2>12, <2>13 DEF ExactlyOnceInOrder
<1>17. ASSUME NEW w \in Workers, PopBlock(w) PROVE ExactlyOnceInOrder'
  <2>1. UNCHANGED <<queue, hand, dropped, accepted, served, serving>>
    BY <1>17, Zenon DEF PopBlock, queueVars
  <2> QED
    BY <2>1 DEF ExactlyOnceInOrder, Taken, Unqueued, Holding
<1>18. ASSUME NEW w \in Workers, PopExit(w) PROVE ExactlyOnceInOrder'
  <2>1. UNCHANGED <<queue, hand, dropped, accepted, served, serving>>
    BY <1>18, Zenon DEF PopExit, queueVars
  <2> QED
    BY <2>1 DEF ExactlyOnceInOrder, Taken, Unqueued, Holding
<1>19. ASSUME NEW w \in Workers, PopNotify(w) PROVE ExactlyOnceInOrder'
  <2>1. UNCHANGED <<queue, hand, dropped, accepted, served, serving>>
    BY <1>19, Zenon DEF PopNotify, queueVars
  <2> QED
    BY <2>1 DEF ExactlyOnceInOrder, Taken, Unqueued, Holding
<1>20. ASSUME NEW w \in Workers, Serve(w) PROVE ExactlyOnceInOrder'
  <2>1. /\ served' = served \cup {serving[w]}
        /\ serving' = [serving EXCEPT ![w] = None]
        /\ UNCHANGED <<queue, hand, dropped, accepted>>
    BY <1>20, Zenon DEF Serve, queueVars
  <2>2. w \in Holding
    BY <1>20, Zenon DEF Serve, ControlInv, Holding
  <2>3. Holding' = Holding \ {w}
    BY <2>1, Zenon DEF Holding, TypeOK
  <2>4. \A v \in Holding' : serving'[v] = serving[v]
    BY <2>1, <2>3, Zenon DEF TypeOK, Holding
  <2>5. served' \cup {serving'[v] : v \in Holding'} = served \cup {serving[v] : v \in Holding}
    BY <2>1, <2>2, <2>3, <2>4, Zenon
  <2>6. Taken' = Taken
    BY <2>1, Zenon DEF Taken, Unqueued
  <2> QED
    BY <2>1, <2>2, <2>3, <2>4, <2>5, <2>6, SMTT(30) DEF ExactlyOnceInOrder
<1>21. ASSUME NEW w \in Workers, SpuriousPop(w) PROVE ExactlyOnceInOrder'
  <2>1. UNCHANGED <<queue, hand, dropped, accepted, served, serving>>
    BY <1>21, Zenon DEF SpuriousPop, queueVars
  <2> QED
    BY <2>1 DEF ExactlyOnceInOrder, Taken, Unqueued, Holding
<1>22. CASE UNCHANGED vars
  BY <1>22 DEF vars, ExactlyOnceInOrder, Taken, Unqueued, Holding
<1> QED
  BY <1>1, <1>2, <1>3, <1>4, <1>5, <1>6, <1>7, <1>8, <1>9, <1>10, <1>11, <1>12,
     <1>13, <1>14, <1>15, <1>16, <1>17, <1>18, <1>19, <1>20, <1>21, <1>22, ZenonT(30)
     DEF Next, AcceptorStep, WorkerStep, Terminated

\* Waking a worker that slept makes one more worker awake.
LEMMA WakeOne ==
  ASSUME IInv, NEW t \in not_empty, not_empty' = not_empty \ {t}, wpc' = wpc
  PROVE  Cardinality(Awake') = Cardinality(Awake) + 1
<1>1. t \in Workers /\ wpc[t] = "wait"
  BY Zenon DEF IInv, TypeOK, ControlInv
<1>2. Awake' = Awake \cup {t} /\ t \notin Awake
  BY <1>1, Zenon DEF Awake, AtPop
<1>3. IsFiniteSet(Awake)
  BY ThreadAssumption, FS_Subset, Zenon DEF Awake
<1> QED
  BY <1>2, <1>3, FS_AddElement, Zenon

\* The workers that are awake are finitely many.
LEMMA AwakeFinite == IsFiniteSet(Awake) /\ Cardinality(Awake) \in Nat
<1>1. IsFiniteSet(Awake)
  BY ThreadAssumption, FS_Subset, Zenon DEF Awake
<1> QED
  BY <1>1, FS_CardinalityType, Zenon

\* Every step keeps a wake-up on its way for every queued connection.
LEMMA WakeupStep == IInv /\ [Next]_vars => NoLostWakeup'
<1> SUFFICES ASSUME IInv, [Next]_vars PROVE NoLostWakeup'
  BY Zenon
<1>n. Cardinality(Awake) \in Nat /\ Len(queue) \in Nat
  BY AwakeFinite DEF IInv, TypeOK
<1>a. ASSUME UNCHANGED <<queue, not_empty, wpc>>,
             apc' = "pushed" <=> apc = "pushed",
             apc' \in {"wake_pushers", "join", "returned"} => apc \in {"wake_pushers", "join", "returned"}
      PROVE  NoLostWakeup'
  <2>1. Awake' = Awake
    BY <1>a, Zenon DEF Awake, AtPop
  <2> QED
    BY <1>a, <2>1, Zenon DEF IInv, NoLostWakeup
<1>1. CASE Stop
  BY <1>1, <1>a, Zenon DEF Stop, queueVars
<1>2. CASE CheckStop
  BY <1>2, <1>a, Zenon DEF CheckStop, queueVars
<1>3. CASE AcceptNothing
  BY <1>3, <1>a, Zenon DEF AcceptNothing, queueVars
<1>4. CASE Accept
  BY <1>4, <1>a, Zenon DEF Accept, queueVars
<1>5. CASE PushFd
  <2>1. Awake' = Awake /\ Len(queue') = Len(queue) + 1
    BY <1>5 DEF PushFd, Awake, AtPop, IInv, TypeOK, AtPush, ControlInv
  <2> QED
    BY <1>5, <2>1, <1>n, SMTT(30) DEF PushFd, AtPush, IInv, NoLostWakeup
<1>6. CASE PushBlock
  BY <1>6, <1>a, Zenon DEF PushBlock, queueVars, AtPush
<1>7. CASE PushFail
  BY <1>7, <1>a, Zenon DEF PushFail, queueVars, AtPush
<1>8. CASE PushNotify
  <2>1. CASE not_empty = {}
    BY <1>8, <2>1, Zenon DEF PushNotify, NotifyOne, NoLostWakeup
  <2>2. CASE not_empty # {}
    <3>1. PICK t \in not_empty : not_empty' = not_empty \ {t}
      BY <1>8, <2>2, Zenon DEF PushNotify, NotifyOne
    <3>2. Cardinality(Awake') = Cardinality(Awake) + 1
      BY <1>8, <3>1, WakeOne, Zenon DEF PushNotify
    <3> QED
      BY <1>8, <2>2, <3>2, <1>n DEF PushNotify, IInv, NoLostWakeup
  <2> QED
    BY <2>1, <2>2, Zenon
<1>9. CASE Recheck
  BY <1>9, <1>a, Zenon DEF Recheck, queueVars
<1>10. CASE Close
  BY <1>10, <1>a, Zenon DEF Close, queueVars
<1>11. CASE WakePoppers
  BY <1>11, Zenon DEF WakePoppers, NoLostWakeup
<1>12. CASE WakePushers
  BY <1>12, <1>a, Zenon DEF WakePushers, queueVars, NoLostWakeup, IInv
<1>13. CASE Join
  BY <1>13, <1>a, Zenon DEF Join, queueVars, NoLostWakeup, IInv
<1>14. CASE PushTimeout
  BY <1>14, <1>a, Zenon DEF PushTimeout, queueVars
<1>15. CASE SpuriousPush
  BY <1>15, <1>a, Zenon DEF SpuriousPush, queueVars
<1>16. ASSUME NEW w \in Workers, PopFd(w) PROVE NoLostWakeup'
  <2>1. w \in Awake /\ Awake' = Awake \ {w}
    BY <1>16, Zenon DEF PopFd, Awake, AtPop, IInv, TypeOK
  <2>2. Cardinality(Awake') = Cardinality(Awake) - 1
    BY <2>1, AwakeFinite, FS_RemoveElement, Zenon
  <2>3. Len(queue') = Len(queue) - 1
    BY <1>16 DEF PopFd, PopsNow, IInv, TypeOK
  <2>4. UNCHANGED <<apc, not_empty>> /\ Cardinality(Awake') \in Int /\ Len(queue') \in Int
    BY <1>16, <2>2, <2>3, <1>n DEF PopFd
  <2>5. not_empty # {} => Len(queue) <= Cardinality(Awake) + (IF apc = "pushed" THEN 1 ELSE 0)
    BY Zenon DEF IInv, NoLostWakeup
  <2>6. not_empty # {} => Len(queue') <= Cardinality(Awake') + (IF apc = "pushed" THEN 1 ELSE 0)
    BY <2>2, <2>3, <2>5, <1>n
  <2> QED
    BY <2>4, <2>6, Zenon DEF IInv, NoLostWakeup
<1>17. ASSUME NEW w \in Workers, PopBlock(w) PROVE NoLostWakeup'
  <2>1. Len(queue') = 0 /\ apc' = apc /\ apc \notin {"wake_pushers", "join", "returned"}
    BY <1>17, Zenon DEF PopBlock, PopBlocks, IInv, ControlInv, Closing
  <2>2. Cardinality(Awake)' \in Nat
    <3>1. IsFiniteSet(Awake')
      BY ThreadAssumption, FS_Subset, Zenon DEF Awake
    <3> QED
      BY <3>1, FS_CardinalityType, Zenon
  <2> QED
    BY <2>1, <2>2 DEF NoLostWakeup
<1>18. ASSUME NEW w \in Workers, PopExit(w) PROVE NoLostWakeup'
  <2>1. Len(queue') = 0 /\ UNCHANGED <<apc, not_empty>>
    BY <1>18, Zenon DEF PopExit, PopReturnsFalse, queueVars
  <2>2. Cardinality(Awake)' \in Nat
    <3>1. IsFiniteSet(Awake')
      BY ThreadAssumption, FS_Subset, Zenon DEF Awake
    <3> QED
      BY <3>1, FS_CardinalityType, Zenon
  <2> QED
    BY <2>1, <2>2 DEF NoLostWakeup, IInv
<1>19. ASSUME NEW w \in Workers, PopNotify(w) PROVE NoLostWakeup'
  <2>1. Awake' = Awake
    BY <1>19, Zenon DEF PopNotify, Awake, AtPop, IInv, TypeOK
  <2> QED
    BY <1>19, <2>1, Zenon DEF PopNotify, IInv, NoLostWakeup
<1>20. ASSUME NEW w \in Workers, Serve(w) PROVE NoLostWakeup'
  <2>1. w \notin Awake /\ Awake' = Awake \cup {w}
    BY <1>20, Zenon DEF Serve, Awake, AtPop, IInv, TypeOK, queueVars
  <2>2. Cardinality(Awake') = Cardinality(Awake) + 1
    BY <2>1, AwakeFinite, FS_AddElement, Zenon
  <2> QED
    BY <1>20, <2>2, <1>n DEF Serve, IInv, NoLostWakeup, queueVars
<1>21. ASSUME NEW w \in Workers, SpuriousPop(w) PROVE NoLostWakeup'
  <2>1. Cardinality(Awake') = Cardinality(Awake) + 1
    BY <1>21, WakeOne, Zenon DEF SpuriousPop
  <2> QED
    BY <1>21, <2>1, <1>n DEF SpuriousPop, IInv, NoLostWakeup
<1>22. CASE UNCHANGED vars
  BY <1>22, <1>a, Zenon DEF vars
<1> QED
  BY <1>1, <1>2, <1>3, <1>4, <1>5, <1>6, <1>7, <1>8, <1>9, <1>10, <1>11, <1>12,
     <1>13, <1>14, <1>15, <1>16, <1>17, <1>18, <1>19, <1>20, <1>21, <1>22, ZenonT(30)
     DEF Next, AcceptorStep, WorkerStep, Terminated

-----------------------------------------------------------------------------
\* The invariant is inductive.
THEOREM Invariance == Spec => []IInv
<1>1. Init => IInv
  BY InitInv, Zenon
<1>2. IInv /\ [Next]_vars => IInv'
  BY TypeStep, ControlStep, RoomStep, OrderStep, WakeupStep, Zenon DEF IInv
<1> QED
  BY <1>1, <1>2, PTL DEF Spec

\* thread_pool.cpp and conn_queue.cpp keep every variable in its type.
THEOREM TypeCorrect == Spec => []TypeOK
<1>1. IInv => TypeOK
  BY Zenon DEF IInv
<1> QED
  BY Invariance, <1>1, PTL

\* Whatever the number of workers and the capacity, accept_loop, push_for and
\* pop hand every connection to one worker, once and in order of acceptance.
THEOREM HandOff == Spec => []ExactlyOnceInOrder
<1>1. IInv => ExactlyOnceInOrder
  BY Zenon DEF IInv
<1> QED
  BY Invariance, <1>1, PTL

\* push_for's and pop's notify_one, issued after the unlock, never leave a
\* queued connection with every worker asleep and no notification to come.
THEOREM WakeUps == Spec => []NoLostWakeup
<1>1. IInv => NoLostWakeup
  BY Zenon DEF IInv
<1> QED
  BY Invariance, <1>1, PTL

\* push_for bounds what waits: a full queue and one connection in hand.
THEOREM Bounded == Spec => []BackPressure
<1>1. IInv => BackPressure
  <2> SUFFICES ASSUME IInv PROVE BackPressure
    BY Zenon
  <2>1. accepted \in Int /\ Len(queue) \in Int /\ Unqueued \in 0..1 /\ Len(queue) <= Capacity
    BY DEF IInv, TypeOK, Unqueued
  <2>2. Capacity \in Int
    BY CapacityPositive
  <2> QED
    BY <2>1, <2>2 DEF BackPressure, Taken
<1> QED
  BY Invariance, <1>1, PTL

\* With every worker gone after close, the queue is empty.
LEMMA DrainedLemma == IInv => DrainedAtReturn
<1> SUFFICES ASSUME IInv, apc = "returned" PROVE DrainedAtReturn
  BY Zenon DEF DrainedAtReturn
<1>1. \A w \in Workers : wpc[w] = "exited"
  BY Zenon DEF IInv, ControlInv
<1>2. queue = <<>> /\ hand = None
  BY <1>1, ThreadAssumption, Zenon DEF IInv, ControlInv
<1>3. Holding = {}
  BY <1>1, Zenon DEF IInv, ControlInv, Holding
<1>4. served = 1..Taken
  <2>1. {serving[w] : w \in Holding} = {}
    BY <1>3, Zenon
  <2> QED
    BY <2>1, Zenon DEF IInv, ExactlyOnceInOrder
<1>5. Taken = accepted - Unqueued /\ accepted \in Nat
  BY <1>2 DEF Taken, IInv, TypeOK, Unqueued
<1>6. CASE dropped = {}
  <2>1. Taken = accepted
    BY <1>2, <1>5, <1>6 DEF Unqueued
  <2> QED
    BY <1>1, <1>4, <1>6, <2>1, Zenon DEF DrainedAtReturn
<1>7. CASE dropped # {}
  <2>1. dropped = {accepted} /\ accepted > 0
    BY <1>7, Zenon DEF IInv, ControlInv
  <2>2. Taken = accepted - 1
    BY <1>5, <1>7, Zenon DEF Unqueued
  <2>3. served \cup dropped = 1..accepted
    BY <1>4, <1>5, <2>1, <2>2, SMTT(30)
  <2> QED
    BY <1>1, <2>1, <2>3, Zenon DEF DrainedAtReturn
<1> QED
  BY <1>6, <1>7, Zenon

\* run() returns with every worker gone and every accepted connection served,
\* but for the one that was in hand at the stop.
THEOREM Drained == Spec => []DrainedAtReturn
BY Invariance, DrainedLemma, PTL

-----------------------------------------------------------------------------
(* The pool implements Backend. *)

\* A fresh pool is a fresh backend.
LEMMA ServiceInit == Init => Service!Init
<1> SUFFICES ASSUME Init PROVE Service!Init
  BY Zenon
<1>1. Life = [c \in Conns |-> "new"]
  BY ConnsAssumption DEF Init, Life, Conns
<1> QED
  BY <1>1, Zenon DEF Init, Service!Init, Service!Conns, Conns

\* Where none of the mapped variables changes, neither does the backend.
LEMMA ServiceStutter ==
  ASSUME UNCHANGED <<stop, accepted, served, dropped>>, (apc' = "returned") <=> (apc = "returned")
  PROVE  UNCHANGED Service!vars
<1>1. Life' = Life
  BY Zenon DEF Life, Conns
<1>2. (apc = "returned")' = (apc = "returned")
  BY Zenon
<1> QED
  BY <1>1, <1>2, Zenon DEF Service!vars

\* A connection that is served or dropped was live and is now closed.
LEMMA ServiceClose ==
  ASSUME IInv, NEW c \in Conns, c <= accepted, c \notin served \cup dropped,
         served' \cup dropped' = served \cup dropped \cup {c},
         UNCHANGED <<stop, accepted>>, (apc' = "returned") <=> (apc = "returned")
  PROVE  Service!CloseConns
<1>1. accepted \in Nat /\ c \in Nat
  BY DEF IInv, TypeOK, Conns
<1>2. Life[c] = "live"
  BY <1>1 DEF Life
<1>3. Life' = [d \in Conns |-> IF d \in {c} THEN "closed" ELSE Life[d]]
  <2>1. \A d \in Conns : Life'[d] = IF d = c THEN "closed" ELSE Life[d]
    <3> SUFFICES ASSUME NEW d \in Conns PROVE Life'[d] = IF d = c THEN "closed" ELSE Life[d]
      BY Zenon
    <3>1. d \in served' \cup dropped' <=> (d \in served \cup dropped \/ d = c)
      BY Zenon
    <3>2. d = c => ~(d > accepted')
      BY <1>1
    <3> QED
      BY <3>1, <3>2, Zenon DEF Life
  <2>2. Life' = [d \in Conns |-> Life'[d]]
    BY Zenon DEF Life, Conns
  <2> QED
    BY <2>1, <2>2, Zenon
<1>4. {c} \in SUBSET {d \in Conns : Life[d] = "live"}
  BY <1>2, Zenon
<1>5. (apc = "returned")' = (apc = "returned")
  BY Zenon
<1> QED
  BY <1>3, <1>4, <1>5, Zenon DEF Service!CloseConns, Service!Conns, Conns

\* Every step of the pool is a step of the backend, or changes nothing it sees.
LEMMA ServiceStep == IInv /\ [Next]_vars => [Service!Next]_(Service!vars)
<1> SUFFICES ASSUME IInv, [Next]_vars PROVE [Service!Next]_(Service!vars)
  BY Zenon
<1>1. CASE Stop
  <2>1. Life' = Life /\ (apc = "returned")' = (apc = "returned")
    BY <1>1, Zenon DEF Stop, Life
  <2>2. Service!Stop
    BY <1>1, <2>1, Zenon DEF Stop, Service!Stop
  <2> QED
    BY <2>2, Zenon DEF Service!Next
<1>2. CASE Accept
  <2> DEFINE c == accepted + 1
  <2>1. c \in Conns /\ accepted \in Nat
    BY <1>2, ConnsAssumption DEF Accept, IInv, TypeOK, Conns
  <2>2. served \cup dropped \subseteq 1..accepted
    <3>1. Taken <= accepted
      BY DEF Taken, Unqueued, IInv, TypeOK
    <3>2. served \subseteq 1..accepted
      <4>1. served \subseteq 1..Taken /\ Taken \in Int
        BY DEF IInv, ExactlyOnceInOrder, Taken, TypeOK, Unqueued
      <4> QED
        BY <4>1, <3>1, <2>1, SMTT(30)
    <3>3. dropped \subseteq 1..accepted
      BY <2>1 DEF IInv, ControlInv
    <3> QED
      BY <3>2, <3>3, Zenon
  <2>3. Life[c] = "new" /\ \A d \in 1..(c - 1) : Life[d] # "new"
    <3>1. c > accepted /\ c - 1 = accepted
      BY <2>1
    <3>2. \A d \in 1..accepted : d \in Conns /\ ~(d > accepted)
      BY <2>1, ConnsAssumption DEF Conns
    <3> HIDE DEF c
    <3> QED
      BY <2>1, <3>1, <3>2, Zenon DEF Life
  <2>4. UNCHANGED <<served, dropped, stop>> /\ accepted' = c /\ apc' # "returned" /\ apc # "returned"
    BY <1>2, Zenon DEF Accept
  <2>5. Life' = [Life EXCEPT ![c] = "live"]
    <3>1. c \notin served \cup dropped
      BY <2>1, <2>2
    <3>2. \A d \in Conns : (d > accepted') <=> (d > accepted /\ d # c)
      BY <2>1, <2>4 DEF Conns
    <3> QED
      BY <2>1, <2>4, <3>1, <3>2, Zenon DEF Life
  <2>6. (apc = "returned") = FALSE /\ (apc = "returned")' = FALSE
    BY <2>4, Zenon
  <2>7. Service!Accept
    <3>1. \E d \in Service!Conns :
            Life[d] = "new" /\ (\A e \in 1..(d - 1) : Life[e] # "new") /\ Life' = [Life EXCEPT ![d] = "live"]
      BY <2>1, <2>3, <2>5, Zenon DEF Service!Conns, Conns
    <3> QED
      BY <2>4, <2>6, <3>1, Zenon DEF Service!Accept
  <2> QED
    BY <2>7, Zenon DEF Service!Next
<1>3. CASE Recheck
  <2>1. CASE ~stop
    BY <1>3, <2>1, ServiceStutter, Zenon DEF Recheck
  <2>2. CASE stop
    <3>1. hand \in Conns /\ hand = accepted
      BY <1>3, Zenon DEF Recheck, IInv, ControlInv, TypeOK
    <3>2. hand \notin served \cup dropped
      <4>1. dropped = {}
        BY <1>3, Zenon DEF Recheck, IInv, ControlInv, Closing
      <4>2. Taken < accepted /\ accepted \in Nat /\ Taken \in Int
        BY <3>1 DEF Taken, Unqueued, IInv, TypeOK, None, Conns
      <4>3. served \subseteq 1..Taken
        BY Zenon DEF IInv, ExactlyOnceInOrder
      <4> QED
        BY <3>1, <4>1, <4>2, <4>3
    <3>3. hand <= accepted
      BY <3>1 DEF Conns
    <3>4. Service!CloseConns
      BY <1>3, <2>2, <3>1, <3>2, <3>3, ServiceClose, Zenon DEF Recheck
    <3> QED
      BY <3>4, Zenon DEF Service!Next
  <2> QED
    BY <2>1, <2>2, Zenon
<1>4. ASSUME NEW w \in Workers, Serve(w) PROVE [Service!Next]_(Service!vars)
  <2>1. w \in Holding
    BY <1>4, Zenon DEF Serve, IInv, ControlInv, Holding
  <2>2. serving[w] \in 1..Taken /\ serving[w] \notin served
    BY <2>1, Zenon DEF IInv, ExactlyOnceInOrder
  <2>3. Taken <= accepted - Unqueued /\ Taken \in Int /\ accepted \in Nat /\ accepted <= MaxConns
    BY ConnsAssumption DEF Taken, Unqueued, IInv, TypeOK
  <2>4. serving[w] \notin dropped
    <3>1. dropped # {} => dropped = {accepted} /\ Unqueued = 1
      BY Zenon DEF IInv, ControlInv, Unqueued
    <3> QED
      BY <2>2, <2>3, <3>1, SMTT(30)
  <2>5. serving[w] \in Conns /\ serving[w] <= accepted
    BY <2>2, <2>3, ConnsAssumption DEF Conns, Unqueued
  <2>6. Service!CloseConns
    BY <1>4, <2>2, <2>4, <2>5, ServiceClose, Zenon DEF Serve
  <2> QED
    BY <2>6, Zenon DEF Service!Next
<1>5. CASE Join
  <2>1. stop
    BY <1>5, Zenon DEF Join, IInv, ControlInv, Closing
  <2>2. served \cup dropped = 1..accepted
    <3>1. IInv'
      BY TypeStep, ControlStep, RoomStep, OrderStep, WakeupStep, Zenon DEF IInv
    <3>2. DrainedAtReturn'
      <4>1. IInv' => DrainedAtReturn'
        BY DrainedLemma, PTL
      <4> QED
        BY <3>1, <4>1, Zenon
    <3> QED
      BY <1>5, <3>2, Zenon DEF Join, DrainedAtReturn
  <2>3. \A c \in Conns : Life[c] # "live"
    BY <2>2 DEF Life, Conns, IInv, TypeOK
  <2>4. Life' = Life /\ (apc = "returned")' = TRUE /\ stop' = stop
    BY <1>5, Zenon DEF Join, Life
  <2>5. Service!Return
    BY <2>1, <2>3, <2>4, Zenon DEF Service!Return, Service!Conns, Conns
  <2> QED
    BY <2>5, Zenon DEF Service!Next
<1>6. CASE CheckStop \/ AcceptNothing \/ PushFd \/ PushBlock \/ PushNotify \/ Close
           \/ WakePoppers \/ WakePushers \/ PushTimeout \/ SpuriousPush
  BY <1>6, ServiceStutter, Zenon DEF CheckStop, AcceptNothing, PushFd, PushBlock, AtPush, PushNotify,
     Close, WakePoppers, WakePushers, PushTimeout, SpuriousPush
<1>7. CASE PushFail
  BY <1>7, ServiceStutter, Zenon DEF PushFail, AtPush, IInv, ControlInv, Closing
<1>8. ASSUME NEW w \in Workers, PopFd(w) \/ PopBlock(w) \/ PopExit(w) \/ PopNotify(w) \/ SpuriousPop(w)
      PROVE [Service!Next]_(Service!vars)
  BY <1>8, ServiceStutter, Zenon DEF PopFd, PopBlock, PopExit, PopNotify, SpuriousPop
<1>9. CASE UNCHANGED vars
  BY <1>9, ServiceStutter, Zenon DEF vars
<1> QED
  BY <1>1, <1>2, <1>3, <1>4, <1>5, <1>6, <1>7, <1>8, <1>9, Zenon
     DEF Next, AcceptorStep, WorkerStep, Terminated

\* thread_pool.cpp's run() keeps the promise of backend.hpp and main.cpp: it
\* returns only after a stop, and with no connection alive.
THEOREM PoolIsBackend == Spec => ImplementsBackend
<1>1. Spec => Service!Init
  BY ServiceInit, PTL DEF Spec
<1>2. IInv /\ [Next]_vars => [Service!Next]_(Service!vars)
  BY ServiceStep, Zenon
<1> QED
  BY <1>1, <1>2, Invariance, PTL DEF Spec, Service!Spec, ImplementsBackend
=============================================================================
