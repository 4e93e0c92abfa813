--------------------------- MODULE ShardedProofs ----------------------------
(***************************************************************************)
(* Proofs about the hand-off between the acceptor and the shards, for any  *)
(* number of shards, pipe capacity and number of connections.              *)
(***************************************************************************)
EXTENDS Sharded, TLAPS

\* The acceptor holds a connection only between accept and push, and it is the
\* latest one.
HandInv ==
  /\ (hand # None) <=> (apc = "push")
  /\ hand # None => hand = accepted

IInv == TypeOK /\ HandInv /\ NoLostHandOff /\ InOnePlace

\* How many connections have had their turn.
Turned == IF apc \in {"push", "wake"} THEN accepted - 1 ELSE accepted

\* The turn belongs to the shard that the count of turns says.
TurnInv == Turned \in Nat /\ \E q \in Nat : Turned = NumShards * q + next

-----------------------------------------------------------------------------
(* Sequences as sets *)

\* Appending adds one member.
LEMMA QueuedAppend ==
  ASSUME NEW S, NEW q \in Seq(S), NEW e \in S
  PROVE  {Append(q, e)[i] : i \in 1..Len(Append(q, e))} = {q[i] : i \in 1..Len(q)} \cup {e}
<1>1. Len(Append(q, e)) = Len(q) + 1 /\ Len(q) \in Nat
  OBVIOUS
<1>2. Append(q, e)[Len(q) + 1] = e /\ \A i \in 1..Len(q) : Append(q, e)[i] = q[i]
  OBVIOUS
<1>3. 1..(Len(q) + 1) = 1..Len(q) \cup {Len(q) + 1}
  BY <1>1
<1> QED
  BY <1>1, <1>2, <1>3, ZenonT(30)

-----------------------------------------------------------------------------
\* There is a first shard.
LEMMA ShardZero == 0 \in Shards
BY ShardAssumption DEF Shards

\* A fresh backend satisfies the invariant.
LEMMA InitInv == Init => IInv
<1> SUFFICES ASSUME Init PROVE IInv
  BY Zenon
<1> USE DEF Init
<1>1. TypeOK
  <2>1. loop_stop \in [Shards -> BOOLEAN] /\ telling \subseteq Shards /\ live \in [Shards -> SUBSET Conns]
    BY Zenon
  <2>2. spc \in [Shards -> {"none", "open", "check", "poll", "adopt", "drain", "exited"}]
    BY Zenon
  <2>3. queue \in [Shards -> Seq(Conns)]
    OBVIOUS
  <2>4. pipe \in [Shards -> 0..PipeCapacity] /\ accepted \in 0..MaxConns /\ made \in 0..NumShards
    BY ShardAssumption
  <2> QED
    BY <2>1, <2>2, <2>3, <2>4, ShardZero, Zenon DEF TypeOK
<1>2. HandInv /\ NoLostHandOff
  BY Zenon DEF HandInv, NoLostHandOff, None
<1>3. \A s \in Shards : Queued(s) = {} /\ Of(s) = {} /\ Len(queue[s]) = 0
  BY DEF Queued, Of
<1>4. InOnePlace
  <2>1. UNION {Of(s) : s \in Shards} = {}
    BY <1>3, Zenon
  <2>2. 1..accepted = {} /\ {hand} \ {None} = {}
    BY DEF None
  <2> QED
    BY <1>3, <2>1, <2>2, Zenon DEF InOnePlace
<1> QED
  BY <1>1, <1>2, <1>4, Zenon DEF IInv

\* Types are kept.
LEMMA TypeStep == IInv /\ [Next]_vars => TypeOK'
<1> SUFFICES ASSUME IInv, [Next]_vars PROVE TypeOK'
  BY Zenon
<1> USE DEF IInv
<1>0. CASE Signal
  <2>1. telling' \subseteq Shards /\ next' \in Shards /\ stop' \in BOOLEAN
    BY <1>0, ShardAssumption, SMTT(30) DEF Signal, Shards, TypeOK
  <2>2. apc' \in {apc, "accept"}
    BY <1>0, Zenon DEF Signal
  <2> QED
    BY <1>0, <2>1, <2>2, Zenon DEF Signal, TypeOK, shardVars
<1>1. CASE CheckStop \/ AcceptNothing \/ Join \/ MakeFails \/ Returned \/ Hangs \/ UNCHANGED vars
  BY <1>1, Zenon DEF CheckStop, AcceptNothing, Join, MakeFails, Returned, Hangs, vars, stopVars, shardVars, TypeOK
<1>11. CASE MakeShard
  <2>1. made' \in 0..NumShards
    BY <1>11, ShardAssumption DEF MakeShard, TypeOK
  <2> QED
    BY <1>11, <2>1, Zenon DEF MakeShard, TypeOK, stopVars, shardVars
<1>12. ASSUME NEW s \in Shards, StartShard(s) PROVE TypeOK'
  <2>1. spc' \in [Shards -> {"none", "open", "check", "poll", "adopt", "drain", "exited"}]
    BY <1>12, Zenon DEF StartShard, TypeOK
  <2>2. apc' \in {apc, "check"}
    BY <1>12, Zenon DEF StartShard
  <2> QED
    BY <1>12, <2>1, <2>2, Zenon DEF StartShard, TypeOK, stopVars
<1>2. CASE Accept
  <2>1. hand' \in Conns \cup {None} /\ accepted' \in 0..MaxConns
    BY <1>2, ShardAssumption DEF Accept, TypeOK, Conns
  <2> QED
    BY <1>2, <2>1, Zenon DEF Accept, TypeOK, stopVars, shardVars
<1>3. CASE Push
  <2>1. hand \in Conns /\ next \in Shards
    BY <1>3, Zenon DEF Push, HandInv, TypeOK
  <2>2. Append(queue[next], hand) \in Seq(Conns)
    BY <2>1 DEF TypeOK
  <2>3. queue' \in [Shards -> Seq(Conns)]
    BY <1>3, <2>2, Zenon DEF Push, TypeOK
  <2> QED
    BY <1>3, <2>3, Zenon DEF Push, TypeOK, stopVars, shardVars
<1>4. CASE Wake
  <2>1. next' \in Shards
    BY <1>4, ShardAssumption, SMTT(30) DEF Wake, TypeOK, Shards
  <2>2. pipe[next] + 1 \in 0..PipeCapacity
    BY <1>4, ShardAssumption DEF Wake, TypeOK
  <2>3. pipe' \in [Shards -> 0..PipeCapacity]
    BY <1>4, <2>2, Zenon DEF Wake, TypeOK
  <2> QED
    BY <1>4, <2>1, <2>3, Zenon DEF Wake, TypeOK, stopVars, shardVars
<1>5. ASSUME NEW s \in Shards, HandlerTells(s) \/ RunTells(s) PROVE TypeOK'
  <2>1. loop_stop' \in [Shards -> BOOLEAN] /\ telling' \subseteq Shards
    BY <1>5, Zenon DEF HandlerTells, RunTells, TypeOK
  <2> QED
    BY <1>5, <2>1, ZenonT(30) DEF HandlerTells, RunTells, TypeOK, acceptorVars, shardVars
<1>13. ASSUME NEW s \in Shards,
              Open(s) \/ OpenFails(s) \/ PollFails(s) \/ ShardCheckStop(s) \/ OtherEvents(s)
       PROVE  TypeOK'
  <2>1. spc' \in [Shards -> {"none", "open", "check", "poll", "adopt", "drain", "exited"}]
    BY <1>13, Zenon DEF Open, OpenFails, PollFails, ShardCheckStop, OtherEvents, TypeOK
  <2> QED
    BY <1>13, <2>1, Zenon DEF Open, OpenFails, PollFails, ShardCheckStop, OtherEvents, TypeOK, stopVars, acceptorVars
<1>6. ASSUME NEW s \in Shards, TakeBytes(s) PROVE TypeOK'
  <2>1. pipe' \in [Shards -> 0..PipeCapacity]
    BY <1>6, ShardAssumption DEF TakeBytes, TypeOK
  <2>2. spc' \in [Shards -> {"none", "open", "check", "poll", "adopt", "drain", "exited"}]
    BY <1>6, Zenon DEF TakeBytes, TypeOK
  <2> QED
    BY <1>6, <2>1, <2>2, Zenon DEF TakeBytes, TypeOK, stopVars, acceptorVars
<1>7. ASSUME NEW s \in Shards, TakeQueue(s) PROVE TypeOK'
  <2>1. Queued(s) \subseteq Conns
    BY DEF Queued, TypeOK
  <2>2. PICK refused \in SUBSET Queued(s) :
          /\ live' = [live EXCEPT ![s] = @ \cup (Queued(s) \ refused)]
          /\ closed' = closed \cup refused
    BY <1>7, Zenon DEF TakeQueue, Queued
  <2>3. live' \in [Shards -> SUBSET Conns] /\ closed' \subseteq Conns
    BY <2>1, <2>2, Zenon DEF TypeOK
  <2>4. queue' \in [Shards -> Seq(Conns)]
    BY <1>7 DEF TakeQueue, TypeOK
  <2>5. spc' \in [Shards -> {"none", "open", "check", "poll", "adopt", "drain", "exited"}]
    BY <1>7, Zenon DEF TakeQueue, TypeOK
  <2> QED
    BY <1>7, <2>3, <2>4, <2>5, Zenon DEF TakeQueue, TypeOK, stopVars, acceptorVars
<1>8. ASSUME NEW s \in Shards, NEW c \in Conns, Finish(s, c) PROVE TypeOK'
  <2>1. live' \in [Shards -> SUBSET Conns] /\ closed' \subseteq Conns
    BY <1>8, Zenon DEF Finish, TypeOK
  <2> QED
    BY <1>8, <2>1, Zenon DEF Finish, TypeOK, stopVars, acceptorVars
<1>9. ASSUME NEW s \in Shards, Drained(s) PROVE TypeOK'
  <2>1. live' \in [Shards -> SUBSET Conns] /\ closed' \subseteq Conns
    BY <1>9, Zenon DEF Drained, TypeOK
  <2>2. spc' \in [Shards -> {"none", "open", "check", "poll", "adopt", "drain", "exited"}]
    BY <1>9, Zenon DEF Drained, TypeOK
  <2> QED
    BY <1>9, <2>1, <2>2, Zenon DEF Drained, TypeOK, stopVars, acceptorVars
<1> QED
  BY <1>0, <1>1, <1>2, <1>3, <1>4, <1>5, <1>6, <1>7, <1>8, <1>9, <1>11, <1>12, <1>13, Zenon
     DEF Next, AcceptorStep, ShardStep, Fault

\* The acceptor's hand is full only between accept and push.
LEMMA HandStep == IInv /\ [Next]_vars => HandInv'
<1> SUFFICES ASSUME IInv, [Next]_vars PROVE HandInv'
  BY Zenon
<1> USE DEF IInv, HandInv, None
<1>1. CASE Signal \/ Returned \/ Hangs \/ UNCHANGED vars
  BY <1>1, Zenon DEF Signal, Blocked, Returned, Hangs, vars
<1>2. CASE MakeShard \/ MakeFails \/ CheckStop \/ AcceptNothing \/ Join \/ Wake \/ Push
  BY <1>2, Zenon DEF MakeShard, MakeFails, CheckStop, AcceptNothing, Join, Wake, Push
<1>3. CASE Accept
  BY <1>3 DEF Accept, TypeOK
<1>4. ASSUME NEW s \in Shards, HandlerTells(s) \/ RunTells(s) \/ OpenFails(s) \/ PollFails(s) \/ ShardStep(s)
      PROVE  HandInv'
  BY <1>4, Zenon DEF HandlerTells, RunTells, OpenFails, PollFails, ShardStep, Open, ShardCheckStop, OtherEvents,
              TakeBytes, TakeQueue, Finish, Drained, acceptorVars
<1>5. ASSUME NEW s \in Shards, StartShard(s) PROVE HandInv'
  BY <1>5, Zenon DEF StartShard
<1> QED
  BY <1>1, <1>2, <1>3, <1>4, <1>5, Zenon DEF Next, AcceptorStep, Fault

\* Queue before byte on one side, bytes before queue on the other: no step loses
\* the wake-up of a connection that is waiting in an inbox.
LEMMA HandOffStep == IInv /\ [Next]_vars => NoLostHandOff'
<1> SUFFICES ASSUME IInv, [Next]_vars, NEW t \in Shards, queue'[t] # <<>>
             PROVE  pipe'[t] > 0 \/ (apc' = "wake" /\ next' = t) \/ spc'[t] = "adopt"
  BY Zenon DEF NoLostHandOff
<1> DEFINE Covered == pipe[t] > 0 \/ (apc = "wake" /\ next = t) \/ spc[t] = "adopt"
<1>0. queue[t] # <<>> => Covered
  BY Zenon DEF IInv, NoLostHandOff
<1> USE DEF IInv
<1>1. CASE MakeShard \/ MakeFails \/ CheckStop \/ AcceptNothing \/ Accept \/ Join \/ Returned \/ Hangs
           \/ UNCHANGED vars
  BY <1>0, <1>1, Zenon DEF MakeShard, MakeFails, CheckStop, AcceptNothing, Accept, Join, Returned, Hangs, vars, shardVars
<1>8. CASE Signal
  <2>1. queue' = queue /\ pipe' = pipe /\ spc' = spc
    BY <1>8, Zenon DEF Signal, shardVars
  <2>2. \/ apc' = apc /\ next' = next
        \/ pipe[next] > 0
    BY <1>8, ShardAssumption DEF Signal, Blocked
  <2> QED
    BY <1>0, <2>1, <2>2, Zenon
<1>2. CASE Push
  BY <1>0, <1>2, Zenon DEF Push, TypeOK, shardVars
<1>3. CASE Wake
  <2>1. queue[t] # <<>> /\ spc'[t] = spc[t]
    BY <1>3, Zenon DEF Wake, shardVars
  <2>2. t = next => pipe'[t] > 0
    BY <1>3, ShardAssumption DEF Wake, TypeOK
  <2>3. t # next => pipe'[t] = pipe[t]
    BY <1>3, Zenon DEF Wake, TypeOK
  <2> QED
    BY <1>0, <2>1, <2>2, <2>3, Zenon
<1>4. ASSUME NEW s \in Shards,
             \/ HandlerTells(s) \/ RunTells(s) \/ Open(s) \/ OpenFails(s) \/ PollFails(s)
             \/ ShardCheckStop(s) \/ OtherEvents(s) \/ Drained(s)
      PROVE  pipe'[t] > 0 \/ (apc' = "wake" /\ next' = t) \/ spc'[t] = "adopt"
  <2>1. queue' = queue /\ pipe' = pipe /\ apc' = apc /\ next' = next
    BY <1>4, Zenon DEF HandlerTells, RunTells, Open, OpenFails, PollFails, ShardCheckStop, OtherEvents, Drained,
                acceptorVars
  <2>2. spc[t] = "adopt" => spc'[t] = "adopt"
    BY <1>4, Zenon DEF HandlerTells, RunTells, Open, OpenFails, PollFails, ShardCheckStop, OtherEvents, Drained,
                shardVars, TypeOK
  <2> QED
    BY <1>0, <2>1, <2>2, Zenon
<1>5. ASSUME NEW s \in Shards, TakeBytes(s)
      PROVE  pipe'[t] > 0 \/ (apc' = "wake" /\ next' = t) \/ spc'[t] = "adopt"
  <2>1. CASE s = t
    BY <1>5, <2>1, Zenon DEF TakeBytes, TypeOK
  <2>2. CASE s # t
    BY <1>0, <1>5, <2>2, Zenon DEF TakeBytes, TypeOK, acceptorVars
  <2> QED
    BY <2>1, <2>2, Zenon
<1>6. ASSUME NEW s \in Shards, TakeQueue(s)
      PROVE  pipe'[t] > 0 \/ (apc' = "wake" /\ next' = t) \/ spc'[t] = "adopt"
  <2>1. s # t
    BY <1>6, Zenon DEF TakeQueue, TypeOK
  <2> QED
    BY <1>0, <1>6, <2>1, Zenon DEF TakeQueue, TypeOK, acceptorVars
<1>7. ASSUME NEW s \in Shards, NEW c \in Conns, Finish(s, c)
      PROVE  pipe'[t] > 0 \/ (apc' = "wake" /\ next' = t) \/ spc'[t] = "adopt"
  BY <1>0, <1>7, Zenon DEF Finish, acceptorVars
<1>9. ASSUME NEW s \in Shards, StartShard(s)
      PROVE  pipe'[t] > 0 \/ (apc' = "wake" /\ next' = t) \/ spc'[t] = "adopt"
  BY <1>0, <1>9, Zenon DEF StartShard, TypeOK
<1> QED
  BY <1>1, <1>2, <1>3, <1>4, <1>5, <1>6, <1>7, <1>8, <1>9, Zenon DEF Next, AcceptorStep, ShardStep, Fault

-----------------------------------------------------------------------------
(* Every connection stays in one place *)

\* A step of one shard that moves connections from the shard to closed, or inside it.
LEMMA ShardMove ==
  ASSUME InOnePlace, NEW s \in Shards,
         hand' = hand, accepted' = accepted,
         \A t \in Shards \ {s} : queue'[t] = queue[t] /\ live'[t] = live[t],
         Of(s)' \cup closed' = Of(s) \cup closed,
         Of(s)' \cap closed' = {}, closed \subseteq closed',
         Queued(s)' \cap live'[s] = {},
         \A i, j \in 1..Len(queue'[s]) : i # j => queue'[s][i] # queue'[s][j]
  PROVE  InOnePlace'
<1>1. \A t \in Shards \ {s} : Queued(t)' = Queued(t) /\ Of(t)' = Of(t)
  BY DEF Queued, Of
<1>2. Of(s)' \subseteq Of(s)
  BY Zenon
<1>3. closed' \subseteq closed \cup Of(s)
  BY Zenon
<1>4. closed' \cup UNION {Of(t)' : t \in Shards} = closed \cup UNION {Of(t) : t \in Shards}
  <2>1. \A c : (\E t \in Shards : c \in Of(t)') <=> c \in Of(s)' \/ \E t \in Shards \ {s} : c \in Of(t)'
    BY Zenon
  <2>2. \A c : (\E t \in Shards : c \in Of(t)) <=> c \in Of(s) \/ \E t \in Shards \ {s} : c \in Of(t)
    BY Zenon
  <2> QED
    BY <1>1, <2>1, <2>2
<1>5. (1..accepted = (closed \cup ({hand} \ {None})) \cup UNION {Of(t) : t \in Shards})'
  <2>1. 1..accepted = (closed \cup ({hand} \ {None})) \cup UNION {Of(t) : t \in Shards}
    BY Zenon DEF InOnePlace
  <2> QED
    BY <1>4, <2>1, Zenon
<1>6. hand' \notin closed'
  BY <1>3, Zenon DEF InOnePlace
<1>7. \A t \in Shards : Queued(t)' \cap live'[t] = {}
  BY <1>1, Zenon DEF InOnePlace
<1>8. \A t \in Shards : Of(t)' \cap (closed' \cup {hand'}) = {}
  <2>1. Of(s)' \cap (closed' \cup {hand'}) = {}
    BY <1>2, Zenon DEF InOnePlace
  <2>2. \A t \in Shards \ {s} : Of(t) \cap (closed \cup {hand}) = {} /\ Of(s) \cap Of(t) = {}
    BY Zenon DEF InOnePlace
  <2> QED
    BY <1>1, <1>3, <2>1, <2>2
<1>9. \A t \in Shards : \A u \in Shards \ {t} : Of(t)' \cap Of(u)' = {}
  <2>1. \A t \in Shards : Of(t)' \subseteq Of(t)
    BY <1>1, <1>2, Zenon
  <2>2. \A t \in Shards : \A u \in Shards \ {t} : Of(t) \cap Of(u) = {}
    BY Zenon DEF InOnePlace
  <2> QED
    BY <2>1, <2>2, Zenon
<1>10. \A t \in Shards : \A i, j \in 1..Len(queue'[t]) : i # j => queue'[t][i] # queue'[t][j]
  BY DEF InOnePlace
<1> HIDE DEF Of, Queued
<1> QED
  BY <1>5, <1>6, <1>7, <1>8, <1>9, <1>10, Zenon DEF InOnePlace

\* accept puts a new connection into the acceptor's hand.
LEMMA AcceptPlace == IInv /\ Accept => InOnePlace'
<1> SUFFICES ASSUME IInv, Accept PROVE InOnePlace'
  BY Zenon
<1>1. hand = None /\ accepted \in Nat /\ accepted' = accepted + 1 /\ hand' = accepted + 1
  BY DEF IInv, HandInv, Accept, TypeOK
<1>2. queue' = queue /\ live' = live /\ closed' = closed
  BY Zenon DEF Accept, shardVars
<1>3. \A s \in Shards : Queued(s)' = Queued(s) /\ Of(s)' = Of(s)
  BY <1>2, Zenon DEF Queued, Of
<1>4. 1..accepted = closed \cup UNION {Of(s) : s \in Shards}
  BY <1>1, Zenon DEF IInv, InOnePlace
<1>5. 1..accepted' = 1..accepted \cup {hand'} /\ hand' \notin 1..accepted /\ hand' # None
  BY <1>1 DEF None
<1>6. UNION {Of(s)' : s \in Shards} = UNION {Of(s) : s \in Shards}
  BY <1>3, Zenon
<1>7. (1..accepted = (closed \cup ({hand} \ {None})) \cup UNION {Of(s) : s \in Shards})'
  BY <1>2, <1>4, <1>5, <1>6, Zenon
<1>8. hand' \notin closed'
  BY <1>2, <1>4, <1>5, Zenon
<1>9. \A s \in Shards : Of(s)' \cap (closed' \cup {hand'}) = {}
  <2>1. \A s \in Shards : Of(s) \subseteq 1..accepted
    BY <1>4, Zenon
  <2> QED
    BY <1>2, <1>3, <1>5, <2>1 DEF IInv, InOnePlace
<1> HIDE DEF Of, Queued
<1> QED
  BY <1>2, <1>3, <1>7, <1>8, <1>9 DEF IInv, InOnePlace

\* push moves it from the hand to one inbox.
LEMMA PushPlace == IInv /\ Push => InOnePlace'
<1> SUFFICES ASSUME IInv, Push PROVE InOnePlace'
  BY Zenon
<1>0. PICK n \in Shards : n = next
  BY Zenon DEF IInv, TypeOK
<1>1. hand \in Conns /\ hand # None /\ hand' = None /\ accepted' = accepted
  BY Zenon DEF IInv, HandInv, Push, TypeOK
<1>2. live' = live /\ closed' = closed
  BY Zenon DEF Push, shardVars
<1>3. queue[n] \in Seq(Conns) /\ queue'[n] = Append(queue[n], hand)
  BY <1>0, <1>1, Zenon DEF IInv, Push, TypeOK
<1>4. \A t \in Shards \ {n} : queue'[t] = queue[t]
  BY <1>0, Zenon DEF IInv, Push, TypeOK
<1>5. Queued(n)' = Queued(n) \cup {hand}
  BY <1>1, <1>3, QueuedAppend DEF Queued
<1>6. Of(n)' = Of(n) \cup {hand}
  BY <1>2, <1>5, Zenon DEF Of
<1>7. \A t \in Shards \ {n} : Queued(t)' = Queued(t) /\ Of(t)' = Of(t)
  BY <1>2, <1>4, Zenon DEF Queued, Of
<1>8. \A t \in Shards : Queued(t) \subseteq Of(t) /\ live[t] \subseteq Of(t)
  BY Zenon DEF Of
<1>9. UNION {Of(t)' : t \in Shards} = {hand} \cup UNION {Of(t) : t \in Shards}
  <2>1. \A c : (\E t \in Shards : c \in Of(t)') <=> c \in Of(n)' \/ \E t \in Shards \ {n} : c \in Of(t)'
    BY Zenon
  <2>2. \A c : (\E t \in Shards : c \in Of(t)) <=> c \in Of(n) \/ \E t \in Shards \ {n} : c \in Of(t)
    BY Zenon
  <2>3. \A c : (\E t \in Shards : c \in Of(t)') <=> (\E t \in Shards : c \in Of(t)) \/ c = hand
    BY <1>6, <1>7, <2>1, <2>2, Zenon
  <2> HIDE DEF Of
  <2> QED
    BY ONLY <2>3, Zenon
<1>10. (1..accepted = (closed \cup ({hand} \ {None})) \cup UNION {Of(t) : t \in Shards})'
  <2>1. 1..accepted = (closed \cup ({hand} \ {None})) \cup UNION {Of(t) : t \in Shards}
    BY Zenon DEF IInv, InOnePlace
  <2>2. {hand} \ {None} = {hand} /\ {hand'} \ {None} = {}
    BY <1>1, Zenon
  <2> QED
    BY ONLY <1>1, <1>2, <1>9, <2>1, <2>2, Zenon
<1>11. None \notin closed /\ \A t \in Shards : None \notin Of(t)
  <2>1. None \notin 1..accepted
    BY DEF None, IInv, TypeOK
  <2> QED
    BY <2>1, Zenon DEF IInv, InOnePlace
<1>12. hand \notin closed /\ \A t \in Shards : hand \notin Of(t) /\ Of(t) \cap closed = {}
  BY Zenon DEF IInv, InOnePlace
<1>13. \A t \in Shards : Queued(t)' \cap live'[t] = {}
  BY <1>2, <1>5, <1>7, <1>8, <1>12 DEF IInv, InOnePlace
<1>14. \A t \in Shards : Of(t)' \cap (closed' \cup {hand'}) = {}
  BY <1>1, <1>2, <1>6, <1>7, <1>11, <1>12
<1>15. \A t \in Shards : \A u \in Shards \ {t} : Of(t)' \cap Of(u)' = {}
  <2>1. \A t \in Shards : \A u \in Shards \ {t} : Of(t) \cap Of(u) = {}
    BY Zenon DEF IInv, InOnePlace
  <2> QED
    BY <1>6, <1>7, <1>12, <2>1
<1>16. \A t \in Shards : \A i, j \in 1..Len(queue'[t]) : i # j => queue'[t][i] # queue'[t][j]
  <2>1. \A i \in 1..Len(queue[n]) : queue[n][i] # hand
    BY <1>1, <1>12, Zenon DEF Of, Queued
  <2>2. \A i, j \in 1..Len(queue[n]) : i # j => queue[n][i] # queue[n][j]
    BY <1>1, Zenon DEF IInv, InOnePlace
  <2>3. \A i, j \in 1..Len(queue'[n]) : i # j => queue'[n][i] # queue'[n][j]
    BY <1>1, <1>3, <2>1, <2>2
  <2> QED
    BY <1>4, <2>3 DEF IInv, InOnePlace
<1> QED
  BY <1>1, <1>2, <1>10, <1>11, <1>13, <1>14, <1>15, <1>16, Zenon DEF InOnePlace

\* take_from_inbox moves a queue's connections into its shard, or closes them.
LEMMA TakePlace ==
  ASSUME IInv, NEW s \in Shards, TakeQueue(s)
  PROVE  InOnePlace'
<1>1. PICK refused \in SUBSET Queued(s) :
        /\ live' = [live EXCEPT ![s] = @ \cup (Queued(s) \ refused)]
        /\ closed' = closed \cup refused
  BY Zenon DEF TakeQueue, Queued
<1>2. queue'[s] = <<>> /\ Queued(s)' = {}
  BY DEF IInv, TakeQueue, TypeOK, Queued
<1>3. live'[s] = live[s] \cup (Queued(s) \ refused)
  BY <1>1, Zenon DEF IInv, TypeOK
<1>4. Of(s)' = Of(s) \ refused
  <2>1. Queued(s) \cap live[s] = {}
    BY Zenon DEF IInv, InOnePlace
  <2> QED
    BY <1>2, <1>3, <2>1, Zenon DEF Of
<1>5. refused \subseteq Of(s)
  BY Zenon DEF Of
<1>6. Of(s) \cap closed = {}
  BY Zenon DEF IInv, InOnePlace
<1>7. \A t \in Shards \ {s} : queue'[t] = queue[t] /\ live'[t] = live[t]
  BY <1>1, Zenon DEF IInv, TakeQueue, TypeOK
<1>8. hand' = hand /\ accepted' = accepted
  BY Zenon DEF TakeQueue, acceptorVars
<1>9. Of(s)' \cup closed' = Of(s) \cup closed /\ Of(s)' \cap closed' = {} /\ closed \subseteq closed'
  BY <1>1, <1>4, <1>5, <1>6, Zenon
<1>10. Queued(s)' \cap live'[s] = {}
  BY <1>2, Zenon
<1>11. \A i, j \in 1..Len(queue'[s]) : i # j => queue'[s][i] # queue'[s][j]
  BY <1>2
<1> QED
  BY <1>7, <1>8, <1>9, <1>10, <1>11, ShardMove, Zenon DEF IInv

\* A connection that finishes, or that the end of the drain closes, leaves its shard.
LEMMA ClosePlace ==
  ASSUME IInv, NEW s \in Shards, NEW gone \in SUBSET live[s],
         live' = [live EXCEPT ![s] = @ \ gone], closed' = closed \cup gone,
         UNCHANGED <<queue, acceptorVars>>
  PROVE  InOnePlace'
<1>1. live'[s] = live[s] \ gone /\ Queued(s)' = Queued(s)
  BY Zenon DEF IInv, TypeOK, Queued
<1>2. Queued(s) \cap live[s] = {} /\ Of(s) \cap closed = {}
  BY Zenon DEF IInv, InOnePlace
<1>3. Of(s)' = Of(s) \ gone /\ gone \subseteq Of(s)
  BY <1>1, <1>2, Zenon DEF Of
<1>4. \A t \in Shards \ {s} : queue'[t] = queue[t] /\ live'[t] = live[t]
  BY Zenon DEF IInv, TypeOK
<1>5. hand' = hand /\ accepted' = accepted
  BY Zenon DEF acceptorVars
<1>6. Of(s)' \cup closed' = Of(s) \cup closed /\ Of(s)' \cap closed' = {} /\ closed \subseteq closed'
  BY <1>2, <1>3, Zenon
<1>7. Queued(s)' \cap live'[s] = {}
  BY <1>1, <1>2, Zenon
<1>8. \A i, j \in 1..Len(queue'[s]) : i # j => queue'[s][i] # queue'[s][j]
  BY DEF IInv, InOnePlace
<1> QED
  BY <1>4, <1>5, <1>6, <1>7, <1>8, ShardMove, Zenon DEF IInv

\* Every other step leaves the connections where they are.
LEMMA SamePlace ==
  ASSUME InOnePlace, UNCHANGED <<queue, live, closed, hand, accepted>>
  PROVE  InOnePlace'
<1>1. \A s \in Shards : Queued(s)' = Queued(s) /\ Of(s)' = Of(s)
  BY Zenon DEF Of, Queued
<1>2. UNION {Of(s)' : s \in Shards} = UNION {Of(s) : s \in Shards}
  BY <1>1, Zenon
<1> QED
  BY <1>1, <1>2 DEF InOnePlace

\* Every step keeps every connection in one place.
LEMMA PlaceStep == IInv /\ [Next]_vars => InOnePlace'
<1> SUFFICES ASSUME IInv, [Next]_vars PROVE InOnePlace'
  BY Zenon
<1>1. CASE \/ Signal \/ MakeShard \/ MakeFails \/ CheckStop \/ AcceptNothing \/ Wake \/ Join
           \/ Returned \/ Hangs \/ UNCHANGED vars
  <2>1. UNCHANGED <<queue, live, closed, hand, accepted>>
    BY <1>1, Zenon DEF Signal, MakeShard, MakeFails, CheckStop, AcceptNothing, Wake, Join, Returned, Hangs, vars,
                shardVars
  <2> QED
    BY <2>1, SamePlace, Zenon DEF IInv
<1>2. CASE Accept
  BY <1>2, AcceptPlace, Zenon
<1>3. CASE Push
  BY <1>3, PushPlace, Zenon
<1>4. ASSUME NEW s \in Shards,
             \/ HandlerTells(s) \/ RunTells(s) \/ StartShard(s) \/ Open(s) \/ OpenFails(s) \/ PollFails(s)
             \/ ShardCheckStop(s) \/ OtherEvents(s) \/ TakeBytes(s)
      PROVE  InOnePlace'
  <2>1. UNCHANGED <<queue, live, closed, hand, accepted>>
    BY <1>4, Zenon DEF HandlerTells, RunTells, StartShard, Open, OpenFails, PollFails, ShardCheckStop, OtherEvents,
                TakeBytes, acceptorVars, shardVars
  <2> QED
    BY <2>1, SamePlace, Zenon DEF IInv
<1>5. ASSUME NEW s \in Shards, TakeQueue(s) PROVE InOnePlace'
  BY <1>5, TakePlace, Zenon
<1>6. ASSUME NEW s \in Shards, NEW c \in Conns, Finish(s, c) PROVE InOnePlace'
  <2>1. {c} \in SUBSET live[s]
    BY <1>6, Zenon DEF Finish
  <2>2. live' = [live EXCEPT ![s] = @ \ {c}] /\ closed' = closed \cup {c} /\ UNCHANGED <<queue, acceptorVars>>
    BY <1>6, Zenon DEF Finish
  <2> QED
    BY <2>1, <2>2, ClosePlace, Zenon
<1>7. ASSUME NEW s \in Shards, Drained(s) PROVE InOnePlace'
  <2>1. live' = [live EXCEPT ![s] = @ \ live[s]]
    BY <1>7, Zenon DEF Drained, IInv, TypeOK
  <2>2. closed' = closed \cup live[s] /\ UNCHANGED <<queue, acceptorVars>>
    BY <1>7, Zenon DEF Drained
  <2> QED
    BY <2>1, <2>2, ClosePlace, Zenon
<1> QED
  BY <1>1, <1>2, <1>3, <1>4, <1>5, <1>6, <1>7, Zenon DEF Next, AcceptorStep, ShardStep, Fault

-----------------------------------------------------------------------------
(* Round robin *)

\* The remainder of a division is unique.
LEMMA Remainder ==
  ASSUME NEW n \in Nat \ {0}, NEW a \in Nat, NEW q \in Nat, NEW r \in 0..(n - 1), a = n * q + r
  PROVE  a % n = r
OBVIOUS

\* One more turn is the turn of the next shard, which after the last one is the first.
LEMMA NextTurn ==
  ASSUME NEW a \in Nat, NEW k \in Shards, \E q \in Nat : a = NumShards * q + k
  PROVE  \E q \in Nat : a + 1 = NumShards * q + ((k + 1) % NumShards)
<1> USE ShardAssumption
<1>1. PICK q \in Nat : a = NumShards * q + k
  BY Zenon
<1>2. k \in 0..(NumShards - 1)
  BY Zenon DEF Shards
<1>3. CASE k + 1 < NumShards
  <2>1. (k + 1) % NumShards = k + 1
    <3>1. k + 1 = NumShards * 0 + (k + 1) /\ k + 1 \in 0..(NumShards - 1) /\ k + 1 \in Nat
      BY <1>2, <1>3
    <3> QED
      BY <3>1, Remainder, Zenon
  <2>2. a + 1 = NumShards * q + ((k + 1) % NumShards)
    BY <1>1, <1>2, <2>1
  <2> QED
    BY <2>2, Zenon
<1>4. CASE k + 1 = NumShards
  <2>1. (k + 1) % NumShards = 0
    <3>1. k + 1 = NumShards * 1 + 0 /\ 0 \in 0..(NumShards - 1) /\ k + 1 \in Nat
      BY <1>2, <1>4
    <3> QED
      BY <3>1, Remainder, Zenon
  <2>2. NumShards * (q + 1) = NumShards * q + NumShards
    OBVIOUS
  <2>3. a + 1 = NumShards * (q + 1) + ((k + 1) % NumShards)
    BY <1>1, <1>2, <1>4, <2>1, <2>2
  <2>4. q + 1 \in Nat
    OBVIOUS
  <2> QED
    BY <2>3, <2>4, Zenon
<1> QED
  BY <1>2, <1>3, <1>4

\* accept_loop keeps the count and the turn together.
LEMMA TurnStep == IInv /\ TurnInv /\ [Next]_vars => TurnInv'
<1> SUFFICES ASSUME IInv, TurnInv, [Next]_vars PROVE TurnInv'
  BY Zenon
<1>0. next \in Shards /\ accepted \in Nat /\ Turned \in Nat
  BY DEF IInv, TypeOK, TurnInv
<1>1. ASSUME Turned' = Turned, next' = next PROVE TurnInv'
  BY <1>1, Zenon DEF TurnInv
<1>2. ASSUME apc = "wake", apc' = "accept", accepted' = accepted, next' = (next + 1) % NumShards PROVE TurnInv'
  <2>1. Turned' = Turned + 1
    BY <1>0, <1>2 DEF Turned
  <2>2. \E q \in Nat : Turned = NumShards * q + next
    BY Zenon DEF TurnInv
  <2>3. \E q \in Nat : Turned + 1 = NumShards * q + ((next + 1) % NumShards)
    BY <1>0, <2>2, NextTurn, Zenon
  <2> QED
    BY <1>0, <1>2, <2>1, <2>3 DEF TurnInv
<1>3. CASE Signal
  BY <1>1, <1>2, <1>3, Zenon DEF Signal, Blocked, Turned
<1>4. CASE Wake
  BY <1>2, <1>4, Zenon DEF Wake
<1>5. CASE MakeShard \/ MakeFails \/ CheckStop \/ AcceptNothing \/ Push \/ Join \/ Returned \/ Hangs
           \/ UNCHANGED vars
  BY <1>1, <1>5, Zenon DEF MakeShard, MakeFails, CheckStop, AcceptNothing, Push, Join, Returned, Hangs, vars, Turned
<1>6. CASE Accept
  BY <1>0, <1>1, <1>6 DEF Accept, Turned
<1>7. ASSUME NEW s \in Shards, StartShard(s) PROVE TurnInv'
  BY <1>1, <1>7, Zenon DEF StartShard, Turned
<1>8. ASSUME NEW s \in Shards, HandlerTells(s) \/ RunTells(s) \/ OpenFails(s) \/ PollFails(s) \/ ShardStep(s)
      PROVE  TurnInv'
  BY <1>1, <1>8, Zenon DEF HandlerTells, RunTells, OpenFails, PollFails, ShardStep, Open, ShardCheckStop, OtherEvents,
                    TakeBytes, TakeQueue, Finish, Drained, acceptorVars, Turned
<1> QED
  BY <1>3, <1>4, <1>5, <1>6, <1>7, <1>8, Zenon DEF Next, AcceptorStep, Fault

\* A step that brings no shard a connection, and leaves each queue or empties it.
LEMMA NoneNew ==
  ASSUME RoundRobin,
         \A s \in Shards : Of(s)' \subseteq Of(s) /\ queue'[s] \in {queue[s], <<>>}
  PROVE  RoundRobin'
<1>1. ASSUME NEW s \in Shards, NEW c \in Of(s)' PROVE (c - 1) % NumShards = s
  BY <1>1, Zenon DEF RoundRobin
<1>2. ASSUME NEW s \in Shards PROVE \A i, j \in 1..Len(queue'[s]) : i < j => queue'[s][i] < queue'[s][j]
  BY DEF RoundRobin
<1> QED
  BY <1>1, <1>2, Zenon DEF RoundRobin

\* push gives the connection to the shard of its number, behind smaller ones.
LEMMA PushRound == IInv /\ TurnInv /\ RoundRobin /\ Push => RoundRobin'
<1> SUFFICES ASSUME IInv, TurnInv, RoundRobin, Push PROVE RoundRobin'
  BY Zenon
<1>0. PICK n \in Shards : n = next
  BY Zenon DEF IInv, TypeOK
<1>1. hand \in Conns /\ hand = accepted /\ accepted \in Nat
  BY DEF IInv, HandInv, Push, TypeOK
<1>2. (hand - 1) % NumShards = n
  <2>1. PICK q \in Nat : accepted - 1 = NumShards * q + n
    BY <1>0, Zenon DEF TurnInv, Turned, Push
  <2>2. accepted - 1 \in Nat /\ n \in 0..(NumShards - 1)
    BY Zenon DEF TurnInv, Turned, Push, Shards
  <2> QED
    BY <1>1, <2>1, <2>2, Remainder, ShardAssumption, Zenon
<1>3. queue[n] \in Seq(Conns) /\ queue'[n] = Append(queue[n], hand) /\ live' = live
  BY <1>0, <1>1, Zenon DEF IInv, Push, TypeOK, shardVars
<1>4. \A t \in Shards \ {n} : queue'[t] = queue[t] /\ Of(t)' = Of(t)
  BY <1>0, <1>3 DEF IInv, Push, TypeOK, Of, Queued
<1>5. Of(n)' = Of(n) \cup {hand}
  BY <1>1, <1>3, QueuedAppend DEF Of, Queued
<1>6. \A i \in 1..Len(queue[n]) : queue[n][i] \in Nat /\ queue[n][i] < hand
  <2>1. ASSUME NEW i \in 1..Len(queue[n]) PROVE queue[n][i] \in Nat /\ queue[n][i] < hand
    <3>1. queue[n][i] \in Of(n)
      BY Zenon DEF Of, Queued
    <3>2. Of(n) \subseteq 1..accepted /\ hand \notin Of(n)
      BY Zenon DEF IInv, InOnePlace
    <3> QED
      BY <1>1, <3>1, <3>2
  <2> QED
    BY <2>1, Zenon
<1>7. \A i, j \in 1..Len(queue'[n]) : i < j => queue'[n][i] < queue'[n][j]
  <2>1. \A i, j \in 1..Len(queue[n]) : i < j => queue[n][i] < queue[n][j]
    BY Zenon DEF RoundRobin
  <2> QED
    BY <1>1, <1>3, <1>6, <2>1
<1>8. \A t \in Shards : \A c \in Of(t)' : (c - 1) % NumShards = t
  BY <1>2, <1>4, <1>5 DEF RoundRobin
<1>9. \A t \in Shards : \A i, j \in 1..Len(queue'[t]) : i < j => queue'[t][i] < queue'[t][j]
  BY <1>4, <1>7, Zenon DEF RoundRobin
<1> QED
  BY <1>8, <1>9, Zenon DEF RoundRobin

\* Every step keeps the distribution.
LEMMA RoundStep == IInv /\ TurnInv /\ RoundRobin /\ [Next]_vars => RoundRobin'
<1> SUFFICES ASSUME IInv, TurnInv, RoundRobin, [Next]_vars PROVE RoundRobin'
  BY Zenon
<1>1. CASE Push
  BY <1>1, PushRound, Zenon
<1>2. ASSUME UNCHANGED <<queue, live>> PROVE RoundRobin'
  BY <1>2, NoneNew, Zenon DEF Of, Queued
<1>3. CASE \/ Signal \/ MakeShard \/ MakeFails \/ CheckStop \/ AcceptNothing \/ Accept \/ Wake \/ Join
           \/ Returned \/ Hangs \/ UNCHANGED vars
  BY <1>2, <1>3, Zenon DEF Signal, MakeShard, MakeFails, CheckStop, AcceptNothing, Accept, Wake, Join, Returned, Hangs,
                    vars, shardVars
<1>4. ASSUME NEW s \in Shards,
             \/ HandlerTells(s) \/ RunTells(s) \/ StartShard(s) \/ Open(s) \/ OpenFails(s) \/ PollFails(s)
             \/ ShardCheckStop(s) \/ OtherEvents(s) \/ TakeBytes(s)
      PROVE  RoundRobin'
  BY <1>2, <1>4, Zenon DEF HandlerTells, RunTells, StartShard, Open, OpenFails, PollFails, ShardCheckStop, OtherEvents,
                    TakeBytes, shardVars
<1>5. ASSUME NEW s \in Shards, TakeQueue(s) PROVE RoundRobin'
  <2>1. \A t \in Shards \ {s} : queue'[t] = queue[t] /\ live'[t] = live[t]
    BY <1>5 DEF IInv, TakeQueue, TypeOK
  <2>2. queue'[s] = <<>> /\ live'[s] \subseteq Queued(s) \cup live[s]
    BY <1>5 DEF IInv, TakeQueue, TypeOK, Queued
  <2>3. Queued(s)' = {}
    BY <2>2 DEF Queued
  <2>4. \A t \in Shards : Of(t)' \subseteq Of(t)
    BY <2>1, <2>2, <2>3 DEF Of, Queued
  <2> QED
    BY <2>1, <2>2, <2>4, NoneNew, Zenon
<1>6. ASSUME NEW s \in Shards, UNCHANGED queue, live'[s] \subseteq live[s],
             \A t \in Shards \ {s} : live'[t] = live[t]
      PROVE  RoundRobin'
  <2>1. \A t \in Shards : Queued(t)' = Queued(t) /\ live'[t] \subseteq live[t]
    BY <1>6 DEF Queued
  <2> QED
    BY <1>6, <2>1, NoneNew, Zenon DEF Of
<1>7. ASSUME NEW s \in Shards, NEW c \in Conns, Finish(s, c) PROVE RoundRobin'
  BY <1>6, <1>7, Zenon DEF Finish, IInv, TypeOK
<1>8. ASSUME NEW s \in Shards, Drained(s) PROVE RoundRobin'
  BY <1>6, <1>8, Zenon DEF Drained, IInv, TypeOK
<1> QED
  BY <1>1, <1>3, <1>4, <1>5, <1>7, <1>8, Zenon DEF Next, AcceptorStep, ShardStep, Fault

-----------------------------------------------------------------------------
(* The shards implement Backend *)

\* A loop that has not begun or has ended has no connection; before accept_loop() nothing is
\* accepted; and run() goes on to the shutdown only after a stop.
Ended ==
  /\ \A s \in Shards : spc[s] \in {"none", "open", "exited"} => live[s] = {}
  /\ apc = "make" => accepted = 0
  /\ apc = "stop_loops" => stop

\* Connection c is over.
Dead(c) == c \in closed \/ \E s \in Shards : spc[s] = "exited" /\ c \in Queued(s)

\* Every step keeps this.
LEMMA EndedStep == IInv /\ Ended /\ [Next]_vars => Ended'
<1> SUFFICES ASSUME IInv, Ended, [Next]_vars PROVE Ended'
  BY Zenon
<1> USE DEF Ended
<1>1. CASE \/ Signal \/ MakeShard \/ MakeFails \/ CheckStop \/ AcceptNothing \/ Accept \/ Push \/ Wake \/ Join
           \/ Returned \/ Hangs \/ UNCHANGED vars
  <2>1. UNCHANGED <<spc, live>>
    BY <1>1, Zenon DEF Signal, MakeShard, MakeFails, CheckStop, AcceptNothing, Accept, Push, Wake, Join, Returned, Hangs,
                vars, shardVars
  <2>2. (apc' = "make" => accepted' = 0) /\ (apc' = "stop_loops" => stop')
    BY <1>1, Zenon DEF Signal, Blocked, MakeShard, MakeFails, CheckStop, AcceptNothing, Accept, Push, Wake, Join, Returned,
                Hangs, vars, stopVars
  <2> QED
    BY <2>1, <2>2, Zenon
<1>2. ASSUME NEW s \in Shards, HandlerTells(s) \/ RunTells(s) PROVE Ended'
  BY <1>2, Zenon DEF HandlerTells, RunTells, acceptorVars, shardVars
<1>3. ASSUME NEW s \in Shards, StartShard(s) PROVE Ended'
  BY <1>3, Zenon DEF StartShard, IInv, TypeOK, stopVars
<1>4. ASSUME NEW s \in Shards,
             \/ Open(s) \/ OpenFails(s) \/ PollFails(s) \/ ShardCheckStop(s) \/ OtherEvents(s) \/ TakeBytes(s)
      PROVE  Ended'
  <2>1. spc'[s] \in {"none", "open", "exited"} => live[s] = {}
    BY <1>4 DEF Open, OpenFails, PollFails, ShardCheckStop, OtherEvents, TakeBytes, IInv, TypeOK
  <2>2. live' = live /\ \A t \in Shards \ {s} : spc'[t] = spc[t]
    BY <1>4, SMTT(30) DEF Open, OpenFails, PollFails, ShardCheckStop, OtherEvents, TakeBytes, IInv, TypeOK
  <2>3. UNCHANGED <<stopVars, acceptorVars>>
    BY <1>4, Zenon DEF Open, OpenFails, PollFails, ShardCheckStop, OtherEvents, TakeBytes
  <2> QED
    BY <2>1, <2>2, <2>3, Zenon DEF stopVars, acceptorVars
<1>5. ASSUME NEW s \in Shards, TakeQueue(s) \/ Drained(s) \/ (\E c \in Conns : Finish(s, c)) PROVE Ended'
  <2>1. spc'[s] \in {"none", "open", "exited"} => live'[s] = {}
    BY <1>5 DEF TakeQueue, Drained, Finish, IInv, TypeOK
  <2>2. \A t \in Shards \ {s} : spc'[t] = spc[t] /\ live'[t] = live[t]
    BY <1>5 DEF TakeQueue, Drained, Finish, IInv, TypeOK
  <2>3. UNCHANGED <<stopVars, acceptorVars>>
    BY <1>5, Zenon DEF TakeQueue, Drained, Finish
  <2> QED
    BY <2>1, <2>2, <2>3, Zenon DEF stopVars, acceptorVars
<1> QED
  BY <1>1, <1>2, <1>3, <1>4, <1>5, Zenon DEF Next, AcceptorStep, ShardStep, Fault

\* Life, in these terms.
LEMMA LifeIs ==
  ASSUME NEW c \in Conns
  PROVE  Life[c] = IF c > accepted THEN "new" ELSE IF Dead(c) THEN "closed" ELSE "live"
BY Zenon DEF Life, Dead

\* A step after which what was over still is closes connections, or does nothing.
LEMMA OnlyCloses ==
  ASSUME accepted \in Nat, UNCHANGED <<stop, accepted>>, (apc' = "returned") <=> (apc = "returned"),
         \A c \in Conns : Dead(c) => Dead(c)'
  PROVE  Promise!CloseConns
<1> DEFINE gone == {c \in Conns : Life[c] = "live" /\ Dead(c)'}
<1>1. gone \in SUBSET {c \in Conns : Life[c] = "live"}
  BY Zenon
<1>2. ASSUME NEW c \in Conns PROVE Life'[c] = IF c \in gone THEN "closed" ELSE Life[c]
  <2>1. Life'[c] = IF c > accepted' THEN "new" ELSE IF Dead(c)' THEN "closed" ELSE "live"
    BY Zenon DEF Life, Dead
  <2> QED
    BY <2>1, LifeIs, Zenon
<1>3. Life' = [c \in Conns |-> IF c \in gone THEN "closed" ELSE Life[c]]
  <2>1. Life' = [c \in Conns |-> Life'[c]]
    BY Zenon DEF Life, Conns
  <2> HIDE DEF gone
  <2> QED
    BY <1>2, <2>1, Zenon
<1>4. (apc = "returned")' = (apc = "returned")
  BY Zenon
<1> HIDE DEF gone
<1> QED
  BY <1>1, <1>3, <1>4, Zenon DEF Promise!CloseConns, Promise!Conns, Conns

\* A step that neither takes a connection from an inbox whose shard has ended nor revives
\* the shard keeps what is over over.
LEMMA DeadStays ==
  ASSUME closed \subseteq closed',
         \A s \in Shards : spc[s] = "exited" => spc'[s] = "exited" /\ Queued(s) \subseteq Queued(s)'
  PROVE  \A c \in Conns : Dead(c) => Dead(c)'
BY Zenon DEF Dead

\* accept: the next connection is alive.
LEMMA AcceptAsBackend == IInv /\ Accept => Promise!Accept
<1> SUFFICES ASSUME IInv, Accept PROVE Promise!Accept
  BY Zenon
<1> DEFINE c == accepted + 1
<1>1. accepted \in Nat /\ c \in Conns /\ MaxConns \in Nat /\ accepted' = accepted + 1 /\ hand = None
  BY ShardAssumption DEF IInv, TypeOK, HandInv, Accept, Conns
<1>2. UNCHANGED <<stop, queue, spc, live, closed>> /\ apc = "accept" /\ apc' = "push"
  BY Zenon DEF Accept, stopVars, shardVars
<1>3. ASSUME NEW d \in Conns PROVE Dead(d)' = Dead(d)
  BY <1>2, Zenon DEF Dead, Queued
<1>4. ~Dead(c)
  <2>1. closed \subseteq 1..accepted /\ \A s \in Shards : Of(s) \subseteq 1..accepted
    BY Zenon DEF IInv, InOnePlace
  <2>2. c \notin 1..accepted
    BY <1>1
  <2> QED
    BY <2>1, <2>2, Zenon DEF Dead, Of
<1>5. Life[c] = "new" /\ \A d \in 1..(c - 1) : Life[d] # "new"
  <2>1. c > accepted
    BY <1>1
  <2>2. \A d \in 1..(c - 1) : d \in Conns /\ ~(d > accepted)
    BY <1>1 DEF Conns
  <2> QED
    BY <1>1, <2>1, <2>2, LifeIs, Zenon
<1>6. ASSUME NEW d \in Conns PROVE Life'[d] = IF d = c THEN "live" ELSE Life[d]
  <2>1. Life'[d] = IF d > accepted' THEN "new" ELSE IF Dead(d)' THEN "closed" ELSE "live"
    BY Zenon DEF Life, Dead
  <2>2. d > accepted' <=> d > accepted /\ d # c
    BY <1>1 DEF Conns
  <2>3. d = c => ~(d > accepted') /\ ~Dead(d)'
    BY <1>1, <1>3, <1>4, <2>2, Zenon
  <2> QED
    BY <1>3, <2>1, <2>2, <2>3, LifeIs, Zenon
<1>7. Life' = [Life EXCEPT ![c] = "live"]
  <2>1. Life' = [d \in Conns |-> Life'[d]] /\ Life = [d \in Conns |-> Life[d]]
    BY Zenon DEF Life, Conns
  <2> HIDE DEF c
  <2> QED
    BY <1>6, <2>1, Zenon
<1>8. (apc = "returned") = FALSE /\ (apc = "returned")' = FALSE
  BY <1>2, Zenon
<1>9. \E d \in Promise!Conns :
        Life[d] = "new" /\ (\A e \in 1..(d - 1) : Life[e] # "new") /\ Life' = [Life EXCEPT ![d] = "live"]
  <2>1. c \in Promise!Conns
    BY <1>1, Zenon DEF Promise!Conns, Conns
  <2> HIDE DEF c
  <2> QED
    BY <1>5, <1>7, <2>1, Zenon
<1> QED
  BY <1>2, <1>8, <1>9, Zenon DEF Promise!Accept

\* run() returns: after the join, or because an Inbox could not be made.
LEMMA ReturnAsBackend == IInv /\ Ended /\ (Join \/ MakeFails) => Promise!Return
<1> SUFFICES ASSUME IInv, Ended, Join \/ MakeFails PROVE Promise!Return
  BY Zenon
<1>1. accepted \in Nat
  BY DEF IInv, TypeOK
<1>2. UNCHANGED <<stop, accepted, queue, spc, closed>> /\ apc' = "returned" /\ apc \in {"stop_loops", "make"}
  BY Zenon DEF Join, MakeFails, stopVars, shardVars
<1>3. Life' = Life
  BY <1>2 DEF Life, Queued
<1>4. CASE Join
  <2>1. stop /\ hand = None
    BY <1>4, Zenon DEF Join, Ended, IInv, HandInv
  <2>2. ASSUME NEW c \in Conns, ~(c > accepted) PROVE Dead(c)
    <3>1. c \in 1..accepted
      BY <1>1, <2>2 DEF Conns
    <3>2. c \in closed \/ \E s \in Shards : c \in Of(s)
      BY <2>1, <3>1 DEF IInv, InOnePlace
    <3>3. \A s \in Shards : spc[s] = "exited" /\ Of(s) = Queued(s)
      BY <1>4, Zenon DEF Join, Ended, Of
    <3> QED
      BY <3>2, <3>3, Zenon DEF Dead
  <2>3. \A c \in Conns : Life[c] # "live"
    BY <2>2, LifeIs, Zenon
  <2>4. (apc = "returned")' = TRUE
    BY <1>2, Zenon
  <2> QED
    BY <1>2, <1>3, <2>1, <2>3, <2>4, Zenon DEF Promise!Return, Promise!Conns, Conns
<1>5. CASE MakeFails
  <2>1. accepted = 0
    BY <1>5, Zenon DEF MakeFails, Ended
  <2>2. \A c \in Conns : Life[c] = "new"
    BY <2>1, LifeIs DEF Conns
  <2>3. (apc = "returned")' = TRUE
    BY <1>2, Zenon
  <2> QED
    BY <1>2, <1>3, <2>2, <2>3, Zenon DEF Promise!Return, Promise!Conns, Conns
<1> QED
  BY <1>4, <1>5, Zenon

\* Every step is one of the promise, or nothing to it.
LEMMA ShardsStepAsBackend == IInv /\ Ended /\ [Next]_vars => [Promise!Next]_(Promise!vars)
<1> SUFFICES ASSUME IInv, Ended, [Next]_vars PROVE [Promise!Next]_(Promise!vars)
  BY Zenon
<1>0. accepted \in Nat
  BY DEF IInv, TypeOK
<1>1. CASE Signal
  <2>1. UNCHANGED <<accepted, queue, spc, closed>> /\ stop' = TRUE
    BY <1>1, Zenon DEF Signal, shardVars
  <2>2. Life' = Life
    BY <2>1 DEF Life, Queued
  <2>3. (apc = "returned")' = (apc = "returned")
    BY <1>1, Zenon DEF Signal, Blocked
  <2>4. Promise!Stop
    BY <2>1, <2>2, <2>3, Zenon DEF Promise!Stop
  <2> QED
    BY <2>4, Zenon DEF Promise!Next
<1>2. CASE Accept
  BY <1>2, AcceptAsBackend, Zenon DEF Promise!Next
<1>3. CASE Join \/ MakeFails
  BY <1>3, ReturnAsBackend, Zenon DEF Promise!Next
<1>4. ASSUME UNCHANGED <<stop, accepted>>, (apc' = "returned") <=> (apc = "returned"), closed \subseteq closed',
             \A s \in Shards : spc[s] = "exited" => spc'[s] = "exited" /\ Queued(s) \subseteq Queued(s)'
      PROVE  [Promise!Next]_(Promise!vars)
  <2>1. Promise!CloseConns
    BY <1>0, <1>4, DeadStays, OnlyCloses, Zenon
  <2> QED
    BY <2>1, Zenon DEF Promise!Next
<1>5. CASE MakeShard \/ CheckStop \/ AcceptNothing \/ Wake \/ Returned \/ Hangs \/ UNCHANGED vars
  <2>1. UNCHANGED <<stop, accepted, closed, spc, queue>> /\ ((apc' = "returned") <=> (apc = "returned"))
    BY <1>5, Zenon DEF MakeShard, CheckStop, AcceptNothing, Wake, Returned, Hangs, vars, stopVars, shardVars
  <2> QED
    BY <1>4, <2>1, Zenon DEF Queued
<1>6. CASE Push
  <2>0. PICK n \in Shards : n = next
    BY Zenon DEF IInv, TypeOK
  <2>1. UNCHANGED <<stop, accepted, closed, spc>> /\ apc = "push" /\ apc' = "wake" /\ hand \in Conns
    BY <1>6, Zenon DEF Push, stopVars, shardVars, IInv, HandInv, TypeOK
  <2>2. queue[n] \in Seq(Conns) /\ queue'[n] = Append(queue[n], hand) /\ \A t \in Shards \ {n} : queue'[t] = queue[t]
    BY <1>6, <2>0, Zenon DEF Push, IInv, TypeOK
  <2>3. Queued(n)' = Queued(n) \cup {hand}
    BY <2>1, <2>2, QueuedAppend DEF Queued
  <2>4. \A t \in Shards \ {n} : Queued(t)' = Queued(t)
    BY <2>2, Zenon DEF Queued
  <2>5. \A s \in Shards : Queued(s) \subseteq Queued(s)'
    BY <2>3, <2>4, Zenon
  <2> QED
    BY <1>4, <2>1, <2>5, Zenon
<1>7. ASSUME NEW s \in Shards,
             \/ HandlerTells(s) \/ RunTells(s) \/ StartShard(s) \/ Open(s) \/ OpenFails(s) \/ PollFails(s)
             \/ ShardCheckStop(s) \/ OtherEvents(s) \/ TakeBytes(s) \/ Drained(s) \/ (\E c \in Conns : Finish(s, c))
      PROVE  [Promise!Next]_(Promise!vars)
  <2>1. UNCHANGED <<stop, accepted, queue>> /\ closed \subseteq closed' /\ ((apc' = "returned") <=> (apc = "returned"))
    BY <1>7, Zenon DEF HandlerTells, RunTells, StartShard, Open, OpenFails, PollFails, ShardCheckStop, OtherEvents, TakeBytes,
                Drained, Finish, stopVars, acceptorVars, shardVars
  <2>2. \A t \in Shards : spc[t] = "exited" => spc'[t] = "exited"
    BY <1>7, Zenon DEF HandlerTells, RunTells, StartShard, Open, OpenFails, PollFails, ShardCheckStop, OtherEvents, TakeBytes,
                Drained, Finish, shardVars, IInv, TypeOK
  <2>3. \A t \in Shards : Queued(t)' = Queued(t)
    BY <2>1, Zenon DEF Queued
  <2> QED
    BY <1>4, <2>1, <2>2, <2>3, Zenon
<1>8. ASSUME NEW s \in Shards, TakeQueue(s) PROVE [Promise!Next]_(Promise!vars)
  <2>1. UNCHANGED <<stop, accepted, apc>> /\ closed \subseteq closed' /\ spc[s] = "adopt"
    BY <1>8, Zenon DEF TakeQueue, stopVars, acceptorVars
  <2>2. \A t \in Shards \ {s} : spc'[t] = spc[t] /\ queue'[t] = queue[t]
    BY <1>8, Zenon DEF TakeQueue, IInv, TypeOK
  <2>3. \A t \in Shards : spc[t] = "exited" => t \in Shards \ {s}
    BY <2>1, Zenon
  <2>4. \A t \in Shards \ {s} : Queued(t)' = Queued(t)
    BY <2>2, Zenon DEF Queued
  <2> QED
    BY <1>4, <2>1, <2>2, <2>3, <2>4, Zenon
<1> QED
  BY <1>1, <1>2, <1>3, <1>5, <1>6, <1>7, <1>8, Zenon DEF Next, AcceptorStep, ShardStep, Fault

-----------------------------------------------------------------------------
(* The theorems *)

\* The inductive invariant.
THEOREM Invariance == Spec => []IInv
<1>1. IInv /\ [Next]_vars => IInv'
  BY TypeStep, HandStep, HandOffStep, PlaceStep, Zenon DEF IInv
<1> QED
  BY <1>1, InitInv, PTL DEF Spec

\* The types hold: no pipe is written past its capacity, and the turn always
\* belongs to one of the shards.
THEOREM TypeCorrect == Spec => []TypeOK
BY Invariance, PTL DEF IInv

\* Inbox::push and take_from_inbox never lose a wake-up, for any number of shards
\* and any capacity of the pipes.
THEOREM NoWakeUpLost == Spec => []NoLostHandOff
BY Invariance, PTL DEF IInv

\* No connection is lost, duplicated or given to two shards by the hand-off.
THEOREM OnePlace == Spec => []InOnePlace
BY Invariance, PTL DEF IInv

\* accept_loop distributes exactly round robin, for any number of shards: the c-th
\* connection is in the inbox or the loop of shard (c - 1) % N and nowhere else, also when
\* a signal interrupts a hand-off and when shards fail.
THEOREM ExactDistribution == Spec => []RoundRobin
<1>1. Init => TurnInv /\ RoundRobin
  <2> SUFFICES ASSUME Init PROVE TurnInv /\ RoundRobin
    BY Zenon
  <2>1. Turned = 0 /\ next = 0
    BY Zenon DEF Init, Turned
  <2>2. 0 = NumShards * 0 + 0
    BY ShardAssumption
  <2>3. TurnInv
    BY <2>1, <2>2, Zenon DEF TurnInv
  <2>4. RoundRobin
    BY DEF Init, RoundRobin, Of, Queued
  <2> QED
    BY <2>3, <2>4, Zenon
<1>2. IInv /\ TurnInv /\ RoundRobin /\ [Next]_vars => (TurnInv /\ RoundRobin)'
  BY TurnStep, RoundStep, Zenon
<1> QED
  BY <1>1, <1>2, Invariance, PTL DEF Spec

\* accept_loop, Inbox::push and take_from_inbox: every connection is in exactly one place,
\* with the shard whose turn it was, for any number of shards and any faults.
THEOREM EachToItsShard == Spec => []OneShardEach
<1>1. InOnePlace /\ RoundRobin => OneShardEach
  BY Zenon DEF OneShardEach
<1> QED
  BY <1>1, OnePlace, ExactDistribution, PTL

\* ShardedEventLoop::run keeps the promise of backend.hpp and main.cpp, for any number of
\* shards and whichever of them fail: connections are accepted in order and closed once, and
\* when run() returns none is alive.
THEOREM ShardsAreBackend == Spec => ImplementsBackend
<1>1. Init => Ended /\ Promise!Init
  <2> SUFFICES ASSUME Init PROVE Ended /\ Promise!Init
    BY Zenon
  <2>1. Life = [c \in Conns |-> "new"]
    BY DEF Init, Life, Conns
  <2>2. (apc = "returned") = FALSE
    BY Zenon DEF Init
  <2>3. Ended
    BY Zenon DEF Init, Ended
  <2> QED
    BY <2>1, <2>2, <2>3, Zenon DEF Init, Promise!Init, Promise!Conns, Conns
<1> QED
  BY <1>1, EndedStep, ShardsStepAsBackend, Invariance, PTL DEF Spec, ImplementsBackend, Promise!Spec
=============================================================================
