----------------------------- MODULE MainProofs -----------------------------
(***************************************************************************)
(* Proofs about main() and the Resolver that it owns.                      *)
(*                                                                         *)
(* For the Resolver: that answers are published before they are signalled, *)
(* that no job is left unanswered by shutdown() and no notification is     *)
(* lost, for any number of resolver threads, connections, names and        *)
(* lookups.  The invariant says where a job is: a job that a connection    *)
(* waits for is in the queue, or in the hands of one thread, or answered;  *)
(* and which of its fields are set at each of these places.                *)
(*                                                                         *)
(* For the start-up: where each field of the configuration comes from, who *)
(* reaches a cache without a lock, and the descriptor limit, for any sets  *)
(* of flags, lines and values, any number of arguments and lines, and any  *)
(* numbers of loops, workers and connections.                              *)
(***************************************************************************)
EXTENDS Main, Resolver, SequenceTheorems, TLAPS

-----------------------------------------------------------------------------
(* The Resolver *)

Busy(t)   == tpc[t] \in {"lookup", "publish", "cache", "ready", "byte"}
Active(c) == cpc[c] \in {"enqueue", "notify", "pending"}
Queued(j) == \E i \in 1..Len(queue) : queue[i] = j

InHand ==
  /\ \A t \in Threads : Busy(t) =>
       /\ tjob[t] \in 1..Started /\ ~Queued(tjob[t]) /\ ~byte[tjob[t]]
       /\ ready[tjob[t]] <=> tpc[t] = "byte"
       /\ tpc[t] \in {"cache", "ready", "byte"} /\ ok[tjob[t]] => endpoints[tjob[t]] # 0
  /\ \A s, t \in Threads : Busy(s) /\ Busy(t) /\ tjob[s] = tjob[t] => s = t

InQueue ==
  /\ \A i \in 1..Len(queue) : queue[i] \in 1..Started /\ ~ready[queue[i]] /\ ~byte[queue[i]]
  /\ \A i, k \in 1..Len(queue) : queue[i] = queue[k] => i = k

\* No thread has seen the job that c is about to queue.
Unseen(c) ==
  /\ ~Queued(cjob[c]) /\ ~ready[cjob[c]] /\ ~byte[cjob[c]]
  /\ \A t \in Threads : Busy(t) => tjob[t] # cjob[c]

\* The job that c waits for is on its way to be answered, or is.
Awaited(c) ==
  /\ Queued(cjob[c]) \/ (\E t \in Threads : Busy(t) /\ tjob[t] = cjob[c]) \/ byte[cjob[c]]
  /\ byte[cjob[c]] => ready[cjob[c]] /\ (ok[cjob[c]] => endpoints[cjob[c]] # 0)

\* Two connections never share a job.
Waited ==
  /\ \A c \in Callers : cpc[c] # "idle" => cjob[c] \in 1..Started
  /\ \A c, d \in Callers : Active(c) /\ Active(d) /\ cjob[c] = cjob[d] => c = d
  /\ \A c \in Callers : cpc[c] = "enqueue" => Unseen(c)
  /\ \A c \in Callers : cpc[c] \in {"notify", "pending"} => Awaited(c)

NotYet == \A j \in Jobs : j > Started => ~ready[j] /\ ~byte[j]

\* A thread is gone only after shutdown() began and with nothing queued; without
\* threads nothing is ever queued.
Ends ==
  /\ mpc # "running" => closed
  /\ \A t \in Threads : tpc[t] = "exited" => queue = <<>> /\ (closed \/ ~async_resolve)
  /\ ~async_resolve => \A c \in Callers : ~Active(c)
  /\ mpc = "joined" => \A t \in Threads : tpc[t] = "exited"

Inv == TypeOK /\ InHand /\ InQueue /\ Waited /\ NotYet /\ Ends

LEMMA InvSuffices == Inv => PublishedThenSignalled /\ NoOrphanJob
<1> SUFFICES ASSUME Inv PROVE PublishedThenSignalled /\ NoOrphanJob
  BY Zenon
<1> USE DEF Inv
<1>1. PublishedThenSignalled
  BY Zenon DEF PublishedThenSignalled, Waited, Awaited, InHand, Busy
<1>2. ASSUME mpc = "joined"
      PROVE  /\ queue = <<>>
             /\ \A c \in Callers : cpc[c] \in {"notify", "pending"} => byte[cjob[c]]
  <2>1. \A t \in Threads : tpc[t] = "exited"
    BY <1>2, Zenon DEF Ends
  <2>2. queue = <<>>
    BY <2>1, ResolverAssumption, Zenon DEF Ends
  <2>3. \A t \in Threads : ~Busy(t)
    BY <2>1, Zenon DEF Busy
  <2>4. \A j : ~Queued(j)
    BY <2>2 DEF Queued
  <2> QED
    BY <2>2, <2>3, <2>4, Zenon DEF Waited, Awaited
<1> QED
  BY <1>1, <1>2, Zenon DEF NoOrphanJob

LEMMA InitInv == Init => Inv
<1> SUFFICES ASSUME Init PROVE Inv
  BY Zenon
<1>1. TypeOK
  <2>1. /\ queue \in Seq(Jobs) /\ key \in Seq(Keys) /\ Started <= MaxJobs /\ Started = 0
    BY ResolverAssumption DEF Init, Started
  <2>2. /\ tpc \in [Threads -> {"pop", "lookup", "publish", "cache", "ready", "byte", "exited"}]
        /\ cpc \in [Callers -> {"idle", "enqueue", "notify", "pending", "lookup", "put"}]
    BY Zenon DEF Init
  <2>3. /\ tjob \in [Threads -> 0..MaxJobs] /\ answer \in [Threads -> 0..MaxVersion]
        /\ cjob \in [Callers -> 0..MaxJobs] /\ got \in [Callers -> 0..MaxVersion]
        /\ endpoints \in [Jobs -> 0..MaxVersion] /\ version \in 1..MaxVersion
    BY ResolverAssumption DEF Init
  <2>4. /\ ok \in [Jobs -> BOOLEAN] /\ ready \in [Jobs -> BOOLEAN] /\ byte \in [Jobs -> BOOLEAN]
    BY Zenon DEF Init
  <2>5. cache \in [Keys -> [answer : 0..MaxVersion, left : 0..Ttl]]
    BY ResolverAssumption DEF Init, NoAnswer
  <2> QED
    BY <2>1, <2>2, <2>3, <2>4, <2>5, Zenon DEF TypeOK, Init
<1>2. /\ \A t \in Threads : ~Busy(t) /\ (tpc[t] = "exited" => ~async_resolve)
      /\ \A c \in Callers : ~Active(c) /\ cpc[c] = "idle"
      /\ \A j : ~Queued(j)
  BY DEF Init, Busy, Active, Queued
<1>3. InHand /\ InQueue
  BY <1>2 DEF InHand, InQueue, Init
<1>4. Waited
  BY <1>2, Zenon DEF Waited
<1>5. NotYet /\ Ends
  BY <1>2, Zenon DEF NotYet, Ends, Init
<1> QED
  BY <1>1, <1>3, <1>4, <1>5, Zenon DEF Inv

\* What Put leaves is a cache.
LEMMA PutType ==
  ASSUME TypeOK, NEW k \in Keys, NEW a \in 0..MaxVersion
  PROVE  Put(k, a) \in [Keys -> [answer : 0..MaxVersion, left : 0..Ttl]]
BY ResolverAssumption DEF TypeOK, Put

\* Steps that touch neither jobs nor who holds them.
Aside ==
  \/ Tick \/ DnsChanges \/ MainStep \/ Joined \/ UNCHANGED vars
  \/ \E t \in Threads : Block(t) \/ Spurious(t)
  \/ \E c \in Callers, k \in Keys : StartHit(c, k)

LEMMA AsideInv == Inv /\ Aside => Inv'
<1> SUFFICES ASSUME Inv, Aside PROVE Inv'
  BY Zenon
<1> USE DEF Inv
<1>1. UNCHANGED <<async_resolve, queue, tpc, tjob, answer, cpc, cjob, key, endpoints, ok, ready, byte>>
  BY Zenon DEF Aside, Tick, DnsChanges, MainStep, Close, NotifyAll, Join, Joined, vars, Block, Spurious,
         StartHit, threadVars, callVars, jobVars
<1>2. TypeOK'
  <2>0. version' \in 1..MaxVersion
    <3>1. CASE DnsChanges
      BY <3>1, ResolverAssumption DEF DnsChanges, TypeOK
    <3>2. CASE ~DnsChanges
      BY <3>2, Zenon DEF Aside, Tick, MainStep, Close, NotifyAll, Join, Joined, vars, Block, Spurious,
             StartHit, TypeOK
    <3> QED
      BY <3>1, <3>2, Zenon
  <2>1. closed' \in BOOLEAN /\ mpc' \in {"running", "notify", "join", "joined"}
    BY Zenon DEF Aside, Tick, DnsChanges, MainStep, Close, NotifyAll, Join, Joined, vars, Block,
           Spurious, StartHit, TypeOK
  <2>2. waiting' \subseteq Threads
    BY Zenon DEF Aside, Tick, DnsChanges, MainStep, Close, NotifyAll, Join, Joined, vars, Block,
           Spurious, StartHit, TypeOK
  <2>3. got' \in [Callers -> 0..MaxVersion]
    BY ZenonT(30) DEF Aside, Tick, DnsChanges, MainStep, Close, NotifyAll, Join, Joined, vars, Block,
           Spurious, StartHit, TypeOK, callVars
  <2>4. cache' \in [Keys -> [answer : 0..MaxVersion, left : 0..Ttl]]
    <3>1. CASE Tick
      <4>1. \A k \in Keys : [cache[k] EXCEPT !.left = IF @ = 0 THEN 0 ELSE @ - 1]
                              \in [answer : 0..MaxVersion, left : 0..Ttl]
        <5> SUFFICES ASSUME NEW k \in Keys
                     PROVE  [cache[k] EXCEPT !.left = IF @ = 0 THEN 0 ELSE @ - 1]
                              \in [answer : 0..MaxVersion, left : 0..Ttl]
          BY Zenon
        <5>1. cache[k] \in [answer : 0..MaxVersion, left : 0..Ttl]
          BY Zenon DEF TypeOK
        <5>2. (IF cache[k].left = 0 THEN 0 ELSE cache[k].left - 1) \in 0..Ttl
          BY <5>1, ResolverAssumption
        <5> QED
          BY <5>1, <5>2, Zenon
      <4> QED
        BY <3>1, <4>1, Zenon DEF Tick
    <3>2. CASE ~Tick
      BY <3>2, Zenon DEF Aside, DnsChanges, MainStep, Close, NotifyAll, Join, Joined, vars, Block,
           Spurious, StartHit, TypeOK
    <3> QED
      BY <3>1, <3>2, Zenon
  <2> QED
    BY <1>1, <2>0, <2>1, <2>2, <2>3, <2>4, Zenon DEF TypeOK, Started
<1>3. Started' = Started /\ \A j : Queued(j)' <=> Queued(j)
  BY <1>1, Zenon DEF Started, Queued
<1>4. /\ \A t \in Threads : Busy(t)' <=> Busy(t)
      /\ \A c \in Callers : Active(c)' <=> Active(c)
  BY <1>1, Zenon DEF Busy, Active
<1>5. InHand'
  BY <1>1, <1>3, <1>4, Zenon DEF InHand
<1>6. InQueue' /\ NotYet'
  BY <1>1, <1>3, Zenon DEF InQueue, NotYet
<1>7. Waited'
  <2>1. \A c \in Callers : (Unseen(c)' <=> Unseen(c)) /\ (Awaited(c)' <=> Awaited(c))
    BY <1>1, Zenon DEF Unseen, Awaited, Queued, Busy
  <2> QED
    BY <1>1, <1>3, <1>4, <2>1, Zenon DEF Waited
<1>8. Ends'
  <2>1. closed => closed'
    BY Zenon DEF Aside, Tick, DnsChanges, MainStep, Close, NotifyAll, Join, Joined, vars, Block, Spurious, StartHit
  <2>2. mpc' # "running" => closed'
    BY Zenon DEF Aside, Tick, DnsChanges, MainStep, Close, NotifyAll, Join, Joined, vars, Block, Spurious, StartHit,
           Ends
  <2>3. mpc' = "joined" => \A t \in Threads : tpc[t] = "exited"
    BY Zenon DEF Aside, Tick, DnsChanges, MainStep, Close, NotifyAll, Join, Joined, vars, Block, Spurious, StartHit,
           Ends
  <2> QED
    BY <1>1, <1>4, <2>1, <2>2, <2>3, Zenon DEF Ends
<1> QED
  BY <1>2, <1>5, <1>6, <1>7, <1>8, Zenon

-----------------------------------------------------------------------------
(* The connections' steps *)

\* A new job has a number that no other has.
LEMMA StartMissInv ==
  ASSUME Inv, NEW c \in Callers, NEW k \in Keys, StartMiss(c, k) PROVE Inv'
<1> USE DEF Inv
<1>0. /\ cpc[c] = "idle" /\ Started < MaxJobs
      /\ UNCHANGED <<async_resolve, version, queue, closed, waiting, mpc, tpc, tjob, answer, got,
                     endpoints, ok, ready, byte>>
  BY Zenon DEF StartMiss, threadVars, jobVars
<1>1. /\ Started \in Nat /\ Started' = Started + 1 /\ key' \in Seq(Keys) /\ MaxJobs \in Nat
  BY ResolverAssumption DEF StartMiss, Started, TypeOK
<1>2. /\ cjob'[c] = Started + 1 /\ cpc'[c] = IF async_resolve THEN "enqueue" ELSE "lookup"
      /\ \A d \in Callers \ {c} : cjob'[d] = cjob[d] /\ cpc'[d] = cpc[d]
  BY Zenon DEF StartMiss, TypeOK
<1>3. TypeOK'
  <2>1. cjob' \in [Callers -> 0..MaxJobs]
    BY <1>0, <1>1 DEF StartMiss, TypeOK
  <2>2. cpc' \in [Callers -> {"idle", "enqueue", "notify", "pending", "lookup", "put"}]
    BY Zenon DEF StartMiss, TypeOK
  <2>3. cache' \in [Keys -> [answer : 0..MaxVersion, left : 0..Ttl]]
    BY ResolverAssumption DEF StartMiss, TypeOK, NoAnswer
  <2>4. Started' <= MaxJobs
    BY <1>0, <1>1
  <2> QED
    BY <1>0, <1>1, <2>1, <2>2, <2>3, <2>4, Zenon DEF TypeOK
<1>4. /\ \A j : Queued(j)' <=> Queued(j)
      /\ \A t \in Threads : Busy(t)' <=> Busy(t)
      /\ Active(c)' => async_resolve
      /\ \A d \in Callers \ {c} : Active(d)' <=> Active(d)
  BY <1>0, <1>2, Zenon DEF Queued, Busy, Active
<1>5. InHand' /\ InQueue'
  <2>1. InHand'
    BY <1>0, <1>1, <1>4 DEF InHand
  <2>2. InQueue'
    BY <1>0, <1>1 DEF InQueue
  <2> QED
    BY <2>1, <2>2, Zenon
<1>6. /\ ~Queued(Started + 1) /\ ~ready[Started + 1] /\ ~byte[Started + 1]
      /\ \A t \in Threads : Busy(t) => tjob[t] # Started + 1
      /\ \A d \in Callers : Active(d) => cjob[d] # Started + 1
  <2>1. Started + 1 \in Jobs /\ Started + 1 > Started /\ Started + 1 \notin 1..Started
    BY <1>0, <1>1 DEF Jobs
  <2>2. ~ready[Started + 1] /\ ~byte[Started + 1]
    BY <2>1, Zenon DEF NotYet
  <2>3. ~Queued(Started + 1)
    BY <2>1, Zenon DEF Queued, InQueue
  <2>4. \A t \in Threads : Busy(t) => tjob[t] # Started + 1
    BY <2>1, Zenon DEF InHand
  <2>5. \A d \in Callers : Active(d) => cjob[d] # Started + 1
    BY <2>1, Zenon DEF Waited, Active
  <2> QED
    BY <2>2, <2>3, <2>4, <2>5, Zenon
<1>7. Waited'
  <2>1. \A d \in Callers : cpc'[d] # "idle" => cjob'[d] \in 1..Started'
    BY <1>1, <1>2 DEF Waited
  <2>2. \A b, d \in Callers : Active(b)' /\ Active(d)' /\ cjob'[b] = cjob'[d] => b = d
    BY <1>2, <1>4, <1>6, Zenon DEF Waited
  <2>3. ASSUME NEW d \in Callers \ {c} PROVE (Unseen(d)' <=> Unseen(d)) /\ (Awaited(d)' <=> Awaited(d))
    BY <1>0, <1>2, Zenon DEF Unseen, Awaited, Queued, Busy
  <2>4. Unseen(c)'
    BY <1>0, <1>2, <1>6, Zenon DEF Unseen, Queued, Busy
  <2>5. \A d \in Callers : cpc'[d] = "enqueue" => Unseen(d)'
    BY <1>2, <2>3, <2>4, Zenon DEF Waited
  <2>6. \A d \in Callers : cpc'[d] \in {"notify", "pending"} => Awaited(d)'
    BY <1>2, <2>3, Zenon DEF Waited
  <2> QED
    BY <2>1, <2>2, <2>5, <2>6, Zenon DEF Waited
<1>8. NotYet'
  BY <1>0, <1>1 DEF NotYet, Jobs
<1>9. Ends'
  BY <1>0, <1>4, Zenon DEF Ends
<1> QED
  BY <1>3, <1>5, <1>7, <1>8, <1>9, Zenon

\* Steps by which a caller lets its job be: a failed start, a destroyed connection,
\* and the two of the blocking form.
LetGo(c) == StartFails(c) \/ Abandon(c) \/ BlockingLookup(c) \/ BlockingPut(c)

LEMMA LetGoInv ==
  ASSUME Inv, NEW c \in Callers, LetGo(c) PROVE Inv'
<1> USE DEF Inv
<1>0. UNCHANGED <<async_resolve, version, queue, closed, waiting, mpc, tpc, tjob, answer, key,
                  endpoints, ok, ready, byte>>
  BY Zenon DEF LetGo, StartFails, Abandon, BlockingLookup, BlockingPut, threadVars, jobVars
<1>1. /\ cpc[c] # "idle" /\ cpc'[c] \in {"idle", "put"} /\ (cpc'[c] = "put" => cjob'[c] = cjob[c])
      /\ cpc' \in [Callers -> {"idle", "enqueue", "notify", "pending", "lookup", "put"}]
      /\ \A d \in Callers \ {c} : cjob'[d] = cjob[d] /\ cpc'[d] = cpc[d]
  BY Zenon DEF LetGo, StartFails, Abandon, BlockingLookup, BlockingPut, TypeOK
<1>2. TypeOK'
  <2>0. 0 \in 0..MaxJobs /\ 0 \in 0..MaxVersion /\ version \in 0..MaxVersion
    BY ResolverAssumption DEF TypeOK
  <2>1. cjob' \in [Callers -> 0..MaxJobs]
    BY <2>0, Zenon DEF LetGo, StartFails, Abandon, BlockingLookup, BlockingPut, TypeOK
  <2>2. got' \in [Callers -> 0..MaxVersion]
    <3>1. CASE BlockingLookup(c)
      BY <2>0, <3>1 DEF BlockingLookup, TypeOK
    <3>2. CASE StartFails(c)
      BY <2>0, <3>2, Zenon DEF StartFails, TypeOK
    <3>3. CASE Abandon(c) \/ BlockingPut(c)
      BY <3>3, Zenon DEF Abandon, BlockingPut, TypeOK
    <3> QED
      BY <3>1, <3>2, <3>3, Zenon DEF LetGo
  <2>3. cache' \in [Keys -> [answer : 0..MaxVersion, left : 0..Ttl]]
    <3>1. CASE BlockingPut(c)
      <4>1. cjob[c] \in 1..Len(key)
        BY <3>1, Zenon DEF BlockingPut, Waited, Started
      <4>2. key[cjob[c]] \in Keys /\ got[c] \in 0..MaxVersion
        BY <4>1 DEF TypeOK
      <4> QED
        BY <3>1, <4>2, PutType, Zenon DEF BlockingPut
    <3>2. CASE ~BlockingPut(c)
      BY <3>2, Zenon DEF LetGo, StartFails, Abandon, BlockingLookup, TypeOK
    <3> QED
      BY <3>1, <3>2, Zenon
  <2> QED
    BY <1>0, <1>1, <2>1, <2>2, <2>3, Zenon DEF TypeOK, Started
<1>3. /\ Started' = Started /\ \A j : Queued(j)' <=> Queued(j)
      /\ \A t \in Threads : Busy(t)' <=> Busy(t)
      /\ ~Active(c)' /\ \A d \in Callers \ {c} : Active(d)' <=> Active(d)
  BY <1>0, <1>1, Zenon DEF Queued, Busy, Active, Started
<1>4. InHand'
  BY <1>0, <1>3, Zenon DEF InHand
<1>5. InQueue' /\ NotYet'
  BY <1>0, <1>3, Zenon DEF InQueue, NotYet
<1>6. Waited'
  <2>1. \A d \in Callers : cpc'[d] # "idle" => cjob'[d] \in 1..Started'
    BY <1>1, <1>3, Zenon DEF Waited
  <2>2. \A b, d \in Callers : Active(b)' /\ Active(d)' /\ cjob'[b] = cjob'[d] => b = d
    BY <1>1, <1>3, Zenon DEF Waited
  <2>3. ASSUME NEW d \in Callers \ {c} PROVE (Unseen(d)' <=> Unseen(d)) /\ (Awaited(d)' <=> Awaited(d))
    BY <1>0, <1>1, Zenon DEF Unseen, Awaited, Queued, Busy
  <2>4. \A d \in Callers : cpc'[d] = "enqueue" => Unseen(d)'
    BY <1>1, <2>3, Zenon DEF Waited
  <2>5. \A d \in Callers : cpc'[d] \in {"notify", "pending"} => Awaited(d)'
    BY <1>1, <2>3, Zenon DEF Waited
  <2> QED
    BY <2>1, <2>2, <2>4, <2>5, Zenon DEF Waited
<1>7. Ends'
  BY <1>0, <1>3, Zenon DEF Ends
<1> QED
  BY <1>2, <1>4, <1>5, <1>6, <1>7, Zenon

\* A started job has fields.
LEMMA StartedJobs ==
  ASSUME Inv PROVE 1..Started \subseteq Jobs /\ Started \in Nat
BY ResolverAssumption DEF Inv, TypeOK, Started, Jobs

\* The job goes to the end of the queue, before shutdown() has begun.
LEMMA StartQueueInv ==
  ASSUME Inv, NEW c \in Callers, StartQueue(c) PROVE Inv'
<1> USE DEF Inv
<1>0. /\ cpc[c] = "enqueue" /\ ~closed
      /\ UNCHANGED <<async_resolve, version, closed, waiting, mpc, tpc, tjob, answer, cjob, key, got,
                     endpoints, ok, ready, byte, cache>>
  BY Zenon DEF StartQueue, threadVars, jobVars
<1>1. /\ cpc'[c] = "notify" /\ \A d \in Callers \ {c} : cpc'[d] = cpc[d]
      /\ cpc' \in [Callers -> {"idle", "enqueue", "notify", "pending", "lookup", "put"}]
  BY Zenon DEF StartQueue, TypeOK
<1>2. cjob[c] \in 1..Started /\ cjob[c] \in Jobs /\ Unseen(c) /\ queue \in Seq(Jobs)
  BY <1>0, StartedJobs, Zenon DEF Waited, TypeOK
<1>3. /\ queue' \in Seq(Jobs) /\ Len(queue) \in Nat /\ Len(queue') = Len(queue) + 1
      /\ queue'[Len(queue) + 1] = cjob[c]
      /\ \A i \in 1..Len(queue) : queue'[i] = queue[i]
  BY <1>2 DEF StartQueue
<1>4. TypeOK'
  BY <1>0, <1>1, <1>3, Zenon DEF TypeOK, Started
<1>5. \A j : Queued(j)' <=> (Queued(j) \/ j = cjob[c])
  BY <1>3 DEF Queued
<1>6. /\ Started' = Started
      /\ \A t \in Threads : Busy(t)' <=> Busy(t)
      /\ \A d \in Callers : Active(d)' <=> Active(d)
  BY <1>0, <1>1, Zenon DEF Busy, Active, Started
<1>7. InHand'
  BY <1>0, <1>2, <1>5, <1>6, Zenon DEF InHand, Unseen
<1>8. InQueue'
  <2>1. \A i \in 1..Len(queue) : queue[i] # cjob[c]
    BY <1>2, Zenon DEF Unseen, Queued
  <2>2. \A i \in 1..Len(queue') : queue'[i] \in 1..Started' /\ ~ready'[queue'[i]] /\ ~byte'[queue'[i]]
    BY <1>0, <1>2, <1>3, <1>6 DEF InQueue, Unseen
  <2>3. \A i, k \in 1..Len(queue') : queue'[i] = queue'[k] => i = k
    BY <1>3, <2>1 DEF InQueue
  <2> QED
    BY <2>2, <2>3, Zenon DEF InQueue
<1>9. Waited'
  <2>1. ASSUME NEW d \in Callers \ {c}, cpc[d] = "enqueue" PROVE Unseen(d)'
    <3>1. Unseen(d) /\ cjob[d] # cjob[c]
      BY <1>0, <2>1, Zenon DEF Waited, Active
    <3> QED
      BY <1>0, <1>5, <1>6, <3>1, Zenon DEF Unseen, Queued
  <2>2. ASSUME NEW d \in Callers \ {c}, cpc[d] \in {"notify", "pending"} PROVE Awaited(d)'
    <3>1. Awaited(d)
      BY <2>2, Zenon DEF Waited
    <3> QED
      BY <1>0, <1>5, <1>6, <3>1, Zenon DEF Awaited, Queued
  <2>3. Awaited(c)'
    <3>1. Queued(cjob[c])'
      BY <1>0, <1>5, Zenon DEF Queued
    <3> QED
      BY <1>0, <1>2, <3>1, Zenon DEF Awaited, Unseen
  <2> QED
    BY <1>0, <1>1, <1>6, <2>1, <2>2, <2>3, Zenon DEF Waited
<1>10. NotYet' /\ Ends'
  <2>1. async_resolve
    BY <1>0, Zenon DEF Ends, Active
  <2>2. \A t \in Threads : tpc[t] # "exited"
    BY <1>0, <2>1, Zenon DEF Ends
  <2>3. mpc = "running"
    BY <1>0, Zenon DEF Ends
  <2> QED
    BY <1>0, <1>6, <2>1, <2>2, <2>3, Zenon DEF NotYet, Ends
<1> QED
  BY <1>4, <1>7, <1>8, <1>9, <1>10, Zenon

LEMMA StartNotifyInv ==
  ASSUME Inv, NEW c \in Callers, StartNotify(c) PROVE Inv'
<1> USE DEF Inv
<1>0. /\ cpc[c] = "notify"
      /\ UNCHANGED <<async_resolve, version, queue, closed, mpc, tpc, tjob, answer, cjob, key, got,
                     endpoints, ok, ready, byte, cache>>
  BY Zenon DEF StartNotify, threadVars, jobVars
<1>1. /\ cpc'[c] = "pending" /\ \A d \in Callers \ {c} : cpc'[d] = cpc[d]
      /\ cpc' \in [Callers -> {"idle", "enqueue", "notify", "pending", "lookup", "put"}]
  BY Zenon DEF StartNotify, TypeOK
<1>2. waiting' \subseteq Threads
  BY Zenon DEF StartNotify, Notified, TypeOK
<1>3. TypeOK'
  BY <1>0, <1>1, <1>2, Zenon DEF TypeOK, Started
<1>4. /\ Started' = Started /\ \A j : Queued(j)' <=> Queued(j)
      /\ \A t \in Threads : Busy(t)' <=> Busy(t)
      /\ \A d \in Callers : Active(d)' <=> Active(d)
      /\ \A d \in Callers : (Unseen(d)' <=> Unseen(d)) /\ (Awaited(d)' <=> Awaited(d))
  BY <1>0, <1>1, Zenon DEF Busy, Active, Started, Queued, Unseen, Awaited
<1>5. InHand' /\ InQueue' /\ NotYet' /\ Ends'
  <2>1. InHand'
    BY <1>0, <1>4, Zenon DEF InHand
  <2> QED
    BY <1>0, <1>4, <2>1, Zenon DEF InQueue, NotYet, Ends
<1>6. Waited'
  BY <1>0, <1>1, <1>4, Zenon DEF Waited
<1> QED
  BY <1>3, <1>5, <1>6, Zenon

\* The woken connection takes the endpoints of its own job, which no thread has.
LEMMA FinishResolveInv ==
  ASSUME Inv, NEW c \in Callers, FinishResolve(c) PROVE Inv'
<1> USE DEF Inv
<1> DEFINE j == cjob[c]
<1>0. /\ cpc[c] = "pending" /\ byte[j] /\ ready[j]
      /\ UNCHANGED <<async_resolve, version, queue, closed, waiting, mpc, tpc, tjob, answer, key,
                     ok, ready, byte, cache>>
  BY Zenon DEF FinishResolve, threadVars
<1>1. /\ cpc'[c] = "idle" /\ \A d \in Callers \ {c} : cpc'[d] = cpc[d] /\ cjob'[d] = cjob[d]
      /\ cpc' \in [Callers -> {"idle", "enqueue", "notify", "pending", "lookup", "put"}]
  BY Zenon DEF FinishResolve, TypeOK
<1>2. j \in 1..Started /\ j \in Jobs
  BY <1>0, StartedJobs, Zenon DEF Waited
<1>3. /\ endpoints' \in [Jobs -> 0..MaxVersion]
      /\ \A i \in Jobs \ {j} : endpoints'[i] = endpoints[i]
  BY <1>2, ResolverAssumption DEF FinishResolve, TypeOK
<1>4. TypeOK'
  <2>1. cjob' \in [Callers -> 0..MaxJobs]
    BY ResolverAssumption DEF FinishResolve, TypeOK
  <2>2. got' \in [Callers -> 0..MaxVersion]
    <3>1. (IF ok[j] THEN endpoints[j] ELSE 0) \in 0..MaxVersion
      BY <1>2, ResolverAssumption DEF TypeOK
    <3> QED
      BY <3>1, Zenon DEF FinishResolve, TypeOK
  <2> QED
    BY <1>0, <1>1, <1>3, <2>1, <2>2, Zenon DEF TypeOK, Started
<1>5. /\ Started' = Started /\ \A i : Queued(i)' <=> Queued(i)
      /\ \A t \in Threads : Busy(t)' <=> Busy(t)
      /\ ~Active(c)' /\ \A d \in Callers \ {c} : Active(d)' <=> Active(d)
  BY <1>0, <1>1, Zenon DEF Busy, Active, Started, Queued
<1>6. InHand'
  <2>1. \A t \in Threads : Busy(t) => tjob[t] # j /\ tjob[t] \in Jobs
    BY <1>0, StartedJobs, Zenon DEF InHand
  <2> QED
    BY <1>0, <1>3, <1>5, <2>1, ZenonT(30) DEF InHand
<1>7. InQueue' /\ NotYet' /\ Ends'
  BY <1>0, <1>5, Zenon DEF InQueue, NotYet, Ends
<1>8. Waited'
  <2>1. ASSUME NEW d \in Callers \ {c}, cpc[d] = "enqueue" PROVE Unseen(d)'
    <3>1. Unseen(d)
      BY <2>1, Zenon DEF Waited
    <3> QED
      BY <1>0, <1>1, <1>5, <3>1, ZenonT(30) DEF Unseen, Queued
  <2>2. ASSUME NEW d \in Callers \ {c}, cpc[d] \in {"notify", "pending"} PROVE Awaited(d)'
    <3>1. Awaited(d) /\ cjob[d] # j /\ cjob[d] \in Jobs
      BY <1>0, <2>2, StartedJobs, Zenon DEF Waited, Active
    <3>2. cjob'[d] = cjob[d] /\ endpoints'[cjob[d]] = endpoints[cjob[d]]
      BY <1>1, <1>3, <3>1, Zenon
    <3>3. Queued(cjob[d]) => \E i \in 1..Len(queue') : queue'[i] = cjob'[d]
      BY <1>0, <3>2, Zenon DEF Queued
    <3>4. (\E t \in Threads : Busy(t) /\ tjob[t] = cjob[d])
            => \E t \in Threads : Busy(t)' /\ tjob'[t] = cjob'[d]
      BY <1>0, <1>5, <3>2, Zenon
    <3> QED
      BY <1>0, <3>1, <3>2, <3>3, <3>4, Zenon DEF Awaited, Queued
  <2>3. \A d \in Callers : cpc'[d] # "idle" => cjob'[d] \in 1..Started'
    BY <1>1, <1>5, Zenon DEF Waited
  <2>4. \A b, d \in Callers : Active(b)' /\ Active(d)' /\ cjob'[b] = cjob'[d] => b = d
    BY <1>1, <1>5, Zenon DEF Waited
  <2> QED
    BY <1>1, <2>1, <2>2, <2>3, <2>4, Zenon DEF Waited
<1> QED
  BY <1>4, <1>6, <1>7, <1>8, Zenon

-----------------------------------------------------------------------------
(* The threads' steps *)

\* The job goes from the front of the queue into the hands of t.
LEMMA TakeInv ==
  ASSUME Inv, NEW t \in Threads, Take(t) PROVE Inv'
<1> USE DEF Inv
<1> DEFINE j == Head(queue)
<1>0. /\ tpc[t] = "pop" /\ queue # <<>> /\ queue \in Seq(Jobs)
      /\ UNCHANGED <<async_resolve, version, closed, waiting, mpc, answer, cpc, cjob, key, got,
                     endpoints, ok, ready, byte, cache>>
  BY Zenon DEF Take, callVars, jobVars, TypeOK
<1>1. /\ tpc'[t] = "lookup" /\ tjob'[t] = j
      /\ \A s \in Threads \ {t} : tpc'[s] = tpc[s] /\ tjob'[s] = tjob[s]
      /\ tpc' \in [Threads -> {"pop", "lookup", "publish", "cache", "ready", "byte", "exited"}]
  BY Zenon DEF Take, TypeOK
<1>2. /\ Len(queue) \in Nat \ {0} /\ queue[1] = j /\ queue' \in Seq(Jobs)
      /\ Len(queue') = Len(queue) - 1
      /\ \A i \in 1..Len(queue') : queue'[i] = queue[i + 1] /\ i + 1 \in 1..Len(queue)
      /\ \A i \in 2..Len(queue) : queue[i] = queue'[i - 1] /\ i - 1 \in 1..Len(queue')
  BY <1>0 DEF Take
<1>3. j \in 1..Started /\ j \in Jobs /\ ~ready[j] /\ ~byte[j] /\ Queued(j)
  BY <1>2, StartedJobs DEF InQueue, Queued
<1>4. TypeOK'
  <2>1. tjob' \in [Threads -> 0..MaxJobs]
    BY <1>3 DEF Take, TypeOK, Jobs
  <2> QED
    BY <1>0, <1>1, <1>2, <2>1, Zenon DEF TypeOK, Started
<1> HIDE DEF j
<1>5. Started' = Started /\ \A i : Queued(i)' <=> (Queued(i) /\ i # j)
  <2>1. ASSUME NEW i, Queued(i)' PROVE Queued(i) /\ i # j
    <3>1. PICK n \in 1..Len(queue') : queue'[n] = i
      BY <2>1, Zenon DEF Queued
    <3>2. queue[n + 1] = i /\ n + 1 \in 1..Len(queue) /\ 1 \in 1..Len(queue) /\ n + 1 # 1
      BY <1>2, <3>1
    <3> QED
      BY <1>2, <3>2, Zenon DEF Queued, InQueue
  <2>2. ASSUME NEW i, Queued(i), i # j PROVE Queued(i)'
    <3>1. PICK n \in 1..Len(queue) : queue[n] = i
      BY <2>2, Zenon DEF Queued
    <3>2. n \in 2..Len(queue)
      BY <1>2, <2>2, <3>1
    <3>3. queue'[n - 1] = i /\ n - 1 \in 1..Len(queue')
      BY <1>2, <3>1, <3>2, Zenon
    <3> QED
      BY <3>3, Zenon DEF Queued
  <2> QED
    BY <1>0, <2>1, <2>2, Zenon DEF Started
<1>6. /\ ~Busy(t) /\ Busy(t)' /\ \A s \in Threads \ {t} : Busy(s)' <=> Busy(s)
      /\ \A c \in Callers : Active(c)' <=> Active(c)
  BY <1>0, <1>1, Zenon DEF Busy, Active
<1>7. InHand'
  <2>1. \A s \in Threads \ {t} : Busy(s) => tjob[s] # j
    BY <1>3, Zenon DEF InHand
  <2>2. ASSUME NEW s \in Threads, Busy(s)'
        PROVE  /\ tjob'[s] \in 1..Started' /\ ~Queued(tjob[s])' /\ ~byte'[tjob'[s]]
               /\ ready'[tjob'[s]] <=> tpc'[s] = "byte"
               /\ tpc'[s] \in {"cache", "ready", "byte"} /\ ok'[tjob'[s]] => endpoints'[tjob'[s]] # 0
    <3>1. CASE s = t
      <4>1. ~Queued(tjob[s])'
        BY <1>1, <1>5, <3>1, Zenon DEF Queued
      <4> QED
        BY <1>0, <1>1, <1>3, <1>5, <3>1, <4>1, Zenon
    <3>2. CASE s # t
      <4>1. ~Queued(tjob[s])'
        <5>1. ~Queued(tjob[s]) /\ tjob'[s] = tjob[s]
          BY <1>1, <1>6, <2>2, <3>2, Zenon DEF InHand
        <5> QED
          BY <1>5, <5>1, Zenon DEF Queued
      <4> QED
        BY <1>0, <1>1, <1>5, <1>6, <2>2, <3>2, <4>1 DEF InHand
    <3> QED
      BY <3>1, <3>2, Zenon
  <2>3. \A r, s \in Threads : Busy(r)' /\ Busy(s)' /\ tjob'[r] = tjob'[s] => r = s
    BY <1>1, <1>6, <2>1, Zenon DEF InHand
  <2> QED
    BY <2>2, <2>3, Zenon DEF InHand
<1>8. InQueue'
  BY <1>0, <1>2, <1>5, SMTT(30) DEF InQueue
<1>9. Waited'
  <2>1. ASSUME NEW d \in Callers, cpc[d] = "enqueue" PROVE Unseen(d)'
    <3>1. Unseen(d) /\ cjob[d] # j
      BY <1>3, <2>1, Zenon DEF Waited, Unseen
    <3> QED
      BY <1>0, <1>1, <1>5, <1>6, <3>1, Zenon DEF Unseen, Queued
  <2>2. ASSUME NEW d \in Callers, cpc[d] \in {"notify", "pending"} PROVE Awaited(d)'
    <3>1. Awaited(d)
      BY <2>2, Zenon DEF Waited
    <3>2. (\E s \in Threads : Busy(s) /\ tjob[s] = cjob[d]) => \E s \in Threads : Busy(s)' /\ tjob'[s] = cjob[d]
      BY <1>1, <1>6, Zenon
    <3>3. Queued(cjob[d]) => Queued(cjob[d])' \/ \E s \in Threads : Busy(s)' /\ tjob'[s] = cjob[d]
      BY <1>0, <1>1, <1>5, <1>6, Zenon DEF Queued
    <3> QED
      BY <1>0, <3>1, <3>2, <3>3, Zenon DEF Awaited
  <2> QED
    BY <1>0, <1>5, <1>6, <2>1, <2>2, Zenon DEF Waited
<1>10. NotYet' /\ Ends'
  <2>1. \A s \in Threads : tpc[s] # "exited"
    BY <1>0, Zenon DEF Ends
  <2> QED
    BY <1>0, <1>1, <1>5, <1>6, <2>1, Zenon DEF NotYet, Ends
<1> QED
  BY <1>4, <1>7, <1>8, <1>9, <1>10, Zenon

LEMMA ExitInv ==
  ASSUME Inv, NEW t \in Threads, Exit(t) PROVE Inv'
<1> USE DEF Inv
<1>0. /\ tpc[t] = "pop" /\ closed /\ queue = <<>>
      /\ UNCHANGED <<async_resolve, version, queue, closed, waiting, mpc, tjob, answer, cpc, cjob, key, got,
                     endpoints, ok, ready, byte, cache>>
  BY Zenon DEF Exit, callVars, jobVars
<1>1. /\ tpc'[t] = "exited" /\ \A s \in Threads \ {t} : tpc'[s] = tpc[s]
      /\ tpc' \in [Threads -> {"pop", "lookup", "publish", "cache", "ready", "byte", "exited"}]
  BY Zenon DEF Exit, TypeOK
<1>2. TypeOK'
  BY <1>0, <1>1, Zenon DEF TypeOK, Started
<1>3. /\ Started' = Started /\ \A j : Queued(j)' <=> Queued(j)
      /\ \A s \in Threads : Busy(s)' <=> Busy(s)
      /\ \A c \in Callers : Active(c)' <=> Active(c)
  BY <1>0, <1>1, Zenon DEF Busy, Active, Queued, Started
<1>4. \A d \in Callers : (Unseen(d)' <=> Unseen(d)) /\ (Awaited(d)' <=> Awaited(d))
  BY <1>0, <1>3, Zenon DEF Unseen, Awaited, Queued
<1>5. InHand'
  BY <1>0, <1>1, <1>3, Zenon DEF InHand, Busy
<1>6. InQueue' /\ NotYet' /\ Waited'
  <2>1. InQueue' /\ NotYet'
    BY <1>0, <1>3 DEF InQueue, NotYet
  <2>2. Waited'
    BY <1>0, <1>3, <1>4, Zenon DEF Waited
  <2> QED
    BY <2>1, <2>2, Zenon
<1>7. Ends'
  BY <1>0, <1>1, <1>3, Zenon DEF Ends
<1> QED
  BY <1>2, <1>5, <1>6, <1>7, Zenon

\* The lookup, and the three steps that fill in the job: all of them before the byte,
\* so no connection looks at the job yet.
Work(t) == Lookup(t) \/ Publish(t) \/ CachePut(t) \/ Ready(t)

LEMMA WorkInv ==
  ASSUME Inv, NEW t \in Threads, Work(t) PROVE Inv'
<1> USE DEF Inv
<1> DEFINE j == tjob[t]
<1>0. /\ tpc[t] \in {"lookup", "publish", "cache", "ready"}
      /\ UNCHANGED <<async_resolve, version, queue, closed, waiting, mpc, tjob, cpc, cjob, key, got, byte>>
  BY Zenon DEF Work, Lookup, Publish, CachePut, Ready, callVars, jobVars
<1>1. /\ tpc'[t] \in {"publish", "cache", "ready", "byte"} /\ \A s \in Threads \ {t} : tpc'[s] = tpc[s]
      /\ tpc' \in [Threads -> {"pop", "lookup", "publish", "cache", "ready", "byte", "exited"}]
  BY Zenon DEF Work, Lookup, Publish, CachePut, Ready, TypeOK
<1>2. Busy(t) /\ j \in 1..Started /\ j \in Jobs /\ ~byte[j] /\ ~ready[j]
  BY <1>0, StartedJobs, Zenon DEF InHand, Busy
<1>3. /\ ready' \in [Jobs -> BOOLEAN] /\ ok' \in [Jobs -> BOOLEAN] /\ endpoints' \in [Jobs -> 0..MaxVersion]
      /\ \A i \in Jobs \ {j} : ready'[i] = ready[i] /\ ok'[i] = ok[i] /\ endpoints'[i] = endpoints[i]
  <2>1. /\ ready' \in [Jobs -> BOOLEAN] /\ \A i \in Jobs \ {j} : ready'[i] = ready[i]
    BY <1>2, Zenon DEF Work, Lookup, Publish, CachePut, Ready, TypeOK, jobVars
  <2>2. /\ ok' \in [Jobs -> BOOLEAN] /\ \A i \in Jobs \ {j} : ok'[i] = ok[i]
    BY <1>2, Zenon DEF Work, Lookup, Publish, CachePut, Ready, TypeOK, jobVars
  <2>3. /\ endpoints' \in [Jobs -> 0..MaxVersion] /\ \A i \in Jobs \ {j} : endpoints'[i] = endpoints[i]
    BY <1>2, Zenon DEF Work, Lookup, Publish, CachePut, Ready, TypeOK, jobVars
  <2> QED
    BY <2>1, <2>2, <2>3, Zenon
<1>4. TypeOK'
  <2>1. answer' \in [Threads -> 0..MaxVersion]
    <3>1. CASE Lookup(t)
      <4>1. 0 \in 0..MaxVersion /\ version \in 0..MaxVersion
        BY ResolverAssumption DEF TypeOK
      <4> QED
        BY <3>1, <4>1, ZenonT(30) DEF Lookup, TypeOK
    <3>2. CASE ~Lookup(t)
      BY <3>2, Zenon DEF Work, Publish, CachePut, Ready, TypeOK
    <3> QED
      BY <3>1, <3>2, Zenon
  <2>2. cache' \in [Keys -> [answer : 0..MaxVersion, left : 0..Ttl]]
    <3>1. CASE CachePut(t)
      <4>1. key[j] \in Keys /\ endpoints[j] \in 0..MaxVersion
        BY <1>2 DEF TypeOK, Started
      <4> QED
        BY <3>1, <4>1, PutType, Zenon DEF CachePut, TypeOK
    <3>2. CASE ~CachePut(t)
      BY <3>2, Zenon DEF Work, Lookup, Publish, Ready, TypeOK
    <3> QED
      BY <3>1, <3>2, Zenon
  <2> QED
    BY <1>0, <1>1, <1>3, <2>1, <2>2, Zenon DEF TypeOK, Started
<1>5. /\ Started' = Started /\ \A i : Queued(i)' <=> Queued(i)
      /\ \A s \in Threads : Busy(s)' <=> Busy(s)
      /\ \A c \in Callers : Active(c)' <=> Active(c)
  BY <1>0, <1>1, <1>2, Zenon DEF Busy, Active, Queued, Started
<1>6. ready'[j] <=> tpc'[t] = "byte"
  BY <1>0, <1>2, Zenon DEF Work, Lookup, Publish, CachePut, Ready, TypeOK, jobVars
<1>7. tpc'[t] \in {"cache", "ready", "byte"} /\ ok'[j] => endpoints'[j] # 0
  <2>1. CASE Publish(t)
    BY <1>2, <2>1, Zenon DEF Publish, TypeOK
  <2>2. CASE Lookup(t)
    BY <2>2, Zenon DEF Lookup, TypeOK
  <2>3. CASE CachePut(t) \/ Ready(t)
    BY <1>2, <2>3, Zenon DEF CachePut, Ready, jobVars, InHand
  <2> QED
    BY <2>1, <2>2, <2>3, Zenon DEF Work
<1>8. InHand'
  <2>1. \A s \in Threads \ {t} : Busy(s) => tjob[s] \in Jobs \ {j}
    BY <1>2, StartedJobs, Zenon DEF InHand
  <2>2. ASSUME NEW s \in Threads, Busy(s)
        PROVE  /\ tjob'[s] \in 1..Started' /\ ~Queued(tjob[s])' /\ ~byte'[tjob'[s]]
               /\ ready'[tjob'[s]] <=> tpc'[s] = "byte"
               /\ tpc'[s] \in {"cache", "ready", "byte"} /\ ok'[tjob'[s]] => endpoints'[tjob'[s]] # 0
    <3>0. ~Queued(tjob[s])'
      BY <1>0, <1>5, <2>2 DEF InHand, Queued
    <3>1. CASE s = t
      BY <1>0, <1>2, <1>5, <1>6, <1>7, <3>0, <3>1, Zenon
    <3>2. CASE s # t
      <4>1. /\ tjob'[s] = tjob[s] /\ tpc'[s] = tpc[s] /\ byte' = byte /\ Started' = Started
            /\ tjob[s] \in Jobs \ {j}
        BY <1>0, <1>1, <1>5, <2>1, <2>2, <3>2, Zenon
      <4>2. /\ ready'[tjob[s]] = ready[tjob[s]] /\ ok'[tjob[s]] = ok[tjob[s]]
            /\ endpoints'[tjob[s]] = endpoints[tjob[s]]
        BY <1>3, <4>1, Zenon
      <4> QED
        BY <2>2, <3>0, <4>1, <4>2, Zenon DEF InHand
    <3> QED
      BY <3>1, <3>2, Zenon
  <2> QED
    BY <1>0, <1>5, <2>2, Zenon DEF InHand
<1>9. InQueue' /\ NotYet'
  <2>1. \A i \in 1..Len(queue) : queue[i] \in Jobs \ {j}
    BY <1>2, StartedJobs, Zenon DEF InQueue, InHand, Queued
  <2>2. InQueue'
    BY <1>0, <1>3, <1>5, <2>1, Zenon DEF InQueue
  <2>3. \A i \in Jobs : i > Started => i # j
    BY <1>2, StartedJobs
  <2> QED
    BY <1>0, <1>3, <1>5, <2>2, <2>3, Zenon DEF NotYet
<1>10. Waited'
  <2>1. ASSUME NEW d \in Callers, cpc[d] = "enqueue" PROVE Unseen(d)'
    <3>1. Unseen(d) /\ cjob[d] \in Jobs \ {j}
      BY <1>2, <2>1, StartedJobs, Zenon DEF Waited, Unseen
    <3> QED
      BY <1>0, <1>3, <1>5, <3>1, Zenon DEF Unseen, Queued
  <2>2. ASSUME NEW d \in Callers, cpc[d] \in {"notify", "pending"} PROVE Awaited(d)'
    <3>1. Awaited(d) /\ cjob[d] \in Jobs
      BY <2>2, StartedJobs, Zenon DEF Waited
    <3>2. byte[cjob[d]] => cjob[d] # j
      BY <1>2, Zenon
    <3> QED
      BY <1>0, <1>3, <1>5, <3>1, <3>2, Zenon DEF Awaited, Queued
  <2> QED
    BY <1>0, <1>5, <2>1, <2>2, Zenon DEF Waited
<1>11. Ends'
  BY <1>0, <1>1, <1>5, Zenon DEF Ends
<1> QED
  BY <1>4, <1>8, <1>9, <1>10, <1>11, Zenon

\* The byte comes after everything else.
LEMMA WriteByteInv ==
  ASSUME Inv, NEW t \in Threads, WriteByte(t) PROVE Inv'
<1> USE DEF Inv
<1> DEFINE j == tjob[t]
<1>0. /\ tpc[t] = "byte"
      /\ UNCHANGED <<async_resolve, version, queue, closed, waiting, mpc, cpc, cjob, key, got,
                     endpoints, ok, ready, cache>>
  BY Zenon DEF WriteByte, callVars
<1>1. /\ tpc'[t] = "pop" /\ \A s \in Threads \ {t} : tpc'[s] = tpc[s] /\ tjob'[s] = tjob[s]
      /\ tpc' \in [Threads -> {"pop", "lookup", "publish", "cache", "ready", "byte", "exited"}]
  BY Zenon DEF WriteByte, TypeOK
<1>2. Busy(t) /\ j \in 1..Started /\ j \in Jobs /\ ready[j] /\ (ok[j] => endpoints[j] # 0)
  BY <1>0, StartedJobs, Zenon DEF InHand, Busy
<1>3. byte' \in [Jobs -> BOOLEAN] /\ byte'[j] /\ \A i \in Jobs \ {j} : byte'[i] = byte[i]
  BY <1>2, Zenon DEF WriteByte, TypeOK
<1>4. TypeOK'
  <2>1. tjob' \in [Threads -> 0..MaxJobs] /\ answer' \in [Threads -> 0..MaxVersion]
    BY ResolverAssumption DEF WriteByte, TypeOK
  <2> QED
    BY <1>0, <1>1, <1>3, <2>1, Zenon DEF TypeOK, Started
<1>5. /\ Started' = Started /\ \A i : Queued(i)' <=> Queued(i)
      /\ ~Busy(t)' /\ \A s \in Threads \ {t} : Busy(s)' <=> Busy(s)
      /\ \A c \in Callers : Active(c)' <=> Active(c)
  BY <1>0, <1>1, Zenon DEF Busy, Active, Queued, Started
<1>6. \A s \in Threads \ {t} : Busy(s) => tjob[s] \in Jobs \ {j}
  BY <1>2, StartedJobs, Zenon DEF InHand
<1>7. InHand'
  <2>1. ASSUME NEW s \in Threads, Busy(s)'
        PROVE  /\ tjob'[s] \in 1..Started' /\ ~Queued(tjob[s])' /\ ~byte'[tjob'[s]]
               /\ ready'[tjob'[s]] <=> tpc'[s] = "byte"
               /\ tpc'[s] \in {"cache", "ready", "byte"} /\ ok'[tjob'[s]] => endpoints'[tjob'[s]] # 0
    <3>1. s # t /\ Busy(s) /\ tjob'[s] = tjob[s] /\ tpc'[s] = tpc[s]
      BY <1>1, <1>5, <2>1, Zenon
    <3>2. ~Queued(tjob[s])'
      <4>1. ~Queued(tjob[s])
        BY <3>1, Zenon DEF InHand
      <4>2. queue' = queue
        BY <1>0, Zenon
      <4> QED
        BY <3>1, <4>1, <4>2, Zenon DEF Queued
    <3> QED
      BY <1>0, <1>3, <1>5, <1>6, <3>1, <3>2, Zenon DEF InHand
  <2>2. \A r, s \in Threads : Busy(r)' /\ Busy(s)' /\ tjob'[r] = tjob'[s] => r = s
    BY <1>1, <1>5 DEF InHand
  <2> QED
    BY <2>1, <2>2, Zenon DEF InHand
<1>8. InQueue' /\ NotYet'
  <2>1. \A i \in 1..Len(queue) : queue[i] \in Jobs \ {j}
    BY <1>2, StartedJobs, Zenon DEF InQueue, InHand, Queued
  <2>2. InQueue'
    BY <1>0, <1>3, <1>5, <2>1, Zenon DEF InQueue
  <2>3. \A i \in Jobs : i > Started => i # j
    BY <1>2, StartedJobs
  <2> QED
    BY <1>0, <1>3, <1>5, <2>2, <2>3, Zenon DEF NotYet
<1>9. Waited'
  <2>1. ASSUME NEW d \in Callers, cpc[d] = "enqueue" PROVE Unseen(d)'
    <3>1. Unseen(d) /\ cjob[d] \in Jobs \ {j}
      BY <1>2, <2>1, StartedJobs, Zenon DEF Waited, Unseen
    <3> QED
      BY <1>0, <1>1, <1>3, <1>5, <3>1, ZenonT(30) DEF Unseen, Queued
  <2>2. ASSUME NEW d \in Callers, cpc[d] \in {"notify", "pending"} PROVE Awaited(d)'
    <3>1. Awaited(d) /\ cjob[d] \in Jobs
      BY <2>2, StartedJobs, Zenon DEF Waited
    <3>2. CASE cjob[d] = j
      BY <1>0, <1>2, <1>3, <3>2, Zenon DEF Awaited
    <3>3. CASE cjob[d] # j
      <4>1. (\E s \in Threads : Busy(s) /\ tjob[s] = cjob[d]) =>
              \E s \in Threads : Busy(s)' /\ tjob'[s] = cjob[d]
        BY <1>1, <1>5, <3>3, Zenon
      <4> QED
        BY <1>0, <1>3, <1>5, <3>1, <3>3, <4>1, Zenon DEF Awaited, Queued
    <3> QED
      BY <3>2, <3>3, Zenon
  <2> QED
    BY <1>0, <1>5, <2>1, <2>2, Zenon DEF Waited
<1>10. Ends'
  BY <1>0, <1>1, <1>5, Zenon DEF Ends
<1> QED
  BY <1>4, <1>7, <1>8, <1>9, <1>10, Zenon

LEMMA NextInv == Inv /\ [Next]_vars => Inv'
<1> SUFFICES ASSUME Inv, [Next]_vars PROVE Inv'
  BY Zenon
<1>1. CASE Aside
  BY <1>1, AsideInv, Zenon
<1>2. ASSUME NEW t \in Threads, ThreadStep(t) PROVE Inv'
  BY <1>2, AsideInv, TakeInv, ExitInv, WorkInv, WriteByteInv, Zenon DEF ThreadStep, Work, Aside
<1>3. ASSUME NEW c \in Callers, CallStep(c) \/ Abandon(c) PROVE Inv'
  BY <1>3, StartQueueInv, StartNotifyInv, FinishResolveInv, LetGoInv, Zenon DEF CallStep, LetGo
<1>4. ASSUME NEW c \in Callers, NEW k \in Keys, StartMiss(c, k) PROVE Inv'
  BY <1>4, StartMissInv, Zenon
<1> QED
  BY <1>1, <1>2, <1>3, <1>4, Zenon DEF Next, Aside

\* "Publish the result BEFORE signalling": with any number of threads and lookups a
\* woken connection finds its answer, and no thread touches it any more.
THEOREM PublishFirst == Spec => []PublishedThenSignalled
<1>1. Spec => []Inv
  BY InitInv, NextInv, PTL DEF Spec
<1>2. Inv => PublishedThenSignalled
  BY InvSuffices, Zenon
<1> QED
  BY <1>1, <1>2, PTL

\* When shutdown() has returned every job that was started is answered.
THEOREM NoneOrphaned == Spec => []NoOrphanJob
<1>1. Spec => []Inv
  BY InitInv, NextInv, PTL DEF Spec
<1>2. Inv => NoOrphanJob
  BY InvSuffices, Zenon
<1> QED
  BY <1>1, <1>2, PTL

\* start() and worker_loop() keep every field of the resolver and its jobs in its
\* type, and no cached answer has more than the TTL to live.
THEOREM TypeCorrect == Spec => []TypeOK
<1>1. Inv => TypeOK
  BY Zenon DEF Inv
<1> QED
  BY <1>1, InitInv, NextInv, PTL DEF Spec

\* Only a thread that is waiting for a job sleeps.
Sleepers == \A t \in waiting : tpc[t] = "pop"

\* While a job is queued some thread is awake, or a start() has yet to notify one.
WorkIsNoticed ==
  queue # <<>> => \/ \E t \in Threads : tpc[t] # "exited" /\ t \notin waiting
                  \/ \E c \in Callers : cpc[c] = "notify"

\* Once shutdown() joins its threads none of them sleeps.
AllAreWoken == mpc \in {"join", "joined"} => waiting = {}

WakeInv == Sleepers /\ WorkIsNoticed /\ AllAreWoken

\* The steps that leave alone what the threads' sleep depends on; a caller may come
\* to its notify_one, not leave it.
WakeFrame ==
  /\ UNCHANGED <<queue, waiting, mpc, closed>>
  /\ \A t \in Threads : \/ tpc'[t] = tpc[t]
                        \/ t \notin waiting /\ tpc'[t] # "exited"
  /\ \A c \in Callers : cpc[c] = "notify" => cpc'[c] = "notify"

LEMMA WakeFrameInv == ASSUME Inv, WakeInv, WakeFrame PROVE WakeInv'
<1>1. Sleepers'
  BY Zenon DEF Inv, TypeOK, WakeInv, Sleepers, WakeFrame
<1>2. WorkIsNoticed'
  BY Zenon DEF WakeInv, WorkIsNoticed, WakeFrame
<1>3. AllAreWoken'
  BY Zenon DEF WakeInv, AllAreWoken, WakeFrame
<1> QED
  BY <1>1, <1>2, <1>3, Zenon DEF WakeInv

\* A notify_one wakes a thread, or finds all of them awake.
LEMMA WakeNotify ==
  ASSUME Inv, WakeInv, NEW c \in Callers, StartNotify(c) PROVE WakeInv'
<1>1. UNCHANGED <<queue, mpc, closed, tpc>> /\ waiting' \subseteq waiting
  BY Zenon DEF StartNotify, Notified, threadVars
<1>2. ASSUME queue # <<>> PROVE \E t \in Threads : tpc[t] # "exited" /\ t \notin waiting'
  <2>1. \A t \in Threads : tpc[t] # "exited"
    BY <1>2, Zenon DEF Inv, Ends
  <2>2. \E t \in Threads : t \notin waiting'
    <3>1. CASE waiting = {}
      BY <1>1, <3>1, ResolverAssumption, Zenon
    <3>2. CASE waiting # {}
      <4>1. PICK t \in waiting : waiting' = waiting \ {t}
        BY <3>2, Zenon DEF StartNotify, Notified
      <4> QED
        BY <4>1, Zenon DEF Inv, TypeOK
    <3> QED
      BY <3>1, <3>2, Zenon
  <2> QED
    BY <2>1, <2>2, Zenon
<1> QED
  BY <1>1, <1>2, Zenon DEF WakeInv, Sleepers, WorkIsNoticed, AllAreWoken

\* A step of worker_loop(): a thread goes to sleep, or leaves, only on an empty queue.
LEMMA WakeThread ==
  ASSUME Inv, WakeInv, NEW t \in Threads, ThreadStep(t) \/ Spurious(t) PROVE WakeInv'
<1>1. UNCHANGED <<mpc, cpc, closed>> /\ \A s \in Threads \ {t} : tpc'[s] = tpc[s]
  BY Zenon DEF ThreadStep, Spurious, Take, Block, Exit, Lookup, Publish, CachePut, Ready, WriteByte,
         threadVars, callVars, Inv, TypeOK
<1>2. CASE Block(t)
  BY <1>1, <1>2, Zenon DEF Block, threadVars, WakeInv, Sleepers, WorkIsNoticed, AllAreWoken, Inv, Ends
<1>3. CASE Spurious(t)
  BY <1>1, <1>3, Zenon DEF Spurious, threadVars, WakeInv, Sleepers, WorkIsNoticed, AllAreWoken, Inv, TypeOK
<1>4. CASE Exit(t)
  <2>1. t \notin waiting /\ queue' = <<>> /\ waiting' = waiting
    BY <1>4, Zenon DEF Exit
  <2> QED
    BY <1>1, <2>1, Zenon DEF WakeInv, Sleepers, WorkIsNoticed, AllAreWoken, Inv, TypeOK
<1>5. CASE Take(t)
  <2>1. t \notin waiting /\ tpc'[t] = "lookup" /\ waiting' = waiting
    BY <1>5, Zenon DEF Take, Inv, TypeOK
  <2> QED
    BY <1>1, <2>1, Zenon DEF WakeInv, Sleepers, WorkIsNoticed, AllAreWoken, Inv, TypeOK
<1>6. CASE Lookup(t) \/ Publish(t) \/ CachePut(t) \/ Ready(t) \/ WriteByte(t)
  <2>1. tpc[t] # "pop" /\ tpc'[t] # "exited" /\ UNCHANGED <<queue, waiting>>
    BY <1>6, Zenon DEF Lookup, Publish, CachePut, Ready, WriteByte, Inv, TypeOK
  <2>2. WakeFrame
    BY <1>1, <2>1, Zenon DEF WakeFrame, WakeInv, Sleepers
  <2> QED
    BY <2>2, WakeFrameInv, Zenon
<1> QED
  BY <1>2, <1>3, <1>4, <1>5, <1>6, Zenon DEF ThreadStep

LEMMA WakeStep == ASSUME Inv, WakeInv, [Next]_vars PROVE WakeInv'
<1>1. CASE Tick \/ DnsChanges \/ Joined \/ UNCHANGED vars
  <2>1. WakeFrame
    BY <1>1, Zenon DEF Tick, DnsChanges, Joined, vars, threadVars, callVars, WakeFrame
  <2> QED
    BY <2>1, WakeFrameInv, Zenon
<1>2. CASE Close
  BY <1>2, Zenon DEF Close, threadVars, callVars, WakeInv, Sleepers, WorkIsNoticed, AllAreWoken
<1>3. CASE NotifyAll
  <2>1. waiting' = {} /\ UNCHANGED <<queue, tpc, cpc>>
    BY <1>3, Zenon DEF NotifyAll, threadVars, callVars
  <2>2. WorkIsNoticed'
    BY <2>1, ResolverAssumption, Zenon DEF WakeInv, WorkIsNoticed
  <2> QED
    BY <2>1, <2>2, Zenon DEF WakeInv, Sleepers, AllAreWoken
<1>4. CASE Join
  BY <1>4, Zenon DEF Join, threadVars, callVars, WakeInv, Sleepers, WorkIsNoticed, AllAreWoken
<1>5. ASSUME NEW t \in Threads, ThreadStep(t) \/ Spurious(t) PROVE WakeInv'
  BY <1>5, WakeThread, Zenon
<1>6. ASSUME NEW c \in Callers, StartNotify(c) PROVE WakeInv'
  BY <1>6, WakeNotify, Zenon
<1>7. ASSUME NEW c \in Callers, StartQueue(c) PROVE WakeInv'
  <2>1. cpc'[c] = "notify" /\ UNCHANGED <<waiting, mpc, tpc>>
    BY <1>7, Zenon DEF StartQueue, threadVars, Inv, TypeOK
  <2> QED
    BY <2>1, Zenon DEF WakeInv, Sleepers, WorkIsNoticed, AllAreWoken
<1>8. ASSUME NEW c \in Callers, StartFails(c) \/ FinishResolve(c) \/ BlockingLookup(c) \/ BlockingPut(c)
                                \/ Abandon(c) \/ \E k \in Keys : StartHit(c, k) \/ StartMiss(c, k)
      PROVE  WakeInv'
  <2>1. cpc[c] # "notify" /\ UNCHANGED <<queue, waiting, mpc, closed, tpc>>
    BY <1>8, Zenon DEF StartFails, FinishResolve, BlockingLookup, BlockingPut, Abandon, StartHit, StartMiss,
           threadVars
  <2>2. \A d \in Callers \ {c} : cpc'[d] = cpc[d]
    BY <1>8, Zenon DEF StartFails, FinishResolve, BlockingLookup, BlockingPut, Abandon, StartHit, StartMiss,
           Inv, TypeOK
  <2>3. WakeFrame
    BY <2>1, <2>2, Zenon DEF WakeFrame
  <2> QED
    BY <2>3, WakeFrameInv, Zenon
<1> QED
  BY <1>1, <1>2, <1>3, <1>4, <1>5, <1>6, <1>7, <1>8, Zenon DEF Next, MainStep, CallStep

\* No notification is lost between start(), worker_loop() and shutdown(): a queued job
\* never finds every thread asleep with nobody about to wake one, and shutdown()
\* joins no thread that sleeps.  What JobsAreAnswered and ShutdownEnds rest on.
THEOREM WakeUps == Spec => [](WorkIsNoticed /\ AllAreWoken)
<1>1. Init => WakeInv
  BY Zenon DEF Init, WakeInv, Sleepers, WorkIsNoticed, AllAreWoken
<1>2. Inv /\ WakeInv /\ [Next]_vars => WakeInv'
  BY WakeStep, Zenon
<1>3. WakeInv => WorkIsNoticed /\ AllAreWoken
  BY Zenon DEF WakeInv
<1> QED
  BY <1>1, <1>2, <1>3, InitInv, NextInv, PTL DEF Spec

-----------------------------------------------------------------------------
(* The Resolver as Lookups *)

\* A step that concerns no caller but c changes the job and the answer of c only.
LEMMA OnlyCaller ==
  ASSUME NEW c \in Callers, \A d \in Callers \ {c} : Job(d)' = Job(d) /\ (got'[d] # 0) = (got[d] # 0)
  PROVE  /\ AllJobs' = [AllJobs EXCEPT ![c] = Job(c)'] /\ AllJobs[c] = Job(c)
         /\ Found' = [Found EXCEPT ![c] = got'[c] # 0]
         /\ Job(c)' = Job(c) => AllJobs' = AllJobs
         /\ (got'[c] # 0) = (got[c] # 0) => Found' = Found
<1>1. AllJobs' = [d \in Callers |-> Job(d)'] /\ AllJobs = [d \in Callers |-> Job(d)]
  BY Zenon DEF AllJobs
<1>2. Found' = [d \in Callers |-> got'[d] # 0] /\ Found = [d \in Callers |-> got[d] # 0]
  BY Zenon DEF Found
<1> QED
  BY <1>1, <1>2, Zenon

\* A step that changes nobody's job and nobody's answer.
LEMMA NoCaller ==
  ASSUME \A d \in Callers : Job(d)' = Job(d) /\ got'[d] = got[d]
  PROVE  UNCHANGED Promise!vars
<1>1. AllJobs' = AllJobs
  BY Zenon DEF AllJobs
<1>2. Found' = Found
  BY Zenon DEF Found
<1> QED
  BY <1>1, <1>2, Zenon DEF Promise!vars

\* Callers whose place and job stay, with a job whose pipe and flag stay, are not concerned.
LEMMA JobStays ==
  ASSUME NEW d \in Callers, cpc'[d] = cpc[d], cjob'[d] = cjob[d],
         cpc[d] \in {"notify", "pending"} =>
           byte'[cjob[d]] = byte[cjob[d]] /\ (byte[cjob[d]] => ok'[cjob[d]] = ok[cjob[d]])
  PROVE  Job(d)' = Job(d)
BY Zenon DEF Job

\* start() and resolve_blocking() that are done at once.
LEMMA AtOnceAsLookups ==
  ASSUME Inv, NEW c \in Callers,
         StartFails(c) \/ BlockingLookup(c) \/ \E k \in Keys : StartHit(c, k)
  PROVE  Promise!AtOnce(c)
<1>1. /\ cpc[c] \notin {"notify", "pending"} /\ cpc'[c] \notin {"notify", "pending"}
      /\ \A d \in Callers \ {c} : cpc'[d] = cpc[d] /\ cjob'[d] = cjob[d] /\ got'[d] = got[d]
      /\ UNCHANGED <<ok, byte>>
  BY Zenon DEF Inv, TypeOK, StartFails, BlockingLookup, StartHit, jobVars
<1>2. Job(c) = "none" /\ Job(c)' = "none"
  BY <1>1, Zenon DEF Job
<1>3. \A d \in Callers \ {c} : Job(d)' = Job(d) /\ (got'[d] # 0) = (got[d] # 0)
  BY <1>1, JobStays, Zenon
<1>4. /\ AllJobs' = AllJobs /\ AllJobs[c] = "none"
      /\ Found' = [Found EXCEPT ![c] = got'[c] # 0]
  BY <1>2, <1>3, OnlyCaller, Zenon
<1>5. (got'[c] # 0) \in BOOLEAN
  BY Zenon
<1> QED
  BY <1>4, <1>5, Zenon DEF Promise!AtOnce

\* The job is queued, unanswered.
LEMMA StartQueueAsLookups ==
  ASSUME Inv, NEW c \in Callers, StartQueue(c) PROVE Promise!Ask(c)
<1>1. /\ cpc[c] = "enqueue" /\ cpc'[c] = "notify" /\ UNCHANGED <<cjob, got, ok, byte>>
      /\ \A d \in Callers \ {c} : cpc'[d] = cpc[d]
  BY Zenon DEF Inv, TypeOK, StartQueue, jobVars
<1>2. ~byte[cjob[c]]
  BY <1>1, Zenon DEF Inv, Waited, Unseen
<1>3. Job(c) = "none" /\ Job(c)' = "pending"
  BY <1>1, <1>2, Zenon DEF Job
<1>4. \A d \in Callers \ {c} : Job(d)' = Job(d) /\ (got'[d] # 0) = (got[d] # 0)
  BY <1>1, JobStays, Zenon
<1>5. /\ AllJobs' = [AllJobs EXCEPT ![c] = "pending"] /\ AllJobs[c] = "none" /\ Found' = Found
  BY <1>1, <1>3, <1>4, OnlyCaller, Zenon
<1> QED
  BY <1>5, Zenon DEF Promise!Ask

\* The woken connection is given what was published for it, and addresses if there are any.
LEMMA FinishResolveAsLookups ==
  ASSUME Inv, NEW c \in Callers, FinishResolve(c) PROVE Promise!Take(c)
<1> DEFINE j == cjob[c]
<1>1. /\ cpc[c] = "pending" /\ byte[j] /\ cpc'[c] = "idle" /\ UNCHANGED <<ok, byte>>
      /\ \A d \in Callers \ {c} : cpc'[d] = cpc[d] /\ cjob'[d] = cjob[d] /\ got'[d] = got[d]
      /\ got'[c] = IF ok[j] THEN endpoints[j] ELSE 0
  BY Zenon DEF Inv, TypeOK, FinishResolve
<1>2. ok[j] => endpoints[j] # 0
  BY <1>1, Zenon DEF Inv, Waited, Awaited
<1>3. Job(c) = (IF ok[j] THEN "ok" ELSE "failed") /\ Job(c)' = "none"
  BY <1>1, Zenon DEF Job
<1>4. \A d \in Callers \ {c} : Job(d)' = Job(d) /\ (got'[d] # 0) = (got[d] # 0)
  BY <1>1, JobStays, Zenon
<1>5. /\ AllJobs' = [AllJobs EXCEPT ![c] = "none"] /\ AllJobs[c] = Job(c)
      /\ Found' = [Found EXCEPT ![c] = got'[c] # 0]
  BY <1>3, <1>4, OnlyCaller, Zenon
<1>6. AllJobs[c] \in {"ok", "failed"} /\ (got'[c] # 0) = (AllJobs[c] = "ok")
  BY <1>1, <1>2, <1>3, <1>5, Zenon
<1> QED
  BY <1>5, <1>6, Zenon DEF Promise!Take

\* A connection that goes away while it waits leaves its job behind.
LEMMA AbandonAsLookups ==
  ASSUME Inv, NEW c \in Callers, Abandon(c) PROVE Promise!Drop(c)
<1>1. /\ cpc[c] = "pending" /\ cpc'[c] = "idle" /\ UNCHANGED <<got, ok, byte>>
      /\ \A d \in Callers \ {c} : cpc'[d] = cpc[d] /\ cjob'[d] = cjob[d]
  BY Zenon DEF Inv, TypeOK, Abandon, jobVars
<1>2. Job(c) # "none" /\ Job(c)' = "none"
  BY <1>1, Zenon DEF Job
<1>3. \A d \in Callers \ {c} : Job(d)' = Job(d) /\ (got'[d] # 0) = (got[d] # 0)
  BY <1>1, JobStays, Zenon
<1>4. /\ AllJobs' = [AllJobs EXCEPT ![c] = "none"] /\ AllJobs[c] = Job(c) /\ Found' = Found
  BY <1>1, <1>2, <1>3, OnlyCaller, Zenon
<1> QED
  BY <1>2, <1>4, Zenon DEF Promise!Drop

\* The byte answers the job of one connection, or that of one that is gone.
LEMMA WriteByteAsLookups ==
  ASSUME Inv, NEW t \in Threads, WriteByte(t)
  PROVE  (\E c \in Callers : Promise!Answer(c)) \/ UNCHANGED Promise!vars
<1> DEFINE j == tjob[t]
<1>1. tpc[t] = "byte" /\ UNCHANGED <<cpc, cjob, got, ok>> /\ byte' = [byte EXCEPT ![j] = TRUE]
  BY Zenon DEF WriteByte, callVars
<1>2. ~byte[j] /\ j \in Jobs
  BY <1>1, StartedJobs, Zenon DEF Inv, InHand, Busy
<1>3. byte'[j] /\ \A i \in Jobs : i # j => byte'[i] = byte[i]
  BY <1>1, <1>2, Zenon DEF Inv, TypeOK
<1>4. \A d \in Callers : cpc[d] \in {"notify", "pending"} => cjob[d] \in Jobs
  BY StartedJobs, Zenon DEF Inv, Waited
<1>5. \A d \in Callers : (cpc[d] \in {"notify", "pending"} => cjob[d] # j) => Job(d)' = Job(d)
  BY <1>1, <1>3, <1>4, JobStays, Zenon
<1>6. CASE \E c \in Callers : cpc[c] \in {"notify", "pending"} /\ cjob[c] = j
  <2>1. PICK c \in Callers : cpc[c] \in {"notify", "pending"} /\ cjob[c] = j
    BY <1>6, Zenon
  <2>2. \A d \in Callers \ {c} : cpc[d] \in {"notify", "pending"} => cjob[d] # j
    BY <2>1, Zenon DEF Inv, Waited, Active
  <2>3. \A d \in Callers \ {c} : Job(d)' = Job(d) /\ (got'[d] # 0) = (got[d] # 0)
    BY <1>1, <1>5, <2>2, Zenon
  <2>4. Job(c) = "pending" /\ Job(c)' \in {"ok", "failed"}
    BY <1>1, <1>2, <1>3, <2>1, Zenon DEF Job
  <2>5. /\ AllJobs' = [AllJobs EXCEPT ![c] = Job(c)'] /\ AllJobs[c] = Job(c) /\ Found' = Found
    BY <1>1, <2>3, OnlyCaller, Zenon
  <2>6. Promise!Answer(c)
    BY <2>4, <2>5, Zenon DEF Promise!Answer
  <2> QED
    BY <2>6, Zenon
<1>7. CASE ~\E c \in Callers : cpc[c] \in {"notify", "pending"} /\ cjob[c] = j
  BY <1>1, <1>5, <1>7, NoCaller, Zenon
<1> QED
  BY <1>6, <1>7, Zenon

\* Steps that answer nobody.
LEMMA OtherAsLookups ==
  ASSUME Inv, \/ Tick \/ DnsChanges \/ MainStep \/ Joined \/ UNCHANGED vars
              \/ \E t \in Threads : Take(t) \/ Block(t) \/ Exit(t) \/ Spurious(t) \/ Work(t)
              \/ \E c \in Callers : StartNotify(c) \/ BlockingPut(c) \/ \E k \in Keys : StartMiss(c, k)
  PROVE  UNCHANGED Promise!vars
<1>1. CASE \/ Tick \/ DnsChanges \/ MainStep \/ Joined \/ UNCHANGED vars
           \/ \E t \in Threads : Take(t) \/ Block(t) \/ Exit(t) \/ Spurious(t) \/ Lookup(t) \/ CachePut(t) \/ Ready(t)
  <2>1. UNCHANGED <<cpc, cjob, got, ok, byte>>
    BY <1>1, Zenon DEF Tick, DnsChanges, MainStep, Close, NotifyAll, Join, Joined, vars, Take, Block, Exit, Spurious,
       Lookup, CachePut, Ready, callVars, jobVars
  <2> QED
    BY <2>1, JobStays, NoCaller, Zenon
<1>2. ASSUME NEW t \in Threads, Publish(t) PROVE UNCHANGED Promise!vars
  <2>1. /\ tpc[t] = "publish" /\ UNCHANGED <<cpc, cjob, got, byte>>
        /\ \A i \in Jobs : i # tjob[t] => ok'[i] = ok[i]
    BY <1>2, Zenon DEF Publish, callVars, Inv, TypeOK
  <2>2. ~byte[tjob[t]]
    BY <2>1, Zenon DEF Inv, InHand, Busy
  <2>3. \A d \in Callers : cpc[d] \in {"notify", "pending"} => cjob[d] \in Jobs
    BY StartedJobs, Zenon DEF Inv, Waited
  <2>4. \A d \in Callers : Job(d)' = Job(d)
    BY <2>1, <2>2, <2>3, JobStays, Zenon
  <2> QED
    BY <2>1, <2>4, NoCaller, Zenon
<1>3. ASSUME NEW c \in Callers, StartNotify(c) \/ BlockingPut(c) \/ \E k \in Keys : StartMiss(c, k)
      PROVE  UNCHANGED Promise!vars
  <2>1. /\ UNCHANGED <<got, ok, byte>>
        /\ \A d \in Callers \ {c} : cpc'[d] = cpc[d] /\ cjob'[d] = cjob[d]
    BY <1>3 DEF StartNotify, BlockingPut, StartMiss, jobVars, Inv, TypeOK
  <2>2. Job(c)' = Job(c)
    <3>1. CASE StartNotify(c)
      BY <3>1, ZenonT(30) DEF StartNotify, jobVars, Inv, TypeOK, Job
    <3>2. CASE BlockingPut(c) \/ \E k \in Keys : StartMiss(c, k)
      BY <3>2, SMTT(30) DEF BlockingPut, StartMiss, Inv, TypeOK, Job
    <3> QED
      BY <1>3, <3>1, <3>2, Zenon
  <2>3. \A d \in Callers \ {c} : Job(d)' = Job(d)
    BY <2>1, JobStays, Zenon
  <2> QED
    BY <2>1, <2>2, <2>3, NoCaller, ZenonT(30)
<1> QED
  BY <1>1, <1>2, <1>3, Zenon DEF Work

\* A resolver with any number of threads gives each connection the answer of its own job,
\* once, and wakes it only when the answer is there (start, worker_loop, finish_resolve).
THEOREM LookupsAreAnswered == Spec => AnswersAreKept
<1>1. Init => Promise!Init
  <2> SUFFICES ASSUME Init PROVE Promise!Init
    BY Zenon
  <2>1. \A c \in Callers : Job(c) = "none" /\ got[c] = 0
    BY Zenon DEF Init, Job
  <2> QED
    BY <2>1, Zenon DEF Promise!Init, AllJobs, Found
<1>2. Inv /\ [Next]_vars => [Promise!Next]_(Promise!vars)
  <2> SUFFICES ASSUME Inv, [Next]_vars PROVE [Promise!Next]_(Promise!vars)
    BY Zenon
  <2>1. ASSUME NEW t \in Threads, ThreadStep(t) \/ Spurious(t) PROVE [Promise!Next]_(Promise!vars)
    BY <2>1, WriteByteAsLookups, OtherAsLookups, Zenon DEF ThreadStep, Work, Promise!Next
  <2>2. ASSUME NEW c \in Callers, CallStep(c) \/ Abandon(c) PROVE [Promise!Next]_(Promise!vars)
    BY <2>2, AtOnceAsLookups, StartQueueAsLookups, FinishResolveAsLookups, AbandonAsLookups, OtherAsLookups, Zenon
       DEF CallStep, Promise!Next
  <2>3. ASSUME NEW c \in Callers, NEW k \in Keys, StartHit(c, k) \/ StartMiss(c, k)
        PROVE  [Promise!Next]_(Promise!vars)
    BY <2>3, AtOnceAsLookups, OtherAsLookups, Zenon DEF Promise!Next
  <2>4. CASE Tick \/ DnsChanges \/ MainStep \/ Joined \/ UNCHANGED vars
    BY <2>4, OtherAsLookups, Zenon
  <2> QED
    BY <2>1, <2>2, <2>3, <2>4, Zenon DEF Next
<1>3. Spec => []Inv
  BY InitInv, NextInv, PTL DEF Spec
<1> QED
  BY <1>1, <1>2, <1>3, PublishFirst, PTL DEF Spec, AnswersAreKept, Promise!Spec

-----------------------------------------------------------------------------
(* The start-up *)

\* A field has a value that a user gave it, or its default.
Given == [Fields -> Values \cup {"default"}]

TypeInv == cfg \in Given /\ from_file \in Given /\ flag \in Given /\ line \in Given

\* What main() remembers of the command line, and what the file's Config holds.
SoFar ==
  /\ \A f \in Fields \ Flags : flag[f] = "default"
  /\ set = {f \in Fields : f \in Reapplied /\ flag[f] # "default"}
  /\ from_file = line

\* Until the merge, cfg is what the flags say, and a file is read only if one is named.
BeforeMerge ==
  /\ pc \in {"args", "file"} => cfg = flag
  /\ pc = "args" => line = Default
  /\ pc = "file" => config_path

SourceInv == TypeInv /\ SoFar /\ BeforeMerge /\ EachFromItsSource

\* A fresh process satisfies the invariant.
LEMMA SourceInit == MainInit => SourceInv
<1> SUFFICES ASSUME StartupInit PROVE SourceInv
  BY Zenon DEF MainInit
<1>1. Default \in Given
  BY Zenon DEF Default, Given
<1>2. \A f \in Fields : Default[f] = "default"
  BY Zenon DEF Default
<1> QED
  BY <1>1, <1>2, Zenon DEF StartupInit, SourceInv, TypeInv, SoFar, BeforeMerge, EachFromItsSource

\* Every step keeps it.
LEMMA SourceStep == SourceInv /\ [MainNext]_allVars => SourceInv'
<1> SUFFICES ASSUME SourceInv, [MainNext]_allVars PROVE SourceInv'
  BY Zenon
<1> USE DEF SourceInv
<1>1. CASE ArgFlag
  <2> USE <1>1
  <2>1. PICK f \in Flags, v \in Values :
          /\ cfg' = [cfg EXCEPT ![f] = v]
          /\ set' = IF f \in Reapplied THEN set \cup {f} ELSE set
          /\ flag' = [flag EXCEPT ![f] = v]
    BY Zenon DEF ArgFlag
  <2>2. f \in Fields /\ v # "default"
    BY StartupAssumption, Zenon DEF Fields
  <2>3. pc = "args" /\ pc' = pc /\ from_file' = from_file /\ config_path' = config_path /\ line' = line /\ cfg = flag
    BY Zenon DEF ArgFlag, BeforeMerge
  <2>4. cfg' = flag' /\ TypeInv'
    BY <2>1, <2>2, <2>3, Zenon DEF TypeInv, Given
  <2>5. \A g \in Fields : flag'[g] = IF g = f THEN v ELSE flag[g]
    BY <2>1, <2>2, Zenon DEF TypeInv, Given
  <2>6. SoFar'
    <3>1. \A g \in Fields \ Flags : flag'[g] = "default"
      BY <2>5, Zenon DEF SoFar
    <3>2. \A g : g \in set' <=> g \in Fields /\ g \in Reapplied /\ flag'[g] # "default"
      BY <2>1, <2>2, <2>5, Zenon DEF SoFar
    <3> QED
      BY <2>3, <3>1, <3>2, Zenon DEF SoFar
  <2> QED
    BY <2>3, <2>4, <2>6, Zenon DEF BeforeMerge, EachFromItsSource
<1>2. CASE ArgPath \/ ArgExit
  BY <1>2, Zenon DEF ArgPath, ArgExit, TypeInv, SoFar, BeforeMerge, EachFromItsSource
<1>3. CASE ArgsEnd
  <2>1. TypeInv' /\ SoFar' /\ BeforeMerge'
    BY <1>3, Zenon DEF ArgsEnd, TypeInv, SoFar, BeforeMerge
  <2>2. ASSUME pc' = "start" PROVE ~config_path' /\ cfg' = flag' /\ line' = Default
    BY <1>3, <2>2, Zenon DEF ArgsEnd, BeforeMerge
  <2>3. EachFromItsSource'
    BY <2>1, <2>2, Zenon DEF EachFromItsSource, Default
  <2> QED
    BY <2>1, <2>3, Zenon
<1>4. CASE LineExit
  BY <1>4, Zenon DEF LineExit, TypeInv, SoFar, BeforeMerge, EachFromItsSource
<1>5. CASE LineKey
  <2>1. PICK f \in Lines, v \in Values :
          from_file' = [from_file EXCEPT ![f] = v] /\ line' = [line EXCEPT ![f] = v]
    BY <1>5, Zenon DEF LineKey
  <2>2. from_file' = line' /\ line' \in Given
    BY <2>1, Zenon DEF SoFar, TypeInv, Given, Fields
  <2> QED
    BY <1>5, <2>2, Zenon DEF LineKey, TypeInv, SoFar, BeforeMerge, EachFromItsSource
<1>6. CASE FileEnd
  <2> USE <1>6
  <2>1. cfg' = Merged /\ cfg = flag /\ config_path' /\ pc' = "start"
    BY Zenon DEF FileEnd, BeforeMerge
  <2>2. \A f \in Fields : cfg'[f] = IF f \in set THEN flag[f] ELSE line[f]
    BY <2>1, Zenon DEF Merged, SoFar
  <2>3. cfg' \in Given
    BY <2>1, Zenon DEF Merged, TypeInv, Given
  <2>4. EachFromItsSource'
    BY <2>1, <2>2, Zenon DEF FileEnd, EachFromItsSource, SoFar
  <2> QED
    BY <2>1, <2>3, <2>4, Zenon DEF FileEnd, TypeInv, SoFar, BeforeMerge
<1>7. CASE UNCHANGED startupVars
  BY <1>7, Zenon DEF startupVars, TypeInv, SoFar, BeforeMerge, EachFromItsSource
<1>8. CASE RaiseLimit \/ Bind \/ ListenFails \/ Make \/ Install \/ Signal \/ RunReturns \/ ShutDown
  <2>1. UNCHANGED <<cfg, from_file, config_path, set, flag, line>>
    BY <1>8, Zenon DEF RaiseLimit, Bind, ListenFails, Make, Install, Signal, RunReturns, ShutDown
  <2>2. pc' \in {"listen", "make", "handlers", "run", "shutdown", "exit"} \/ pc' = pc
    BY <1>8, Zenon DEF RaiseLimit, Bind, ListenFails, Make, Install, Signal, RunReturns, ShutDown
  <2> QED
    BY <2>1, <2>2, Zenon DEF TypeInv, SoFar, BeforeMerge, EachFromItsSource
<1> QED
  BY <1>1, <1>2, <1>3, <1>4, <1>5, <1>6, <1>7, <1>8, Zenon
  DEF MainNext, StartupNext, StartupOver, NextAddress, allVars

\* Every field of the configuration that main() starts with comes from its source: the
\* last flag that is put back, else the last line of the file (main.cpp, load_config).
THEOREM Sources == MainSpec => []EachFromItsSource
<1>1. SourceInv => EachFromItsSource
  BY Zenon DEF SourceInv
<1> QED
  BY <1>1, SourceInit, SourceStep, PTL DEF MainSpec

-----------------------------------------------------------------------------
\* make_cache and make_backend: without a lock, one user.
LEMMA CachesApart ==
  ASSUME NEW c \in Caches, NEW u \in c.users, NEW v \in c.users
  PROVE  c.locked \/ u = v
<1>1. CASE Cfg("backend") # "event_loop"
  <2>1. PICK users : c = Cache(users)
    BY <1>1, Zenon DEF Caches, Sharding
  <2> QED
    BY <1>1, <2>1, Zenon DEF Cache
<1>2. CASE Cfg("backend") = "event_loop" /\ Sharding
  BY <1>2 DEF Caches, Cache
<1>3. CASE Cfg("backend") = "event_loop" /\ ~Sharding
  <2>1. Caches = {Cache({1})}
    BY <1>3, Zenon DEF Caches
  <2> QED
    BY <2>1 DEF Cache
<1> QED
  BY <1>1, <1>2, <1>3, Zenon

\* A cache without a lock never has two users, whatever the configuration adds up to
\* (make_cache, make_backend, ShardedEventLoop::run).
THEOREM UnlockedHasOneUser == MainSpec => []OneUserWithoutLock
<1>1. MainInit => OneUserWithoutLock
  BY Zenon DEF MainInit, OneUserWithoutLock
<1>2. OneUserWithoutLock /\ [MainNext]_allVars => OneUserWithoutLock'
  <2> SUFFICES ASSUME OneUserWithoutLock, [MainNext]_allVars PROVE OneUserWithoutLock'
    BY Zenon
  <2>1. caches' \in {caches, {}, Caches}
    BY Zenon DEF MainNext, RaiseLimit, NextAddress, Bind, ListenFails, Make, Install, Signal, RunReturns,
           ShutDown, allVars, mainVars
  <2> QED
    BY <2>1, CachesApart, Zenon DEF OneUserWithoutLock
<1> QED
  BY <1>1, <1>2, PTL DEF MainSpec

-----------------------------------------------------------------------------
(* The descriptor limit *)

\* The limit in force is between the one that the process was started with and the hard
\* one.  Before the raise it is the first.
LimitInv ==
  /\ given \in Nat /\ hard \in HardLimits /\ soft \in given..hard
  /\ LimitRaised

\* A number of the system's own range is not changed by the conversion to rlim_t.
LEMMA ConversionKeeps ==
  ASSUME NEW n \in 0..OpenMax
  PROVE  n % RlimValues = n
<1>1. n < RlimValues /\ RlimValues > 0
  BY MainAssumption, SMTT(30)
<1> QED
  BY <1>1, MainAssumption, SMTT(30)

\* The configured limit is an integer, and converted a natural number.
LEMMA WantIsNatural ==
  ASSUME SourceInv
  PROVE  Cfg("desired_fd_limit") \in Int /\ Want \in Nat
<1>1. Cfg("desired_fd_limit") \in Int
  BY MainAssumption, Zenon DEF SourceInv, TypeInv, Given, Cfg
<1> QED
  BY <1>1, MainAssumption DEF Want

\* fd_limit_raise keeps the limit in its range, and reaches what was asked for if it can.
LEMMA RaiseStep == SourceInv /\ LimitInv /\ RaiseLimit => LimitInv'
<1> SUFFICES ASSUME SourceInv, LimitInv, RaiseLimit PROVE LimitInv'
  BY Zenon
<1>1. given' = given /\ hard' = hard /\ cfg' = cfg
  BY Zenon DEF RaiseLimit
<1>2. Want \in Nat /\ hard \in Nat /\ soft \in Nat /\ given \in Nat /\ OpenMax \in Nat /\ Target \in {Want, hard}
  BY WantIsNatural, MainAssumption DEF LimitInv, Target
<1>3. soft' \in given..hard
  BY <1>2 DEF RaiseLimit, LimitInv
<1>4. ASSUME Cfg("desired_fd_limit") \in 0..OpenMax
      PROVE  soft' >= Cfg("desired_fd_limit") \/ soft' = hard
  <2>1. Want = Cfg("desired_fd_limit")
    BY <1>4, ConversionKeeps, Zenon DEF Want
  <2>2. hard = RlimInfinity => Want <= hard
    BY <1>4, <2>1, MainAssumption, SMTT(30) DEF RlimInfinity
  <2>3. CASE soft >= Want
    BY <1>2, <2>1, <2>3, SMTT(30) DEF RaiseLimit
  <2>4. CASE soft < Want /\ Target = Want
    BY <1>2, <1>4, <2>1, <2>2, <2>4, SMTT(30) DEF RaiseLimit, Target
  <2>5. CASE soft < Want /\ Target = hard /\ hard <= Want
    BY <1>2, <1>4, <2>1, <2>5, SMTT(30) DEF RaiseLimit
  <2> QED
    BY <1>2, <2>3, <2>4, <2>5, SMTT(30) DEF Target
<1>5. Cfg("desired_fd_limit")' = Cfg("desired_fd_limit")
  BY <1>1, Zenon DEF Cfg
<1>6. LimitRaised'
  BY <1>1, <1>3, <1>4, <1>5, Zenon DEF LimitRaised
<1> QED
  BY <1>1, <1>2, <1>3, <1>6, Zenon DEF LimitInv

\* Every other step leaves the limit and, once it is raised, the configuration alone.
LEMMA LimitStep == SourceInv /\ LimitInv /\ [MainNext]_allVars => LimitInv'
<1> SUFFICES ASSUME SourceInv, LimitInv, [MainNext]_allVars, ~RaiseLimit PROVE LimitInv'
  BY RaiseStep, Zenon
<1>1. UNCHANGED <<given, soft, hard>>
  BY Zenon DEF MainNext, NextAddress, Bind, ListenFails, Make, Install, Signal, RunReturns, ShutDown, allVars, mainVars
<1>2. pc' \in {"args", "file", "start", "exit"} \/ (cfg' = cfg /\ pc \notin {"args", "file", "start", "exit"})
  BY Zenon DEF MainNext, StartupNext, ArgFlag, ArgPath, ArgExit, ArgsEnd, LineExit, LineKey, FileEnd, StartupOver, NextAddress, Bind,
         ListenFails, Make, Install, Signal, RunReturns, ShutDown, allVars, startupVars
<1>3. CASE pc' \in {"args", "file", "start", "exit"}
  BY <1>1, <1>3, Zenon DEF LimitInv, LimitRaised
<1>4. CASE cfg' = cfg /\ pc \notin {"args", "file", "start", "exit"}
  <2>1. Cfg("desired_fd_limit")' = Cfg("desired_fd_limit")
    BY <1>4, Zenon DEF Cfg
  <2> QED
    BY <1>1, <1>4, <2>1, Zenon DEF LimitInv, LimitRaised
<1> QED
  BY <1>2, <1>3, <1>4, Zenon

\* The proxy runs with a descriptor limit between the one it was started with and the
\* hard one, and with what the configuration asks for where it can be had, for every width
\* of rlim_t and every limit (fd_limit_raise).
THEOREM LimitKept == MainSpec => []LimitRaised
<1>1. MainInit => LimitInv
  <2> SUFFICES ASSUME MainInit PROVE LimitInv
    BY Zenon
  <2>1. hard \in HardLimits /\ hard \in Nat /\ soft \in 1..hard /\ given = soft /\ pc = "args"
    BY MainAssumption DEF MainInit, StartupInit
  <2> QED
    BY <2>1 DEF LimitInv, LimitRaised
<1>2. LimitInv => LimitRaised
  BY Zenon DEF LimitInv
<1> QED
  BY <1>1, <1>2, SourceInit, SourceStep, LimitStep, PTL DEF MainSpec
=============================================================================
