------------------------------ MODULE LruCache ------------------------------
(***************************************************************************)
(* The response cache, LruCacheImpl of cache.hpp: a list in order of       *)
(* recency, an index from key to list node, and a count of the bytes held, *)
(* used by several threads through one mutex.                              *)
(*                                                                         *)
(* A response is represented by its size.  A node of order_ is known by    *)
(* its key, so index_ is the set of the keys it maps.  get, and put of a   *)
(* key that is present, do one thing under the lock and are one step;      *)
(* inserting a key takes a step per statement that changes the cache, so   *)
(* that the lock is what keeps the structures in step, and not the model.  *)
(***************************************************************************)
EXTENDS Integers, Sequences, SequencesExt, FiniteSets

CONSTANTS
  Threads,
  Keys,
  Sizes,        \* sizes of responses
  MaxEntries,   \* max_entries_, 0 for no limit
  MaxBytes,     \* max_bytes_, 0 for no limit
  MaxOps        \* bound: how many calls there are

ASSUME CacheAssumption ==
  /\ Sizes \subseteq Nat \ {0}
  /\ MaxEntries \in Nat /\ MaxBytes \in Nat /\ MaxOps \in Nat
  /\ "free" \notin Threads

VARIABLES
  order,    \* order_: entries, most recent first
  index,    \* the keys of index_
  bytes,    \* bytes_
  mutex,    \* mutex_: the thread that holds it, or "free"
  pc,       \* pc[t]: where in put() thread t is
  entry,    \* entry[t]: the Entry thread t is inserting, as a sequence of none or one
  clock,    \* how many calls have taken the lock
  used,     \* used[k]: the call that used key k last
  latest    \* latest[k]: the response last put under k

vars == <<order, index, bytes, mutex, pc, entry, clock, used, latest>>

Entries == [key : Keys, response : Sizes]

Init ==
  /\ order = <<>> /\ index = {} /\ bytes = 0
  /\ mutex = "free"
  /\ pc = [t \in Threads |-> "idle"]
  /\ entry = [t \in Threads |-> <<>>]
  /\ clock = 0
  /\ used = [k \in Keys |-> 0] /\ latest = [k \in Keys |-> 0]

Position(k) == CHOOSE i \in 1..Len(order) : order[i].key = k

\* The list with the entry of key k taken out, its response replaced, at the front.
Spliced(k, r) ==
  <<[key |-> k, response |-> r]>> \o RemoveAt(order, Position(k))

\* lock_guard<NullMutex>, which keeps nobody out.
NullLock(t) == pc[t] = "idle"

\* lock_guard: a call begins when nobody is inside.
Lock(t) == pc[t] = "idle" /\ mutex = "free"

\* A call on key k takes its turn.
Use(k) ==
  /\ clock < MaxOps
  /\ clock' = clock + 1
  /\ used' = [used EXCEPT ![k] = clock + 1]

\* A get that does not touch the recency list.
GetWithoutSplice(t, k) ==
  /\ Lock(t)
  /\ k \in index
  /\ Use(k)
  /\ UNCHANGED <<order, index, bytes, mutex, pc, entry, latest>>

\* A hit; a miss changes nothing here.
Get(t, k) ==
  /\ Lock(t)
  /\ k \in index
  /\ Use(k)
  /\ order' = Spliced(k, order[Position(k)].response)
  /\ UNCHANGED <<index, bytes, mutex, pc, entry, latest>>

\* put of a key that is present: replace the response, and return.
PutUpdate(t, k, r) ==
  /\ Lock(t)
  /\ k \in index
  /\ Use(k)
  /\ order' = Spliced(k, r)
  /\ bytes' = (bytes - order[Position(k)].response) + r
  /\ latest' = [latest EXCEPT ![k] = r]
  /\ UNCHANGED <<index, mutex, pc, entry>>

\* put of a new key: push_front ...
PutInsert(t, k, r) ==
  /\ Lock(t)
  /\ k \notin index
  /\ Use(k)
  /\ mutex' = t
  /\ entry' = [entry EXCEPT ![t] = <<[key |-> k, response |-> r]>>]
  /\ order' = entry'[t] \o order
  /\ latest' = [latest EXCEPT ![k] = r]
  /\ pc' = [pc EXCEPT ![t] = "index"]
  /\ UNCHANGED <<index, bytes>>

\* ... enter it in the index, and count it.
PutIndex(t) ==
  /\ pc[t] = "index"
  /\ index' = index \cup {Head(entry[t]).key}
  /\ bytes' = bytes + Head(entry[t]).response
  /\ entry' = [entry EXCEPT ![t] = <<>>]
  /\ pc' = [pc EXCEPT ![t] = "evict"]
  /\ UNCHANGED <<order, mutex, clock, used, latest>>

\* The loop's condition.
OverLimit ==
  \/ MaxEntries # 0 /\ Cardinality(index) > MaxEntries
  \/ MaxBytes # 0 /\ bytes > MaxBytes

\* The loop: take the oldest entry off the count and the index ...
EvictVictim(t) ==
  /\ pc[t] = "evict"
  /\ OverLimit /\ order # <<>>
  /\ bytes' = bytes - Last(order).response
  /\ index' = index \ {Last(order).key}
  /\ pc' = [pc EXCEPT ![t] = "pop"]
  /\ UNCHANGED <<order, mutex, entry, clock, used, latest>>

\* ... and off the list.
EvictPop(t) ==
  /\ pc[t] = "pop"
  /\ order' = Front(order)
  /\ pc' = [pc EXCEPT ![t] = "evict"]
  /\ UNCHANGED <<index, bytes, mutex, entry, clock, used, latest>>

\* put returns, and the lock_guard unlocks.
PutReturn(t) ==
  /\ pc[t] = "evict"
  /\ ~OverLimit \/ order = <<>>
  /\ mutex' = "free"
  /\ pc' = [pc EXCEPT ![t] = "idle"]
  /\ UNCHANGED <<order, index, bytes, entry, clock, used, latest>>

\* No more calls.
Quiet ==
  /\ clock = MaxOps /\ \A t \in Threads : pc[t] = "idle"
  /\ UNCHANGED vars

Next ==
  \/ \E t \in Threads, k \in Keys : Get(t, k)
  \/ \E t \in Threads, k \in Keys, r \in Sizes : PutUpdate(t, k, r) \/ PutInsert(t, k, r)
  \/ \E t \in Threads : PutIndex(t) \/ EvictVictim(t) \/ EvictPop(t) \/ PutReturn(t)
  \/ Quiet

Spec == Init /\ [][Next]_vars

-----------------------------------------------------------------------------
(* Properties *)

Held ==
  LET sum[n \in 0..Len(order)] == IF n = 0 THEN 0 ELSE sum[n - 1] + order[n].response
  IN  sum[Len(order)]

\* "The two structures must stay in step": whenever nobody is inside, the list and the
\* index hold the same keys, each once and no more than max_entries_, and bytes_ is what
\* the list holds.  At no time does bytes_, which is unsigned, wrap below zero.
InStep ==
  /\ bytes >= 0
  /\ mutex = "free" =>
       /\ index = {order[i].key : i \in 1..Len(order)}
       /\ Cardinality(index) = Len(order)
       /\ MaxEntries # 0 => Len(order) <= MaxEntries
       /\ bytes = Held

\* Eviction takes the least recently used: the list is in order of last use, every key
\* that is gone was used before every key that is still there, and what a hit serves is
\* the response last put under its key, never an older one.
MostRecentKept ==
  /\ \A i, j \in 1..Len(order) : i < j => used[order[i].key] > used[order[j].key]
  /\ \A i \in 1..Len(order) : order[i].response = latest[order[i].key]
  /\ mutex = "free" =>
       \A k \in Keys \ index, i \in 1..Len(order) : used[k] < used[order[i].key]

\* "Bounded by BOTH entry count and total bytes": bytes_ is within its bound
\* whenever nobody is inside.
BytesBounded ==
  (mutex = "free" /\ MaxBytes # 0) => bytes <= MaxBytes
=============================================================================
