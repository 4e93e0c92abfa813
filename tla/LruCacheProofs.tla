--------------------------- MODULE LruCacheProofs ---------------------------
(***************************************************************************)
(* Proofs about the response cache, for any numbers of threads, keys,      *)
(* entries and bytes and any sequence of calls.                            *)
(*                                                                         *)
(* What the list says is stated of any list o and any times of use u, so   *)
(* that a step is one fact about the list before and the list after it.    *)
(***************************************************************************)
EXTENDS LruCache, SequenceTheorems, FiniteSetTheorems, TLAPS

KeysOf(o) == {o[i].key : i \in 1..Len(o)}

\* The list is in order of last use, and what is not in it was used before that.
Sorted(o, u) == \A i, j \in 1..Len(o) : i < j => u[o[i].key] > u[o[j].key]
Gone(o, u)   == \A k \in Keys \ KeysOf(o), i \in 1..Len(o) : u[k] < u[o[i].key]

\* The list holds what was put last.
UpToDate(o, l) == \A i \in 1..Len(o) : o[i].response = l[o[i].key]

TypeInv ==
  /\ order \in Seq(Entries) /\ index \subseteq Keys
  /\ pc \in [Threads -> {"idle", "index", "evict", "pop"}]
  /\ entry \in [Threads -> Seq(Entries)]
  /\ clock \in Nat /\ used \in [Keys -> Nat] /\ latest \in [Keys -> Nat]
  /\ \A k \in Keys : used[k] <= clock

\* Who is inside holds the lock.
LockInv ==
  /\ mutex \in Threads \cup {"free"}
  /\ \A t \in Threads : pc[t] # "idle" <=> mutex = t

\* The index has the keys of the list, except for the entry that is being put in or
\* taken out.
IndexInv ==
  /\ mutex = "free" => index = KeysOf(order)
  /\ \A t \in Threads :
       /\ pc[t] = "evict" => index = KeysOf(order)
       /\ pc[t] = "index" => /\ Len(entry[t]) = 1 /\ order # <<>> /\ order[1] = entry[t][1]
                             /\ index = KeysOf(order) \ {order[1].key}
       /\ pc[t] = "pop" => order # <<>> /\ index = KeysOf(order) \ {order[Len(order)].key}

ListInv == Sorted(order, used) /\ Gone(order, used) /\ UpToDate(order, latest)

IInv == TypeInv /\ LockInv /\ IndexInv /\ ListInv

-----------------------------------------------------------------------------
(* Lists *)

\* A list of entries, by its members.
LEMMA ListOfEntries ==
  ASSUME NEW o \in Seq(Entries)
  PROVE  Len(o) \in Nat /\ \A i \in 1..Len(o) : o[i] \in Entries /\ o[i].key \in Keys
<1>1. Len(o) \in Nat /\ \A i \in 1..Len(o) : o[i] \in Entries
  BY ElementOfSeq, LenProperties, Zenon
<1>2. \A e \in Entries : e.key \in Keys
  BY Zenon DEF Entries
<1> QED
  BY <1>1, <1>2, Zenon

\* Splicing moves one entry to the front and shifts those before it.
LEMMA SpliceShape ==
  ASSUME NEW o \in Seq(Entries), NEW p \in 1..Len(o), NEW e \in Entries
  PROVE  LET n == <<e>> \o RemoveAt(o, p)
         IN  /\ n \in Seq(Entries) /\ Len(n) = Len(o) /\ n[1] = e
             /\ \A i \in 2..Len(o) : n[i] = o[IF i <= p THEN i - 1 ELSE i]
<1> DEFINE a == SubSeq(o, 1, p - 1)
           b == SubSeq(o, p + 1, Len(o))
<1>1. a \in Seq(Entries) /\ Len(a) = p - 1 /\ \A i \in 1..(p - 1) : a[i] = o[i]
  OBVIOUS
<1>2. b \in Seq(Entries) /\ Len(b) = Len(o) - p /\ \A i \in 1..(Len(o) - p) : b[i] = o[p + i]
  OBVIOUS
<1>3. RemoveAt(o, p) = a \o b
  BY Zenon DEF RemoveAt
<1> HIDE DEF a, b
<1> DEFINE m == a \o b
<1>4. m \in Seq(Entries) /\ Len(m) = Len(o) - 1
  <2>1. m \in Seq(Entries) /\ Len(m) = Len(a) + Len(b)
    BY <1>1, <1>2, ConcatProperties, Zenon
  <2> QED
    BY <1>1, <1>2, <2>1, SMTT(30)
<1>5. \A i \in 1..(Len(o) - 1) : m[i] = o[IF i < p THEN i ELSE i + 1]
  <2> SUFFICES ASSUME NEW i \in 1..(Len(o) - 1)
               PROVE  (i < p => m[i] = o[i]) /\ (~(i < p) => m[i] = o[i + 1])
    BY Zenon
  <2>0. Len(o) \in Nat /\ m[i] = IF i <= Len(a) THEN a[i] ELSE b[i - Len(a)]
    BY <1>1, <1>2, <1>4, ConcatProperties, SMTT(30)
  <2>1. CASE i < p
    BY <1>1, <2>0, <2>1, SMTT(30)
  <2>2. CASE ~(i < p)
    <3>1. m[i] = b[i - (p - 1)]
      BY <1>1, <2>0, <2>2, SMTT(30)
    <3>2. i - (p - 1) \in 1..(Len(o) - p) /\ p + (i - (p - 1)) = i + 1
      BY <2>0, <2>2
    <3> QED
      BY <1>2, <2>2, <3>1, <3>2, Zenon
  <2> QED
    BY <2>1, <2>2, Zenon
<1> HIDE DEF m
<1> DEFINE n == <<e>> \o m
<1>6. n \in Seq(Entries) /\ Len(n) = Len(o) /\ n[1] = e
  BY <1>4
<1>7. \A i \in 2..Len(o) : n[i] = m[i - 1]
  BY <1>4
<1>8. \A i \in 2..Len(o) : n[i] = o[IF i <= p THEN i - 1 ELSE i]
  <2> SUFFICES ASSUME NEW i \in 2..Len(o) PROVE n[i] = o[IF i <= p THEN i - 1 ELSE i]
    BY Zenon
  <2>1. i - 1 \in 1..(Len(o) - 1) /\ (i - 1) + 1 = i /\ (i - 1 < p <=> i <= p)
    BY LenProperties
  <2> QED
    BY <1>5, <1>7, <2>1, Zenon
<1> QED
  BY <1>3, <1>6, <1>8, Zenon DEF m

\* push_front shifts all.
LEMMA PushShape ==
  ASSUME NEW o \in Seq(Entries), NEW e \in Entries
  PROVE  LET n == <<e>> \o o
         IN  /\ n \in Seq(Entries) /\ Len(n) = Len(o) + 1 /\ n[1] = e
             /\ \A i \in 2..(Len(o) + 1) : n[i] = o[i - 1]
OBVIOUS

\* pop_back leaves the others where they are.
LEMMA PopShape ==
  ASSUME NEW o \in Seq(Entries), o # <<>>
  PROVE  /\ Front(o) \in Seq(Entries) /\ Len(Front(o)) = Len(o) - 1
         /\ \A i \in 1..(Len(o) - 1) : Front(o)[i] = o[i]
<1>1. Len(o) \in Nat \ {0} /\ \A i \in 1..(Len(o) - 1) : o[i] \in Entries
  BY ListOfEntries, EmptySeq
<1>2. 1 \in Int /\ Len(o) - 1 \in Int
  BY <1>1
<1> DEFINE f == SubSeq(o, 1, Len(o) - 1)
<1>3. /\ f \in Seq(Entries)
      /\ Len(f) = IF 1 <= Len(o) - 1 THEN (Len(o) - 1) - 1 + 1 ELSE 0
      /\ \A i \in 1..((Len(o) - 1) - 1 + 1) : f[i] = o[1 + i - 1]
  BY <1>1, <1>2, SubSeqProperties, SMTT(30)
<1>4. Front(o) = f
  BY Zenon DEF Front
<1> HIDE DEF f
<1>5. Len(f) = Len(o) - 1
  <2>1. CASE Len(o) = 1
    BY <1>3, <2>1, SMTT(30)
  <2>2. CASE Len(o) > 1
    <3>1. 1 <= Len(o) - 1 /\ (Len(o) - 1) - 1 + 1 = Len(o) - 1
      BY <1>1, <2>2, SMTT(30)
    <3> QED
      BY <1>3, <3>1, Zenon
  <2>3. \A m \in Nat \ {0} : m = 1 \/ m > 1
    OBVIOUS
  <2> QED
    BY <1>1, <2>1, <2>2, <2>3, Zenon
<1>6. \A i \in 1..(Len(o) - 1) : f[i] = o[i]
  <2> SUFFICES ASSUME NEW i \in 1..(Len(o) - 1) PROVE f[i] = o[i]
    BY Zenon
  <2>1. i \in 1..((Len(o) - 1) - 1 + 1) /\ 1 + i - 1 = i
    BY <1>1
  <2> QED
    BY <1>3, <2>1, Zenon
<1> QED
  BY <1>3, <1>4, <1>5, <1>6, Zenon

\* Strictly ordered times of use mean that no key occurs twice.
LEMMA NoKeyTwice ==
  ASSUME NEW o \in Seq(Entries), NEW u \in [Keys -> Nat], Sorted(o, u),
         NEW i \in 1..Len(o), NEW j \in 1..Len(o), o[i].key = o[j].key
  PROVE  i = j
<1>1. \A m \in 1..Len(o) : o[m].key \in Keys
  BY ListOfEntries, Zenon
<1>2. u[o[i].key] \in Nat
  BY <1>1, Zenon
<1> QED
  BY <1>2 DEF Sorted

\* A call has just used the entry e: v and w are the times of use and the responses after
\* it, u and l those before it, o the list it found.
UsedNow(o, e, u, v, l, w) ==
  /\ o \in Seq(Entries) /\ e \in Entries /\ u \in [Keys -> Nat] /\ v \in [Keys -> Nat]
  /\ \A k \in Keys : u[k] < v[e.key] /\ (k # e.key => v[k] = u[k])
  /\ \A k \in Keys : k # e.key => w[k] = l[k]
  /\ e.response = w[e.key]
  /\ Sorted(o, u) /\ Gone(o, u) /\ UpToDate(o, l)

Splicing(o, p, e, u, v, l, w, n) ==
  UsedNow(o, e, u, v, l, w) /\ p \in 1..Len(o) /\ e.key = o[p].key /\ n = <<e>> \o RemoveAt(o, p)

Pushing(o, e, u, v, l, w, n) ==
  UsedNow(o, e, u, v, l, w) /\ e.key \notin KeysOf(o) /\ n = <<e>> \o o

\* The same key moved to the front, used now.
LEMMA SpliceKeeps ==
  ASSUME NEW o, NEW p, NEW e, NEW u, NEW v, NEW l, NEW w, NEW n,
         Splicing(o, p, e, u, v, l, w, n)
  PROVE  /\ n \in Seq(Entries)
         /\ KeysOf(n) = KeysOf(o)
         /\ Sorted(n, v) /\ Gone(n, v) /\ UpToDate(n, w)
<1>0. /\ o \in Seq(Entries) /\ e \in Entries /\ u \in [Keys -> Nat] /\ v \in [Keys -> Nat]
      /\ \A k \in Keys : u[k] < v[e.key] /\ (k # e.key => v[k] = u[k])
      /\ \A k \in Keys : k # e.key => w[k] = l[k]
      /\ e.response = w[e.key] /\ Sorted(o, u) /\ Gone(o, u) /\ UpToDate(o, l)
      /\ p \in 1..Len(o) /\ e.key = o[p].key
  BY Zenon DEF Splicing, UsedNow
<1>n. n = <<e>> \o RemoveAt(o, p)
  BY Zenon DEF Splicing
<1> USE <1>0
<1>1. /\ n \in Seq(Entries) /\ Len(n) = Len(o) /\ n[1] = e
      /\ \A i \in 2..Len(o) : n[i] = o[IF i <= p THEN i - 1 ELSE i]
  BY <1>n, SpliceShape, SMTT(30)
<1>2. Len(o) \in Nat /\ e.key \in Keys /\ \A i \in 1..Len(o) : o[i].key \in Keys
  <2>1. e.key \in Keys
    BY Zenon DEF Entries
  <2> QED
    BY <2>1, ListOfEntries, Zenon
<1> DEFINE at(i) == IF i <= p THEN i - 1 ELSE i
<1>3. \A i \in 2..Len(o) : at(i) \in 1..Len(o) /\ at(i) # p /\ n[i] = o[at(i)] /\ n[i].key # e.key /\ n[i].key \in Keys
  <2> SUFFICES ASSUME NEW i \in 2..Len(o)
               PROVE  at(i) \in 1..Len(o) /\ at(i) # p /\ n[i] = o[at(i)] /\ n[i].key # e.key /\ n[i].key \in Keys
    BY Zenon
  <2>0. Len(o) \in Nat /\ p \in 1..Len(o) /\ n[i] = o[at(i)]
    BY <1>1, <1>2, Zenon
  <2>1. at(i) \in 1..Len(o) /\ at(i) # p /\ n[i] = o[at(i)]
    <3>1. CASE i <= p
      BY <2>0, <3>1, SMTT(30)
    <3>2. CASE i > p
      BY <2>0, <3>2, SMTT(30)
    <3> QED
      BY <2>0, <3>1, <3>2, SMTT(30)
  <2>2. o[at(i)].key # o[p].key
    BY <2>1, NoKeyTwice, Zenon
  <2> QED
    BY <1>2, <2>1, <2>2, Zenon
<1>31. /\ \A i \in 1..Len(o) : i < p => i + 1 \in 2..Len(o) /\ at(i + 1) = i
       /\ \A i \in 1..Len(o) : i > p => i \in 2..Len(o) /\ at(i) = i
       /\ \A i, j \in 2..Len(o) : i < j => at(i) < at(j)
  BY <1>2
<1>32. \A i \in 2..Len(o) : v[n[i].key] = u[o[at(i)].key]
  <2>1. ASSUME NEW i \in 2..Len(o) PROVE v[n[i].key] = u[o[at(i)].key]
    <3>1. n[i].key \in Keys /\ n[i].key # e.key /\ n[i] = o[at(i)]
      BY <1>3, Zenon
    <3> QED
      BY <3>1, Zenon
  <2> QED
    BY <2>1, Zenon
<1>33. 1..Len(n) = {1} \cup 2..Len(o)
  BY <1>1, <1>2, SMTT(30)
<1> HIDE DEF at
<1>4. KeysOf(n) = KeysOf(o)
  <2>1. ASSUME NEW i \in 1..Len(n) PROVE n[i].key \in KeysOf(o)
    <3>1. CASE i = 1
      BY <1>1, <3>1, Zenon DEF KeysOf
    <3>2. CASE i \in 2..Len(o)
      BY <1>3, <3>2, ZenonT(30) DEF KeysOf
    <3> QED
      BY <1>1, <1>2, <3>1, <3>2, SMTT(30)
  <2>2. ASSUME NEW i \in 1..Len(o) PROVE o[i].key \in KeysOf(n)
    <3>1. CASE i = p
      <4>1. 1 \in 1..Len(n) /\ n[1].key = o[i].key
        BY <1>1, <1>2, <3>1, SMTT(30)
      <4> QED
        BY <4>1, Zenon DEF KeysOf
    <3>2. CASE i < p
      <4>1. i + 1 \in 2..Len(o) /\ at(i + 1) = i
        BY <1>31, <3>2, Zenon
      <4>2. n[i + 1] = o[i] /\ i + 1 \in 1..Len(n)
        BY <1>3, <1>33, <4>1, Zenon
      <4> QED
        BY <4>2, Zenon DEF KeysOf
    <3>3. CASE i > p
      <4>1. i \in 2..Len(o) /\ at(i) = i
        BY <1>31, <3>3, Zenon
      <4>2. n[i] = o[i] /\ i \in 1..Len(n)
        BY <1>3, <1>33, <4>1, SMTT(30)
      <4> QED
        BY <4>2, Zenon DEF KeysOf
    <3> QED
      BY <3>1, <3>2, <3>3
  <2>3. KeysOf(n) \subseteq KeysOf(o)
    <3>1. \A x \in KeysOf(n) : \E i \in 1..Len(n) : x = n[i].key
      BY Zenon DEF KeysOf
    <3> QED
      BY <2>1, <3>1, Zenon
  <2>4. KeysOf(o) \subseteq KeysOf(n)
    <3>1. \A x \in KeysOf(o) : \E i \in 1..Len(o) : x = o[i].key
      BY Zenon DEF KeysOf
    <3> QED
      BY <2>2, <3>1, Zenon
  <2> QED
    BY <2>3, <2>4, Zenon
<1>5. Sorted(n, v)
  <2> SUFFICES ASSUME NEW i \in 1..Len(n), NEW j \in 1..Len(n), i < j PROVE v[n[i].key] > v[n[j].key]
    BY Zenon DEF Sorted
  <2>0. j \in 2..Len(o)
    BY <1>1, <1>2, SMTT(30)
  <2>1. v[n[j].key] = u[o[at(j)].key] /\ u[o[at(j)].key] \in Nat /\ u[o[at(j)].key] < v[e.key]
    BY <1>2, <1>3, <1>32, <2>0, ZenonT(30)
  <2>2. CASE i = 1
    BY <1>1, <1>2, <2>1, <2>2, SMTT(30)
  <2>3. CASE i \in 2..Len(o)
    <3>1. v[n[i].key] = u[o[at(i)].key] /\ at(i) < at(j) /\ at(i) \in 1..Len(o) /\ at(j) \in 1..Len(o)
      BY <1>3, <1>31, <1>32, <2>0, <2>3, SMTT(30)
    <3>2. u[o[at(i)].key] > u[o[at(j)].key]
      BY <3>1, SMTT(30) DEF Sorted
    <3> QED
      BY <2>1, <3>1, <3>2, SMTT(30)
  <2> QED
    BY <1>1, <1>2, <2>2, <2>3, SMTT(30)
<1>6. Gone(n, v)
  <2> SUFFICES ASSUME NEW k \in Keys \ KeysOf(o), NEW i \in 1..Len(n) PROVE v[k] < v[n[i].key]
    BY <1>4, SMTT(30) DEF Gone
  <2>1. e.key \in KeysOf(o)
    BY Zenon DEF KeysOf
  <2>2. v[k] = u[k] /\ u[k] < v[e.key]
    BY <2>1, SMTT(30)
  <2>3. CASE i = 1
    BY <1>1, <2>2, <2>3, SMTT(30)
  <2>4. CASE i \in 2..Len(o)
    <3>1. v[n[i].key] = u[o[at(i)].key] /\ at(i) \in 1..Len(o)
      BY <1>3, <1>32, <2>4, SMTT(30)
    <3>2. u[k] < u[o[at(i)].key]
      BY <3>1, Zenon DEF Gone
    <3> QED
      BY <2>2, <3>1, <3>2, SMTT(30)
  <2> QED
    BY <1>1, <1>2, <2>3, <2>4
<1>7. UpToDate(n, w)
  <2> SUFFICES ASSUME NEW i \in 1..Len(n) PROVE n[i].response = w[n[i].key]
    BY Zenon DEF UpToDate
  <2>1. CASE i = 1
    BY <1>1, <2>1, SMTT(30)
  <2>2. CASE i \in 2..Len(o)
    <3>1. at(i) \in 1..Len(o) /\ n[i] = o[at(i)] /\ w[n[i].key] = l[n[i].key]
      BY <1>3, <2>2, SMTT(30)
    <3> QED
      BY <3>1, SMTT(30) DEF UpToDate
  <2> QED
    BY <1>1, <1>2, <2>1, <2>2, SMTT(30)
<1> QED
  BY <1>1, <1>4, <1>5, <1>6, <1>7, SMTT(30)

\* A new key at the front, used now.
LEMMA PushKeeps ==
  ASSUME NEW o, NEW e, NEW u, NEW v, NEW l, NEW w, NEW n,
         Pushing(o, e, u, v, l, w, n)
  PROVE  /\ n \in Seq(Entries) /\ n # <<>> /\ n[1] = e
         /\ KeysOf(o) = KeysOf(n) \ {e.key}
         /\ Sorted(n, v) /\ Gone(n, v) /\ UpToDate(n, w)
<1>0. /\ o \in Seq(Entries) /\ e \in Entries /\ u \in [Keys -> Nat] /\ v \in [Keys -> Nat]
      /\ \A k \in Keys : u[k] < v[e.key] /\ (k # e.key => v[k] = u[k])
      /\ \A k \in Keys : k # e.key => w[k] = l[k]
      /\ e.response = w[e.key] /\ Sorted(o, u) /\ Gone(o, u) /\ UpToDate(o, l)
      /\ e.key \notin KeysOf(o)
  BY Zenon DEF Pushing, UsedNow
<1>n. n = <<e>> \o o
  BY SMTT(30) DEF Pushing
<1> USE <1>0
<1>1. /\ n \in Seq(Entries) /\ Len(n) = Len(o) + 1 /\ n[1] = e
      /\ \A i \in 2..(Len(o) + 1) : n[i] = o[i - 1]
  BY <1>n, PushShape, SMTT(30)
<1>2. Len(o) \in Nat /\ e.key \in Keys /\ \A i \in 1..Len(o) : o[i].key \in Keys
  <2>1. e.key \in Keys
    BY Zenon DEF Entries
  <2> QED
    BY <2>1, ListOfEntries, Zenon
<1>3. \A i \in 2..Len(n) : i - 1 \in 1..Len(o) /\ n[i] = o[i - 1] /\ n[i].key # e.key /\ n[i].key \in Keys
  BY <1>1, <1>2, SMTT(30) DEF KeysOf
<1>4. KeysOf(n) = KeysOf(o) \cup {e.key}
  <2>1. ASSUME NEW i \in 1..Len(n) PROVE n[i].key \in KeysOf(o) \cup {e.key}
    <3>1. CASE i = 1
      BY <1>1, <3>1, SMTT(30)
    <3>2. CASE i \in 2..Len(n)
      BY <1>3, <3>2, SMTT(30) DEF KeysOf
    <3> QED
      BY <1>1, <1>2, <3>1, <3>2, SMTT(30)
  <2>2. ASSUME NEW i \in 1..Len(o) PROVE o[i].key \in KeysOf(n)
    <3>1. i + 1 \in 2..Len(n) /\ i + 1 \in 1..Len(n) /\ (i + 1) - 1 = i
      BY <1>1, <1>2, SMTT(30)
    <3>2. n[i + 1] = o[i]
      BY <1>3, <3>1, SMTT(30)
    <3> QED
      BY <3>1, <3>2, Zenon DEF KeysOf
  <2>3. e.key \in KeysOf(n)
    <3>1. 1 \in 1..Len(n)
      BY <1>1, <1>2, SMTT(30)
    <3> QED
      BY <1>1, <3>1, Zenon DEF KeysOf
  <2>4. KeysOf(n) \subseteq KeysOf(o) \cup {e.key}
    <3>1. \A x \in KeysOf(n) : \E i \in 1..Len(n) : x = n[i].key
      BY Zenon DEF KeysOf
    <3> QED
      BY <2>1, <3>1, SMTT(30)
  <2>5. KeysOf(o) \subseteq KeysOf(n)
    <3>1. \A x \in KeysOf(o) : \E i \in 1..Len(o) : x = o[i].key
      BY Zenon DEF KeysOf
    <3> QED
      BY <2>2, <3>1, SMTT(30)
  <2> QED
    BY <2>3, <2>4, <2>5, ZenonT(30)
<1>5. Sorted(n, v)
  <2> SUFFICES ASSUME NEW i \in 1..Len(n), NEW j \in 1..Len(n), i < j PROVE v[n[i].key] > v[n[j].key]
    BY Zenon DEF Sorted
  <2>1. /\ j \in 2..Len(n) /\ j - 1 \in 1..Len(o) /\ v[n[j].key] = u[o[j - 1].key]
        /\ u[o[j - 1].key] \in Nat /\ u[o[j - 1].key] < v[e.key]
    BY <1>1, <1>2, <1>3, SMTT(30)
  <2>2. CASE i = 1
    BY <1>1, <1>2, <2>1, <2>2, ZenonT(30)
  <2>3. CASE i \in 2..Len(n)
    <3>1. v[n[i].key] = u[o[i - 1].key] /\ i - 1 < j - 1 /\ i - 1 \in 1..Len(o)
      BY <1>3, <2>3, SMTT(30)
    <3>2. u[o[i - 1].key] > u[o[j - 1].key]
      BY <2>1, <3>1, Zenon DEF Sorted
    <3> QED
      BY <2>1, <3>1, <3>2, SMTT(30)
  <2> QED
    BY <1>1, <1>2, <2>2, <2>3, SMTT(30)
<1>6. Gone(n, v)
  <2> SUFFICES ASSUME NEW k \in Keys \ KeysOf(n), NEW i \in 1..Len(n) PROVE v[k] < v[n[i].key]
    BY Zenon DEF Gone
  <2>1. k # e.key /\ k \in Keys \ KeysOf(o)
    BY <1>4, Zenon
  <2>2. v[k] = u[k] /\ u[k] < v[e.key]
    BY <2>1, Zenon
  <2>3. CASE i = 1
    BY <1>1, <2>2, <2>3, SMTT(30)
  <2>4. CASE i \in 2..Len(n)
    <3>1. v[n[i].key] = u[o[i - 1].key] /\ i - 1 \in 1..Len(o)
      BY <1>3, <2>4, SMTT(30)
    <3>2. u[k] < u[o[i - 1].key]
      BY <2>1, <3>1, ZenonT(30) DEF Gone
    <3> QED
      BY <2>2, <3>1, <3>2, SMTT(30)
  <2> QED
    BY <1>1, <1>2, <2>3, <2>4, SMTT(30)
<1>7. UpToDate(n, w)
  <2> SUFFICES ASSUME NEW i \in 1..Len(n) PROVE n[i].response = w[n[i].key]
    BY Zenon DEF UpToDate
  <2>1. CASE i = 1
    BY <1>1, <2>1, SMTT(30)
  <2>2. CASE i \in 2..Len(n)
    <3>1. i - 1 \in 1..Len(o) /\ n[i] = o[i - 1] /\ w[n[i].key] = l[n[i].key]
      BY <1>3, <2>2, SMTT(30)
    <3> QED
      BY <3>1, SMTT(30) DEF UpToDate
  <2> QED
    BY <1>1, <1>2, <2>1, <2>2, SMTT(30)
<1> QED
  BY <1>1, <1>2, <1>4, <1>5, <1>6, <1>7, SMTT(30)

\* The oldest entry leaves.
LEMMA PopKeeps ==
  ASSUME NEW o \in Seq(Entries), o # <<>>, NEW u \in [Keys -> Nat], NEW l,
         Sorted(o, u), Gone(o, u), UpToDate(o, l),
         NEW n, n = Front(o)
  PROVE  /\ n \in Seq(Entries)
         /\ KeysOf(n) = KeysOf(o) \ {o[Len(o)].key}
         /\ Sorted(n, u) /\ Gone(n, u) /\ UpToDate(n, l)
<1>1. n \in Seq(Entries) /\ Len(n) = Len(o) - 1 /\ \A i \in 1..Len(n) : n[i] = o[i]
  BY PopShape, Zenon
<1>2. Len(o) \in Nat \ {0} /\ \A i \in 1..Len(o) : o[i].key \in Keys
  BY ListOfEntries, EmptySeq, Zenon
<1>3. \A i \in 1..Len(n) : i \in 1..Len(o) /\ i < Len(o) /\ n[i] = o[i]
  BY <1>1, <1>2, SMTT(30)
<1>4. KeysOf(n) = KeysOf(o) \ {o[Len(o)].key}
  <2>1. ASSUME NEW i \in 1..Len(n) PROVE n[i].key \in KeysOf(o) \ {o[Len(o)].key}
    <3>1. o[i].key # o[Len(o)].key
      BY <1>2, <1>3, NoKeyTwice, SMTT(30)
    <3> QED
      BY <1>3, <3>1, Zenon DEF KeysOf
  <2>2. ASSUME NEW i \in 1..Len(o), o[i].key # o[Len(o)].key PROVE o[i].key \in KeysOf(n)
    <3>1. i \in 1..Len(n)
      BY <1>1, <1>2, <2>2, SMTT(30)
    <3> QED
      BY <1>1, <3>1, Zenon DEF KeysOf
  <2> QED
    BY <2>1, <2>2, SMTT(30) DEF KeysOf
<1>5. Sorted(n, u)
  BY <1>3, SMTT(30) DEF Sorted
<1>6. Gone(n, u)
  <2> SUFFICES ASSUME NEW k \in Keys \ KeysOf(n), NEW i \in 1..Len(n) PROVE u[k] < u[n[i].key]
    BY Zenon DEF Gone
  <2>1. CASE k \in KeysOf(o)
    <3>1. k = o[Len(o)].key
      BY <1>4, <2>1, SMTT(30)
    <3> QED
      BY <1>2, <1>3, <3>1, SMTT(30) DEF Sorted
  <2>2. CASE k \notin KeysOf(o)
    BY <1>3, <2>2, SMTT(30) DEF Gone
  <2> QED
    BY <2>1, <2>2, SMTT(30)
<1>7. UpToDate(n, l)
  BY <1>3, Zenon DEF UpToDate
<1> QED
  BY <1>1, <1>4, <1>5, <1>6, <1>7, SMTT(30)

-----------------------------------------------------------------------------
(* The inductive invariant *)

\* An empty cache satisfies it.
LEMMA InitInv == Init => IInv
<1> SUFFICES ASSUME Init PROVE IInv
  BY Zenon
<1> USE DEF Init
<1>1. TypeInv
  BY EmptySeq DEF TypeInv
<1>2. KeysOf(order) = {} /\ 1..Len(order) = {}
  BY EmptySeq, SMTT(30) DEF KeysOf
<1>3. LockInv
  BY CacheAssumption, Zenon DEF LockInv
<1>4. IndexInv
  BY <1>2, Zenon DEF IndexInv
<1>5. ListInv
  BY <1>2, Zenon DEF ListInv, Sorted, Gone, UpToDate
<1> QED
  BY <1>1, <1>3, <1>4, <1>5, SMTT(30) DEF IInv

\* find: a key of the index has a place in the list when nobody is inside.
LEMMA Found ==
  ASSUME IInv, mutex = "free", NEW k \in index
  PROVE  Position(k) \in 1..Len(order) /\ order[Position(k)].key = k
<1>1. \E i \in 1..Len(order) : order[i].key = k
  BY Zenon DEF IInv, IndexInv, KeysOf
<1> QED
  BY <1>1, Zenon DEF Position

\* A call that takes its turn has the latest time.
LEMMA Turn ==
  ASSUME IInv, NEW k \in Keys, Use(k)
  PROVE  /\ clock' \in Nat /\ used' \in [Keys -> Nat]
         /\ \A j \in Keys : used'[j] <= clock'
         /\ \A j \in Keys : used[j] < used'[k] /\ (j # k => used'[j] = used[j])
<1>1. clock' = clock + 1 /\ used' = [used EXCEPT ![k] = clock + 1] /\ clock \in Nat /\ used \in [Keys -> Nat]
  BY Zenon DEF Use, IInv, TypeInv
<1>2. \A j \in Keys : used[j] <= clock /\ used[j] \in Nat
  BY <1>1, Zenon DEF IInv, TypeInv
<1>3. used'[k] = clock + 1 /\ \A j \in Keys : j # k => used'[j] = used[j]
  BY <1>1, Zenon
<1> QED
  BY <1>1, <1>2, <1>3, SMTT(30)

\* get and the update of an entry: one entry comes to the front, and nobody is inside
\* before or after.
LEMMA SplicedStep ==
  ASSUME IInv, NEW t \in Threads, Lock(t), NEW k \in index, NEW r \in Sizes, Use(k),
         order' = Spliced(k, r), latest' \in [Keys -> Nat],
         \A j \in Keys : j # k => latest'[j] = latest[j], latest'[k] = r,
         UNCHANGED <<index, mutex, pc, entry>>
  PROVE  IInv'
<1>0. mutex = "free" /\ k \in Keys
  BY Zenon DEF Lock, IInv, TypeInv
<1> DEFINE e == [key |-> k, response |-> r]
<1>1. e \in Entries /\ e.key = k /\ e.response = r
  BY <1>0, Zenon DEF Entries
<1>2. Position(k) \in 1..Len(order) /\ order[Position(k)].key = k
  BY <1>0, Found, Zenon
<1>3. order' = <<e>> \o RemoveAt(order, Position(k))
  BY Zenon DEF Spliced
<1> HIDE DEF e
<1>4. /\ order \in Seq(Entries) /\ used \in [Keys -> Nat]
      /\ Sorted(order, used) /\ Gone(order, used) /\ UpToDate(order, latest)
  BY Zenon DEF IInv, TypeInv, ListInv
<1>5. /\ clock' \in Nat /\ used' \in [Keys -> Nat] /\ \A j \in Keys : used'[j] <= clock'
      /\ \A j \in Keys : used[j] < used'[k] /\ (j # k => used'[j] = used[j])
  BY <1>0, Turn, ZenonT(30)
<1>6. /\ order' \in Seq(Entries) /\ KeysOf(order') = KeysOf(order)
      /\ Sorted(order', used') /\ Gone(order', used') /\ UpToDate(order', latest')
  <2>1. /\ e.key = order[Position(k)].key /\ e.response = latest'[e.key]
        /\ \A j \in Keys : used[j] < used'[e.key] /\ (j # e.key => used'[j] = used[j])
        /\ \A j \in Keys : j # e.key => latest'[j] = latest[j]
    BY <1>1, <1>2, <1>5, ZenonT(30)
  <2>2. UsedNow(order, e, used, used', latest, latest')
    BY <1>1, <1>4, <1>5, <2>1, ZenonT(30) DEF UsedNow
  <2> QED
    <3>1. Splicing(order, Position(k), e, used, used', latest, latest', order')
      BY <1>2, <1>3, <2>1, <2>2, ZenonT(30) DEF Splicing
    <3> QED
      BY <3>1, SpliceKeeps, SMTT(30)
<1>7. TypeInv'
  BY <1>5, <1>6, ZenonT(30) DEF IInv, TypeInv
<1>8. LockInv'
  BY Zenon DEF IInv, LockInv
<1>9. IndexInv'
  <2>1. \A s \in Threads : pc'[s] = "idle"
    BY <1>0, CacheAssumption, ZenonT(30) DEF IInv, LockInv
  <2>2. index' = KeysOf(order)'
    BY <1>0, <1>6, ZenonT(30) DEF IInv, IndexInv, KeysOf
  <2> QED
    BY <2>1, <2>2, Zenon DEF IndexInv
<1>10. ListInv'
  BY <1>6, Zenon DEF ListInv, Sorted, Gone, UpToDate, KeysOf
<1> QED
  BY <1>7, <1>8, <1>9, <1>10, SMTT(30) DEF IInv

LEMMA GetStep ==
  ASSUME IInv, NEW t \in Threads, NEW k \in Keys, Get(t, k)
  PROVE  IInv'
<1>1. mutex = "free" /\ k \in index /\ Lock(t) /\ Use(k) /\ UNCHANGED <<index, mutex, pc, entry, latest>>
  BY Zenon DEF Get, Lock
<1>2. Position(k) \in 1..Len(order) /\ order[Position(k)].key = k
  BY <1>1, Found, ZenonT(30)
<1> DEFINE r == order[Position(k)].response
<1>3. r \in Sizes
  <2>1. order[Position(k)] \in Entries
    BY <1>2, ListOfEntries, ZenonT(30) DEF IInv, TypeInv
  <2> QED
    BY <2>1, Zenon DEF Entries
<1>4. r = latest[k]
  BY <1>2, Zenon DEF IInv, ListInv, UpToDate
<1>5. order' = Spliced(k, r)
  BY Zenon DEF Get
<1>6. latest' \in [Keys -> Nat] /\ latest'[k] = r /\ \A j \in Keys : j # k => latest'[j] = latest[j]
  BY <1>1, <1>4, Zenon DEF IInv, TypeInv
<1> HIDE DEF r
<1> QED
  BY <1>1, <1>3, <1>5, <1>6, SplicedStep, ZenonT(30)

LEMMA UpdateStep ==
  ASSUME IInv, NEW t \in Threads, NEW k \in Keys, NEW r \in Sizes, PutUpdate(t, k, r)
  PROVE  IInv'
<1>1. k \in index /\ Lock(t) /\ Use(k) /\ order' = Spliced(k, r) /\ UNCHANGED <<index, mutex, pc, entry>>
  BY Zenon DEF PutUpdate
<1>2. latest \in [Keys -> Nat] /\ latest' = [latest EXCEPT ![k] = r] /\ r \in Nat
  BY CacheAssumption, Zenon DEF PutUpdate, IInv, TypeInv
<1>3. latest' \in [Keys -> Nat] /\ latest'[k] = r /\ \A j \in Keys : j # k => latest'[j] = latest[j]
  BY <1>2, Zenon
<1> QED
  BY <1>1, <1>3, SplicedStep, ZenonT(30)

\* push_front of a new key: the lock is taken, and the index lacks this key.
LEMMA InsertStep ==
  ASSUME IInv, NEW t \in Threads, NEW k \in Keys, NEW r \in Sizes, PutInsert(t, k, r)
  PROVE  IInv'
<1> DEFINE e == [key |-> k, response |-> r]
<1>0. /\ mutex = "free" /\ pc[t] = "idle" /\ k \notin index /\ Use(k) /\ mutex' = t /\ index' = index
      /\ pc' = [pc EXCEPT ![t] = "index"] /\ entry' = [entry EXCEPT ![t] = <<e>>]
      /\ latest' = [latest EXCEPT ![k] = r]
  BY Zenon DEF PutInsert, Lock
<1>1. e \in Entries /\ e.key = k /\ e.response = r
  BY Zenon DEF Entries
<1>2. order' = entry'[t] \o order
  BY Zenon DEF PutInsert
<1> HIDE DEF e
<1>3. <<e>> \in Seq(Entries) /\ Len(<<e>>) = 1 /\ <<e>>[1] = e
  BY <1>1, SMTT(30)
<1>4. /\ order \in Seq(Entries) /\ used \in [Keys -> Nat] /\ latest \in [Keys -> Nat]
      /\ entry \in [Threads -> Seq(Entries)] /\ pc \in [Threads -> {"idle", "index", "evict", "pop"}]
      /\ Sorted(order, used) /\ Gone(order, used) /\ UpToDate(order, latest) /\ index \subseteq Keys
  BY Zenon DEF IInv, TypeInv, ListInv
<1>5. entry' \in [Threads -> Seq(Entries)] /\ entry'[t] = <<e>>
  BY <1>0, <1>3, <1>4, ZenonT(30)
<1>6. order' = <<e>> \o order
  BY <1>2, <1>5, Zenon
<1>7. index = KeysOf(order) /\ k \notin KeysOf(order)
  BY <1>0, Zenon DEF IInv, IndexInv
<1>8. latest' \in [Keys -> Nat] /\ latest'[k] = r /\ \A j \in Keys : j # k => latest'[j] = latest[j]
  BY <1>0, <1>4, CacheAssumption, ZenonT(30)
<1>9. /\ clock' \in Nat /\ used' \in [Keys -> Nat] /\ \A j \in Keys : used'[j] <= clock'
      /\ \A j \in Keys : used[j] < used'[k] /\ (j # k => used'[j] = used[j])
  BY <1>0, Turn, ZenonT(30)
<1>10. /\ order' \in Seq(Entries) /\ order' # <<>> /\ order'[1] = e /\ KeysOf(order) = KeysOf(order') \ {k}
       /\ Sorted(order', used') /\ Gone(order', used') /\ UpToDate(order', latest')
  <2>1. /\ e.key \notin KeysOf(order) /\ e.response = latest'[e.key]
        /\ \A j \in Keys : used[j] < used'[e.key] /\ (j # e.key => used'[j] = used[j])
        /\ \A j \in Keys : j # e.key => latest'[j] = latest[j]
    BY <1>1, <1>7, <1>8, <1>9, ZenonT(30)
  <2>2. /\ order' \in Seq(Entries) /\ order' # <<>> /\ order'[1] = e /\ KeysOf(order) = KeysOf(order') \ {e.key}
        /\ Sorted(order', used') /\ Gone(order', used') /\ UpToDate(order', latest')
    <3>1. UsedNow(order, e, used, used', latest, latest')
      BY <1>1, <1>4, <1>9, <2>1, ZenonT(30) DEF UsedNow
    <3>2. Pushing(order, e, used, used', latest, latest', order')
      BY <1>6, <2>1, <3>1, ZenonT(30) DEF Pushing
    <3> QED
      BY <3>2, PushKeeps, SMTT(30)
  <2> QED
    BY <1>1, <2>2, Zenon
<1>11. pc' \in [Threads -> {"idle", "index", "evict", "pop"}] /\ pc'[t] = "index"
       /\ \A s \in Threads : s # t => pc'[s] = pc[s] /\ pc[s] = "idle"
  BY <1>0, <1>4, CacheAssumption, SMTT(30) DEF IInv, LockInv
<1>12. TypeInv'
  BY <1>0, <1>4, <1>5, <1>8, <1>9, <1>10, <1>11, ZenonT(30) DEF TypeInv
<1>13. LockInv'
  BY <1>0, <1>11, ZenonT(30) DEF LockInv
<1>14. IndexInv'
  <2>1. KeysOf(order)' = KeysOf(order') /\ mutex' # "free"
    BY <1>0, CacheAssumption, Zenon DEF KeysOf
  <2>2. index' = KeysOf(order)' \ {order'[1].key} /\ Len(entry'[t]) = 1 /\ order'[1] = entry'[t][1]
    BY <1>0, <1>1, <1>3, <1>5, <1>7, <1>10, <2>1, SMTT(30)
  <2> QED
    BY <1>10, <1>11, <2>1, <2>2, SMTT(30) DEF IndexInv
<1>15. ListInv'
  BY <1>10, Zenon DEF ListInv, Sorted, Gone, UpToDate, KeysOf
<1> QED
  BY <1>12, <1>13, <1>14, <1>15, ZenonT(30) DEF IInv

\* The steps under the lock that leave the list alone.
LEMMA InsideStep ==
  ASSUME IInv, NEW t \in Threads, PutIndex(t) \/ EvictVictim(t) \/ PutReturn(t)
  PROVE  IInv'
<1>0. /\ mutex = t /\ UNCHANGED <<order, clock, used, latest>>
      /\ order \in Seq(Entries) /\ pc \in [Threads -> {"idle", "index", "evict", "pop"}]
      /\ entry \in [Threads -> Seq(Entries)]
  BY Zenon DEF PutIndex, EvictVictim, PutReturn, IInv, LockInv, TypeInv
<1>1. \A s \in Threads : s # t => pc[s] = "idle" /\ pc'[s] = pc[s]
  BY <1>0, Zenon DEF PutIndex, EvictVictim, PutReturn, IInv, LockInv
<1>2. KeysOf(order)' = KeysOf(order) /\ KeysOf(order) \subseteq Keys /\ t # "free"
  BY <1>0, ListOfEntries, CacheAssumption, ZenonT(30) DEF KeysOf
<1>3. ListInv'
  BY <1>0, SMTT(30) DEF IInv, ListInv, Sorted, Gone, UpToDate, KeysOf
<1>4. CASE PutIndex(t)
  <2>1. pc[t] = "index" /\ pc' = [pc EXCEPT ![t] = "evict"] /\ mutex' = t /\ entry' = [entry EXCEPT ![t] = <<>>]
        /\ index' = index \cup {Head(entry[t]).key}
    BY <1>0, <1>4, Zenon DEF PutIndex
  <2>2. order # <<>> /\ Head(entry[t]) = order[1] /\ index = KeysOf(order) \ {order[1].key}
    BY <1>0, <2>1, SMTT(30) DEF IInv, IndexInv
  <2>3. order[1].key \in KeysOf(order)
    <3>1. 1 \in 1..Len(order)
      BY <1>0, <2>2, EmptySeq, SMTT(30)
    <3> QED
      BY <3>1, Zenon DEF KeysOf
  <2>4. index' = KeysOf(order)'
    BY <1>2, <2>1, <2>2, <2>3, Zenon
  <2>5. pc' \in [Threads -> {"idle", "index", "evict", "pop"}] /\ pc'[t] = "evict" /\ entry' \in [Threads -> Seq(Entries)]
    BY <1>0, <2>1, EmptySeq, Zenon
  <2>6. TypeInv'
    BY <1>0, <1>2, <2>4, <2>5, SMTT(30) DEF IInv, TypeInv
  <2>7. LockInv'
    BY <1>1, <2>1, <2>5, Zenon DEF LockInv
  <2>8. IndexInv'
    BY <1>1, <1>2, <2>1, <2>4, <2>5, SMTT(30) DEF IndexInv
  <2> QED
    BY <1>3, <2>6, <2>7, <2>8, ZenonT(30) DEF IInv
<1>5. CASE EvictVictim(t)
  <2>1. pc[t] = "evict" /\ pc' = [pc EXCEPT ![t] = "pop"] /\ mutex' = t /\ entry' = entry
        /\ order # <<>> /\ index' = index \ {order[Len(order)].key}
    BY <1>0, <1>5, Zenon DEF EvictVictim, Last
  <2>2. index = KeysOf(order)
    BY <2>1, Zenon DEF IInv, IndexInv
  <2>3. pc' \in [Threads -> {"idle", "index", "evict", "pop"}] /\ pc'[t] = "pop"
    BY <1>0, <2>1, Zenon
  <2>4. TypeInv'
    BY <1>0, <1>2, <2>1, <2>2, <2>3, SMTT(30) DEF IInv, TypeInv
  <2>5. LockInv'
    BY <1>1, <2>1, <2>3, ZenonT(30) DEF LockInv
  <2>6. IndexInv'
    BY <1>0, <1>1, <1>2, <2>1, <2>2, <2>3, SMTT(30) DEF IndexInv
  <2> QED
    BY <1>3, <2>4, <2>5, <2>6, Zenon DEF IInv
<1>6. CASE PutReturn(t)
  <2>1. pc[t] = "evict" /\ pc' = [pc EXCEPT ![t] = "idle"] /\ mutex' = "free" /\ entry' = entry /\ index' = index
    BY <1>6, Zenon DEF PutReturn
  <2>2. index = KeysOf(order)
    BY <2>1, Zenon DEF IInv, IndexInv
  <2>3. pc' \in [Threads -> {"idle", "index", "evict", "pop"}] /\ \A s \in Threads : pc'[s] = "idle"
    BY <1>0, <1>1, <2>1, Zenon
  <2>4. TypeInv'
    BY <1>0, <2>1, <2>3, Zenon DEF IInv, TypeInv
  <2>5. LockInv'
    BY <2>1, <2>3, CacheAssumption, ZenonT(30) DEF LockInv
  <2>6. IndexInv'
    BY <1>2, <2>1, <2>2, <2>3, SMTT(30) DEF IndexInv
  <2> QED
    BY <1>3, <2>4, <2>5, <2>6, Zenon DEF IInv
<1> QED
  BY <1>4, <1>5, <1>6, ZenonT(30)

\* pop_back catches the list up with the index.
LEMMA PopStep ==
  ASSUME IInv, NEW t \in Threads, EvictPop(t)
  PROVE  IInv'
<1>0. /\ pc[t] = "pop" /\ mutex = t /\ order' = Front(order) /\ pc' = [pc EXCEPT ![t] = "evict"]
      /\ UNCHANGED <<index, mutex, entry, clock, used, latest>>
      /\ order \in Seq(Entries) /\ pc \in [Threads -> {"idle", "index", "evict", "pop"}] /\ used \in [Keys -> Nat]
  BY Zenon DEF EvictPop, IInv, LockInv, TypeInv
<1>1. \A s \in Threads : s # t => pc[s] = "idle" /\ pc'[s] = pc[s]
  BY <1>0, Zenon DEF IInv, LockInv
<1>2. order # <<>> /\ index = KeysOf(order) \ {order[Len(order)].key}
  BY <1>0, Zenon DEF IInv, IndexInv
<1>3. /\ order' \in Seq(Entries) /\ KeysOf(order') = KeysOf(order) \ {order[Len(order)].key}
      /\ Sorted(order', used) /\ Gone(order', used) /\ UpToDate(order', latest)
  BY <1>0, <1>2, PopKeeps, Zenon DEF IInv, ListInv
<1>4. pc' \in [Threads -> {"idle", "index", "evict", "pop"}] /\ pc'[t] = "evict" /\ t # "free"
  BY <1>0, CacheAssumption, Zenon
<1>5. TypeInv'
  BY <1>0, <1>3, <1>4, ZenonT(30) DEF IInv, TypeInv
<1>6. LockInv'
  BY <1>0, <1>1, <1>4, ZenonT(30) DEF LockInv
<1>7. IndexInv'
  <2>1. index' = KeysOf(order)'
    BY <1>0, <1>2, <1>3, ZenonT(30) DEF KeysOf
  <2> QED
    BY <1>0, <1>1, <1>4, <2>1, ZenonT(30) DEF IndexInv
<1>8. ListInv'
  BY <1>0, <1>3, Zenon DEF ListInv, Sorted, Gone, UpToDate, KeysOf
<1> QED
  BY <1>5, <1>6, <1>7, <1>8, ZenonT(30) DEF IInv

LEMMA NextInv == IInv /\ [Next]_vars => IInv'
<1> SUFFICES ASSUME IInv, [Next]_vars PROVE IInv'
  BY ZenonT(30)
<1>1. CASE UNCHANGED vars
  BY <1>1, SMTT(30) DEF vars, IInv, TypeInv, LockInv, IndexInv, ListInv, Sorted, Gone, UpToDate, KeysOf
<1> QED
  BY <1>1, GetStep, UpdateStep, InsertStep, InsideStep, PopStep, ZenonT(30) DEF Next, Quiet

\* The cache keeps the most recently used, in order of use, and each hit is the response
\* last put under its key, however calls of several threads follow each other (get, put).
THEOREM Recency == Spec => []MostRecentKept
<1>1. IInv => MostRecentKept
  BY Zenon DEF IInv, IndexInv, ListInv, Sorted, Gone, UpToDate, MostRecentKept
<1> QED
  BY <1>1, InitInv, NextInv, PTL DEF Spec

-----------------------------------------------------------------------------
(* The bytes held *)

\* A set of naturals that is not empty has a least member.
LEMMA LeastMember ==
  ASSUME NEW S \in SUBSET Nat, S # {}
  PROVE  \E m \in S : \A n \in S : m <= n
<1> DEFINE R == OpToRel(<, Nat)
<1>1. IsWellFoundedOn(R, Nat)
  BY NatLessThanWellFounded, Zenon
<1>2. \A x, y \in Nat : <<x, y>> \in R <=> x < y
  BY Zenon DEF OpToRel
<1> HIDE DEF R
<1>3. \E x \in S : \A y \in S : ~(<<y, x>> \in R)
  BY <1>1, WFMin, Zenon
<1>4. PICK m \in S : \A y \in S : ~(<<y, m>> \in R)
  BY <1>3, Zenon
<1>5. ASSUME NEW n \in S PROVE m <= n
  <2>1. ~(n < m)
    BY <1>2, <1>4, Zenon
  <2> QED
    BY <2>1, SMTT(30)
<1> QED
  BY <1>5, Zenon

\* Induction, stated of a set: the provers can instantiate that.
LEMMA InductionSet ==
  ASSUME NEW S, 0 \in S, \A n \in Nat : n \in S => n + 1 \in S
  PROVE  Nat \subseteq S
<1> SUFFICES ASSUME Nat \ S # {} PROVE FALSE
  BY Zenon
<1>1. PICK m \in Nat \ S : \A n \in Nat \ S : m <= n
  BY LeastMember, Zenon
<1> QED
  BY <1>1, SMTT(30)

\* p[n] is the size of the first n entries of o.
Sums(o, p) ==
  /\ p \in [0..Len(o) -> Nat] /\ p[0] = 0
  /\ \A n \in 1..Len(o) : p[n] = p[n - 1] + o[n].response

\* The entries of o have b bytes together.
Holds(o, b) == \E p : Sums(o, p) /\ p[Len(o)] = b

\* What Held computes is that sum.
LEMMA HeldIsSum ==
  ASSUME order \in Seq(Entries), NEW b, Holds(order, b)
  PROVE  Held = b
<1>1. PICK p : Sums(order, p) /\ p[Len(order)] = b
  BY Zenon DEF Holds
<1> DEFINE G(f) == [n \in 0..Len(order) |-> IF n = 0 THEN 0 ELSE f[n - 1] + order[n].response]
           sum  == CHOOSE f : f = G(f)
<1>2. p = G(p)
  BY <1>1, SMTT(30) DEF Sums
<1>3. sum = G(sum)
  BY <1>2, Zenon
<1>4. Held = sum[Len(order)]
  BY Zenon DEF Held
<1> HIDE DEF sum
<1>5. sum[0] = 0 /\ \A n \in 1..Len(order) : sum[n] = sum[n - 1] + order[n].response
  BY <1>3, SMTT(30)
<1> DEFINE Same == {n \in Nat : n <= Len(order) => sum[n] = p[n]}
<1>6. 0 \in Same
  BY <1>1, <1>5, ZenonT(30) DEF Sums
<1>7. \A n \in Nat : n \in Same => n + 1 \in Same
  BY <1>1, <1>5, SMTT(30) DEF Sums
<1> HIDE DEF Same
<1>8. Nat \subseteq Same
  BY <1>6, <1>7, InductionSet, ZenonT(30)
<1> QED
  BY <1>1, <1>4, <1>8, SMTT(30) DEF Same

\* Sums only grow.
LEMMA SumsGrow ==
  ASSUME NEW o \in Seq(Entries), NEW p, Sums(o, p), NEW m \in 0..Len(o), NEW n \in m..Len(o)
  PROVE  p[m] <= p[n]
<1>1. \A i \in 1..Len(o) : o[i].response \in Nat
  <2>1. \A e \in Entries : e.response \in Nat
    BY CacheAssumption, ZenonT(30) DEF Entries
  <2> QED
    BY <2>1, ListOfEntries, ZenonT(30)
<1>2. Len(o) \in Nat /\ m \in Nat
  BY LenProperties, SMTT(30)
<1> DEFINE Ok == {k \in Nat : m + k <= Len(o) => p[m] <= p[m + k]}
<1>3. 0 \in Ok
  BY <1>2, SMTT(30) DEF Sums
<1>4. ASSUME NEW k \in Nat, k \in Ok PROVE k + 1 \in Ok
  <2> SUFFICES ASSUME m + (k + 1) <= Len(o) PROVE p[m] <= p[m + (k + 1)]
    OBVIOUS
  <2>1. m + k \in 0..Len(o) /\ m + (k + 1) \in 1..Len(o) /\ (m + (k + 1)) - 1 = m + k
    BY <1>2, SMTT(30)
  <2>2. p[m + (k + 1)] = p[m + k] + o[m + (k + 1)].response /\ p[m + k] \in Nat /\ p[m] \in Nat
    BY <2>1, Zenon DEF Sums
  <2>3. p[m] <= p[m + k]
    BY <1>2, <1>4, SMTT(30)
  <2> QED
    BY <1>1, <2>1, <2>2, <2>3, SMTT(30)
<1> HIDE DEF Ok
<1>5. n - m \in Ok
  <2>1. Nat \subseteq Ok
    BY <1>3, <1>4, InductionSet, SMTT(30)
  <2> QED
    BY <1>2, <2>1, SMTT(30)
<1> QED
  BY <1>2, <1>5, SMTT(30) DEF Ok

\* push_front adds the size of the new entry.
LEMMA PushHolds ==
  ASSUME NEW o \in Seq(Entries), NEW e \in Entries, NEW b, Holds(o, b)
  PROVE  Holds(<<e>> \o o, b + e.response)
<1>1. PICK p : Sums(o, p) /\ p[Len(o)] = b
  BY Zenon DEF Holds
<1> DEFINE n == <<e>> \o o
           q == [i \in 0..Len(n) |-> IF i = 0 THEN 0 ELSE p[i - 1] + e.response]
<1>2. Len(n) = Len(o) + 1 /\ n[1] = e /\ \A i \in 2..(Len(o) + 1) : n[i] = o[i - 1]
  BY PushShape, Zenon
<1>3. e.response \in Nat /\ Len(o) \in Nat
  BY CacheAssumption, LenProperties, ZenonT(30) DEF Entries
<1> HIDE DEF n
<1>4. q \in [0..Len(n) -> Nat] /\ q[0] = 0
  BY <1>1, <1>2, <1>3, SMTT(30) DEF Sums
<1>5. ASSUME NEW i \in 1..Len(n) PROVE q[i] = q[i - 1] + n[i].response
  <2>1. CASE i = 1
    BY <1>1, <1>2, <1>3, <2>1, SMTT(30) DEF Sums
  <2>2. CASE i \in 2..Len(n)
    <3>1. i - 1 \in 1..Len(o) /\ n[i] = o[i - 1] /\ i \in 0..Len(n) /\ i - 1 \in 0..Len(n) /\ i # 0 /\ i - 1 # 0
      BY <1>2, <1>3, <2>2, SMTT(30)
    <3>2. p[i - 1] = p[(i - 1) - 1] + o[i - 1].response /\ p[(i - 1) - 1] \in Nat
      <4>1. (i - 1) - 1 \in 0..Len(o)
        BY <1>3, <3>1, SMTT(30)
      <4> QED
        BY <1>1, <3>1, <4>1, ZenonT(30) DEF Sums
    <3>3. n[i].response \in Nat
      BY <3>1, ListOfEntries, CacheAssumption, ZenonT(30) DEF Entries
    <3> QED
      BY <1>3, <3>1, <3>2, <3>3, SMTT(30)
  <2> QED
    BY <1>2, <1>3, <2>1, <2>2, SMTT(30)
<1>6. q[Len(n)] = b + e.response
  BY <1>1, <1>2, <1>3, SMTT(30)
<1> QED
  BY <1>4, <1>5, <1>6, ZenonT(30) DEF Holds, Sums, n

\* pop_back takes the size of the last entry off, and there is as much to take.
LEMMA PopHolds ==
  ASSUME NEW o \in Seq(Entries), o # <<>>, NEW b, Holds(o, b)
  PROVE  b - o[Len(o)].response \in Nat /\ Holds(Front(o), b - o[Len(o)].response)
<1>1. PICK p : Sums(o, p) /\ p[Len(o)] = b
  BY Zenon DEF Holds
<1>2. /\ Front(o) \in Seq(Entries) /\ Len(Front(o)) = Len(o) - 1
      /\ \A i \in 1..(Len(o) - 1) : Front(o)[i] = o[i]
  BY PopShape, SMTT(30)
<1>3. Len(o) \in Nat \ {0} /\ o[Len(o)].response \in Nat
  <2>1. Len(o) \in Nat \ {0}
    BY EmptySeq, LenProperties, SMTT(30)
  <2>2. o[Len(o)] \in Entries
    BY <2>1, ListOfEntries, SMTT(30)
  <2> QED
    BY <2>1, <2>2, CacheAssumption, ZenonT(30) DEF Entries
<1>4. p[Len(o)] = p[Len(o) - 1] + o[Len(o)].response /\ p[Len(o) - 1] \in Nat
  BY <1>1, <1>3, SMTT(30) DEF Sums
<1>5. p[Len(o) - 1] = b - o[Len(o)].response
  BY <1>1, <1>3, <1>4, SMTT(30)
<1> DEFINE q == [i \in 0..(Len(o) - 1) |-> p[i]]
<1>6. Sums(Front(o), q) /\ q[Len(o) - 1] = p[Len(o) - 1]
  BY <1>1, <1>2, <1>3, SMTT(30) DEF Sums
<1> QED
  BY <1>2, <1>4, <1>5, <1>6, ZenonT(30) DEF Holds

\* Splicing puts one size in the place of another.
LEMMA SpliceHolds ==
  ASSUME NEW o \in Seq(Entries), NEW k \in 1..Len(o), NEW e \in Entries, NEW b, Holds(o, b)
  PROVE  Holds(<<e>> \o RemoveAt(o, k), (b - o[k].response) + e.response)
<1>1. PICK p : Sums(o, p) /\ p[Len(o)] = b
  BY Zenon DEF Holds
<1> DEFINE n == <<e>> \o RemoveAt(o, k)
           d == o[k].response
           r == e.response
           q == [i \in 0..Len(o) |-> IF i = 0 THEN 0 ELSE IF i <= k THEN p[i - 1] + r ELSE (p[i] - d) + r]
<1>2. Len(n) = Len(o) /\ n[1] = e /\ \A i \in 2..Len(o) : n[i] = o[IF i <= k THEN i - 1 ELSE i]
  BY SpliceShape, ZenonT(30)
<1>3. /\ Len(o) \in Nat /\ k \in Nat /\ 1 <= k /\ k <= Len(o)
      /\ \A i \in 1..Len(o) : o[i].response \in Nat
      /\ r \in Nat /\ d \in Nat
  <2>1. \A x \in Entries : x.response \in Nat
    BY CacheAssumption, Zenon DEF Entries
  <2> QED
    BY <2>1, ListOfEntries
<1>4. p[k] = p[k - 1] + d /\ \A i \in 0..Len(o) : p[i] \in Nat
  BY <1>1, <1>3, ZenonT(30) DEF Sums
<1>5. \A i \in k..Len(o) : p[i] - d \in Nat
  <2> SUFFICES ASSUME NEW i \in k..Len(o) PROVE p[i] - d \in Nat
    BY Zenon
  <2>1. p[k] <= p[i] /\ p[i] \in Nat /\ p[k] \in Nat /\ p[k - 1] \in Nat
    BY <1>1, <1>3, <1>4, SumsGrow, SMTT(30)
  <2> QED
    BY <1>3, <1>4, <2>1, SMTT(30)
<1> HIDE DEF n, d, r
<1>6. q \in [0..Len(o) -> Nat] /\ q[0] = 0
  <2>1. ASSUME NEW i \in 0..Len(o) PROVE q[i] \in Nat
    <3>1. CASE i = 0
      BY <3>1, SMTT(30)
    <3>2. CASE i # 0 /\ i <= k
      <4>1. i - 1 \in 0..Len(o)
        BY <1>3, <3>2, SMTT(30)
      <4> QED
        BY <1>3, <1>4, <3>2, <4>1, SMTT(30)
    <3>3. CASE i > k
      BY <1>3, <1>5, <3>3, SMTT(30)
    <3> QED
      BY <1>3, <3>1, <3>2, <3>3, SMTT(30)
  <2> QED
    BY <1>3, <2>1, SMTT(30)
<1>7. ASSUME NEW i \in 1..Len(o) PROVE q[i] = q[i - 1] + n[i].response
  <2>0. i \in 0..Len(o) /\ i - 1 \in 0..Len(o) /\ i # 0 /\ i \in Nat /\ p[i] = p[i - 1] + o[i].response
        /\ p[i] \in Nat /\ p[i - 1] \in Nat
    BY <1>1, <1>3, <1>4, SMTT(30) DEF Sums
  <2>1. CASE i = 1
    BY <1>1, <1>2, <1>3, <2>0, <2>1, SMTT(30) DEF Sums, r
  <2>2. CASE i # 1 /\ i <= k
    <3>1. n[i] = o[i - 1] /\ i - 1 # 0 /\ i - 1 <= k /\ i - 1 \in 1..Len(o) /\ (i - 1) - 1 \in 0..Len(o)
      BY <1>2, <1>3, <2>0, <2>2, SMTT(30)
    <3>2. p[i - 1] = p[(i - 1) - 1] + o[i - 1].response /\ p[(i - 1) - 1] \in Nat /\ o[i - 1].response \in Nat
      BY <1>1, <1>3, <1>4, <3>1, Zenon DEF Sums
    <3>3. q[i] = p[i - 1] + r /\ q[i - 1] = p[(i - 1) - 1] + r
      BY <2>0, <2>2, <3>1, SMTT(30)
    <3> QED
      BY <1>3, <3>1, <3>2, <3>3, SMTT(30)
  <2>3. CASE i = k + 1
    <3>1. n[i] = o[i] /\ q[i] = (p[i] - d) + r /\ q[i - 1] = p[k - 1] + r /\ i - 1 = k
      BY <1>2, <1>3, <2>0, <2>3, SMTT(30)
    <3>2. p[k] = p[k - 1] + d /\ p[k - 1] \in Nat /\ o[i].response \in Nat
      BY <1>3, <1>4, SMTT(30)
    <3>3. p[i] = p[k - 1] + d + o[i].response
      BY <2>0, <3>1, <3>2, SMTT(30)
    <3> HIDE DEF q
    <3> QED
      BY <1>3, <3>1, <3>2, <3>3, SMTT(30)
  <2>4. CASE i > k + 1
    <3>1. n[i] = o[i] /\ q[i] = (p[i] - d) + r /\ q[i - 1] = (p[i - 1] - d) + r /\ o[i].response \in Nat
      BY <1>2, <1>3, <2>0, <2>4, SMTT(30)
    <3>2. \A x, y, z \in Nat : ((x + y) - d) + r = ((x - d) + r) + y
      BY <1>3, SMTT(30)
    <3>3. p[i] = p[i - 1] + o[i].response /\ p[i - 1] \in Nat /\ o[i].response \in Nat
      BY <2>0, <3>1, SMTT(30)
    <3> HIDE DEF q
    <3> QED
      BY <3>1, <3>2, <3>3, ZenonT(30)
  <2>5. i = 1 \/ (i # 1 /\ i <= k) \/ i = k + 1 \/ i > k + 1
    BY <1>3, <2>0, SMTT(30)
  <2> HIDE DEF q
  <2> QED
    BY <2>1, <2>2, <2>3, <2>4, <2>5, ZenonT(30)
<1>8. q[Len(o)] = (b - d) + r
  <2>1. CASE k = Len(o)
    <3>1. q[Len(o)] = p[k - 1] + r
      BY <1>3, <2>1, SMTT(30)
    <3>2. b = p[k - 1] + d /\ p[k - 1] \in Nat
      BY <1>1, <1>3, <1>4, <2>1, SMTT(30)
    <3> QED
      BY <1>3, <3>1, <3>2, SMTT(30)
  <2>2. CASE k < Len(o)
    BY <1>1, <1>3, <2>2, SMTT(30)
  <2> QED
    BY <1>3, <2>1, <2>2, SMTT(30)
<1>9. Sums(n, q)
  BY <1>2, <1>6, <1>7, ZenonT(30) DEF Sums
<1> QED
  BY <1>2, <1>8, <1>9, ZenonT(30) DEF Holds, n, d, r

\* A list without a key twice has as many keys as entries.
LEMMA KeysCounted ==
  ASSUME NEW o \in Seq(Entries), NEW u \in [Keys -> Nat], Sorted(o, u)
  PROVE  Cardinality(KeysOf(o)) = Len(o)
<1>1. Len(o) \in Nat
  BY LenProperties, Zenon
<1> DEFINE f == [i \in 1..Len(o) |-> o[i].key]
<1>2. f \in Bijection(1..Len(o), KeysOf(o))
  <2>1. f \in [1..Len(o) -> KeysOf(o)]
    BY Zenon DEF KeysOf
  <2>2. \A i, j \in 1..Len(o) : f[i] = f[j] => i = j
    BY NoKeyTwice, Zenon
  <2>3. \A k \in KeysOf(o) : \E i \in 1..Len(o) : f[i] = k
    BY Zenon DEF KeysOf
  <2> HIDE DEF f
  <2> QED
    BY <2>1, <2>2, <2>3, SMTT(30) DEF Bijection, Injection, Surjection, IsInjective
<1>3. ExistsBijection(1..Len(o), KeysOf(o))
  BY <1>2, SMTT(30) DEF ExistsBijection
<1>4. IsFiniteSet(1..Len(o)) /\ Cardinality(1..Len(o)) = Len(o)
  <2>1. IsFiniteSet(1..Len(o)) /\ Cardinality(1..Len(o)) = IF 1 > Len(o) THEN 0 ELSE Len(o) - 1 + 1
    BY <1>1, FS_Interval, SMTT(30)
  <2> QED
    BY <1>1, <2>1, SMTT(30)
<1> QED
  BY <1>3, <1>4, FS_Bijection, SMTT(30)

\* bytes_ is what the list holds, but for the entry that is being put in or taken out;
\* and whoever leaves has seen to the bound on the entries.
BytesInv ==
  /\ bytes \in Nat
  /\ mutex = "free" => Holds(order, bytes) /\ (MaxEntries # 0 => Len(order) <= MaxEntries)
  /\ \A t \in Threads :
       /\ pc[t] = "evict" => Holds(order, bytes)
       /\ pc[t] = "index" => Holds(order, bytes + order[1].response)
       /\ pc[t] = "pop" => Holds(Front(order), bytes)

LEMMA BytesInit == Init => BytesInv
<1> SUFFICES ASSUME Init PROVE BytesInv
  BY Zenon
<1>1. order = <<>> /\ bytes = 0 /\ Len(order) = 0 /\ \A t \in Threads : pc[t] = "idle"
  BY Zenon DEF Init
<1>2. Sums(order, [n \in 0..0 |-> 0])
  BY <1>1, SMTT(30) DEF Sums
<1>3. Holds(order, bytes)
  BY <1>1, <1>2, SMTT(30) DEF Holds
<1> QED
  BY <1>1, <1>3, CacheAssumption, SMTT(30) DEF BytesInv

LEMMA BytesStep == IInv /\ BytesInv /\ [Next]_vars => BytesInv'
<1> SUFFICES ASSUME IInv, BytesInv, [Next]_vars PROVE BytesInv'
  BY Zenon
<1>0. /\ order \in Seq(Entries) /\ bytes \in Nat /\ pc \in [Threads -> {"idle", "index", "evict", "pop"}]
      /\ Len(order) \in Nat
  BY LenProperties, SMTT(30) DEF IInv, TypeInv, BytesInv
<1>1. ASSUME NEW t \in Threads, Lock(t), NEW k \in index, NEW r \in Sizes, order' = Spliced(k, r),
             bytes' = (bytes - order[Position(k)].response) + r, UNCHANGED <<mutex, pc>>
      PROVE  BytesInv'
  <2>1. mutex = "free" /\ k \in Keys /\ \A s \in Threads : pc'[s] = "idle"
    BY <1>1, CacheAssumption, Zenon DEF Lock, IInv, LockInv, TypeInv
  <2>2. Position(k) \in 1..Len(order)
    BY <2>1, Found, SMTT(30)
  <2> DEFINE e == [key |-> k, response |-> r]
  <2>3. e \in Entries /\ e.response = r /\ order' = <<e>> \o RemoveAt(order, Position(k))
    BY <1>1, <2>1, SMTT(30) DEF Entries, Spliced
  <2> HIDE DEF e
  <2>4. Holds(order, bytes) /\ (MaxEntries # 0 => Len(order) <= MaxEntries)
    BY <2>1, SMTT(30) DEF BytesInv
  <2>5. Holds(order', bytes')
    BY <1>0, <1>1, <2>2, <2>3, <2>4, SpliceHolds, SMTT(30)
  <2>6. Len(order') = Len(order)
    BY <1>0, <2>2, <2>3, SpliceShape, SMTT(30)
  <2>7. bytes' \in Nat
    <3>1. PICK p : Sums(order', p) /\ p[Len(order')] = bytes'
      BY <2>5, Zenon DEF Holds
    <3> QED
      BY <1>0, <2>6, <3>1, SMTT(30) DEF Sums
  <2>8. Holds(order, bytes)'
    BY <2>5, SMTT(30) DEF Holds, Sums
  <2> QED
    BY <2>1, <2>4, <2>6, <2>7, <2>8, SMTT(30) DEF BytesInv
<1>2. ASSUME NEW t \in Threads, NEW k \in Keys, Get(t, k) PROVE BytesInv'
  <2>1. /\ Lock(t) /\ mutex = "free" /\ k \in index /\ order' = Spliced(k, order[Position(k)].response)
        /\ UNCHANGED <<bytes, mutex, pc>>
    BY <1>2, SMTT(30) DEF Get, Lock
  <2>2. order[Position(k)] \in Entries
    BY <1>0, <2>1, Found, ListOfEntries, SMTT(30)
  <2>3. order[Position(k)].response \in Sizes /\ order[Position(k)].response \in Nat
    BY <2>2, CacheAssumption, ZenonT(30) DEF Entries
  <2>4. bytes' = (bytes - order[Position(k)].response) + order[Position(k)].response
    BY <1>0, <2>1, <2>3, SMTT(30)
  <2> QED
    BY <1>1, <2>1, <2>3, <2>4, SMTT(30)
<1>3. ASSUME NEW t \in Threads, NEW k \in Keys, NEW r \in Sizes, PutUpdate(t, k, r) PROVE BytesInv'
  BY <1>1, <1>3, SMTT(30) DEF PutUpdate
<1>4. ASSUME NEW t \in Threads, NEW k \in Keys, NEW r \in Sizes, PutInsert(t, k, r) PROVE BytesInv'
  <2> DEFINE e == [key |-> k, response |-> r]
  <2>1. /\ mutex = "free" /\ mutex' = t /\ bytes' = bytes /\ pc' = [pc EXCEPT ![t] = "index"]
        /\ entry' = [entry EXCEPT ![t] = <<e>>] /\ order' = entry'[t] \o order
    BY <1>4, SMTT(30) DEF PutInsert, Lock
  <2>2. e \in Entries /\ e.response = r
    BY Zenon DEF Entries
  <2> HIDE DEF e
  <2>3. order' = <<e>> \o order
    BY <2>1, SMTT(30) DEF IInv, TypeInv
  <2>4. Holds(order', bytes + e.response) /\ order'[1] = e
    <3>1. Holds(order, bytes)
      BY <2>1, SMTT(30) DEF BytesInv
    <3>2. Holds(<<e>> \o order, bytes + e.response)
      BY <1>0, <2>2, <3>1, PushHolds, SMTT(30)
    <3>3. (<<e>> \o order)[1] = e
      BY <1>0, <2>2, PushShape, SMTT(30)
    <3> QED
      BY <2>3, <3>2, <3>3, SMTT(30)
  <2>5. pc'[t] = "index" /\ t # "free" /\ \A s \in Threads : s # t => pc'[s] = "idle"
    BY <1>0, <2>1, CacheAssumption, SMTT(30) DEF IInv, LockInv
  <2>6. Holds(order, bytes + order[1].response)'
    BY <2>1, <2>4, ZenonT(30) DEF Holds, Sums
  <2> QED
    BY <1>0, <2>1, <2>5, <2>6, ZenonT(30) DEF BytesInv
<1>5. ASSUME NEW t \in Threads, pc[t] # "idle"
      PROVE  mutex = t /\ t # "free" /\ \A s \in Threads : s # t => pc[s] = "idle"
  BY <1>5, CacheAssumption, SMTT(30) DEF IInv, LockInv
<1>6. ASSUME NEW t \in Threads, PutIndex(t) PROVE BytesInv'
  <2>1. /\ pc[t] = "index" /\ bytes' = bytes + Head(entry[t]).response /\ pc' = [pc EXCEPT ![t] = "evict"]
        /\ UNCHANGED <<order, mutex>>
    BY <1>6, ZenonT(30) DEF PutIndex
  <2>2. Head(entry[t]) = order[1] /\ order # <<>>
    BY <2>1, SMTT(30) DEF IInv, IndexInv, TypeInv
  <2>3. Holds(order, bytes + order[1].response)
    BY <2>1, Zenon DEF BytesInv
  <2>4. order[1].response \in Nat
    <3>1. order[1] \in Entries
      BY <1>0, <2>2, EmptySeq, ListOfEntries, SMTT(30)
    <3> QED
      BY <3>1, CacheAssumption, ZenonT(30) DEF Entries
  <2>5. bytes' = bytes + order[1].response /\ bytes' \in Nat
    BY <1>0, <2>1, <2>2, <2>4, SMTT(30)
  <2>7. Holds(order, bytes)'
    BY <2>1, <2>3, <2>5, SMTT(30) DEF Holds, Sums
  <2>6. mutex' = t /\ t # "free" /\ pc'[t] = "evict" /\ \A s \in Threads : s # t => pc'[s] = "idle"
    BY <1>0, <1>5, <2>1, SMTT(30)
  <2> QED
    BY <2>5, <2>6, <2>7, SMTT(30) DEF BytesInv
<1>7. ASSUME NEW t \in Threads, EvictVictim(t) PROVE BytesInv'
  <2>1. /\ pc[t] = "evict" /\ order # <<>> /\ bytes' = bytes - order[Len(order)].response
        /\ pc' = [pc EXCEPT ![t] = "pop"] /\ UNCHANGED <<order, mutex>>
    BY <1>7, SMTT(30) DEF EvictVictim, Last
  <2>2. Holds(order, bytes)
    BY <2>1, SMTT(30) DEF BytesInv
  <2>3. bytes' \in Nat /\ Holds(Front(order), bytes')
    BY <1>0, <2>1, <2>2, PopHolds, SMTT(30)
  <2>4. Holds(Front(order), bytes)'
    BY <2>1, <2>3, ZenonT(30) DEF Holds, Sums, Front
  <2>5. mutex' = t /\ t # "free" /\ pc'[t] = "pop" /\ \A s \in Threads : s # t => pc'[s] = "idle"
    BY <1>0, <1>5, <2>1, SMTT(30)
  <2> QED
    BY <2>3, <2>4, <2>5, SMTT(30) DEF BytesInv
<1>8. ASSUME NEW t \in Threads, EvictPop(t) PROVE BytesInv'
  <2>1. /\ pc[t] = "pop" /\ order' = Front(order) /\ bytes' = bytes
        /\ pc' = [pc EXCEPT ![t] = "evict"] /\ UNCHANGED mutex
    BY <1>8, SMTT(30) DEF EvictPop
  <2>2. Holds(order', bytes')
    BY <2>1, SMTT(30) DEF BytesInv
  <2>3. Holds(order, bytes)'
    BY <2>2, SMTT(30) DEF Holds, Sums
  <2>4. mutex' = t /\ t # "free" /\ pc'[t] = "evict" /\ \A s \in Threads : s # t => pc'[s] = "idle"
    BY <1>0, <1>5, <2>1, SMTT(30)
  <2> QED
    BY <1>0, <2>1, <2>3, <2>4, SMTT(30) DEF BytesInv
<1>9. ASSUME NEW t \in Threads, PutReturn(t) PROVE BytesInv'
  <2>1. /\ pc[t] = "evict" /\ (~OverLimit \/ order = <<>>) /\ mutex' = "free"
        /\ pc' = [pc EXCEPT ![t] = "idle"] /\ UNCHANGED <<order, bytes>>
    BY <1>9, SMTT(30) DEF PutReturn
  <2>2. Holds(order, bytes) /\ index = KeysOf(order)
    BY <2>1, SMTT(30) DEF BytesInv, IInv, IndexInv
  <2>3. MaxEntries # 0 => Len(order) <= MaxEntries
    <3>1. CASE order = <<>>
      BY <3>1, CacheAssumption, SMTT(30)
    <3>2. CASE ~OverLimit
      <4>1. Cardinality(index) = Len(order)
        BY <2>2, KeysCounted, SMTT(30) DEF IInv, TypeInv, ListInv
      <4> QED
        BY <1>0, <3>2, <4>1, CacheAssumption, SMTT(30) DEF OverLimit
    <3> QED
      BY <2>1, <3>1, <3>2, SMTT(30)
  <2>4. Holds(order, bytes)'
    BY <2>1, <2>2, SMTT(30) DEF Holds, Sums
  <2>5. \A s \in Threads : pc'[s] = "idle"
    BY <1>0, <1>5, <2>1, SMTT(30)
  <2> QED
    BY <1>0, <2>1, <2>3, <2>4, <2>5, SMTT(30) DEF BytesInv
<1>10. CASE UNCHANGED vars
  <2>1. UNCHANGED <<order, bytes, pc, mutex>>
    BY <1>10, SMTT(30) DEF vars
  <2> QED
    BY <2>1, SMTT(30) DEF BytesInv, Holds, Sums, Front
<1> QED
  BY <1>2, <1>3, <1>4, <1>6, <1>7, <1>8, <1>9, <1>10, SMTT(30) DEF Next, Quiet

\* "The two structures must stay in step", and the count with them: whenever nobody is
\* inside, the index has the keys of the list, each once and within max_entries_, and
\* bytes_ is the size of what the list holds; it never wraps below zero (get, put).
THEOREM StaysInStep == Spec => []InStep
<1>1. IInv /\ BytesInv => InStep
  <2> SUFFICES ASSUME IInv, BytesInv PROVE InStep
    BY Zenon
  <2>1. bytes >= 0
    BY SMTT(30) DEF BytesInv
  <2>2. ASSUME mutex = "free"
        PROVE  /\ index = {order[i].key : i \in 1..Len(order)}
               /\ Cardinality(index) = Len(order)
               /\ MaxEntries # 0 => Len(order) <= MaxEntries
               /\ bytes = Held
    <3>1. index = KeysOf(order)
      BY <2>2, SMTT(30) DEF IInv, IndexInv
    <3>2. Cardinality(index) = Len(order)
      BY <3>1, KeysCounted, SMTT(30) DEF IInv, TypeInv, ListInv
    <3>3. Holds(order, bytes) /\ (MaxEntries # 0 => Len(order) <= MaxEntries)
      BY <2>2, SMTT(30) DEF BytesInv
    <3>4. bytes = Held
      BY <3>3, HeldIsSum, SMTT(30) DEF IInv, TypeInv
    <3> QED
      BY <3>1, <3>2, <3>3, <3>4, ZenonT(30) DEF KeysOf
  <2> QED
    BY <2>1, <2>2, SMTT(30) DEF InStep
<1> QED
  BY <1>1, InitInv, NextInv, BytesInit, BytesStep, PTL DEF Spec
=============================================================================
