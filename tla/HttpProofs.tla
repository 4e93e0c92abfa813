----------------------------- MODULE HttpProofs -----------------------------
(***************************************************************************)
(* Proofs about the parser, the rewriter and the cache keys, for streams,  *)
(* URLs and lists of headers of any length, any limits and any width of    *)
(* size_t.                                                                 *)
(*                                                                         *)
(* What find, rfind and Without compute is proved first, by induction over *)
(* the sequence; then what one call of split_absolute_url, ParseHeaders or *)
(* parse_request returns; then the invariant of do_read_client, from which *)
(* the properties follow.                                                  *)
(***************************************************************************)
EXTENDS Http, SequenceTheorems, WellFoundedInduction, TLAPS

-----------------------------------------------------------------------------
(* Naturals and sequences: least members, find and rfind *)

\* A set of naturals that is not empty has a least member.
LEMMA LeastMember ==
  ASSUME NEW S \in SUBSET Nat, S # {}
  PROVE  \E m \in S : \A n \in S : m <= n
<1> DEFINE R == OpToRel(<, Nat)
<1>1. IsWellFoundedOn(R, Nat)
  BY NatLessThanWellFounded, Zenon
<1>2. \A x, y \in Nat : <<x, y>> \in R <=> x < y
  BY Zenon DEF OpToRel
<1> HIDE DEF R
<1>3. \E x \in S : \A y \in S : ~(<<y, x>> \in R)
  BY <1>1, WFMin, Zenon
<1>4. PICK m \in S : \A y \in S : ~(<<y, m>> \in R)
  BY <1>3, Zenon
<1>5. ASSUME NEW n \in S PROVE m <= n
  <2>1. ~(n < m)
    BY <1>2, <1>4, Zenon
  <2> QED
    BY <2>1
<1> QED
  BY <1>5, Zenon

\* A set of naturals below a bound that is not empty has a greatest member.
LEMMA GreatestMember ==
  ASSUME NEW b \in Nat, NEW S \in SUBSET (0..b), S # {}
  PROVE  \E m \in S : \A n \in S : n <= m
<1> DEFINE D == {b - n : n \in S}
<1>1. D \in SUBSET Nat /\ D # {}
  <2>1. \A n \in S : b - n \in Nat
    OBVIOUS
  <2>2. PICK n : n \in S
    BY Zenon
  <2>3. b - n \in D
    BY <2>2, Zenon
  <2> QED
    BY <2>1, <2>3, Zenon
<1>2. PICK d \in D : \A e \in D : d <= e
  BY <1>1, LeastMember, Zenon
<1>3. PICK m \in S : d = b - m
  BY <1>2, Zenon
<1>4. ASSUME NEW n \in S PROVE n <= m
  <2>1. b - n \in D
    BY Zenon
  <2>2. b - m <= b - n
    BY <1>2, <1>3, <2>1, Zenon
  <2> QED
    BY <2>2
<1> QED
  BY <1>4, Zenon

\* Induction, stated of a set: the provers can instantiate that.
LEMMA InductionSet ==
  ASSUME NEW S, 0 \in S, \A n \in Nat : n \in S => n + 1 \in S
  PROVE  Nat \subseteq S
<1> SUFFICES ASSUME Nat \ S # {} PROVE FALSE
  BY Zenon
<1>1. PICK m \in Nat \ S : \A n \in Nat \ S : m <= n
  BY LeastMember, Zenon
<1> QED
  BY <1>1

\* What Min chooses.
LEMMA MinIsLeast ==
  ASSUME NEW S \in SUBSET Nat, S # {}
  PROVE  Min(S) \in S /\ \A n \in S : Min(S) <= n
<1>1. \E m \in S : \A n \in S : m <= n
  BY LeastMember, Zenon
<1> QED
  BY <1>1, Zenon DEF Min

\* The same for Max.
LEMMA MaxIsGreatest ==
  ASSUME NEW b \in Nat, NEW S \in SUBSET (0..b), S # {}
  PROVE  Max(S) \in S /\ \A n \in S : n <= Max(S)
<1>1. \E m \in S : \A n \in S : n <= m
  BY GreatestMember, Zenon
<1>2. PICK m \in S : \A n \in S : m >= n
  BY <1>1, Zenon
<1>3. Max(S) \in S /\ \A n \in S : Max(S) >= n
  BY <1>2, Zenon DEF Max
<1> QED
  BY <1>3, Zenon

\* find: where c is first.
LEMMA FindIs ==
  ASSUME NEW T, NEW s \in Seq(T), NEW c, NEW k \in 1..Len(s), s[k] = c, \A i \in 1..(k - 1) : s[i] # c
  PROVE  find(s, c) = k
<1> DEFINE I == {i \in 1..Len(s) : s[i] = c}
<1>1. k \in I /\ I \in SUBSET Nat
  OBVIOUS
<1>2. find(s, c) = Min(I)
  BY <1>1, Zenon DEF find
<1>3. Min(I) \in I /\ Min(I) <= k
  BY <1>1, MinIsLeast, Zenon
<1> QED
  BY <1>2, <1>3

\* find: c is nowhere.
LEMMA FindNone ==
  ASSUME NEW T, NEW s \in Seq(T), NEW c, \A i \in 1..Len(s) : s[i] # c
  PROVE  find(s, c) = 0
BY Zenon DEF find

\* find: there is no third case.
LEMMA FindAny ==
  ASSUME NEW T, NEW s \in Seq(T), NEW c
  PROVE  \/ find(s, c) = 0 /\ \A i \in 1..Len(s) : s[i] # c
         \/ find(s, c) \in 1..Len(s) /\ s[find(s, c)] = c /\ \A i \in 1..(find(s, c) - 1) : s[i] # c
<1> DEFINE I == {i \in 1..Len(s) : s[i] = c}
<1>1. CASE I = {}
  <2>1. \A i \in 1..Len(s) : s[i] # c
    BY <1>1, Zenon
  <2> QED
    BY <2>1, FindNone, Zenon
<1>2. CASE I # {}
  <2>1. I \in SUBSET Nat
    OBVIOUS
  <2>2. find(s, c) = Min(I)
    BY <1>2, Zenon DEF find
  <2>3. Min(I) \in I /\ \A n \in I : Min(I) <= n
    BY <1>2, <2>1, MinIsLeast, Zenon
  <2>4. ASSUME NEW i \in 1..(find(s, c) - 1) PROVE s[i] # c
    <3>1. i \in 1..Len(s) /\ i < Min(I)
      BY <2>2, <2>3
    <3> QED
      BY <2>3, <3>1
  <2> QED
    BY <2>2, <2>3, <2>4, Zenon
<1> QED
  BY <1>1, <1>2, Zenon

\* rfind: where c is last.
LEMMA RfindIs ==
  ASSUME NEW T, NEW s \in Seq(T), NEW c, NEW k \in 1..Len(s), s[k] = c, \A i \in (k + 1)..Len(s) : s[i] # c
  PROVE  rfind(s, c) = k
<1> DEFINE I == {i \in 1..Len(s) : s[i] = c}
<1>1. k \in I /\ I \in SUBSET (0..Len(s)) /\ Len(s) \in Nat
  OBVIOUS
<1>2. rfind(s, c) = Max(I)
  BY <1>1, Zenon DEF rfind
<1>3. Max(I) \in I /\ k <= Max(I)
  BY <1>1, MaxIsGreatest, Zenon
<1> QED
  BY <1>2, <1>3

\* rfind: c is nowhere.
LEMMA RfindNone ==
  ASSUME NEW T, NEW s \in Seq(T), NEW c, \A i \in 1..Len(s) : s[i] # c
  PROVE  rfind(s, c) = 0
BY Zenon DEF rfind

\* rfind returns a place in s, or 0.
LEMMA RfindAny ==
  ASSUME NEW T, NEW s \in Seq(T), NEW c
  PROVE  rfind(s, c) \in 0..Len(s)
<1> DEFINE I == {i \in 1..Len(s) : s[i] = c}
<1>1. I \in SUBSET (0..Len(s)) /\ Len(s) \in Nat
  OBVIOUS
<1>2. CASE I = {}
  BY <1>1, <1>2 DEF rfind
<1>3. CASE I # {}
  <2>1. rfind(s, c) = Max(I)
    BY <1>3, Zenon DEF rfind
  <2> QED
    BY <1>1, <1>3, <2>1, MaxIsGreatest, Zenon
<1> QED
  BY <1>2, <1>3, Zenon

-----------------------------------------------------------------------------
(* What Without computes *)

\* k[n] is what is left of the first n elements of s.
Keeps(s, Skipped, k, n) ==
  /\ k[0] = <<>>
  /\ \A i \in 1..n : k[i] = IF s[i] \in Skipped THEN k[i - 1] ELSE Append(k[i - 1], s[i])

\* w has the elements of the first n of s that are not skipped, each once and in order.
Exact(s, Skipped, n, w) ==
  \E f \in [1..Len(w) -> 1..n] :
    /\ \A i, j \in 1..Len(w) : i < j => f[i] < f[j]
    /\ \A i \in 1..Len(w) : w[i] = s[f[i]] /\ s[f[i]] \notin Skipped
    /\ \A j \in 1..n : s[j] \notin Skipped => \E i \in 1..Len(w) : f[i] = j

\* The recursion in Without is one: some function satisfies it.
LEMMA KeepsExists ==
  ASSUME NEW T, NEW s \in Seq(T), NEW Skipped
  PROVE  \E k \in [0..Len(s) -> Seq(T)] : Keeps(s, Skipped, k, Len(s))
<1> DEFINE S == {n \in Nat : n <= Len(s) => \E k \in [0..n -> Seq(T)] : Keeps(s, Skipped, k, n)}
<1>1. 0 \in S
  <2> DEFINE k == [i \in 0..0 |-> <<>>]
  <2>1. k \in [0..0 -> Seq(T)]
    OBVIOUS
  <2>2. Keeps(s, Skipped, k, 0)
    BY DEF Keeps
  <2> QED
    BY <2>1, <2>2, Zenon
<1>2. ASSUME NEW n \in Nat, n \in S PROVE n + 1 \in S
  <2> SUFFICES ASSUME n + 1 <= Len(s) PROVE \E k \in [0..(n + 1) -> Seq(T)] : Keeps(s, Skipped, k, n + 1)
    OBVIOUS
  <2>1. PICK k \in [0..n -> Seq(T)] : Keeps(s, Skipped, k, n)
    BY <1>2
  <2> DEFINE last == IF s[n + 1] \in Skipped THEN k[n] ELSE Append(k[n], s[n + 1])
             l    == [i \in 0..(n + 1) |-> IF i <= n THEN k[i] ELSE last]
  <2>2. last \in Seq(T)
    <3>1. k[n] \in Seq(T) /\ s[n + 1] \in T
      BY <2>1
    <3> QED
      BY <3>1
  <2> HIDE DEF last
  <2>3. l \in [0..(n + 1) -> Seq(T)]
    BY <2>1, <2>2
  <2>4. l[0] = <<>>
    BY <2>1 DEF Keeps
  <2>5. ASSUME NEW i \in 1..(n + 1)
        PROVE  l[i] = IF s[i] \in Skipped THEN l[i - 1] ELSE Append(l[i - 1], s[i])
    <3>1. CASE i <= n
      <4>1. l[i] = k[i] /\ l[i - 1] = k[i - 1]
        BY <3>1
      <4>2. i \in 1..n
        BY <3>1
      <4>3. k[i] = IF s[i] \in Skipped THEN k[i - 1] ELSE Append(k[i - 1], s[i])
        BY <2>1, <4>2, Zenon DEF Keeps
      <4> HIDE DEF l
      <4> QED
        BY <4>1, <4>3, Zenon
    <3>2. CASE i = n + 1
      <4>1. l[i] = last /\ l[i - 1] = k[n]
        BY <3>2
      <4> QED
        BY <3>2, <4>1, Zenon DEF last
    <3> QED
      BY <3>1, <3>2
  <2> QED
    BY <2>3, <2>4, <2>5, Zenon DEF Keeps
<1>3. Nat \subseteq S
  BY <1>1, <1>2, InductionSet, Zenon
<1>4. Len(s) \in S
  BY <1>3
<1> QED
  BY <1>4

\* Without is the last value of such a function.
LEMMA WithoutKeeps ==
  ASSUME NEW T, NEW s \in Seq(T), NEW Skipped
  PROVE  \E k : Keeps(s, Skipped, k, Len(s)) /\ Without(s, Skipped) = k[Len(s)]
<1> DEFINE G(f)  == [n \in 0..Len(s) |->
                       IF n = 0 THEN <<>> ELSE IF s[n] \in Skipped THEN f[n - 1] ELSE Append(f[n - 1], s[n])]
           kept == CHOOSE f : f = G(f)
<1>1. PICK k \in [0..Len(s) -> Seq(T)] : Keeps(s, Skipped, k, Len(s))
  BY KeepsExists, Zenon
<1>2. k = G(k)
  <2>1. k = [n \in 0..Len(s) |-> k[n]]
    BY <1>1, Zenon
  <2>2. ASSUME NEW n \in 0..Len(s)
        PROVE  k[n] = IF n = 0 THEN <<>> ELSE IF s[n] \in Skipped THEN k[n - 1] ELSE Append(k[n - 1], s[n])
    <3>1. n = 0 \/ n \in 1..Len(s)
      OBVIOUS
    <3> QED
      BY <1>1, <3>1, Zenon DEF Keeps
  <2> QED
    BY <2>1, <2>2, Zenon
<1>3. kept = G(kept)
  BY <1>2, Zenon
<1>4. Without(s, Skipped) = kept[Len(s)]
  BY Zenon DEF Without
<1> HIDE DEF kept
<1>5. Keeps(s, Skipped, kept, Len(s))
  <2>1. kept[0] = <<>>
    BY <1>3
  <2>2. ASSUME NEW i \in 1..Len(s)
        PROVE  kept[i] = IF s[i] \in Skipped THEN kept[i - 1] ELSE Append(kept[i - 1], s[i])
    <3>1. i \in 0..Len(s) /\ i # 0
      OBVIOUS
    <3>2. kept[i] = G(kept)[i]
      BY <1>3, Zenon
    <3>3. G(kept)[i] = IF s[i] \in Skipped THEN kept[i - 1] ELSE Append(kept[i - 1], s[i])
      BY <3>1, Zenon
    <3> HIDE DEF G
    <3> QED
      BY <3>2, <3>3, Zenon
  <2> QED
    BY <2>1, <2>2, Zenon DEF Keeps
<1> QED
  BY <1>4, <1>5, Zenon

\* The next element is skipped.
LEMMA ExactSkips ==
  ASSUME NEW T, NEW s \in Seq(T), NEW Skipped, NEW n \in Nat, n + 1 <= Len(s), NEW w \in Seq(T),
         Exact(s, Skipped, n, w), s[n + 1] \in Skipped
  PROVE  Exact(s, Skipped, n + 1, w)
<1>1. PICK f \in [1..Len(w) -> 1..n] :
        /\ \A i, j \in 1..Len(w) : i < j => f[i] < f[j]
        /\ \A i \in 1..Len(w) : w[i] = s[f[i]] /\ s[f[i]] \notin Skipped
        /\ \A j \in 1..n : s[j] \notin Skipped => \E i \in 1..Len(w) : f[i] = j
  BY Zenon DEF Exact
<1>2. f \in [1..Len(w) -> 1..(n + 1)]
  OBVIOUS
<1>3. \A j \in 1..(n + 1) : s[j] \notin Skipped => \E i \in 1..Len(w) : f[i] = j
  BY <1>1
<1> QED
  BY <1>1, <1>2, <1>3, Zenon DEF Exact

\* The next element is kept.
LEMMA ExactTakes ==
  ASSUME NEW T, NEW s \in Seq(T), NEW Skipped, NEW n \in Nat, n + 1 <= Len(s), NEW w \in Seq(T),
         Exact(s, Skipped, n, w), s[n + 1] \notin Skipped
  PROVE  Exact(s, Skipped, n + 1, Append(w, s[n + 1]))
<1>1. PICK f \in [1..Len(w) -> 1..n] :
        /\ \A i, j \in 1..Len(w) : i < j => f[i] < f[j]
        /\ \A i \in 1..Len(w) : w[i] = s[f[i]] /\ s[f[i]] \notin Skipped
        /\ \A j \in 1..n : s[j] \notin Skipped => \E i \in 1..Len(w) : f[i] = j
  BY Zenon DEF Exact
<1> DEFINE v == Append(w, s[n + 1])
           g == [i \in 1..(Len(w) + 1) |-> IF i <= Len(w) THEN f[i] ELSE n + 1]
<1>2. s[n + 1] \in T /\ Len(w) \in Nat
  OBVIOUS
<1>3. Len(v) = Len(w) + 1 /\ (\A i \in 1..Len(w) : v[i] = w[i]) /\ v[Len(w) + 1] = s[n + 1]
  BY <1>2, AppendProperties
<1> HIDE DEF v
<1>4. g \in [1..Len(v) -> 1..(n + 1)]
  BY <1>2, <1>3
<1>5. \A i, j \in 1..Len(v) : i < j => g[i] < g[j]
  <2> SUFFICES ASSUME NEW i \in 1..Len(v), NEW j \in 1..Len(v), i < j PROVE g[i] < g[j]
    BY Zenon
  <2>1. i \in 1..Len(w) /\ g[i] = f[i] /\ f[i] \in 1..n
    BY <1>2, <1>3, SMTT(30)
  <2>2. CASE j <= Len(w)
    BY <1>1, <1>2, <1>3, <2>1, <2>2
  <2>3. CASE j = Len(w) + 1
    BY <1>2, <1>3, <2>1, <2>3
  <2> QED
    BY <1>2, <1>3, <2>2, <2>3
<1>6. \A i \in 1..Len(v) : v[i] = s[g[i]] /\ s[g[i]] \notin Skipped
  <2> SUFFICES ASSUME NEW i \in 1..Len(v) PROVE v[i] = s[g[i]] /\ s[g[i]] \notin Skipped
    BY Zenon
  <2>1. CASE i <= Len(w)
    BY <1>1, <1>2, <1>3, <2>1, SMTT(30)
  <2>2. CASE i = Len(w) + 1
    BY <1>2, <1>3, <2>2
  <2> QED
    BY <1>2, <1>3, <2>1, <2>2
<1>7. \A j \in 1..(n + 1) : s[j] \notin Skipped => \E i \in 1..Len(v) : g[i] = j
  <2> SUFFICES ASSUME NEW j \in 1..(n + 1), s[j] \notin Skipped PROVE \E i \in 1..Len(v) : g[i] = j
    BY Zenon
  <2>1. CASE j = n + 1
    <3>1. Len(w) + 1 \in 1..Len(v) /\ g[Len(w) + 1] = n + 1
      BY <1>2, <1>3
    <3> QED
      BY <2>1, <3>1, Zenon
  <2>2. CASE j \in 1..n
    <3>1. PICK i \in 1..Len(w) : f[i] = j
      BY <1>1, <2>2, Zenon
    <3>2. i \in 1..Len(v) /\ g[i] = j
      BY <1>2, <1>3, <3>1
    <3> QED
      BY <3>2, Zenon
  <2>3. j = n + 1 \/ j \in 1..n
    OBVIOUS
  <2> HIDE DEF g
  <2> QED
    BY <2>1, <2>2, <2>3
<1>8. Exact(s, Skipped, n + 1, v)
  BY <1>4, <1>5, <1>6, <1>7, Zenon DEF Exact
<1> QED
  BY <1>8, Zenon DEF v

\* Without drops what is skipped and nothing else, and keeps the order.
LEMMA WithoutIsExact ==
  ASSUME NEW T, NEW s \in Seq(T), NEW Skipped
  PROVE  Without(s, Skipped) \in Seq(T) /\ Exact(s, Skipped, Len(s), Without(s, Skipped))
<1>1. PICK k : Keeps(s, Skipped, k, Len(s)) /\ Without(s, Skipped) = k[Len(s)]
  BY WithoutKeeps, Zenon
<1> DEFINE S == {n \in Nat : n <= Len(s) => k[n] \in Seq(T) /\ Exact(s, Skipped, n, k[n])}
<1>2. 0 \in S
  <2>1. k[0] = <<>>
    BY <1>1, Zenon DEF Keeps
  <2>2. <<>> \in [1..0 -> 1..0] /\ Len(<<>>) = 0
    OBVIOUS
  <2>3. \A i \in 1..0 : FALSE
    OBVIOUS
  <2>4. Exact(s, Skipped, 0, <<>>)
    BY <2>2, <2>3, Zenon DEF Exact
  <2>5. k[0] \in Seq(T)
    BY <2>1
  <2> QED
    BY <2>1, <2>4, <2>5, Zenon
<1>3. ASSUME NEW n \in Nat, n \in S PROVE n + 1 \in S
  <2> SUFFICES ASSUME n + 1 <= Len(s) PROVE k[n + 1] \in Seq(T) /\ Exact(s, Skipped, n + 1, k[n + 1])
    OBVIOUS
  <2>1. k[n] \in Seq(T) /\ Exact(s, Skipped, n, k[n])
    BY <1>3
  <2>2. k[n + 1] = IF s[n + 1] \in Skipped THEN k[n] ELSE Append(k[n], s[n + 1])
    <3>1. n + 1 \in 1..Len(s) /\ (n + 1) - 1 = n
      OBVIOUS
    <3> QED
      BY <1>1, <3>1, Zenon DEF Keeps
  <2>3. s[n + 1] \in T
    OBVIOUS
  <2>4. CASE s[n + 1] \in Skipped
    BY <2>1, <2>2, <2>4, ExactSkips, Zenon
  <2>5. CASE s[n + 1] \notin Skipped
    <3>1. Exact(s, Skipped, n + 1, Append(k[n], s[n + 1]))
      BY <2>1, <2>5, ExactTakes, Zenon
    <3> QED
      BY <2>1, <2>2, <2>3, <2>5, <3>1, SMTT(30)
  <2> QED
    BY <2>4, <2>5, Zenon
<1>4. Nat \subseteq S
  BY <1>2, <1>3, InductionSet, Zenon
<1>5. Len(s) \in S
  BY <1>4
<1> QED
  BY <1>1, <1>5

-----------------------------------------------------------------------------
(* split_absolute_url *)

\* A part of a sequence.
LEMMA PartOf ==
  ASSUME NEW T, NEW s \in Seq(T), NEW m \in Nat \ {0}, NEW n \in Int, n <= Len(s)
  PROVE  /\ SubSeq(s, m, n) \in Seq(T)
         /\ Len(SubSeq(s, m, n)) = IF m <= n THEN n - m + 1 ELSE 0
         /\ \A i \in 1..Len(SubSeq(s, m, n)) : m + i - 1 \in m..n /\ SubSeq(s, m, n)[i] = s[m + i - 1]
<1>1. \A i \in m..n : s[i] \in T
  BY ElementOfSeq
<1>2. /\ SubSeq(s, m, n) \in Seq(T)
      /\ Len(SubSeq(s, m, n)) = IF m <= n THEN n - m + 1 ELSE 0
      /\ \A i \in 1..(n - m + 1) : SubSeq(s, m, n)[i] = s[m + i - 1]
  BY <1>1, SubSeqProperties, SMTT(30)
<1> QED
  BY <1>2

\* Host and port of an authority: parts of it, or the port that stood before.
LEMMA HostAndPort ==
  ASSUME NEW a \in Seq(Chars), \A i \in 1..Len(a) : a[i] # "/",
         NEW hp, hp = BracketedHost(a, Port80) \/ hp = PlainHost(a, Port80)
  PROVE  /\ hp.host \in Seq(Chars) /\ hp.port \in Seq(Chars)
         /\ \A i \in 1..Len(hp.host) : hp.host[i] # "/"
<1>0. <<>> \in Seq(Chars) /\ \A i \in 1..Len(<<>>) : FALSE
  OBVIOUS
<1>p. Port80 \in Seq(Chars)
  <2>1. "80" \in Chars
    BY HttpAssumption, Zenon
  <2> QED
    BY <2>1 DEF Port80
<1>1. CASE hp = BracketedHost(a, Port80)
  <2> DEFINE shut == find(a, "]")
             host == SubSeq(a, 2, shut - 1)
             port == SubSeq(a, shut + 2, Len(a))
  <2>1. shut \in 0..Len(a)
    BY FindAny
  <2> HIDE DEF shut
  <2>2. host \in Seq(Chars) /\ \A i \in 1..Len(host) : 2 + i - 1 \in 2..(shut - 1) /\ host[i] = a[2 + i - 1]
    BY <2>1, PartOf, SMTT(30)
  <2>3. port \in Seq(Chars)
    BY <2>1, PartOf
  <2>4. \A i \in 1..Len(host) : host[i] # "/"
    BY <2>1, <2>2
  <2> HIDE DEF host, port
  <2>5. hp.host \in {<<>>, host} /\ hp.port \in {port, Port80}
    BY <1>1, Zenon DEF BracketedHost, shut, host, port
  <2>6. hp.port \in Seq(Chars)
    BY <1>p, <2>3, <2>5
  <2>7. CASE hp.host = <<>>
    BY <1>0, <2>6, <2>7, Zenon
  <2>8. CASE hp.host = host
    BY <2>2, <2>4, <2>6, <2>8, Zenon
  <2> QED
    BY <2>5, <2>7, <2>8
<1>2. CASE hp = PlainHost(a, Port80)
  <2> DEFINE colon == rfind(a, ":")
             host == SubSeq(a, 1, colon - 1)
             port == SubSeq(a, colon + 1, Len(a))
  <2>1. colon \in 0..Len(a)
    BY RfindAny, Zenon
  <2> HIDE DEF colon
  <2>2. host \in Seq(Chars) /\ \A i \in 1..Len(host) : 1 + i - 1 \in 1..(colon - 1) /\ host[i] = a[1 + i - 1]
    BY <2>1, PartOf, SMTT(30)
  <2>3. port \in Seq(Chars)
    BY <2>1, PartOf
  <2>4. \A i \in 1..Len(host) : host[i] # "/"
    BY <2>1, <2>2
  <2> HIDE DEF host, port
  <2>5. hp.host \in {a, host} /\ hp.port \in {port, Port80}
    BY <1>2, Zenon DEF PlainHost, colon, host, port
  <2>6. hp.port \in Seq(Chars)
    BY <1>p, <2>3, <2>5
  <2>7. CASE hp.host = a
    BY <2>6, <2>7, Zenon
  <2>8. CASE hp.host = host
    BY <2>2, <2>4, <2>6, <2>8, Zenon
  <2> QED
    BY <2>5, <2>7, <2>8
<1> QED
  BY <1>1, <1>2, Zenon

\* The values that a Request takes.
Requests ==
  [method : {Empty} \cup STRING, host : Seq(Chars), port : Seq(Chars), path : Seq(Chars),
   headers : Seq({CRLF, Byte, Junk} \cup RequestLines \cup Headers), content_length : Nat, header_bytes : Nat]

\* A target that a request line may name.
GoodTarget(r) ==
  /\ r.host # <<>> /\ \A i \in 1..Len(r.host) : r.host[i] # "/"
  /\ r.port # <<>> /\ \A i \in 1..Len(r.port) : r.port[i] = "80"
  /\ r.path # <<>> /\ r.path[1] = "/"

\* The authority of a URL: what stands before the first slash.
Authority(url) == IF find(url, "/") = 0 THEN url ELSE SubSeq(url, 1, find(url, "/") - 1)

\* It has no slash.
LEMMA AuthorityIs ==
  ASSUME NEW url \in Seq(Chars)
  PROVE  Authority(url) \in Seq(Chars) /\ \A i \in 1..Len(Authority(url)) : Authority(url)[i] # "/"
<1> DEFINE slash == find(url, "/")
           part  == SubSeq(url, 1, slash - 1)
<1>1. \/ slash = 0 /\ \A i \in 1..Len(url) : url[i] # "/"
      \/ slash \in 1..Len(url) /\ \A i \in 1..(slash - 1) : url[i] # "/"
  BY FindAny, Zenon
<1>2. Authority(url) = IF slash = 0 THEN url ELSE part
  BY Zenon DEF Authority
<1> HIDE DEF slash
<1>3. CASE slash = 0
  BY <1>1, <1>2, <1>3
<1>4. CASE slash \in 1..Len(url) /\ \A i \in 1..(slash - 1) : url[i] # "/"
  <2>1. part \in Seq(Chars) /\ \A i \in 1..Len(part) : 1 + i - 1 \in 1..(slash - 1) /\ part[i] = url[1 + i - 1]
    BY <1>4, PartOf
  <2>2. \A i \in 1..Len(part) : part[i] # "/"
    BY <1>4, <2>1, Zenon
  <2>3. Authority(url) = part
    BY <1>2, <1>4
  <2> HIDE DEF part
  <2> QED
    BY <2>1, <2>2, <2>3, Zenon
<1> QED
  BY <1>1, <1>3, <1>4

\* What split_absolute_url makes of the URL, written with Authority.
SplitHost(url) ==
  IF Authority(url)[1] = "[" THEN BracketedHost(Authority(url), Port80) ELSE PlainHost(Authority(url), Port80)

\* The path of a URL, which is "/" where there is none.
SplitPath(url) == IF find(url, "/") = 0 THEN <<"/">> ELSE SubSeq(url, find(url, "/"), Len(url))

\* split_absolute_url, in these terms.
LEMMA SplitIs ==
  ASSUME NEW url \in Seq(Chars), NEW r \in Requests, r.port = Port80
  PROVE  split_absolute_url(TRUE, url, r) =
           IF Authority(url) = <<>> THEN [ok |-> FALSE, req |-> r]
           ELSE [ok  |-> /\ SplitHost(url).host # <<>> /\ SplitHost(url).port # <<>>
                         /\ Range(SplitHost(url).port) \subseteq {"80"},
                 req |-> [r EXCEPT !.path = SplitPath(url), !.host = SplitHost(url).host,
                                   !.port = SplitHost(url).port]]
BY Zenon DEF split_absolute_url, Authority, SplitHost, SplitPath

\* A path begins with a slash.
LEMMA PathIs ==
  ASSUME NEW url \in Seq(Chars)
  PROVE  SplitPath(url) \in Seq(Chars) /\ SplitPath(url) # <<>> /\ SplitPath(url)[1] = "/"
<1> DEFINE slash == find(url, "/")
           part  == SubSeq(url, slash, Len(url))
<1>1. slash = 0 \/ (slash \in 1..Len(url) /\ url[slash] = "/")
  BY FindAny
<1>2. SplitPath(url) = IF slash = 0 THEN <<"/">> ELSE part
  BY Zenon DEF SplitPath
<1> HIDE DEF slash
<1>3. CASE slash = 0
  <2>1. <<"/">> # <<>> /\ <<"/">>[1] = "/"
    BY Zenon
  <2>2. "/" \in Chars
    BY HttpAssumption, Zenon
  <2>3. <<"/">> \in Seq(Chars)
    BY <2>2
  <2>4. SplitPath(url) = <<"/">>
    BY <1>2, <1>3
  <2> QED
    BY <2>1, <2>3, <2>4, Zenon
<1>4. CASE slash \in 1..Len(url) /\ url[slash] = "/"
  <2>1. part \in Seq(Chars) /\ Len(part) = Len(url) - slash + 1 /\ \A i \in 1..Len(part) : part[i] = url[slash + i - 1]
    BY <1>4, PartOf
  <2>2. Len(part) >= 1 /\ 1 \in 1..Len(part) /\ slash + 1 - 1 = slash
    BY <1>4, <2>1
  <2>3. SplitPath(url) = part
    BY <1>2, <1>4
  <2> HIDE DEF part
  <2>4. part[1] = url[slash + 1 - 1]
    BY <2>1, <2>2
  <2>5. part[1] = "/"
    BY <1>4, <2>2, <2>4
  <2>6. part # <<>>
    BY <2>1, <2>2
  <2> QED
    BY <2>1, <2>3, <2>5, <2>6, Zenon
<1> QED
  BY <1>1, <1>3, <1>4

\* A URL that split_absolute_url accepts names a target, and the rest of the request
\* stays as it is.
LEMMA SplitTarget ==
  ASSUME NEW url \in Seq(Chars), NEW r \in Requests, r.port = Port80, NEW http \in BOOLEAN,
         NEW p, p = split_absolute_url(http, url, r)
  PROVE  /\ p.req \in Requests
         /\ p.req.method = r.method /\ p.req.headers = r.headers
         /\ p.req.content_length = r.content_length /\ p.req.header_bytes = r.header_bytes
         /\ p.ok => http /\ GoodTarget(p.req)
<1>1. CASE ~http
  <2>1. p = [ok |-> FALSE, req |-> r]
    BY <1>1 DEF split_absolute_url
  <2> QED
    BY <2>1
<1>2. CASE http /\ Authority(url) = <<>>
  <2>1. p = [ok |-> FALSE, req |-> r]
    BY <1>2, SplitIs, Zenon
  <2> QED
    BY <2>1
<1>3. CASE http /\ Authority(url) # <<>>
  <2> DEFINE hp   == SplitHost(url)
             good == hp.host # <<>> /\ hp.port # <<>> /\ Range(hp.port) \subseteq {"80"}
  <2>1. p = [ok |-> good, req |-> [r EXCEPT !.path = SplitPath(url), !.host = hp.host, !.port = hp.port]]
    BY <1>3, SplitIs, Zenon
  <2> HIDE DEF good
  <2>2. hp.host \in Seq(Chars) /\ hp.port \in Seq(Chars) /\ \A i \in 1..Len(hp.host) : hp.host[i] # "/"
    BY AuthorityIs, HostAndPort DEF SplitHost
  <2>3. SplitPath(url) \in Seq(Chars) /\ SplitPath(url) # <<>> /\ SplitPath(url)[1] = "/"
    BY PathIs, Zenon
  <2> HIDE DEF hp
  <2>4. /\ p.req \in Requests
        /\ p.req.path = SplitPath(url) /\ p.req.host = hp.host /\ p.req.port = hp.port
        /\ p.req.method = r.method /\ p.req.headers = r.headers
        /\ p.req.content_length = r.content_length /\ p.req.header_bytes = r.header_bytes
    <3> DEFINE q == [r EXCEPT !.path = SplitPath(url), !.host = hp.host, !.port = hp.port]
    <3>1. p.req = q
      BY <2>1
    <3>2. /\ q \in Requests
          /\ q.path = SplitPath(url) /\ q.host = hp.host /\ q.port = hp.port
          /\ q.method = r.method /\ q.headers = r.headers
          /\ q.content_length = r.content_length /\ q.header_bytes = r.header_bytes
      <4> HIDE DEF SplitPath
      <4>1. SplitPath(url) \in Seq(Chars) /\ hp.host \in Seq(Chars) /\ hp.port \in Seq(Chars)
        BY <2>2, <2>3
      <4> QED
        BY <4>1, Zenon DEF Requests
    <3> HIDE DEF q
    <3> QED
      BY <3>1, <3>2
  <2>5. ASSUME Range(hp.port) \subseteq {"80"} PROVE \A i \in 1..Len(hp.port) : hp.port[i] = "80"
    <3> SUFFICES ASSUME NEW i \in 1..Len(hp.port) PROVE hp.port[i] = "80"
      BY Zenon
    <3>1. DOMAIN hp.port = 1..Len(hp.port)
      BY <2>2, LenProperties
    <3>2. hp.port[i] \in Range(hp.port)
      BY <3>1, Zenon DEF Range
    <3> QED
      BY <2>5, <3>2
  <2>6. ASSUME p.ok PROVE GoodTarget(p.req)
    <3>1. good
      BY <2>1, <2>6
    <3>2. hp.host # <<>> /\ hp.port # <<>> /\ Range(hp.port) \subseteq {"80"}
      BY <3>1, Zenon DEF good
    <3> QED
      BY <2>2, <2>3, <2>4, <2>5, <3>2, ZenonT(30) DEF GoodTarget
  <2> QED
    BY <1>3, <2>4, <2>6, Zenon
<1> QED
  BY <1>1, <1>2, <1>3

-----------------------------------------------------------------------------
(* parse_request *)

\* What a stream is made of.
Units == {CRLF, Byte, Junk} \cup RequestLines \cup Headers

\* A Request with its defaults is one.
LEMMA NoRequestIs == NoRequest \in Requests /\ NoRequest.port = Port80
<1>1. <<>> \in Seq(Chars) /\ <<>> \in Seq(Units) /\ Empty \in {Empty} \cup STRING
  OBVIOUS
<1>2. Port80 \in Seq(Chars) /\ <<"/">> \in Seq(Chars)
  <2>1. "80" \in Chars /\ "/" \in Chars
    BY HttpAssumption
  <2> QED
    BY <2>1 DEF Port80
<1> HIDE DEF Port80
<1> QED
  BY <1>1, <1>2 DEF NoRequest, Requests, Units

\* header_value depends on the list of headers only.
LEMMA SameHeaders ==
  ASSUME NEW r, NEW q, r.headers = q.headers, NEW lname
  PROVE  header_value(r, lname) = header_value(q, lname)
BY Zenon DEF header_value

\* Where the header ends: inside the buffer.
LEMMA BlankLinesIn ==
  ASSUME NEW m \in Seq(Units)
  PROVE  /\ BlankLines(m) \in SUBSET Nat
         /\ BlankLines(m) # {} =>
              /\ Min(BlankLines(m)) \in BlankLines(m) /\ Min(BlankLines(m)) \in 1..(Len(m) - 1)
              /\ \A i \in BlankLines(m) : Min(BlankLines(m)) <= i
<1>1. BlankLines(m) \in SUBSET Nat /\ BlankLines(m) \subseteq 1..(Len(m) - 1)
  BY DEF BlankLines
<1> QED
  BY <1>1, MinIsLeast

\* The length of the body is the one that the headers declare.
Declared(r) ==
  LET cl == header_value(r, "content-length")
  IN  cl \in {Empty} \cup DOMAIN Number /\ r.content_length = IF cl = Empty THEN 0 ELSE strtoul(cl)

\* The parts of a request that the headers do not touch.
SameLine(r, q) ==
  /\ r.method = q.method /\ r.host = q.host /\ r.port = q.port /\ r.path = q.path
  /\ r.header_bytes = q.header_bytes

\* What ParseHeaders returns.
LEMMA HeadersShape ==
  ASSUME NEW lines \in Seq(Units), NEW r \in Requests, r.headers = <<>>, r.content_length = 0,
         NEW p, p = ParseHeaders(lines, r)
  PROVE  /\ p.result \in {"Ok", "BadRequest", "NotImplemented"}
         /\ p.req \in Requests /\ SameLine(p.req, r)
         /\ p.result = "Ok" => Declared(p.req)
<1> DEFINE full == [r EXCEPT !.headers = @ \o lines]
           cl   == header_value(full, "content-length")
           done == [full EXCEPT !.content_length = strtoul(cl)]
<1>1. p = IF \E i \in DOMAIN lines : lines[i] = Junk THEN [result |-> "BadRequest", req |-> r]
          ELSE IF header_value(full, "transfer-encoding") = "chunked" THEN [result |-> "NotImplemented", req |-> full]
          ELSE IF cl = Empty THEN [result |-> "Ok", req |-> full]
          ELSE IF cl \notin DOMAIN Number THEN [result |-> "BadRequest", req |-> full]
          ELSE [result |-> "Ok", req |-> done]
  BY Zenon DEF ParseHeaders
<1>2. full \in Requests /\ full.headers = lines /\ SameLine(full, r) /\ full.content_length = 0
  <2>1. r.headers \o lines = lines
    BY ConcatEmptySeq
  <2>2. full = [r EXCEPT !.headers = lines]
    BY <2>1
  <2> HIDE DEF full
  <2> QED
    BY <2>2, SMTT(30) DEF Requests, Units, SameLine
<1> HIDE DEF full, cl
<1>3. ASSUME cl \in DOMAIN Number
      PROVE  /\ done \in Requests /\ done.headers = full.headers /\ SameLine(done, r)
             /\ done.content_length = strtoul(cl)
  <2>1. Number[cl] \in Nat /\ SizeValues \in Nat
    BY <1>3, HttpAssumption
  <2>2. strtoul(cl) \in Nat
    <3>1. SizeValues - 1 \in Nat
      BY HttpAssumption
    <3> QED
      BY <2>1, <3>1 DEF strtoul
  <2> QED
    BY <1>2, <2>2, Zenon DEF Requests, SameLine
<1>4. SameLine(r, r)
  BY Zenon DEF SameLine
<1>5. Declared(full) \/ cl # Empty
  BY <1>2, Zenon DEF Declared, cl
<1>6. ASSUME cl \in DOMAIN Number, cl # Empty PROVE Declared(done)
  <2>1. header_value(done, "content-length") = cl
    BY <1>3, <1>6, SameHeaders, Zenon DEF cl
  <2> HIDE DEF done
  <2> QED
    BY <1>3, <1>6, <2>1 DEF Declared
<1> HIDE DEF done
<1>7. \/ p = [result |-> "BadRequest", req |-> r]
      \/ p = [result |-> "NotImplemented", req |-> full]
      \/ p = [result |-> "BadRequest", req |-> full]
      \/ cl = Empty /\ p = [result |-> "Ok", req |-> full]
      \/ cl # Empty /\ cl \in DOMAIN Number /\ p = [result |-> "Ok", req |-> done]
  BY <1>1
<1>8. CASE p = [result |-> "BadRequest", req |-> r]
  BY <1>4, <1>8
<1>9. CASE p = [result |-> "NotImplemented", req |-> full]
  BY <1>2, <1>9, SMTT(30)
<1>10. CASE p = [result |-> "BadRequest", req |-> full]
  BY <1>2, <1>10
<1>11. CASE cl = Empty /\ p = [result |-> "Ok", req |-> full]
  <2>1. p.req = full /\ p.result = "Ok"
    BY <1>11
  <2> QED
    BY <1>2, <1>5, <1>11, <2>1, Zenon
<1>12. CASE cl # Empty /\ cl \in DOMAIN Number /\ p = [result |-> "Ok", req |-> done]
  <2>1. p.req = done /\ p.result = "Ok"
    BY <1>12, SMTT(30)
  <2> QED
    BY <1>3, <1>6, <1>12, <2>1, Zenon
<1> QED
  BY <1>7, <1>8, <1>9, <1>10, <1>11, <1>12, Zenon

\* r has the target that url names.
NamedBy(r, url) ==
  \E q \in Requests :
    /\ q.port = Port80 /\ split_absolute_url(TRUE, url, q).ok
    /\ r.host = split_absolute_url(TRUE, url, q).req.host
    /\ r.port = split_absolute_url(TRUE, url, q).req.port
    /\ r.path = split_absolute_url(TRUE, url, q).req.path

\* What a message says, once its header is there.
LEMMA ParseShape ==
  ASSUME NEW m \in Seq(Units), m[1] \in {CRLF, Junk} \cup RequestLines, BlankLines(m) # {},
         NEW p, p = parse_request(m, NoRequest)
  PROVE  /\ p.result \in {"Ok", "BadRequest", "NotImplemented"}
         /\ p.req \in Requests
         /\ p.req.header_bytes = Min(BlankLines(m)) + 1
         /\ p.result = "Ok" =>
              /\ m[1] \in RequestLines /\ p.req.method \in {"GET", "HEAD", "POST"}
              /\ GoodTarget(p.req)
              /\ NamedBy(p.req, m[1].url)
              /\ Declared(p.req)
<1> DEFINE end   == Min(BlankLines(m))
           out   == [NoRequest EXCEPT !.header_bytes = end + 1]
           first == m[1]
           r     == [out EXCEPT !.method = first.method]
           split == split_absolute_url(first.http, first.url, r)
           rest  == Without(SubSeq(m, 2, end), {CRLF})
<1>1. p = IF first \in {CRLF, Junk} THEN [result |-> "BadRequest", req |-> out]
          ELSE IF first.method \notin {"GET", "HEAD", "POST"} THEN [result |-> "NotImplemented", req |-> out]
          ELSE IF ~split.ok THEN [result |-> "BadRequest", req |-> split.req]
          ELSE ParseHeaders(rest, split.req)
  BY Zenon DEF parse_request
<1>2. end \in 1..(Len(m) - 1)
  BY BlankLinesIn, Zenon
<1>3. rest \in Seq(Units)
  <2>1. SubSeq(m, 2, end) \in Seq(Units)
    BY <1>2, PartOf
  <2> QED
    BY <2>1, WithoutIsExact, Zenon
<1> HIDE DEF end, rest, first
<1>4. out \in Requests /\ out.header_bytes = end + 1 /\ out.port = Port80 /\ out.headers = <<>> /\ out.content_length = 0
  <2>1. NoRequest.headers = <<>> /\ NoRequest.content_length = 0
    BY Zenon DEF NoRequest
  <2>2. end + 1 \in Nat
    BY <1>2
  <2> QED
    BY <2>1, <2>2, NoRequestIs, Zenon DEF Requests
<1> HIDE DEF out
<1>5. CASE first \in {CRLF, Junk} \/ first.method \notin {"GET", "HEAD", "POST"}
  <2>1. p \in {[result |-> "BadRequest", req |-> out], [result |-> "NotImplemented", req |-> out]}
    BY <1>1, <1>5, SMTT(30)
  <2>2. p.req = out /\ p.result \in {"BadRequest", "NotImplemented"}
    BY <2>1, SMTT(30)
  <2> QED
    BY <1>4, <2>2, SMTT(30) DEF end
<1>6. CASE first \in RequestLines /\ first \notin {CRLF, Junk} /\ first.method \in {"GET", "HEAD", "POST"}
  <2>1. first.method \in STRING /\ first.http \in BOOLEAN /\ first.url \in Seq(Chars)
    BY <1>6, Zenon DEF RequestLines
  <2>2. /\ r \in Requests /\ r.port = Port80 /\ r.headers = <<>> /\ r.content_length = 0 /\ r.header_bytes = end + 1
        /\ r.method = first.method
    BY <1>4, <2>1, Zenon DEF Requests
  <2> HIDE DEF r
  <2>3. /\ split.req \in Requests
        /\ split.req.method = r.method /\ split.req.headers = <<>>
        /\ split.req.content_length = 0 /\ split.req.header_bytes = end + 1
        /\ split.ok => first.http /\ GoodTarget(split.req)
    BY <2>1, <2>2, SplitTarget, SMTT(30)
  <2> HIDE DEF split
  <2>4. CASE ~split.ok
    <3>1. p = [result |-> "BadRequest", req |-> split.req]
      BY <1>1, <1>6, <2>4, SMTT(30)
    <3> QED
      BY <2>3, <3>1, SMTT(30) DEF end
  <2>5. CASE split.ok
    <3>1. p = ParseHeaders(rest, split.req)
      BY <1>1, <1>6, <2>5, SMTT(30)
    <3>2. /\ p.result \in {"Ok", "BadRequest", "NotImplemented"}
          /\ p.req \in Requests /\ SameLine(p.req, split.req)
          /\ p.result = "Ok" => Declared(p.req)
      BY <1>3, <2>3, <3>1, HeadersShape, SMTT(30)
    <3>3. GoodTarget(p.req)
      BY <2>3, <2>5, <3>2, SMTT(30) DEF GoodTarget, SameLine
    <3>4. split = split_absolute_url(TRUE, m[1].url, r)
      BY <2>1, <2>3, <2>5, Zenon DEF split, first
    <3>5. NamedBy(p.req, m[1].url)
      BY <2>2, <2>5, <3>2, <3>4, ZenonT(30) DEF NamedBy, SameLine
    <3>6. m[1] \in RequestLines /\ p.req.method \in {"GET", "HEAD", "POST"}
      BY <1>6, <2>2, <2>3, <3>2, SMTT(30) DEF first, SameLine
    <3>7. p.req.header_bytes = end + 1
      BY <2>3, <3>2 DEF SameLine
    <3> QED
      BY <3>2, <3>3, <3>5, <3>6, <3>7, SMTT(30) DEF end
  <2> QED
    BY <2>4, <2>5
<1> QED
  BY <1>5, <1>6 DEF first

\* Before that it says nothing.
LEMMA ParseIncomplete ==
  ASSUME NEW m, BlankLines(m) = {}, NEW r
  PROVE  parse_request(m, r) = [result |-> "Incomplete", req |-> r]
BY Zenon DEF parse_request

\* Once the header is there, what follows does not matter.
LEMMA PrefixParses ==
  ASSUME NEW m \in Seq(Units), NEW k \in 0..Len(m), NEW b, b = SubSeq(m, 1, k)
  PROVE  /\ b \in Seq(Units) /\ Len(b) = k
         /\ BlankLines(b) = {i \in BlankLines(m) : i + 1 <= k}
         /\ BlankLines(b) # {} => parse_request(b, NoRequest) = parse_request(m, NoRequest)
<1>1. b \in Seq(Units) /\ Len(b) = k /\ \A i \in 1..k : b[i] = m[i]
  BY PartOf
<1>2. BlankLines(b) = {i \in BlankLines(m) : i + 1 <= k}
  BY <1>1 DEF BlankLines
<1>3. ASSUME BlankLines(b) # {} PROVE parse_request(b, NoRequest) = parse_request(m, NoRequest)
  <2>1. BlankLines(m) # {}
    BY <1>2, <1>3, SMTT(30)
  <2>2. /\ Min(BlankLines(m)) \in BlankLines(m) /\ Min(BlankLines(m)) \in Nat
        /\ \A i \in BlankLines(m) : Min(BlankLines(m)) <= i
    BY <2>1, BlankLinesIn, SMTT(30)
  <2>3. /\ Min(BlankLines(b)) \in BlankLines(b) /\ Min(BlankLines(b)) \in 1..(k - 1)
        /\ \A i \in BlankLines(b) : Min(BlankLines(b)) <= i
    BY <1>1, <1>3, BlankLinesIn, Zenon
  <2>4. Min(BlankLines(b)) \in BlankLines(m) /\ Min(BlankLines(m)) <= Min(BlankLines(b))
    BY <1>2, <2>2, <2>3, SMTT(30)
  <2>5. Min(BlankLines(m)) \in BlankLines(b)
    BY <1>2, <2>2, <2>3, <2>4, SMTT(30)
  <2>6. Min(BlankLines(b)) = Min(BlankLines(m))
    BY <2>2, <2>3, <2>4, <2>5, SMTT(30)
  <2> DEFINE end == Min(BlankLines(b))
  <2>7. SubSeq(b, 2, end) = SubSeq(m, 2, end)
    <3>1. /\ SubSeq(b, 2, end) \in Seq(Units) /\ Len(SubSeq(b, 2, end)) = end - 1
          /\ \A i \in 1..(end - 1) : SubSeq(b, 2, end)[i] = b[2 + i - 1]
      BY <1>1, <2>3, PartOf, SMTT(30)
    <3>2. /\ SubSeq(m, 2, end) \in Seq(Units) /\ Len(SubSeq(m, 2, end)) = end - 1
          /\ \A i \in 1..(end - 1) : SubSeq(m, 2, end)[i] = m[2 + i - 1]
      BY <2>3, PartOf, SMTT(30)
    <3>3. \A i \in 1..(end - 1) : b[2 + i - 1] = m[2 + i - 1]
      BY <1>1, <2>3
    <3> HIDE DEF end
    <3>4. \A i \in 1..Len(SubSeq(b, 2, end)) : SubSeq(b, 2, end)[i] = SubSeq(m, 2, end)[i]
      BY <3>1, <3>2, <3>3, Zenon
    <3> QED
      BY <3>1, <3>2, <3>4, SeqEqual, Zenon
  <2>8. b[1] = m[1]
    BY <1>1, <2>3, SMTT(30)
  <2> QED
    BY <1>3, <2>1, <2>6, <2>7, <2>8, Zenon DEF parse_request
<1> QED
  BY <1>1, <1>2, <1>3

-----------------------------------------------------------------------------
(* do_read_client *)

\* The request is that of the whole message, and within the limit.
ReqIsWhole ==
  /\ BlankLines(msg) # {} /\ Whole.result = "Ok" /\ req = Whole.req
  /\ req.content_length <= max_body_bytes /\ req.header_bytes <= Len(in_client)

\* A forwarded request has its body, and was rebuilt for the origin.
Forwarded ==
  /\ parsed /\ Len(in_client) >= req.header_bytes + req.content_length
  /\ out_upstream = build_upstream_request(req, req.content_length)

\* What holds between two reads: nothing is left in req_ before the header is complete, and
\* from then on req_ is what one parse of the whole message gives.  ReadsMatterPastLimitOnly
\* alone is not inductive: it says nothing of a request whose body is still awaited.
HttpInv ==
  /\ msg \in Messages /\ Len(in_client) \in 0..Len(msg) /\ in_client = SubSeq(msg, 1, Len(in_client))
  /\ state \in {"ReadClient", "Failing", "Forward", "Done"} /\ parsed \in BOOLEAN
  /\ ~parsed /\ state = "ReadClient" => req = NoRequest
  /\ parsed => ReqIsWhole
  /\ state = "Forward" => Forwarded

\* What HttpAssumption says of one stream.
LEMMA MessageIs ==
  ASSUME NEW m \in Messages
  PROVE  /\ m \in Seq(Units) /\ Len(m) \in Nat /\ Len(m) + max_body_bytes < SizeValues
         /\ BlankLines(m) # {} => m[1] \in {CRLF, Junk} \cup RequestLines
<1>1. m \in Seq(Units) /\ Len(m) + max_body_bytes < SizeValues /\ (m # <<>> => m[1] \in {CRLF, Junk} \cup RequestLines)
  BY HttpAssumption DEF Units
<1>2. BlankLines(m) # {} => m # <<>>
  BY BlankLinesIn, <1>1
<1> QED
  BY <1>1, <1>2

\* It holds before the first read.
LEMMA HttpStart == Init => HttpInv
<1> SUFFICES ASSUME Init PROVE HttpInv
  BY Zenon
<1>1. msg \in Seq(Units) /\ Len(msg) \in Nat
  BY MessageIs DEF Init
<1>2. SubSeq(msg, 1, 0) = <<>> /\ Len(<<>>) = 0
  OBVIOUS
<1>3. Len(in_client) \in 0..Len(msg) /\ in_client = SubSeq(msg, 1, Len(in_client))
  <2>1. in_client = <<>> /\ Len(in_client) = 0
    BY <1>2 DEF Init
  <2> QED
    BY <1>1, <1>2, <2>1, SMTT(30)
<1> QED
  BY <1>3, Zenon DEF Init, HttpInv

\* header_bytes + content_length does not wrap.
LEMMA NoWrap ==
  ASSUME NEW m \in Messages, NEW h \in Nat, h <= Len(m), NEW c \in Nat, c <= max_body_bytes
  PROVE  (h + c) % SizeValues = h + c
<1>1. h + c \in Nat /\ h + c < SizeValues /\ SizeValues \in Nat \ {0}
  BY MessageIs, HttpAssumption, SMTT(30)
<1> QED
  BY <1>1

\* The header is there: the body is waited for, then the request is rebuilt.
LEMMA BodyStep ==
  ASSUME HttpInv, state = "ReadClient", NEW k \in 0..Len(msg), NEW buf, buf = SubSeq(msg, 1, k), NEW r,
         BlankLines(msg) # {}, Whole.result = "Ok", r = Whole.req,
         r.content_length <= max_body_bytes, r.header_bytes <= k,
         msg' = msg, in_client' = buf, req' = r, BodyWhole(buf, r)
  PROVE  HttpInv'
<1>1. msg \in Messages /\ msg \in Seq(Units) /\ Len(msg) \in Nat /\ msg[1] \in {CRLF, Junk} \cup RequestLines
  BY MessageIs DEF HttpInv
<1>2. Len(buf) = k /\ buf = SubSeq(msg, 1, Len(buf))
  BY <1>1, PrefixParses, SMTT(30)
<1>3. r \in Requests /\ r.header_bytes \in Nat /\ r.content_length \in Nat
  <2>1. r \in Requests
    BY <1>1, ParseShape, SMTT(30) DEF Whole
  <2> QED
    BY <2>1, SMTT(30) DEF Requests
<1>4. Whole' = Whole
  BY Zenon DEF Whole
<1>5. (r.header_bytes + r.content_length) % SizeValues = r.header_bytes + r.content_length
  BY <1>1, <1>3, NoWrap, SMTT(30)
<1>6. ReqIsWhole'
  BY <1>2, <1>4 DEF ReqIsWhole
<1>7. parsed' = TRUE
  BY Zenon DEF BodyWhole
<1>8. \/ state' = state
      \/ state' = "Forward" /\ Forwarded'
  <2>1. CASE Len(buf) < r.header_bytes + r.content_length
    BY <1>5, <2>1 DEF BodyWhole
  <2>2. CASE ~(Len(buf) < r.header_bytes + r.content_length)
    <3> DEFINE part == SubSeq(buf, r.header_bytes + 1, r.header_bytes + r.content_length)
    <3>1. buf \in Seq(Units)
      BY <1>1, PrefixParses, SMTT(30)
    <3>2. r.header_bytes + r.content_length <= Len(buf) /\ Len(buf) \in Nat
      BY <1>2, <1>3, <2>2, SMTT(30)
    <3>3. Len(part) = r.content_length
      <4>1. Len(part) = IF r.header_bytes + 1 <= r.header_bytes + r.content_length
                        THEN (r.header_bytes + r.content_length) - (r.header_bytes + 1) + 1 ELSE 0
        BY <1>3, <3>1, <3>2, PartOf, SMTT(30)
      <4>2. \A h, c \in Nat : (IF h + 1 <= h + c THEN (h + c) - (h + 1) + 1 ELSE 0) = c
        OBVIOUS
      <4> HIDE DEF part
      <4> QED
        BY <1>3, <4>1, <4>2, Zenon
    <3>4. state' = "Forward" /\ out_upstream' = build_upstream_request(r, Len(part))
      BY <1>5, <2>2, Zenon DEF BodyWhole
    <3> HIDE DEF part
    <3>5. Forwarded'
      <4>1. Len(in_client') >= req'.header_bytes + req'.content_length
        BY <3>2, <1>3, SMTT(30)
      <4>2. out_upstream' = build_upstream_request(req', req'.content_length)
        BY <3>3, <3>4
      <4>3. build_upstream_request(req, req.content_length)' = build_upstream_request(req', req'.content_length)
        BY Zenon DEF build_upstream_request, HostValue, Without
      <4> QED
        BY <1>7, <4>1, <4>2, <4>3, SMTT(30) DEF Forwarded
    <3> QED
      BY <3>4, <3>5, SMTT(30)
  <2> QED
    BY <2>1, <2>2, SMTT(30)
<1>9. Len(in_client') \in 0..Len(msg') /\ in_client' = SubSeq(msg', 1, Len(in_client')) /\ msg' \in Messages
  BY <1>1, <1>2, SMTT(30)
<1> QED
  BY <1>6, <1>7, <1>8, <1>9, SMTT(30) DEF HttpInv

\* A request that is turned down.
LEMMA FailStep ==
  ASSUME HttpInv, ~parsed, NEW k \in 0..Len(msg), NEW buf, buf = SubSeq(msg, 1, k),
         NEW status, fail_with(status), msg' = msg, in_client' = buf
  PROVE  HttpInv'
<1>1. msg \in Messages /\ msg \in Seq(Units)
  BY MessageIs, Zenon DEF HttpInv
<1>2. Len(buf) = k /\ buf = SubSeq(msg, 1, Len(buf))
  BY <1>1, PrefixParses, Zenon
<1>3. state' = "Failing" /\ parsed' = parsed
  BY Zenon DEF fail_with
<1> QED
  BY <1>1, <1>2, <1>3 DEF HttpInv

\* What has been read of the stream is incomplete, or parses as the whole stream does.
LEMMA PrefixOfStream ==
  ASSUME msg \in Seq(Units), NEW k \in 0..Len(msg), NEW b, b = SubSeq(msg, 1, k)
  PROVE  b \in Seq(Units) /\ Len(b) = k /\ (BlankLines(b) # {} => parse_request(b, NoRequest) = Whole /\ BlankLines(msg) # {})
<1>1. b \in Seq(Units) /\ Len(b) = k
  BY PrefixParses, Zenon
<1>2. BlankLines(b) = {i \in BlankLines(msg) : i + 1 <= k}
  BY PrefixParses, Zenon
<1>3. BlankLines(b) # {} => BlankLines(msg) # {}
  BY <1>2, Zenon
<1>4. BlankLines(b) # {} => parse_request(b, NoRequest) = parse_request(msg, NoRequest)
  BY PrefixParses, Zenon
<1> QED
  BY <1>1, <1>3, <1>4, Zenon DEF Whole

\* One read, by the outcomes of do_read_client.
LEMMA ReadStep ==
  ASSUME HttpInv, NEW n \in 1..Len(msg), Read(n)
  PROVE  HttpInv'
<1> DEFINE k   == Len(in_client) + n
           buf == SubSeq(msg, 1, k)
           p   == parse_request(buf, req)
<1>1. /\ state = "ReadClient" /\ n <= Len(msg) - Len(in_client)
      /\ in_client' = buf /\ msg' = msg
      /\ \/ parsed /\ req' = req /\ BodyWhole(buf, req)
         \/ ~parsed /\ req' = p.req /\ Parsed(buf, p)
  BY Zenon DEF Read
<1>2. msg \in Messages /\ msg \in Seq(Units) /\ Len(msg) \in Nat /\ Len(in_client) \in 0..Len(msg)
  BY MessageIs, Zenon DEF HttpInv
<1>3. k \in 0..Len(msg) /\ k >= Len(in_client)
  BY <1>1, <1>2, SMTT(30)
<1> HIDE DEF k
<1>4. buf \in Seq(Units) /\ Len(buf) = k /\ (BlankLines(buf) # {} => parse_request(buf, NoRequest) = Whole /\ BlankLines(msg) # {})
  BY <1>2, <1>3, PrefixOfStream, Zenon
<1> HIDE DEF buf, p
<1>5. CASE parsed /\ req' = req /\ BodyWhole(buf, req)
  <2>1. ReqIsWhole
    BY <1>5 DEF HttpInv
  <2>2. req.header_bytes \in Nat
    <3>1. Whole.req \in Requests
      BY <1>2, <2>1, MessageIs, ParseShape, SMTT(30) DEF Whole, ReqIsWhole
    <3> QED
      BY <2>1, <3>1, SMTT(30) DEF Requests, ReqIsWhole
  <2>3. req.header_bytes <= k
    BY <1>2, <1>3, <2>1, <2>2, SMTT(30) DEF ReqIsWhole
  <2> QED
    BY <1>1, <1>3, <1>5, <2>1, <2>3, BodyStep, ZenonT(30) DEF ReqIsWhole, buf
<1>6. CASE ~parsed /\ req' = p.req /\ Parsed(buf, p)
  <2>1. req = NoRequest
    BY <1>1, <1>6, SMTT(30) DEF HttpInv
  <2>2. CASE BlankLines(buf) = {}
    <3>1. p = [result |-> "Incomplete", req |-> NoRequest]
      BY <2>1, <2>2, ParseIncomplete, Zenon DEF p
    <3>2. p.result = "Incomplete" /\ p.req = NoRequest
      BY <3>1, Zenon
    <3>3. CASE Len(buf) <= max_header_bytes /\ UNCHANGED <<parsed, state, reply, out_upstream>>
      <4>1. Len(in_client') \in 0..Len(msg') /\ in_client' = SubSeq(msg', 1, Len(in_client')) /\ msg' \in Messages
        BY <1>1, <1>2, <1>3, <1>4, Zenon DEF buf
      <4> QED
        BY <1>1, <1>6, <3>2, <3>3, <4>1, SMTT(30) DEF HttpInv
    <3>4. CASE Len(buf) > max_header_bytes /\ fail_with(400)
      BY <1>1, <1>3, <1>6, <3>4, FailStep, SMTT(30) DEF buf
    <3> QED
      BY <1>6, <3>2, <3>3, <3>4, SMTT(30) DEF Parsed
  <2>3. CASE BlankLines(buf) # {}
    <3>1. p = Whole /\ BlankLines(msg) # {}
      BY <1>4, <2>1, <2>3, Zenon DEF p
    <3>2. msg[1] \in {CRLF, Junk} \cup RequestLines
      BY <1>2, <3>1, MessageIs, Zenon
    <3>3. p.result \in {"Ok", "BadRequest", "NotImplemented"} /\ p.req \in Requests
      BY <1>2, <3>1, <3>2, ParseShape, Zenon DEF Whole
    <3>4. p.req.header_bytes <= k
      <4>1. p = parse_request(buf, NoRequest)
        BY <2>1, Zenon DEF p
      <4>2. buf[1] \in {CRLF, Junk} \cup RequestLines
        <5>1. Min(BlankLines(buf)) \in 1..(k - 1)
          BY <1>4, <2>3, BlankLinesIn, SMTT(30)
        <5>2. buf[1] = msg[1]
          BY <1>2, <1>3, <5>1, PartOf, SMTT(30) DEF buf
        <5> QED
          BY <3>2, <5>2, Zenon
      <4>3. p.req.header_bytes = Min(BlankLines(buf)) + 1
        BY <1>4, <2>3, <4>1, <4>2, ParseShape, Zenon
      <4> QED
        BY <1>3, <1>4, <2>3, <4>3, BlankLinesIn, SMTT(30)
    <3>5. CASE p.result = "BadRequest" /\ fail_with(400)
      BY <1>1, <1>3, <1>6, <3>1, <3>5, FailStep, SMTT(30) DEF buf
    <3>6. CASE p.result = "NotImplemented" /\ fail_with(501)
      BY <1>1, <1>3, <1>6, <3>1, <3>6, FailStep, SMTT(30) DEF buf
    <3>7. CASE p.result = "Ok" /\ p.req.content_length > max_body_bytes /\ fail_with(413)
      BY <1>1, <1>3, <1>6, <3>1, <3>7, FailStep, SMTT(30) DEF buf
    <3>8. CASE p.result = "Ok" /\ p.req.content_length <= max_body_bytes /\ BodyWhole(buf, p.req)
      BY <1>1, <1>3, <1>6, <3>1, <3>4, <3>8, BodyStep, Zenon DEF buf
    <3>9. p.result # "Incomplete"
      BY <3>3, Zenon
    <3> QED
      BY <1>6, <3>5, <3>6, <3>7, <3>8, <3>9, SMTT(30) DEF Parsed
  <2> QED
    BY <2>2, <2>3, SMTT(30)
<1> QED
  BY <1>1, <1>5, <1>6, SMTT(30)

\* Every step keeps it.
LEMMA HttpStep == HttpInv /\ [Next]_vars => HttpInv'
<1> SUFFICES ASSUME HttpInv, [Next]_vars PROVE HttpInv'
  BY Zenon
<1>1. ASSUME NEW n \in 1..Len(msg), Read(n) PROVE HttpInv'
  BY <1>1, ReadStep, Zenon
<1>2. CASE HangUp
  <2>1. UNCHANGED <<msg, in_client, req, parsed, reply, out_upstream>> /\ state' = "Done"
    BY <1>2, Zenon DEF HangUp
  <2>2. Whole' = Whole
    BY <2>1, Zenon DEF Whole
  <2>3. parsed => ReqIsWhole'
    BY <2>1, <2>2, SMTT(30) DEF HttpInv, ReqIsWhole
  <2> QED
    BY <2>1, <2>3, Zenon DEF HttpInv
<1>3. CASE UNCHANGED vars
  <2>1. UNCHANGED <<msg, in_client, req, parsed, reply, out_upstream, state>>
    BY <1>3, Zenon DEF vars
  <2>2. Whole' = Whole
    BY <2>1, Zenon DEF Whole
  <2>3. parsed => ReqIsWhole'
    BY <2>1, <2>2, Zenon DEF HttpInv, ReqIsWhole
  <2>4. state = "Forward" => Forwarded'
    <3>1. build_upstream_request(req, req.content_length)' = build_upstream_request(req, req.content_length)
      BY <2>1 DEF build_upstream_request, HostValue, Without
    <3> QED
      BY <2>1, <3>1, Zenon DEF HttpInv, Forwarded
  <2> QED
    BY <2>1, <2>3, <2>4, SMTT(30) DEF HttpInv
<1> QED
  BY <1>1, <1>2, <1>3, Zenon DEF Next, Over

-----------------------------------------------------------------------------
(* do_read_client as Intake *)

\* What Intake is told of a stream.
LEMMA HoldsIs ==
  ASSUME NEW m \in Messages, NEW r, r = Holds[m]
  PROVE  /\ r.header \in Nat \ {0} /\ r.length \in Nat /\ r.verdict \in {"Ok", "BadRequest", "NotImplemented"}
         /\ BlankLines(m) = {} => r.header = Len(m) + 1
         /\ BlankLines(m) # {} =>
              /\ r.header = Min(BlankLines(m)) + 1
              /\ parse_request(m, NoRequest).req.header_bytes = r.header
              /\ parse_request(m, NoRequest).req.content_length = r.length
              /\ parse_request(m, NoRequest).result = r.verdict
<1> DEFINE w == parse_request(m, NoRequest)
<1>1. r = [header  |-> IF w.result = "Incomplete" THEN Len(m) + 1 ELSE w.req.header_bytes,
           length  |-> w.req.content_length,
           verdict |-> IF w.result = "Incomplete" THEN "BadRequest" ELSE w.result]
  BY Zenon DEF Holds
<1>2. m \in Seq(Units) /\ Len(m) \in Nat
  BY MessageIs, Zenon
<1>3. CASE BlankLines(m) = {}
  <2>1. w = [result |-> "Incomplete", req |-> NoRequest]
    BY <1>3, ParseIncomplete, Zenon
  <2>2. w.result = "Incomplete" /\ w.req.content_length = 0
    BY <2>1, SMTT(30) DEF NoRequest
  <2> HIDE DEF w
  <2> QED
    BY <1>1, <1>2, <1>3, <2>2, SMTT(30)
<1>4. CASE BlankLines(m) # {}
  <2>1. /\ w.result \in {"Ok", "BadRequest", "NotImplemented"} /\ w.req \in Requests
        /\ w.req.header_bytes = Min(BlankLines(m)) + 1
    BY <1>2, <1>4, MessageIs, ParseShape, SMTT(30)
  <2>2. w.req.content_length \in Nat
    BY <2>1, Zenon DEF Requests
  <2>3. Min(BlankLines(m)) \in Nat
    BY <1>2, <1>4, BlankLinesIn, Zenon
  <2> HIDE DEF w
  <2>4. w.result # "Incomplete"
    BY <2>1, Zenon
  <2>5. r.header = w.req.header_bytes /\ r.length = w.req.content_length /\ r.verdict = w.result
    BY <1>1, <2>4
  <2> QED
    BY <1>4, <2>1, <2>2, <2>3, <2>5, SMTT(30) DEF w
<1> QED
  BY <1>3, <1>4, Zenon

\* With k units read, the header is there when Intake says so.
LEMMA HeaderThere ==
  ASSUME NEW m \in Messages, NEW k \in 0..Len(m)
  PROVE  BlankLines(SubSeq(m, 1, k)) # {} <=> k >= Holds[m].header
<1> DEFINE r == Holds[m]
<1>1. m \in Seq(Units) /\ Len(m) \in Nat
  BY MessageIs, Zenon
<1>2. BlankLines(SubSeq(m, 1, k)) = {i \in BlankLines(m) : i + 1 <= k}
  BY <1>1, PrefixParses, Zenon
<1>3. CASE BlankLines(m) = {}
  <2>1. r.header = Len(m) + 1
    BY <1>3, HoldsIs, Zenon
  <2> QED
    BY <1>1, <1>2, <1>3, <2>1, SMTT(30)
<1>4. CASE BlankLines(m) # {}
  <2>1. r.header = Min(BlankLines(m)) + 1
    BY <1>4, HoldsIs, Zenon
  <2>2. /\ Min(BlankLines(m)) \in BlankLines(m) /\ BlankLines(m) \in SUBSET Nat
        /\ \A i \in BlankLines(m) : Min(BlankLines(m)) <= i
    BY <1>1, <1>4, BlankLinesIn, SMTT(30)
  <2> QED
    BY <1>2, <2>1, <2>2, SMTT(30)
<1> QED
  BY <1>3, <1>4, Zenon

\* The body is waited for, or the request goes on, as Intake says.
LEMMA BodyAsIntake ==
  ASSUME msg \in Messages, state = "ReadClient", NEW k \in 0..Len(msg), NEW buf, Len(buf) = k, NEW q,
         BlankLines(msg) # {}, Whole.result = "Ok", q = Whole.req,
         q.content_length <= max_body_bytes, q.header_bytes <= k, BodyWhole(buf, q)
  PROVE  Outcome' = Promise!Outcome(Holds[msg], k)
<1> DEFINE r == Holds[msg]
<1>1. /\ r.header \in Nat /\ r.length \in Nat /\ r.verdict = "Ok"
      /\ q.header_bytes = r.header /\ q.content_length = r.length
  BY HoldsIs, Zenon DEF Whole
<1>2. Len(msg) \in Nat
  BY MessageIs, Zenon
<1> HIDE DEF r
<1>3. (q.header_bytes + q.content_length) % SizeValues = r.header + r.length
  <2>1. r.header <= Len(msg) /\ r.length <= max_body_bytes
    BY <1>1, <1>2, SMTT(30)
  <2>2. (r.header + r.length) % SizeValues = r.header + r.length
    BY <1>1, <2>1, NoWrap, SMTT(30)
  <2> QED
    BY <1>1, <2>2, Zenon
<1>4. Promise!Outcome(r, k) = IF k < r.header + r.length THEN "reading" ELSE "forward"
  <2>1. ~(k < r.header) /\ ~(r.length > max_body_bytes)
    BY <1>1, <1>2, HttpAssumption, SMTT(30)
  <2> QED
    BY <1>1, <2>1, Zenon DEF Promise!Outcome
<1>5. state' = IF k < r.header + r.length THEN "ReadClient" ELSE "Forward"
  BY <1>3, Zenon DEF BodyWhole
<1>6. Outcome' = IF k < r.header + r.length THEN "reading" ELSE "forward"
  BY <1>5, Zenon DEF Outcome
<1> QED
  BY <1>4, <1>6, SMTT(30) DEF r

\* A read makes of the stream what Intake says.
LEMMA ReadAsIntake ==
  ASSUME HttpInv, NEW n \in 1..Len(msg), Read(n)
  PROVE  Promise!Read
<1> DEFINE k   == Len(in_client) + n
           buf == SubSeq(msg, 1, k)
           p   == parse_request(buf, req)
           r   == Holds[msg]
<1>1. /\ state = "ReadClient" /\ n <= Len(msg) - Len(in_client)
      /\ in_client' = buf /\ msg' = msg
      /\ \/ parsed /\ req' = req /\ BodyWhole(buf, req)
         \/ ~parsed /\ req' = p.req /\ Parsed(buf, p)
  BY Zenon DEF Read
<1>2. msg \in Messages /\ msg \in Seq(Units) /\ Len(msg) \in Nat /\ Len(in_client) \in 0..Len(msg)
  BY MessageIs, Zenon DEF HttpInv
<1>3. k \in 0..Len(msg) /\ k > Len(in_client)
  BY <1>1, <1>2
<1> HIDE DEF k
<1>4. buf \in Seq(Units) /\ Len(buf) = k /\ (BlankLines(buf) # {} => parse_request(buf, NoRequest) = Whole /\ BlankLines(msg) # {})
  BY <1>2, <1>3, PrefixOfStream, Zenon
<1>5. /\ r.header \in Nat /\ r.length \in Nat /\ r.verdict \in {"Ok", "BadRequest", "NotImplemented"}
      /\ BlankLines(msg) # {} =>
           Whole.req.header_bytes = r.header /\ Whole.req.content_length = r.length /\ Whole.result = r.verdict
  BY <1>2, HoldsIs, Zenon DEF Whole
<1>6. BlankLines(buf) # {} <=> k >= r.header
  BY <1>2, <1>3, HeaderThere, Zenon
<1> HIDE DEF buf, p, r
<1>7. Outcome' = Promise!Outcome(r, k)
  <2>1. CASE parsed /\ BodyWhole(buf, req)
    <3>1. ReqIsWhole
      BY <2>1, Zenon DEF HttpInv
    <3>2. req.header_bytes = r.header
      BY <1>5, <3>1, Zenon DEF ReqIsWhole
    <3>3. req.header_bytes <= k
      BY <1>2, <1>3, <1>5, <3>1, <3>2, SMTT(30) DEF ReqIsWhole
    <3> QED
      BY <1>1, <1>2, <1>3, <1>4, <2>1, <3>1, <3>3, BodyAsIntake, SMTT(30) DEF ReqIsWhole, r
  <2>2. CASE ~parsed /\ Parsed(buf, p)
    <3>1. p = parse_request(buf, NoRequest)
      BY <1>1, <2>2, Zenon DEF HttpInv, p
    <3>2. CASE BlankLines(buf) = {}
      <4>1. p.result = "Incomplete"
        BY <3>1, <3>2, ParseIncomplete, SMTT(30)
      <4>2. Promise!Outcome(r, k) = IF k > max_header_bytes THEN "400" ELSE "reading"
        BY <1>3, <1>5, <1>6, <3>2, SMTT(30) DEF Promise!Outcome
      <4>3. \/ k <= max_header_bytes /\ state' = state
            \/ k > max_header_bytes /\ state' = "Failing" /\ reply' = 400
        BY <1>4, <2>2, <4>1, SMTT(30) DEF Parsed, fail_with
      <4> QED
        BY <1>1, <1>3, <4>2, <4>3, HttpAssumption, SMTT(30) DEF Outcome
    <3>3. CASE BlankLines(buf) # {}
      <4>1. /\ p = Whole /\ BlankLines(msg) # {} /\ p.result = r.verdict
            /\ p.req.header_bytes = r.header /\ p.req.content_length = r.length
        BY <1>4, <1>5, <3>1, <3>3, ZenonT(30)
      <4>2. k >= r.header
        BY <1>6, <3>3, Zenon
      <4>3. CASE p.result = "BadRequest" /\ fail_with(400)
        <5>1. Outcome' = "400"
          BY <4>3, Zenon DEF fail_with, Outcome
        <5>2. Promise!Outcome(r, k) = "400"
          BY <1>3, <1>5, <4>1, <4>2, <4>3, SMTT(30) DEF Promise!Outcome
        <5> QED
          BY <5>1, <5>2, Zenon
      <4>4. CASE p.result = "NotImplemented" /\ fail_with(501)
        <5>1. Outcome' = "501"
          BY <4>4, SMTT(30) DEF fail_with, Outcome
        <5>2. Promise!Outcome(r, k) = "501"
          BY <1>3, <1>5, <4>1, <4>2, <4>4, SMTT(30) DEF Promise!Outcome
        <5> QED
          BY <5>1, <5>2, Zenon
      <4>5. CASE p.result = "Ok" /\ p.req.content_length > max_body_bytes /\ fail_with(413)
        <5>1. Outcome' = "413"
          BY <4>5, SMTT(30) DEF fail_with, Outcome
        <5>2. Promise!Outcome(r, k) = "413"
          BY <1>3, <1>5, <4>1, <4>2, <4>5, SMTT(30) DEF Promise!Outcome
        <5> QED
          BY <5>1, <5>2, Zenon
      <4>6. CASE p.result = "Ok" /\ p.req.content_length <= max_body_bytes /\ BodyWhole(buf, p.req)
        <5>1. p.req.header_bytes <= k
          BY <1>3, <1>5, <4>1, <4>2, SMTT(30)
        <5> QED
          BY <1>1, <1>2, <1>3, <1>4, <4>1, <4>6, <5>1, BodyAsIntake, SMTT(30) DEF r
      <4>7. p.result # "Incomplete"
        BY <1>5, <4>1, Zenon
      <4> QED
        BY <2>2, <4>3, <4>4, <4>5, <4>6, <4>7, SMTT(30) DEF Parsed
    <3> QED
      BY <3>2, <3>3, Zenon
  <2> QED
    BY <1>1, <2>1, <2>2, ZenonT(30)
<1>8. Outcome = "reading" /\ Len(in_client') = k /\ Holds[msg'] = Holds[msg]
  BY <1>1, <1>4, Zenon DEF Outcome
<1> QED
  BY <1>3, <1>7, <1>8, SMTT(30) DEF Promise!Read, r

\* Every step of the reads is one of Intake, or none.
LEMMA StepAsIntake == HttpInv /\ [Next]_vars => [Promise!Next]_(Promise!vars)
<1> SUFFICES ASSUME HttpInv, [Next]_vars PROVE [Promise!Next]_(Promise!vars)
  BY Zenon
<1>1. ASSUME NEW n \in 1..Len(msg), Read(n) PROVE Promise!Read
  BY <1>1, ReadAsIntake, Zenon
<1>2. CASE HangUp
  BY <1>2, Zenon DEF HangUp, Outcome, Promise!Leave, Promise!Next
<1>3. CASE UNCHANGED vars
  BY <1>3 DEF vars, Outcome, Promise!vars
<1> QED
  BY <1>1, <1>2, <1>3, SMTT(30) DEF Next, Over, Promise!Next

\* What Intake makes of k bytes is the request's one verdict, or nothing yet, or the refusal of
\* an incomplete header that is over the limit.
LEMMA OutcomeIs ==
  ASSUME NEW r, r.header \in Nat \ {0}, r.length \in Nat, NEW k \in Nat
  PROVE  \/ Promise!Outcome(r, k) \in {"reading", Promise!Verdict(r)}
         \/ Promise!Outcome(r, k) = "400" /\ max_header_bytes < k /\ k < r.header
<1> DEFINE all == r.header + r.length
<1>1. all \in Nat /\ ~(all < r.header) /\ ~(all < r.header + r.length) /\ max_header_bytes \in Nat
  BY HttpAssumption, SMTT(30)
<1>2. CASE k < r.header
  <2>1. CASE k > max_header_bytes
    BY <1>1, <1>2, <2>1, SMTT(30) DEF Promise!Outcome
  <2>2. CASE ~(k > max_header_bytes)
    BY <1>2, <2>2, SMTT(30) DEF Promise!Outcome
  <2> QED
    BY <2>1, <2>2
<1>3. CASE ~(k < r.header)
  <2> HIDE DEF all
  <2>1. Promise!Outcome(r, all) =
          IF r.verdict = "BadRequest" THEN "400" ELSE IF r.verdict = "NotImplemented" THEN "501"
          ELSE IF r.length > max_body_bytes THEN "413" ELSE "forward"
    BY <1>1, Zenon DEF Promise!Outcome
  <2>2. Promise!Outcome(r, k) \in {"reading", Promise!Outcome(r, all)}
    BY <1>3, <2>1, Zenon DEF Promise!Outcome
  <2> QED
    BY <2>2, Zenon DEF Promise!Verdict, all
<1> QED
  BY <1>2, <1>3

\* A read leaves a request with its one verdict, or refuses a header over the limit.
LEMMA ReadKeepsVerdict ==
  ASSUME HttpInv, NEW n \in 1..Len(msg), Read(n), HttpInv'
  PROVE  Promise!OneVerdict'
<1> DEFINE r == Holds[msg]
           k == Len(in_client')
<1>1. Outcome' = Promise!Outcome(r, k) /\ Holds[msg'] = r
  BY ReadAsIntake, Zenon DEF Promise!Read
<1>2. r.header \in Nat \ {0} /\ r.length \in Nat
  BY HoldsIs, Zenon DEF HttpInv
<1>3. k \in Nat
  <2>1. msg' \in Messages /\ k \in 0..Len(msg')
    BY Zenon DEF HttpInv
  <2> QED
    BY <2>1, MessageIs, SMTT(30)
<1> HIDE DEF r, k
<1>4. \/ Promise!Outcome(r, k) \in {"reading", Promise!Verdict(r)}
      \/ Promise!Outcome(r, k) = "400" /\ max_header_bytes < k /\ k < r.header
  BY <1>2, <1>3, OutcomeIs, Zenon
<1>5. \/ Outcome' \in {"reading", "gone", Promise!Verdict(Holds[msg'])}
      \/ Outcome' = "400" /\ max_header_bytes < Len(in_client') /\ Len(in_client') < Holds[msg'].header
  BY <1>1, <1>4, Zenon DEF k
<1> QED
  BY <1>5, Zenon DEF Promise!OneVerdict, Promise!Verdict, Promise!Outcome

\* And so does every other step.
LEMMA StepKeepsVerdict ==
  HttpInv /\ Promise!OneVerdict /\ [Next]_vars /\ HttpInv' => Promise!OneVerdict'
<1> SUFFICES ASSUME HttpInv, Promise!OneVerdict, [Next]_vars, HttpInv' PROVE Promise!OneVerdict'
  BY Zenon
<1>1. ASSUME NEW n \in 1..Len(msg), Read(n) PROVE Promise!OneVerdict'
  BY <1>1, ReadKeepsVerdict, Zenon
<1>2. CASE HangUp
  BY <1>2, Zenon DEF HangUp, Outcome, Promise!OneVerdict
<1>3. CASE UNCHANGED vars
  BY <1>3, Zenon DEF vars, Outcome, Promise!OneVerdict, Promise!Verdict, Promise!Outcome
<1> QED
  BY <1>1, <1>2, <1>3, SMTT(30) DEF Next, Over

\* do_read_client, for streams, limits and a size_t of any size: after each read the outcome is
\* what Intake says of the bytes that have come.  The verdict is that of one parse_request
\* of the whole stream, wherever the reads cut it, except that a header over the limit gets
\* 400 when a read ends past the limit and inside the header.  A request that goes on is
\* the one that the whole stream holds.
THEOREM VerdictOfReads == Spec => ReadsMatterPastLimitOnly
<1>1. Init => Promise!Init
  <2> SUFFICES ASSUME Init PROVE Promise!Init
    BY Zenon
  <2>1. Len(in_client) = 0 /\ Outcome = "reading" /\ msg \in Messages
    BY Zenon DEF Init, Outcome
  <2> QED
    BY <2>1, HoldsIs, Zenon DEF Promise!Init
<1>2. HttpInv => (state = "Forward" => req = Whole.req)
  BY Zenon DEF HttpInv, Forwarded, ReqIsWhole
<1>3. Init => Promise!OneVerdict
  BY Zenon DEF Init, Outcome, Promise!OneVerdict
<1> QED
  BY <1>1, <1>2, <1>3, HttpStart, HttpStep, StepAsIntake, StepKeepsVerdict, PTL
     DEF Spec, ReadsMatterPastLimitOnly, Promise!Spec

-----------------------------------------------------------------------------
(* build_upstream_request *)

\* The first part of a concatenation.
LEMMA FrontOf ==
  ASSUME NEW T, NEW s \in Seq(T), NEW t \in Seq(T)
  PROVE  SubSeq(s \o t, 1, Len(s)) = s
<1>1. /\ s \o t \in Seq(T) /\ Len(s \o t) = Len(s) + Len(t) /\ Len(s) \in Nat /\ Len(t) \in Nat
      /\ \A i \in 1..Len(s) : (s \o t)[i] = s[i]
  BY ConcatProperties, SMTT(30)
<1> DEFINE u == s \o t
           f == SubSeq(u, 1, Len(s))
<1> HIDE DEF u
<1>2. f \in Seq(T) /\ Len(f) = Len(s) /\ \A i \in 1..Len(s) : f[i] = u[1 + i - 1]
  BY <1>1, PartOf, SMTT(30) DEF u
<1>3. \A i \in 1..Len(s) : f[i] = s[i]
  BY <1>1, <1>2, SMTT(30) DEF u
<1> HIDE DEF f
<1>4. f = s
  BY <1>2, <1>3, SeqEqual, Zenon
<1> QED
  BY <1>4, Zenon DEF f, u

\* The second part.
LEMMA BackOf ==
  ASSUME NEW T, NEW s \in Seq(T), NEW t \in Seq(T)
  PROVE  SubSeq(s \o t, Len(s) + 1, Len(s \o t)) = t
<1> DEFINE u == s \o t
           f == SubSeq(u, Len(s) + 1, Len(u))
<1>1. /\ u \in Seq(T) /\ Len(u) = Len(s) + Len(t) /\ Len(s) \in Nat /\ Len(t) \in Nat
      /\ \A i \in 1..(Len(s) + Len(t)) : u[i] = IF i <= Len(s) THEN s[i] ELSE t[i - Len(s)]
  BY ConcatProperties, SMTT(30)
<1> HIDE DEF u
<1>2. f \in Seq(T) /\ Len(f) = Len(t) /\ \A i \in 1..Len(t) : f[i] = u[(Len(s) + 1) + i - 1]
  <2>1. Len(s) + 1 \in Nat \ {0} /\ Len(u) \in Int
    BY <1>1, SMTT(30)
  <2>2. /\ f \in Seq(T)
        /\ Len(f) = IF Len(s) + 1 <= Len(u) THEN Len(u) - (Len(s) + 1) + 1 ELSE 0
        /\ \A i \in 1..Len(f) : f[i] = u[(Len(s) + 1) + i - 1]
    BY <1>1, <2>1, PartOf, SMTT(30)
  <2>3. Len(f) = Len(t)
    BY <1>1, <2>2
  <2> QED
    BY <2>2, <2>3, Zenon
<1>3. ASSUME NEW i \in 1..Len(t) PROVE f[i] = t[i]
  <2>1. (Len(s) + 1) + i - 1 = Len(s) + i /\ Len(s) + i \in 1..(Len(s) + Len(t)) /\ ~(Len(s) + i <= Len(s))
        /\ (Len(s) + i) - Len(s) = i
    BY <1>1
  <2>2. f[i] = u[Len(s) + i]
    BY <1>2, <2>1, Zenon
  <2>3. u[Len(s) + i] = t[(Len(s) + i) - Len(s)]
    BY <1>1, <2>1, SMTT(30)
  <2> QED
    BY <2>1, <2>2, <2>3, Zenon
<1> HIDE DEF f
<1>4. f = t
  BY <1>2, <1>3, SeqEqual, SMTT(30)
<1> QED
  BY <1>4, Zenon DEF f, u

\* What is known of a request that is forwarded.
LEMMA ForwardedRequest ==
  ASSUME HttpInv, state = "Forward"
  PROVE  /\ req \in Requests /\ req.method \in {"GET", "HEAD", "POST"} /\ GoodTarget(req) /\ Declared(req)
         /\ msg[1] \in RequestLines /\ NamedBy(req, msg[1].url)
         /\ Forwarded /\ req.content_length <= max_body_bytes /\ Len(msg) >= 2
<1>1. Forwarded /\ ReqIsWhole
  BY Zenon DEF HttpInv, Forwarded
<1>2. msg \in Seq(Units) /\ Len(msg) \in Nat /\ BlankLines(msg) # {} /\ msg[1] \in {CRLF, Junk} \cup RequestLines
  BY <1>1, MessageIs, SMTT(30) DEF HttpInv, ReqIsWhole
<1>3. /\ Whole.req \in Requests /\ Whole.req.method \in {"GET", "HEAD", "POST"} /\ GoodTarget(Whole.req)
      /\ Declared(Whole.req) /\ msg[1] \in RequestLines /\ NamedBy(Whole.req, msg[1].url)
  BY <1>1, <1>2, ParseShape, SMTT(30) DEF Whole, ReqIsWhole
<1>4. Len(msg) >= 2
  BY <1>2, BlankLinesIn
<1> QED
  BY <1>1, <1>3, <1>4 DEF ReqIsWhole

\* The body is the declared one: strtoul did not saturate, for the length is within the limit.
LEMMA BodyOk == HttpInv => BodyIsWhole
<1> SUFFICES ASSUME HttpInv, state = "Forward" PROVE BodyIsWhole
  BY Zenon DEF BodyIsWhole
<1> DEFINE cl == header_value(req, "content-length")
<1>1. /\ req \in Requests /\ cl \in {Empty} \cup DOMAIN Number
      /\ req.content_length = (IF cl = Empty THEN 0 ELSE strtoul(cl))
  BY ForwardedRequest, Zenon DEF Declared
<1>2. /\ Forwarded /\ req.content_length <= max_body_bytes /\ Len(msg) >= 2 /\ req.content_length \in Nat
  BY ForwardedRequest, Zenon DEF Requests
<1>3. out_upstream.body = req.content_length
  BY <1>2, Zenon DEF Forwarded, build_upstream_request
<1> HIDE DEF cl
<1>4. req.content_length = IF cl = Empty THEN 0 ELSE Number[cl]
  <2>1. CASE cl = Empty
    BY <1>1, <2>1, Zenon
  <2>2. CASE cl # Empty
    <3>1. Number[cl] \in Nat /\ SizeValues \in Nat /\ max_body_bytes \in Nat
      BY <1>1, <2>2, HttpAssumption, SMTT(30)
    <3>2. Len(msg) \in Nat /\ Len(msg) + max_body_bytes < SizeValues
      BY MessageIs, Zenon DEF HttpInv
    <3>3. req.content_length = IF Number[cl] >= SizeValues THEN SizeValues - 1 ELSE Number[cl]
      BY <1>1, <2>2, Zenon DEF strtoul
    <3>4. SizeValues - 1 > max_body_bytes
      BY <1>2, <3>1, <3>2, SMTT(30)
    <3>5. req.content_length = Number[cl]
      BY <1>2, <3>1, <3>3, <3>4, SMTT(30)
    <3> QED
      BY <2>2, <3>5, SMTT(30)
  <2> QED
    BY <2>1, <2>2, Zenon
<1>5. Len(in_client) >= req.header_bytes + req.content_length
  BY <1>2, Zenon DEF Forwarded
<1> QED
  BY <1>3, <1>4, <1>5, Zenon DEF BodyIsWhole, cl

\* The fields of a result of split_absolute_url.
LEMMA SplitFields ==
  ASSUME NEW q, NEW b, b = [ok |-> TRUE, req |-> q]
  PROVE  b.ok /\ b.req = q
BY Zenon

\* Its request.
LEMMA ReqField ==
  ASSUME NEW g, NEW q, NEW b, b = [ok |-> g, req |-> q]
  PROVE  b.req = q
BY SMTT(30)

\* The host of an authority's parts.
LEMMA HostField ==
  ASSUME NEW h, NEW p, NEW b, b = [host |-> h, port |-> p]
  PROVE  b.host = h
BY SMTT(30)

\* A Host that is Legible names the target.
LEMMA HostNamesTarget ==
  ASSUME NEW r \in Requests, GoodTarget(r), Legible(r),
         NEW b, b = split_absolute_url(TRUE, HostValue(r), NoRequest)
  PROVE  b.ok /\ b.req.host = r.host /\ b.req.port = r.port
<1> DEFINE host == r.host
           port == r.port
           url  == HostValue(r)
<1>1. /\ host \in Seq(Chars) /\ host # <<>> /\ Len(host) \in Nat /\ Len(host) >= 1
      /\ \A i \in 1..Len(host) : host[i] # "/"
  BY DEF GoodTarget, Requests
<1>2. /\ port \in Seq(Chars) /\ port # <<>> /\ Len(port) \in Nat
      /\ \A i \in 1..Len(port) : port[i] = "80"
  BY DEF GoodTarget, Requests
<1>3. host[1] # "[" /\ (port = Port80 => \A i \in 1..Len(host) : host[i] # ":")
  <2>1. DOMAIN host = 1..Len(host)
    BY <1>1, LenProperties, Zenon
  <2> QED
    BY <2>1, Zenon DEF Range, Legible
<1> HIDE DEF host, port
<1>4. Range(port) \subseteq {"80"}
  <2>1. DOMAIN port = 1..Len(port)
    BY <1>2, LenProperties, Zenon
  <2> QED
    BY <1>2, <2>1, Zenon DEF Range
<1>5. url = host \o (IF port = Port80 THEN <<>> ELSE <<":">> \o port)
  BY Zenon DEF HostValue, host, port
<1>6. ASSUME url \in Seq(Chars), Len(url) >= 1, url[1] = host[1], \A i \in 1..Len(url) : url[i] # "/",
             PlainHost(url, Port80) = [host |-> host, port |-> port]
      PROVE  b.ok /\ b.req.host = host /\ b.req.port = port
  <2>1. find(url, "/") = 0
    BY <1>6, FindNone, Zenon
  <2>2. Authority(url) = url
    BY <2>1, Zenon DEF Authority
  <2>3. url # <<>>
    BY <1>6, SMTT(30)
  <2>4. SplitHost(url) = [host |-> host, port |-> port]
    <3>1. Authority(url)[1] # "["
      BY <1>3, <1>6, <2>2, Zenon
    <3> QED
      BY <1>6, <2>2, <3>1, SMTT(30) DEF SplitHost
  <2>5. SplitHost(url).host = host /\ SplitHost(url).port = port
    BY <2>4
  <2> DEFINE good == /\ SplitHost(url).host # <<>> /\ SplitHost(url).port # <<>>
                     /\ Range(SplitHost(url).port) \subseteq {"80"}
  <2>6. good = TRUE
    <3>1. good
      BY <1>1, <1>2, <1>4, <2>5, SMTT(30)
    <3> QED
      BY <3>1, Zenon
  <2> DEFINE q == [NoRequest EXCEPT !.path = SplitPath(url), !.host = SplitHost(url).host,
                                    !.port = SplitHost(url).port]
  <2>7. b = [ok |-> good, req |-> q]
    BY <1>6, <2>2, <2>3, SplitIs, NoRequestIs, Zenon
  <2> HIDE DEF good, url
  <2>8. q.host = SplitHost(url).host /\ q.port = SplitHost(url).port
    BY NoRequestIs, Zenon DEF Requests
  <2> HIDE DEF q
  <2>9. b = [ok |-> TRUE, req |-> q]
    BY <2>6, <2>7, Zenon
  <2>10. b.ok /\ b.req = q
    BY <2>9, SplitFields, Zenon
  <2> QED
    BY <2>5, <2>8, <2>10, Zenon
<1>7. CASE port = Port80
  <2>1. url = host
    BY <1>1, <1>5, <1>7, ConcatEmptySeq, SMTT(30)
  <2>2. rfind(host, ":") = 0
    BY <1>1, <1>3, <1>7, RfindNone, Zenon
  <2>3. PlainHost(host, Port80) = [host |-> host, port |-> port]
    BY <1>7, <2>2, Zenon DEF PlainHost
  <2> QED
    BY <1>1, <1>6, <2>1, <2>3, Zenon DEF host, port
<1>8. CASE port # Port80
  <2> DEFINE tail == <<":">> \o port
  <2>1. <<":">> \in Seq(Chars) /\ Len(<<":">>) = 1 /\ <<":">>[1] = ":"
    <3>1. ":" \in Chars
      BY HttpAssumption, Zenon
    <3> QED
      BY <3>1
  <2>2. /\ tail \in Seq(Chars) /\ Len(tail) = 1 + Len(port)
        /\ \A i \in 1..(1 + Len(port)) : tail[i] = IF i <= 1 THEN <<":">>[i] ELSE port[i - 1]
    <3> HIDE DEF tail
    <3>1. /\ tail \in Seq(Chars) /\ Len(tail) = Len(<<":">>) + Len(port)
          /\ \A i \in 1..(Len(<<":">>) + Len(port)) :
               tail[i] = IF i <= Len(<<":">>) THEN <<":">>[i] ELSE port[i - Len(<<":">>)]
      BY <1>2, <2>1, ConcatProperties, SMTT(30) DEF tail
    <3> QED
      BY <2>1, <3>1, Zenon
  <2>3. tail[1] = ":" /\ \A i \in 2..(1 + Len(port)) : tail[i] = "80"
    <3>1. tail[1] = ":"
      BY <1>2, <2>1, <2>2, SMTT(30)
    <3>2. ASSUME NEW i \in 2..(1 + Len(port)) PROVE tail[i] = "80"
      <4>1. i \in 1..(1 + Len(port)) /\ ~(i <= 1) /\ i - 1 \in 1..Len(port)
        BY <1>2
      <4> QED
        BY <1>2, <2>2, <4>1, Zenon
    <3> QED
      BY <3>1, <3>2, Zenon
  <2>4. url = host \o tail
    BY <1>5, <1>8, Zenon
  <2>5. SubSeq(tail, 2, Len(tail)) = port
    <3>1. SubSeq(<<":">> \o port, Len(<<":">>) + 1, Len(<<":">> \o port)) = port
      BY <1>2, <2>1, BackOf, SMTT(30)
    <3> QED
      BY <2>1, <3>1, SMTT(30)
  <2> HIDE DEF tail, url
  <2>6. /\ url \in Seq(Chars) /\ Len(url) = Len(host) + Len(tail)
        /\ \A i \in 1..(Len(host) + Len(tail)) : url[i] = IF i <= Len(host) THEN host[i] ELSE tail[i - Len(host)]
    BY <1>1, <2>2, <2>4, ConcatProperties, Zenon
  <2> DEFINE k == Len(host) + 1
  <2>7. url[k] = ":" /\ k \in 1..Len(url)
    <3>1. k \in 1..(Len(host) + Len(tail)) /\ ~(k <= Len(host)) /\ k - Len(host) = 1
      BY <1>1, <1>2, <2>2, SMTT(30)
    <3> QED
      BY <2>3, <2>6, <3>1, ZenonT(30)
  <2>8. ASSUME NEW i \in (k + 1)..Len(url) PROVE url[i] = "80"
    <3>1. i \in 1..(Len(host) + Len(tail)) /\ ~(i <= Len(host)) /\ i - Len(host) \in 2..(1 + Len(port))
      BY <1>1, <1>2, <2>2, <2>6, SMTT(30)
    <3> QED
      BY <2>3, <2>6, <3>1, Zenon
  <2>9. ASSUME NEW i \in 1..Len(url) PROVE url[i] # "/"
    <3>1. CASE i <= Len(host)
      BY <1>1, <2>2, <2>6, <3>1, SMTT(30)
    <3>2. CASE i = k
      BY <2>7, <3>2, SMTT(30)
    <3>3. CASE i > k
      BY <1>1, <2>8, <3>3, SMTT(30)
    <3> QED
      BY <1>1, <3>1, <3>2, <3>3, SMTT(30)
  <2>10. rfind(url, ":") = k
    BY <2>6, <2>7, <2>8, RfindIs, ZenonT(30)
  <2>11. SubSeq(url, 1, k - 1) = host
    <3>1. SubSeq(host \o tail, 1, Len(host)) = host
      BY <1>1, <2>2, FrontOf, SMTT(30)
    <3>2. k - 1 = Len(host)
      BY <1>1, SMTT(30)
    <3> QED
      BY <2>4, <3>1, <3>2, SMTT(30)
  <2>12. SubSeq(url, k + 1, Len(url)) = port
    <3> DEFINE front == Append(host, ":")
    <3>1. host \o <<":">> \in Seq(Chars) /\ Len(host \o <<":">>) = k
      BY <1>1, <2>1, ConcatProperties, SMTT(30)
    <3>2. url = (host \o <<":">>) \o port
      BY <1>1, <1>2, <2>1, <2>4, ConcatAssociative, SMTT(30) DEF tail
    <3>3. SubSeq((host \o <<":">>) \o port, Len(host \o <<":">>) + 1, Len((host \o <<":">>) \o port)) = port
      BY <1>2, <3>1, BackOf, SMTT(30)
    <3> QED
      BY <3>1, <3>2, <3>3, SMTT(30)
  <2>13. PlainHost(url, Port80) = [host |-> host, port |-> port]
    <3>1. k # 0
      BY <1>1, SMTT(30)
    <3> HIDE DEF k
    <3> QED
      BY <2>10, <2>11, <2>12, <3>1, ZenonT(30) DEF PlainHost
  <2>14. url[1] = host[1] /\ Len(url) >= 1
    BY <1>1, <2>2, <2>6, SMTT(30)
  <2> QED
    BY <1>6, <2>6, <2>9, <2>13, <2>14, Zenon DEF host, port
<1> QED
  BY <1>7, <1>8, Zenon DEF host, port

\* One that is not names another host, or none: a host that begins with a bracket is cut at
\* one that closes it, and one with colons and no port after it at its last colon.
LEMMA HostNamesAnother ==
  ASSUME NEW r \in Requests, GoodTarget(r), ~Legible(r),
         NEW b, b = split_absolute_url(TRUE, HostValue(r), NoRequest)
  PROVE  b.req.host # r.host
<1> DEFINE host == r.host
           port == r.port
           more == IF port = Port80 THEN <<>> ELSE <<":">> \o port
           url  == HostValue(r)
<1>1. /\ host \in Seq(Chars) /\ host # <<>> /\ Len(host) \in Nat /\ Len(host) >= 1
      /\ \A i \in 1..Len(host) : host[i] # "/"
  BY DEF GoodTarget, Requests
<1>2. /\ port \in Seq(Chars) /\ port # <<>> /\ Len(port) \in Nat /\ Len(port) >= 1
      /\ \A i \in 1..Len(port) : port[i] = "80"
  BY DEF GoodTarget, Requests
<1>3. \/ host[1] = "["
      \/ host[1] # "[" /\ port = Port80 /\ \E i \in 1..Len(host) : host[i] = ":"
  <2>1. DOMAIN host = 1..Len(host)
    BY <1>1, LenProperties, Zenon
  <2> QED
    BY <2>1, Zenon DEF Range, Legible
<1>4. url = host \o more
  BY Zenon DEF HostValue
<1> HIDE DEF host, port, url
\* After the host comes nothing, or a colon and a digit.
<1>5. /\ more \in Seq(Chars) /\ Len(more) \in Nat
      /\ \A i \in 1..Len(more) : more[i] \in {":", "80"}
  <2>1. CASE port = Port80
    <3>1. more = <<>>
      BY <2>1, Zenon
    <3> QED
      BY <3>1
  <2>2. CASE port # Port80
    <3>1. <<":">> \in Seq(Chars) /\ Len(<<":">>) = 1 /\ <<":">>[1] = ":"
      <4>1. ":" \in Chars
        BY HttpAssumption, Zenon
      <4> QED
        BY <4>1
    <3>2. more = <<":">> \o port
      BY <2>2, Zenon
    <3> HIDE DEF more
    <3>3. /\ more \in Seq(Chars) /\ Len(more) = Len(<<":">>) + Len(port)
          /\ \A i \in 1..(Len(<<":">>) + Len(port)) :
               more[i] = IF i <= Len(<<":">>) THEN <<":">>[i] ELSE port[i - Len(<<":">>)]
      BY <1>2, <3>1, <3>2, ConcatProperties, SMTT(30)
    <3>4. /\ Len(more) = 1 + Len(port)
          /\ \A i \in 1..(1 + Len(port)) : more[i] = IF i <= 1 THEN <<":">>[i] ELSE port[i - 1]
      BY <3>1, <3>3, Zenon
    <3>5. ASSUME NEW i \in 1..Len(more) PROVE more[i] \in {":", "80"}
      <4>1. i \in 1..(1 + Len(port)) /\ (i <= 1 => i = 1) /\ (~(i <= 1) => i - 1 \in 1..Len(port))
        BY <1>2, <3>4, SMTT(30)
      <4>2. CASE i <= 1
        BY <3>1, <3>4, <4>1, <4>2, Zenon
      <4>3. CASE ~(i <= 1)
        BY <1>2, <3>4, <4>1, <4>3, Zenon
      <4> QED
        BY <4>2, <4>3
    <3> QED
      BY <1>2, <3>3, <3>4, <3>5, SMTT(30)
  <2> QED
    BY <2>1, <2>2, Zenon
<1> HIDE DEF more
<1>6. /\ url \in Seq(Chars) /\ Len(url) = Len(host) + Len(more)
      /\ \A i \in 1..(Len(host) + Len(more)) : url[i] = IF i <= Len(host) THEN host[i] ELSE more[i - Len(host)]
  BY <1>1, <1>4, <1>5, ConcatProperties, Zenon
<1>7. ASSUME NEW i \in 1..Len(url), i > Len(host) PROVE url[i] \in {":", "80"}
  <2>1. i \in 1..(Len(host) + Len(more)) /\ ~(i <= Len(host)) /\ i - Len(host) \in 1..Len(more)
    BY <1>1, <1>5, <1>6, <1>7, SMTT(30)
  <2> QED
    BY <1>5, <1>6, <2>1, Zenon
<1>8. ASSUME NEW i \in 1..Len(url), i <= Len(host) PROVE url[i] = host[i] /\ i \in 1..Len(host)
  <2>1. i \in 1..(Len(host) + Len(more)) /\ i \in 1..Len(host)
    BY <1>1, <1>5, <1>6, <1>8, SMTT(30)
  <2> QED
    BY <1>6, <1>8, <2>1, Zenon
<1>9. Len(url) \in Nat /\ Len(url) >= 1 /\ 1 \in 1..Len(url) /\ 1 <= Len(host) /\ Len(url) >= Len(host)
  BY <1>1, <1>5, <1>6, SMTT(30)
<1>10. find(url, "/") = 0
  <2>1. ASSUME NEW i \in 1..Len(url) PROVE url[i] # "/"
    <3>1. CASE i <= Len(host)
      BY <1>1, <1>8, <3>1, Zenon
    <3>2. CASE i > Len(host)
      <4>1. url[i] \in {":", "80"}
        BY <1>7, <3>2, Zenon
      <4> QED
        BY <4>1, SMTT(30)
    <3> QED
      BY <1>1, <3>1, <3>2, SMTT(30)
  <2> QED
    BY <1>6, <2>1, FindNone, Zenon
<1>11. Authority(url) = url /\ url # <<>>
  <2>1. Authority(url) = url
    BY <1>10, Zenon DEF Authority
  <2>2. url # <<>>
    BY <1>9, SMTT(30)
  <2> QED
    BY <2>1, <2>2, Zenon
<1>12. b.req.host = SplitHost(url).host
  <2> DEFINE good == /\ SplitHost(url).host # <<>> /\ SplitHost(url).port # <<>>
                     /\ Range(SplitHost(url).port) \subseteq {"80"}
             q    == [NoRequest EXCEPT !.path = SplitPath(url), !.host = SplitHost(url).host,
                                       !.port = SplitHost(url).port]
  <2>1. b = [ok |-> good, req |-> q]
    BY <1>6, <1>11, SplitIs, NoRequestIs, Zenon DEF url
  <2>2. q.host = SplitHost(url).host
    BY NoRequestIs, Zenon DEF Requests
  <2> HIDE DEF good, q
  <2>3. b.req = q
    BY <2>1, ReqField, Zenon
  <2> QED
    BY <2>2, <2>3, Zenon
<1>13. url[1] = host[1]
  BY <1>8, <1>9, Zenon
<1>14. CASE host[1] = "["
  <2> DEFINE shut == find(url, "]")
             part == SubSeq(url, 2, shut - 1)
  <2>1. SplitHost(url) = BracketedHost(url, Port80)
    BY <1>11, <1>13, <1>14, Zenon DEF SplitHost
  <2>2. \/ shut = 0
        \/ shut \in 1..Len(url) /\ url[shut] = "]"
    BY <1>6, FindAny, Zenon
  <2>3. CASE shut = 0
    <3>1. SplitHost(url) = [host |-> <<>>, port |-> Port80]
      BY <2>1, <2>3, Zenon DEF BracketedHost
    <3>2. SplitHost(url).host = <<>>
      BY <3>1, HostField, Zenon
    <3> QED
      BY <1>1, <1>12, <3>2, Zenon DEF host
  <2>4. CASE shut # 0
    <3>1. SplitHost(url).host = part
      <4> DEFINE port2 == IF shut + 1 <= Len(url) /\ url[shut + 1] = ":"
                          THEN SubSeq(url, shut + 2, Len(url)) ELSE Port80
      <4>1. SplitHost(url) = [host |-> part, port |-> port2]
        BY <2>1, <2>4, Zenon DEF BracketedHost
      <4> HIDE DEF part, port2
      <4> QED
        BY <4>1, HostField, Zenon
    <3> HIDE DEF shut
    <3>2. shut \in 1..Len(url) /\ url[shut] = "]"
      BY <2>2, <2>4, Zenon
    <3>3. shut <= Len(host)
      <4> SUFFICES ASSUME shut > Len(host) PROVE FALSE
        BY <1>1, <3>2, SMTT(30)
      <4>1. url[shut] \in {":", "80"}
        BY <1>7, <3>2, Zenon
      <4> QED
        BY <3>2, <4>1, SMTT(30)
    <3>4. Len(part) = IF 2 <= shut - 1 THEN (shut - 1) - 2 + 1 ELSE 0
      <4>1. 2 \in Nat \ {0} /\ shut - 1 \in Int /\ shut - 1 <= Len(url)
        BY <1>9, <3>2, SMTT(30)
      <4> QED
        BY <1>6, <4>1, PartOf, SMTT(30)
    <3>5. Len(part) # Len(host)
      <4> HIDE DEF part
      <4> QED
        BY <1>1, <1>9, <3>2, <3>3, <3>4, SMTT(30)
    <3> QED
      BY <1>12, <3>1, <3>5, Zenon DEF host
  <2> QED
    BY <2>3, <2>4, Zenon
<1>15. CASE host[1] # "[" /\ port = Port80 /\ \E i \in 1..Len(host) : host[i] = ":"
  <2> DEFINE colon == rfind(host, ":")
             part  == SubSeq(host, 1, colon - 1)
  <2>1. url = host
    <3>1. more = <<>>
      BY <1>15, Zenon DEF more
    <3> QED
      BY <1>1, <1>4, <3>1, ConcatEmptySeq, Zenon
  <2>2. SplitHost(url) = PlainHost(host, Port80)
    BY <1>11, <1>15, <2>1, Zenon DEF SplitHost
  <2>3. colon \in 1..Len(host)
    <3>1. PICK i \in 1..Len(host) : host[i] = ":"
      BY <1>15, Zenon
    <3> DEFINE I == {j \in 1..Len(host) : host[j] = ":"}
    <3>2. i \in I /\ I \in SUBSET (0..Len(host))
      BY <1>1, <3>1, SMTT(30)
    <3>3. colon = Max(I)
      BY <3>2, Zenon DEF rfind
    <3>4. Max(I) \in I
      BY <1>1, <3>2, MaxIsGreatest, Zenon
    <3> QED
      BY <3>3, <3>4, Zenon
  <2>4. SplitHost(url).host = part
    <3>1. colon # 0
      BY <1>1, <2>3, SMTT(30)
    <3> DEFINE port2 == SubSeq(host, colon + 1, Len(host))
    <3>2. SplitHost(url) = [host |-> part, port |-> port2]
      BY <2>2, <3>1, Zenon DEF PlainHost
    <3> HIDE DEF part, port2
    <3> QED
      BY <3>2, HostField, Zenon
  <2> HIDE DEF colon
  <2>5. Len(part) = IF 1 <= colon - 1 THEN (colon - 1) - 1 + 1 ELSE 0
    <3>1. 1 \in Nat \ {0} /\ colon - 1 \in Int /\ colon - 1 <= Len(host)
      BY <1>1, <2>3, SMTT(30)
    <3> QED
      BY <1>1, <3>1, PartOf, SMTT(30)
  <2>6. Len(part) # Len(host)
    <3> HIDE DEF part
    <3> QED
      BY <1>1, <2>3, <2>5, SMTT(30)
  <2> QED
    BY <1>12, <2>4, <2>6, Zenon DEF host
<1> QED
  BY <1>3, <1>14, <1>15, Zenon

\* The list that build_upstream_request makes, header by header.
LEMMA RewriteOk == HttpInv => RewrittenForOrigin
<1> SUFFICES ASSUME HttpInv, state = "Forward" PROVE RewrittenForOrigin
  BY Zenon DEF RewrittenForOrigin
<1>1. req \in Requests /\ GoodTarget(req) /\ Forwarded /\ req.headers \in Seq(Units)
  BY ForwardedRequest, Zenon DEF Requests, Units
<1> DEFINE own   == req.headers
           Skip  == {h \in Range(own) : h.lname = "host" \/ is_hop_by_hop(h.lname)}
           kept  == Without(own, Skip)
           first == Header("Host", "host", HostValue(req))
           last  == Header("Connection", "connection", "close")
           hs    == out_upstream.headers
           T     == Units \cup {first, last}
<1>2. hs = (<<first>> \o kept) \o <<last>>
  BY <1>1, SMTT(30) DEF Forwarded, build_upstream_request
<1>3. kept \in Seq(Units) /\ Exact(own, Skip, Len(own), kept)
  BY <1>1, WithoutIsExact, SMTT(30)
<1>4. /\ first.lname = "host" /\ first.value = HostValue(req)
      /\ last.lname = "connection" /\ last.value = "close"
  BY Zenon DEF Header
<1>5. PICK f \in [1..Len(kept) -> 1..Len(own)] :
        /\ \A i, j \in 1..Len(kept) : i < j => f[i] < f[j]
        /\ \A i \in 1..Len(kept) : kept[i] = own[f[i]] /\ own[f[i]] \notin Skip
        /\ \A j \in 1..Len(own) : own[j] \notin Skip => \E i \in 1..Len(kept) : f[i] = j
  BY <1>3, Zenon DEF Exact
<1>6. DOMAIN own = 1..Len(own) /\ Len(own) \in Nat
  BY <1>1, LenProperties, SMTT(30)
<1>7. \A j \in 1..Len(own) : own[j] \in Skip <=> own[j].lname = "host" \/ is_hop_by_hop(own[j].lname)
  BY <1>6, Zenon DEF Range
<1>8. is_hop_by_hop("connection")
  BY Zenon DEF is_hop_by_hop
<1> HIDE DEF own, Skip, kept, first, last, hs
<1>9. /\ Len(kept) \in Nat /\ Len(hs) = Len(kept) + 2
      /\ hs[1] = first /\ hs[Len(hs)] = last
      /\ \A i \in 1..Len(kept) : hs[i + 1] = kept[i]
  <2>1. <<first>> \in Seq(T) /\ <<last>> \in Seq(T) /\ kept \in Seq(T)
    <3>1. first \in T /\ last \in T
      BY Zenon
    <3>2. kept \in Seq(T)
      BY <1>3, SeqMonotonic, Zenon
    <3> QED
      BY <3>1, <3>2, SMTT(30)
  <2>2. Len(<<first>>) = 1 /\ <<first>>[1] = first /\ Len(<<last>>) = 1 /\ <<last>>[1] = last /\ Len(kept) \in Nat
    BY <1>3, SMTT(30)
  <2> DEFINE a == <<first>> \o kept
  <2>3. /\ a \in Seq(T) /\ Len(a) = 1 + Len(kept)
        /\ \A i \in 1..(1 + Len(kept)) : a[i] = IF i <= 1 THEN <<first>>[i] ELSE kept[i - 1]
    <3>1. /\ a \in Seq(T) /\ Len(a) = Len(<<first>>) + Len(kept)
          /\ \A i \in 1..(Len(<<first>>) + Len(kept)) :
               a[i] = IF i <= Len(<<first>>) THEN <<first>>[i] ELSE kept[i - Len(<<first>>)]
      BY <2>1, ConcatProperties
    <3> HIDE DEF a
    <3> QED
      BY <2>2, <3>1, SMTT(30)
  <2> HIDE DEF a
  <2>4. /\ Len(hs) = Len(a) + 1
        /\ \A i \in 1..(Len(a) + 1) : hs[i] = IF i <= Len(a) THEN a[i] ELSE <<last>>[i - Len(a)]
    <3>1. /\ Len(a \o <<last>>) = Len(a) + Len(<<last>>)
          /\ \A i \in 1..(Len(a) + Len(<<last>>)) : (a \o <<last>>)[i] = IF i <= Len(a) THEN a[i] ELSE <<last>>[i - Len(a)]
      BY <2>1, <2>3, ConcatProperties, SMTT(30)
    <3>2. hs = a \o <<last>>
      BY <1>2, SMTT(30) DEF a
    <3> QED
      BY <2>2, <3>1, <3>2, Zenon
  <2>5. hs[1] = first
    <3>1. 1 \in 1..(Len(a) + 1) /\ 1 <= Len(a) /\ 1 \in 1..(1 + Len(kept)) /\ 1 <= 1
      BY <2>2, <2>3, SMTT(30)
    <3>2. hs[1] = a[1]
      BY <2>4, <3>1, Zenon
    <3>3. a[1] = <<first>>[1]
      BY <2>3, <3>1, SMTT(30)
    <3> QED
      BY <2>2, <3>2, <3>3, SMTT(30)
  <2>6. hs[Len(hs)] = last
    <3>1. Len(hs) \in 1..(Len(a) + 1) /\ ~(Len(hs) <= Len(a)) /\ Len(hs) - Len(a) = 1
      BY <2>2, <2>3, <2>4, SMTT(30)
    <3> QED
      BY <2>2, <2>4, <3>1, SMTT(30)
  <2>7. ASSUME NEW i \in 1..Len(kept) PROVE hs[i + 1] = kept[i]
    <3>1. i + 1 \in 1..(Len(a) + 1) /\ i + 1 <= Len(a) /\ i + 1 \in 1..(1 + Len(kept)) /\ ~(i + 1 <= 1) /\ (i + 1) - 1 = i
      BY <2>2, <2>3, SMTT(30)
    <3>2. hs[i + 1] = a[i + 1]
      BY <2>4, <3>1, Zenon
    <3>3. a[i + 1] = kept[(i + 1) - 1]
      BY <2>3, <3>1, Zenon
    <3> QED
      BY <3>1, <3>2, <3>3, Zenon
  <2>8. Len(hs) = Len(kept) + 2
    BY <2>2, <2>3, <2>4, SMTT(30)
  <2> QED
    BY <2>2, <2>5, <2>6, <2>7, <2>8, SMTT(30)
<1>10. DOMAIN hs = 1..Len(hs)
  <2>1. <<first>> \in Seq(T) /\ <<last>> \in Seq(T) /\ kept \in Seq(T)
    <3>1. first \in T /\ last \in T
      BY Zenon
    <3>2. kept \in Seq(T)
      BY <1>3, SeqMonotonic, Zenon
    <3> QED
      BY <3>1, <3>2, SMTT(30)
  <2>2. hs \in Seq(T)
    BY <1>2, <2>1, ConcatProperties, Zenon
  <2> QED
    BY <2>2, LenProperties, ZenonT(30)
<1>11. ASSUME NEW i \in 2..(Len(hs) - 1)
       PROVE  i - 1 \in 1..Len(kept) /\ hs[i] = own[f[i - 1]] /\ hs[i].lname # "host" /\ ~is_hop_by_hop(hs[i].lname)
  <2>1. i - 1 \in 1..Len(kept) /\ (i - 1) + 1 = i
    BY <1>9
  <2>2. hs[i] = kept[i - 1]
    BY <1>9, <2>1, Zenon
  <2>3. hs[i] = own[f[i - 1]] /\ own[f[i - 1]] \notin Skip /\ f[i - 1] \in 1..Len(own)
    BY <1>5, <2>1, <2>2, Zenon
  <2> QED
    BY <1>7, <2>1, <2>3, Zenon
<1>12. Names(hs, "host") = {1}
  <2>1. 1 \in Names(hs, "host")
    BY <1>4, <1>9, <1>10, SMTT(30) DEF Names
  <2>2. ASSUME NEW i \in Names(hs, "host") PROVE i = 1
    <3>1. i \in 1..Len(hs) /\ hs[i].lname = "host"
      BY <1>10, Zenon DEF Names
    <3>2. i # Len(hs)
      BY <1>4, <1>9, <3>1, Zenon
    <3>3. ~(i \in 2..(Len(hs) - 1))
      BY <1>11, <3>1, Zenon
    <3> QED
      BY <1>9, <3>1, <3>2, <3>3, SMTT(30)
  <2> QED
    BY <2>1, <2>2, Zenon
<1>13. Names(hs, "connection") = {Len(hs)}
  <2>1. Len(hs) \in Names(hs, "connection")
    BY <1>4, <1>9, <1>10, SMTT(30) DEF Names
  <2>2. ASSUME NEW i \in Names(hs, "connection") PROVE i = Len(hs)
    <3>1. i \in 1..Len(hs) /\ hs[i].lname = "connection"
      BY <1>10, Zenon DEF Names
    <3>2. i # 1
      BY <1>4, <1>9, <3>1, SMTT(30)
    <3>3. ~(i \in 2..(Len(hs) - 1))
      BY <1>8, <1>11, <3>1, SMTT(30)
    <3> QED
      BY <1>9, <3>1, <3>2, <3>3, SMTT(30)
  <2> QED
    BY <2>1, <2>2, Zenon
<1>14. hs[Len(hs)].value = "close"
  BY <1>4, <1>9, SMTT(30)
<1> DEFINE from   == [i \in 2..(Len(hs) - 1) |-> f[i - 1]]
           Wanted == {j \in DOMAIN own : own[j].lname # "host" /\ ~is_hop_by_hop(own[j].lname)}
<1>15. from \in [2..(Len(hs) - 1) -> DOMAIN own]
  BY <1>6, <1>11, SMTT(30)
<1>16. \A i, j \in 2..(Len(hs) - 1) : i < j => from[i] < from[j]
  <2> SUFFICES ASSUME NEW i \in 2..(Len(hs) - 1), NEW j \in 2..(Len(hs) - 1), i < j PROVE f[i - 1] < f[j - 1]
    BY Zenon
  <2>1. i - 1 \in 1..Len(kept) /\ j - 1 \in 1..Len(kept) /\ i - 1 < j - 1
    BY <1>11
  <2> QED
    BY <1>5, <2>1, SMTT(30)
<1>17. \A i \in 2..(Len(hs) - 1) : hs[i] = own[from[i]]
  BY <1>11, Zenon
<1>18. Range(from) = Wanted
  <2>1. ASSUME NEW j \in Range(from) PROVE j \in Wanted
    <3>1. PICK i \in 2..(Len(hs) - 1) : j = f[i - 1]
      BY Zenon DEF Range
    <3>2. j \in 1..Len(own) /\ hs[i] = own[j]
      BY <1>11, <3>1, Zenon
    <3> QED
      BY <1>6, <1>11, <3>2, SMTT(30)
  <2>2. ASSUME NEW j \in Wanted PROVE j \in Range(from)
    <3>1. j \in 1..Len(own) /\ own[j] \notin Skip
      BY <1>6, <1>7, SMTT(30)
    <3>2. PICK i \in 1..Len(kept) : f[i] = j
      BY <1>5, <3>1, SMTT(30)
    <3>3. i + 1 \in 2..(Len(hs) - 1) /\ (i + 1) - 1 = i
      BY <1>9, SMTT(30)
    <3>4. from[i + 1] = j /\ i + 1 \in DOMAIN from
      BY <3>2, <3>3, Zenon
    <3> HIDE DEF from
    <3> QED
      BY <3>4, Zenon DEF Range
  <2> HIDE DEF from, Wanted
  <2> QED
    BY <2>1, <2>2, Zenon
<1>19. LET b == split_absolute_url(TRUE, hs[1].value, NoRequest)
       IN  Legible(req) <=> b.ok /\ b.req.host = req.host /\ b.req.port = req.port
  <2>1. hs[1].value = HostValue(req)
    BY <1>4, <1>9, SMTT(30)
  <2> DEFINE b == split_absolute_url(TRUE, HostValue(req), NoRequest)
  <2>2. Legible(req) => b.ok /\ b.req.host = req.host /\ b.req.port = req.port
    BY <1>1, HostNamesTarget, Zenon
  <2>3. ~Legible(req) => b.req.host # req.host
    BY <1>1, HostNamesAnother, Zenon
  <2> HIDE DEF b
  <2>4. Legible(req) <=> b.ok /\ b.req.host = req.host /\ b.req.port = req.port
    BY <2>2, <2>3, Zenon
  <2> QED
    BY <2>1, <2>4, Zenon DEF b
<1> HIDE DEF from
<1> QED
  BY <1>12, <1>13, <1>14, <1>15, <1>16, <1>17, <1>18, <1>19, ZenonT(30) DEF RewrittenForOrigin, hs, own

\* build_upstream_request: whatever headers the client sends, and however many, the origin
\* gets one Host and one Connection, the client's other end-to-end headers in their order
\* (every Content-Length among them), and the whole body that the first Content-Length
\* declares.  The Host names the URL's host and port exactly where it is Legible: not
\* for an IPv6 literal without a port other than 80, which has lost its brackets.
THEOREM OriginSeesRequest == Spec => []OriginGetsRequest
<1>1. HttpInv => OriginGetsRequest
  BY BodyOk, RewriteOk, SMTT(30) DEF OriginGetsRequest
<1> QED
  BY <1>1, HttpStart, HttpStep, PTL DEF Spec

-----------------------------------------------------------------------------
(* cache_key *)

\* An element of a concatenation is one of its parts'.
LEMMA ConcatElements ==
  ASSUME NEW T, NEW s \in Seq(T), NEW t \in Seq(T), NEW u, u = s \o t
  PROVE  /\ u \in Seq(T) /\ Len(u) = Len(s) + Len(t) /\ Len(s) \in Nat /\ Len(t) \in Nat
         /\ \A i \in 1..Len(s) : u[i] = s[i]
         /\ \A i \in 1..Len(t) : u[Len(s) + i] = t[i]
         /\ \A i \in 1..Len(u) : i <= Len(s) \/ (i - Len(s) \in 1..Len(t) /\ u[i] = t[i - Len(s)])
<1>1. /\ u \in Seq(T) /\ Len(u) = Len(s) + Len(t) /\ Len(s) \in Nat /\ Len(t) \in Nat
      /\ \A i \in 1..(Len(s) + Len(t)) : u[i] = IF i <= Len(s) THEN s[i] ELSE t[i - Len(s)]
  BY ConcatProperties, SMTT(30)
<1>2. \A i \in 1..Len(s) : u[i] = s[i]
  BY <1>1
<1>3. ASSUME NEW i \in 1..Len(t) PROVE u[Len(s) + i] = t[i]
  <2>1. Len(s) + i \in 1..(Len(s) + Len(t)) /\ ~(Len(s) + i <= Len(s)) /\ (Len(s) + i) - Len(s) = i
    BY <1>1, SMTT(30)
  <2>2. u[Len(s) + i] = t[(Len(s) + i) - Len(s)]
    BY <1>1, <2>1, SMTT(30)
  <2> QED
    BY <2>1, <2>2, SMTT(30)
<1>4. ASSUME NEW i \in 1..Len(u), ~(i <= Len(s)) PROVE i - Len(s) \in 1..Len(t) /\ u[i] = t[i - Len(s)]
  BY <1>1, <1>4, SMTT(30)
<1> QED
  BY <1>1, <1>2, <1>3, <1>4, SMTT(30)

\* u is s followed by t.
Joins(T, s, t, u) == s \in Seq(T) /\ t \in Seq(T) /\ u = s \o t

\* What follows from it, element by element.
Joined(T, s, t, u) ==
  /\ u \in Seq(T) /\ Len(u) = Len(s) + Len(t) /\ Len(s) \in Nat /\ Len(t) \in Nat
  /\ \A i \in 1..Len(s) : u[i] = s[i]
  /\ \A i \in 1..Len(t) : u[Len(s) + i] = t[i]
  /\ \A i \in 1..Len(u) : i <= Len(s) \/ (i - Len(s) \in 1..Len(t) /\ u[i] = t[i - Len(s)])

\* The second follows from the first.
LEMMA JoinsIsJoined ==
  ASSUME NEW T, NEW s, NEW t, NEW u, Joins(T, s, t, u)
  PROVE  Joined(T, s, t, u)
  BY ConcatElements, SMTT(30) DEF Joins, Joined

\* k is the first place, and the last place, of c in s.
FirstAt(T, s, c, k) == s \in Seq(T) /\ k \in 1..Len(s) /\ s[k] = c /\ \A i \in 1..(k - 1) : s[i] # c
LastAt(T, s, c, k)  == s \in Seq(T) /\ k \in 1..Len(s) /\ s[k] = c /\ \A i \in (k + 1)..Len(s) : s[i] # c

\* find and rfind return it.
LEMMA FirstIs ==
  ASSUME NEW T, NEW s, NEW c, NEW k, FirstAt(T, s, c, k)
  PROVE  find(s, c) = k
  BY FindIs, Zenon DEF FirstAt

\* The same for the last place.
LEMMA LastIs ==
  ASSUME NEW T, NEW s, NEW c, NEW k, LastAt(T, s, c, k)
  PROVE  rfind(s, c) = k
  BY RfindIs DEF LastAt

\* The end of a key: the part up to the last colon, the port and the path.
KeyEnds(T, slash, colon, eighty, c, port, path, d, key) ==
  /\ slash # colon /\ eighty # slash /\ eighty # colon
  /\ c \in Seq(T) /\ Len(c) >= 1 /\ c[Len(c)] = colon /\ \A i \in 1..Len(c) : c[i] # slash
  /\ port \in Seq(T) /\ \A i \in 1..Len(port) : port[i] = eighty
  /\ path \in Seq(T) /\ Len(path) >= 1 /\ path[1] = slash
  /\ d = c \o port /\ key = d \o path

\* What can be read off it.
KeyEndRead(T, slash, colon, c, port, path, d, key) ==
  /\ find(key, slash) = Len(d) + 1 /\ Len(d) \in Nat /\ rfind(d, colon) = Len(c) /\ Len(c) \in Nat
  /\ SubSeq(key, 1, Len(d)) = d /\ SubSeq(key, Len(d) + 1, Len(key)) = path
  /\ SubSeq(d, Len(c) + 1, Len(d)) = port
  /\ key \in Seq(T) /\ Len(c) <= Len(key) /\ \A i \in 1..Len(c) : key[i] = c[i]

\* It can: the path begins at the first slash, the port after the last colon before it.
LEMMA KeyEnd ==
  ASSUME NEW T, NEW slash, NEW colon, NEW eighty, NEW c, NEW port, NEW path, NEW d, NEW key,
         KeyEnds(T, slash, colon, eighty, c, port, path, d, key)
  PROVE  KeyEndRead(T, slash, colon, c, port, path, d, key)
<1>1. /\ slash # colon /\ eighty # slash /\ eighty # colon
      /\ c \in Seq(T) /\ Len(c) >= 1 /\ c[Len(c)] = colon /\ \A i \in 1..Len(c) : c[i] # slash
      /\ port \in Seq(T) /\ \A i \in 1..Len(port) : port[i] = eighty
      /\ path \in Seq(T) /\ Len(path) >= 1 /\ path[1] = slash
      /\ d = c \o port /\ key = d \o path
  BY Zenon DEF KeyEnds
<1>2. Joins(T, c, port, d)
  BY <1>1, Zenon DEF Joins
<1>3. /\ d \in Seq(T) /\ Len(d) = Len(c) + Len(port) /\ Len(c) \in Nat /\ Len(port) \in Nat
      /\ \A i \in 1..Len(c) : d[i] = c[i]
      /\ \A i \in 1..Len(d) : i <= Len(c) \/ (i - Len(c) \in 1..Len(port) /\ d[i] = port[i - Len(c)])
  <2>1. Joined(T, c, port, d)
    BY <1>2, JoinsIsJoined, Zenon
  <2> QED
    BY <2>1, Zenon DEF Joined
<1>4. /\ key \in Seq(T) /\ Len(key) = Len(d) + Len(path) /\ Len(d) \in Nat /\ Len(path) \in Nat
      /\ \A i \in 1..Len(d) : key[i] = d[i]
      /\ \A i \in 1..Len(path) : key[Len(d) + i] = path[i]
  <2>1. Joins(T, d, path, key)
    BY <1>1, <1>3, Zenon DEF Joins
  <2>2. Joined(T, d, path, key)
    BY <2>1, JoinsIsJoined, ZenonT(30)
  <2> QED
    BY <2>2, Zenon DEF Joined
<1>5. ASSUME NEW i \in 1..Len(d), ~(i <= Len(c)) PROVE d[i] = eighty
  BY <1>1, <1>3, <1>5, SMTT(30)
<1>6. ASSUME NEW i \in 1..Len(d) PROVE d[i] # slash
  <2>1. CASE i <= Len(c)
    <3>1. i \in 1..Len(c)
      BY <1>1, <1>3, <2>1, SMTT(30)
    <3> QED
      BY <1>1, <1>3, <3>1, SMTT(30)
  <2>2. CASE ~(i <= Len(c))
    <3>1. d[i] = eighty
      BY <1>5, <2>2, SMTT(30)
    <3> QED
      BY <1>1, <3>1, Zenon
  <2> QED
    BY <2>1, <2>2, SMTT(30)
<1>7. rfind(d, colon) = Len(c)
  <2>1. Len(c) \in 1..Len(d) /\ Len(c) \in 1..Len(c)
    BY <1>1, <1>3, SMTT(30)
  <2>2. d[Len(c)] = colon
    BY <1>1, <1>3, <2>1, Zenon
  <2>3. ASSUME NEW i \in (Len(c) + 1)..Len(d) PROVE d[i] # colon
    <3>1. i \in 1..Len(d) /\ ~(i <= Len(c))
      BY <1>1, <1>3
    <3>2. d[i] = eighty
      BY <1>5, <3>1, Zenon
    <3> QED
      BY <1>1, <3>2, SMTT(30)
  <2> QED
    <3>1. LastAt(T, d, colon, Len(c))
      BY <1>1, <1>3, <2>1, <2>2, <2>3, ZenonT(30) DEF LastAt
    <3> QED
      BY <3>1, LastIs, Zenon
<1>8. SubSeq(key, 1, Len(d)) = d
  BY <1>1, <1>3, FrontOf, Zenon
<1>9. SubSeq(key, Len(d) + 1, Len(key)) = path
  BY <1>1, <1>3, BackOf, Zenon
<1>10. SubSeq(d, Len(c) + 1, Len(d)) = port
  BY <1>1, BackOf, Zenon
<1>11. find(key, slash) = Len(d) + 1
  <2>1. key[Len(d) + 1] = slash
    <3>1. 1 \in 1..Len(path)
      BY <1>1, <1>4, SMTT(30)
    <3> QED
      BY <1>1, <1>4, <3>1, SMTT(30)
  <2>2. Len(d) + 1 \in 1..Len(key)
    BY <1>1, <1>4, SMTT(30)
  <2>3. ASSUME NEW i \in 1..((Len(d) + 1) - 1) PROVE key[i] # slash
    <3>1. i \in 1..Len(d)
      BY <1>1, <1>4, SMTT(30)
    <3> QED
      BY <1>1, <1>4, <1>6, <3>1, SMTT(30)
  <2> QED
    <3>1. FirstAt(T, key, slash, Len(d) + 1)
      BY <1>1, <1>4, <2>1, <2>2, <2>3, ZenonT(30) DEF FirstAt
    <3> QED
      BY <3>1, FirstIs, Zenon
<1>12. ASSUME NEW i \in 1..Len(c) PROVE key[i] = c[i]
  <2>1. i \in 1..Len(d)
    BY <1>1, <1>3, SMTT(30)
  <2> QED
    BY <1>1, <1>3, <1>4, <2>1, SMTT(30)
<1>13. Len(c) <= Len(key)
  BY <1>1, <1>3, <1>4, SMTT(30)
<1> QED
  BY <1>1, <1>3, <1>4, <1>7, <1>8, <1>9, <1>10, <1>11, <1>12, <1>13, ZenonT(30) DEF KeyEndRead

\* The beginning: method and space, the host, a colon.
KeyBegins(T, slash, colon, a, host, e, b, c) ==
  /\ slash # colon /\ a \in Seq(T) /\ Len(a) = 2 /\ a[1] # slash /\ a[2] # slash
  /\ host \in Seq(T) /\ \A i \in 1..Len(host) : host[i] # slash
  /\ e \in Seq(T) /\ Len(e) = 1 /\ e[1] = colon
  /\ b = a \o host /\ c = b \o e

\* What can be read off it.
KeyBeginRead(T, slash, colon, a, host, c) ==
  /\ c \in Seq(T) /\ Len(c) = Len(host) + 3 /\ Len(host) \in Nat
  /\ c[1] = a[1] /\ c[Len(c)] = colon /\ \A i \in 1..Len(c) : c[i] # slash
  /\ \A i \in 1..Len(host) : c[2 + i] = host[i]

\* It can: the method is one character, and one space follows.
LEMMA KeyBeginning ==
  ASSUME NEW T, NEW slash, NEW colon, NEW a, NEW host, NEW e, NEW b, NEW c,
         KeyBegins(T, slash, colon, a, host, e, b, c)
  PROVE  KeyBeginRead(T, slash, colon, a, host, c)
<1>1. /\ slash # colon /\ a \in Seq(T) /\ Len(a) = 2 /\ a[1] # slash /\ a[2] # slash
      /\ host \in Seq(T) /\ \A i \in 1..Len(host) : host[i] # slash
      /\ e \in Seq(T) /\ Len(e) = 1 /\ e[1] = colon
      /\ b = a \o host /\ c = b \o e
  BY Zenon DEF KeyBegins
<1>2. /\ b \in Seq(T) /\ Len(b) = Len(a) + Len(host) /\ Len(host) \in Nat
      /\ \A i \in 1..Len(a) : b[i] = a[i]
      /\ \A i \in 1..Len(host) : b[Len(a) + i] = host[i]
      /\ \A i \in 1..Len(b) : i <= Len(a) \/ (i - Len(a) \in 1..Len(host) /\ b[i] = host[i - Len(a)])
  <2>1. Joins(T, a, host, b)
    BY <1>1, Zenon DEF Joins
  <2>2. Joined(T, a, host, b)
    BY <2>1, JoinsIsJoined, Zenon
  <2> QED
    BY <2>2, Zenon DEF Joined
<1>3. /\ c \in Seq(T) /\ Len(c) = Len(b) + Len(e) /\ Len(b) \in Nat
      /\ \A i \in 1..Len(b) : c[i] = b[i]
      /\ \A i \in 1..Len(e) : c[Len(b) + i] = e[i]
  <2>1. Joins(T, b, e, c)
    BY <1>1, <1>2, Zenon DEF Joins
  <2>2. Joined(T, b, e, c)
    BY <2>1, JoinsIsJoined, ZenonT(30)
  <2> QED
    BY <2>2, Zenon DEF Joined
<1>4. Len(b) = 2 + Len(host) /\ Len(c) = Len(b) + 1
  BY <1>1, <1>2, <1>3, SMTT(30)
<1>5. ASSUME NEW i \in 1..Len(b) PROVE b[i] # slash
  <2>1. CASE i = 1
    BY <1>1, <1>2, <2>1, SMTT(30)
  <2>2. CASE i = 2
    BY <1>1, <1>2, <2>2, SMTT(30)
  <2>3. CASE i > 2
    <3>1. i - 2 \in 1..Len(host) /\ b[i] = host[i - 2]
      BY <1>1, <1>2, <2>3, SMTT(30)
    <3> QED
      BY <1>1, <3>1, SMTT(30)
  <2> QED
    BY <1>1, <1>2, <2>1, <2>2, <2>3, SMTT(30)
<1>6. c[Len(c)] = colon
  <2>1. 1 \in 1..Len(e) /\ Len(c) = Len(b) + 1
    BY <1>1, <1>4, SMTT(30)
  <2> QED
    BY <1>1, <1>3, <2>1, SMTT(30)
<1>7. ASSUME NEW i \in 1..Len(c) PROVE c[i] # slash
  <2>1. CASE i \in 1..Len(b)
    BY <1>1, <1>3, <1>5, <2>1, SMTT(30)
  <2>2. CASE i = Len(c)
    BY <1>1, <1>6, <2>2, SMTT(30)
  <2> QED
    BY <1>1, <1>2, <1>4, <2>1, <2>2, SMTT(30)
<1>8. ASSUME NEW i \in 1..Len(host) PROVE c[2 + i] = host[i]
  <2>1. 2 + i \in 1..Len(b)
    BY <1>1, <1>2, <1>4, SMTT(30)
  <2> QED
    BY <1>1, <1>2, <1>3, <2>1, SMTT(30)
<1>9. c[1] = a[1]
  <2>1. 1 \in 1..Len(b) /\ 1 \in 1..Len(a)
    BY <1>1, <1>2, <1>4, SMTT(30)
  <2> QED
    BY <1>1, <1>2, <1>3, <2>1, SMTT(30)
<1> QED
  BY <1>1, <1>2, <1>3, <1>4, <1>6, <1>7, <1>8, <1>9, SMTT(30) DEF KeyBeginRead

\* Method, host, port and path can be read off a cache key.
LEMMA KeyParts ==
  ASSUME NEW r \in Requests, r.method \in {"GET", "HEAD", "POST"}, GoodTarget(r)
  PROVE  LET key   == cache_key(r)
             slash == find(key, "/")
             front == SubSeq(key, 1, slash - 1)
             colon == rfind(front, ":")
         IN /\ key[1] = r.method /\ r.path = SubSeq(key, slash, Len(key))
            /\ r.host = SubSeq(key, 3, colon - 1) /\ r.port = SubSeq(front, colon + 1, Len(front))
<1> DEFINE T    == Chars \cup {"GET", "HEAD", "POST", Space}
           host == r.host
           port == r.port
           path == r.path
           a    == <<r.method, Space>>
           e    == <<":">>
           b    == a \o host
           c    == b \o e
           slash  == "/"
           colon  == ":"
           eighty == "80"
           d    == c \o port
           key  == cache_key(r)
<1>1. /\ host \in Seq(T) /\ \A i \in 1..Len(host) : host[i] # slash
      /\ port \in Seq(T) /\ \A i \in 1..Len(port) : port[i] = eighty
      /\ path \in Seq(T) /\ Len(path) >= 1 /\ path[1] = slash
  <2>1. host \in Seq(Chars) /\ port \in Seq(Chars) /\ path \in Seq(Chars)
    BY DEF Requests
  <2>2. host \in Seq(T) /\ port \in Seq(T) /\ path \in Seq(T)
    BY <2>1, SeqMonotonic, SMTT(30)
  <2>3. path # <<>> => Len(path) >= 1
    BY <2>1
  <2> QED
    BY <2>2, <2>3, SMTT(30) DEF GoodTarget
<1>2. r.method \in T /\ Space \in T /\ ":" \in T /\ r.method # "/"
  BY HttpAssumption
<1>3. Space # "/"
  BY DEF Space
<1>4. key = d \o path /\ d = c \o port /\ c = b \o e /\ b = a \o host
  BY DEF cache_key
<1>5. /\ a \in Seq(T) /\ Len(a) = 2 /\ a[1] # slash /\ a[2] # slash /\ a[1] = r.method
       /\ e \in Seq(T) /\ Len(e) = 1 /\ e[1] = colon
  BY <1>2, <1>3, SMTT(30)
<1>6. slash # colon /\ eighty # slash /\ eighty # colon
  OBVIOUS
<1> HIDE DEF T, host, port, path, key, d, c, b, a, e, slash, colon, eighty
<1>7. /\ c \in Seq(T) /\ Len(c) = Len(host) + 3 /\ Len(host) \in Nat
      /\ c[1] = a[1] /\ c[Len(c)] = colon /\ \A i \in 1..Len(c) : c[i] # slash
      /\ \A i \in 1..Len(host) : c[2 + i] = host[i]
  <2>1. KeyBegins(T, slash, colon, a, host, e, b, c)
    BY <1>1, <1>4, <1>5, <1>6, Zenon DEF KeyBegins
  <2>2. KeyBeginRead(T, slash, colon, a, host, c)
    BY <2>1, KeyBeginning, ZenonT(30)
  <2> QED
    BY <2>2, Zenon DEF KeyBeginRead
<1>8. Len(c) >= 1
  BY <1>7, SMTT(30)
<1>9. /\ find(key, slash) = Len(d) + 1 /\ Len(d) \in Nat /\ rfind(d, colon) = Len(c) /\ Len(c) \in Nat
      /\ SubSeq(key, 1, Len(d)) = d /\ SubSeq(key, Len(d) + 1, Len(key)) = path
      /\ SubSeq(d, Len(c) + 1, Len(d)) = port
      /\ key \in Seq(T) /\ Len(c) <= Len(key) /\ \A i \in 1..Len(c) : key[i] = c[i]
  <2>1. KeyEnds(T, slash, colon, eighty, c, port, path, d, key)
    BY <1>1, <1>4, <1>7, <1>8, <1>6, ZenonT(30) DEF KeyEnds
  <2>2. KeyEndRead(T, slash, colon, c, port, path, d, key)
    BY <2>1, KeyEnd, Zenon
  <2> QED
    BY <2>2, Zenon DEF KeyEndRead
<1>10. SubSeq(key, 3, Len(c) - 1) = host
  <2> DEFINE h == SubSeq(key, 3, Len(c) - 1)
  <2>1. Len(c) - 1 = 2 + Len(host) /\ Len(c) - 1 <= Len(key) /\ Len(c) - 1 \in Int /\ 3 \in Nat \ {0}
    BY <1>7, <1>9, SMTT(30)
  <2>2. /\ h \in Seq(T) /\ Len(h) = (IF 3 <= Len(c) - 1 THEN (Len(c) - 1) - 3 + 1 ELSE 0)
        /\ \A i \in 1..Len(h) : h[i] = key[3 + i - 1]
    BY <1>9, <2>1, PartOf, SMTT(30)
  <2> HIDE DEF h
  <2>3. Len(h) = Len(host)
    BY <1>7, <2>1, <2>2, SMTT(30)
  <2>4. ASSUME NEW i \in 1..Len(host) PROVE h[i] = host[i]
    <3>1. 3 + i - 1 = 2 + i /\ 2 + i \in 1..Len(c)
      BY <1>7, SMTT(30)
    <3>2. key[2 + i] = c[2 + i]
      BY <1>9, <3>1, ZenonT(30)
    <3>3. h[i] = key[2 + i]
      BY <2>2, <2>3, <3>1, SMTT(30)
    <3> QED
      BY <1>7, <3>2, <3>3, SMTT(30)
  <2>5. h = host
    BY <1>1, <2>2, <2>3, <2>4, SeqEqual, SMTT(30)
  <2> QED
    BY <2>5, SMTT(30) DEF h
<1>11. key[1] = r.method
  BY <1>7, <1>8, <1>9, <1>5, SMTT(30)
<1>12. find(key, slash) - 1 = Len(d)
  BY <1>9, SMTT(30)
<1>13. SubSeq(key, 1, find(key, slash) - 1) = d
  BY <1>9, <1>12, SMTT(30)
<1>14. path = SubSeq(key, find(key, slash), Len(key))
  BY <1>9, SMTT(30)
<1> QED
  BY <1>9, <1>10, <1>11, <1>13, <1>14, ZenonT(30) DEF key, host, port, path, slash, colon

\* The target that split_absolute_url leaves in a Request.
LEMMA SplitReq ==
  ASSUME NEW url \in Seq(Chars), NEW r \in Requests, r.port = Port80
  PROVE  /\ split_absolute_url(TRUE, url, r).ok => Authority(url) # <<>>
         /\ Authority(url) # <<>> =>
              split_absolute_url(TRUE, url, r).req =
                [r EXCEPT !.path = SplitPath(url), !.host = SplitHost(url).host, !.port = SplitHost(url).port]
BY Zenon DEF split_absolute_url, Authority, SplitHost, SplitPath

\* Without a path, the URL has the target of the one that ends in "/".
LEMMA NoPathIsRoot ==
  ASSUME NEW url \in Seq(Chars), "/" \notin Range(url), NEW r, NamedBy(r, url)
  PROVE  cache_key([split_absolute_url(TRUE, url \o <<"/">>, NoRequest).req EXCEPT !.method = r.method]) = cache_key(r)
<1> DEFINE u == url \o <<"/">>
<1>1. PICK q \in Requests :
        /\ q.port = Port80 /\ split_absolute_url(TRUE, url, q).ok
        /\ r.host = split_absolute_url(TRUE, url, q).req.host
        /\ r.port = split_absolute_url(TRUE, url, q).req.port
        /\ r.path = split_absolute_url(TRUE, url, q).req.path
  BY Zenon DEF NamedBy
<1>2. \A i \in 1..Len(url) : url[i] # "/"
  <2>1. DOMAIN url = 1..Len(url)
    BY LenProperties, SMTT(30)
  <2> QED
    BY <2>1, Zenon DEF Range
<1>3. find(url, "/") = 0
  BY <1>2, FindNone, SMTT(30)
<1>4. Authority(url) = url /\ SplitPath(url) = <<"/">>
  BY <1>3, SMTT(30) DEF Authority, SplitPath
<1>5. <<"/">> \in Seq(Chars) /\ Len(<<"/">>) = 1 /\ <<"/">>[1] = "/"
  <2>1. "/" \in Chars
    BY HttpAssumption, SMTT(30)
  <2> QED
    BY <2>1, SMTT(30)
<1>6. /\ u \in Seq(Chars) /\ Len(u) = Len(url) + 1 /\ Len(url) \in Nat
      /\ \A i \in 1..Len(url) : u[i] = url[i]
      /\ u[Len(url) + 1] = "/"
  <2>1. /\ u \in Seq(Chars) /\ Len(u) = Len(url) + Len(<<"/">>) /\ Len(url) \in Nat
        /\ \A i \in 1..Len(url) : u[i] = url[i]
        /\ \A i \in 1..Len(<<"/">>) : u[Len(url) + i] = <<"/">>[i]
    BY <1>5, ConcatElements, SMTT(30)
  <2> HIDE DEF u
  <2>2. 1 \in 1..Len(<<"/">>)
    BY <1>5, SMTT(30)
  <2>3. u[Len(url) + 1] = "/"
    BY <1>5, <2>1, <2>2, SMTT(30)
  <2> QED
    BY <1>5, <2>1, <2>3, SMTT(30)
<1>7. SubSeq(u, 1, Len(url)) = url /\ SubSeq(u, Len(url) + 1, Len(u)) = <<"/">>
  BY <1>5, FrontOf, BackOf, ZenonT(30)
<1> HIDE DEF u
<1>8. find(u, "/") = Len(url) + 1
  <2>1. Len(url) + 1 \in 1..Len(u) /\ \A i \in 1..((Len(url) + 1) - 1) : u[i] # "/"
    BY <1>2, <1>6, SMTT(30)
  <2> QED
    BY <1>6, <2>1, FindIs, SMTT(30)
<1>9. Authority(u) = url /\ SplitPath(u) = <<"/">>
  <2>1. find(u, "/") # 0 /\ find(u, "/") - 1 = Len(url)
    BY <1>6, <1>8, SMTT(30)
  <2> QED
    BY <1>7, <1>8, <2>1, SMTT(30) DEF Authority, SplitPath
<1>10. SplitHost(u) = SplitHost(url)
  BY <1>4, <1>9, SMTT(30) DEF SplitHost
<1>11. url # <<>>
  <2> SUFFICES ASSUME url = <<>> PROVE FALSE
    BY Zenon
  <2> QED
    BY <1>1, <1>4, SplitReq, ZenonT(30)
<1> DEFINE x == [q EXCEPT !.path = <<"/">>, !.host = SplitHost(url).host, !.port = SplitHost(url).port]
           y == [NoRequest EXCEPT !.path = <<"/">>, !.host = SplitHost(url).host, !.port = SplitHost(url).port]
           z == [y EXCEPT !.method = r.method]
<1>12. split_absolute_url(TRUE, url, q).req = x
  BY <1>1, <1>4, <1>11, SplitReq, ZenonT(30)
<1>13. split_absolute_url(TRUE, u, NoRequest).req = y
  <2>1. split_absolute_url(TRUE, u, NoRequest).req =
          [NoRequest EXCEPT !.path = SplitPath(u), !.host = SplitHost(u).host, !.port = SplitHost(u).port]
    BY <1>6, <1>9, <1>11, SplitReq, NoRequestIs, ZenonT(30)
  <2> QED
    BY <1>9, <1>10, <2>1, Zenon
<1>14. x.path = <<"/">> /\ x.host = SplitHost(url).host /\ x.port = SplitHost(url).port
  BY Zenon DEF Requests
<1>15. z.method = r.method /\ z.path = <<"/">> /\ z.host = SplitHost(url).host /\ z.port = SplitHost(url).port
  BY NoRequestIs, Zenon DEF Requests
<1> HIDE DEF x, z
<1>16. r.path = z.path /\ r.host = z.host /\ r.port = z.port /\ r.method = z.method
  BY <1>1, <1>12, <1>14, <1>15, ZenonT(30)
<1>17. cache_key(z) = cache_key(r)
  BY <1>16, Zenon DEF cache_key
<1> QED
  BY <1>13, <1>17, ZenonT(30) DEF z, u

\* Every forwarded request has such a key.
LEMMA KeyOk == HttpInv => KeyDeterminesTarget
<1> SUFFICES ASSUME HttpInv, state = "Forward" PROVE KeyDeterminesTarget
  BY Zenon DEF KeyDeterminesTarget
<1>1. /\ req \in Requests /\ req.method \in {"GET", "HEAD", "POST"} /\ GoodTarget(req)
      /\ msg[1] \in RequestLines /\ NamedBy(req, msg[1].url)
  BY ForwardedRequest, Zenon
<1>2. msg[1].url \in Seq(Chars)
  BY <1>1, Zenon DEF RequestLines
<1>3. ASSUME "/" \notin Range(msg[1].url)
      PROVE  cache_key([split_absolute_url(TRUE, msg[1].url \o <<"/">>, NoRequest).req EXCEPT !.method = req.method])
               = cache_key(req)
  BY <1>1, <1>2, <1>3, NoPathIsRoot, ZenonT(30)
<1> QED
  BY <1>1, <1>3, KeyParts, ZenonT(30) DEF KeyDeterminesTarget

\* cache_key: for every URL of any length, also with colons in the host, the key determines
\* method, host, port and path, and does not tell a missing path from "/".
THEOREM KeysAreFaithful == Spec => []KeyDeterminesTarget
<1> QED
  BY KeyOk, HttpStart, HttpStep, PTL DEF Spec
=============================================================================
