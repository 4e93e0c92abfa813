------------------------ MODULE ThreadPerConnProofs -------------------------
(***************************************************************************)
(* That the counter of ThreadPerConn is a barrier, for any grace and any   *)
(* number of connections.  The invariant that carries the proof: live_ is  *)
(* the number of threads that have not yet counted themselves out, and     *)
(* every Connection object belongs to one of them.                         *)
(*                                                                         *)
(* Then that every descriptor has one owner, for any limit: what           *)
(* Descriptors adds leaves the counter alone, and each way to open, close  *)
(* or move a number keeps the numbers and their owners in step.            *)
(***************************************************************************)
EXTENDS Descriptors, FiniteSetTheorems, TLAPS

Counted == {c \in Conns : tpc[c] \in {"serving", "unwound"}}

LiveIsTheCount == live = Cardinality(Counted)

FreshBeyondAccepted == \A c \in Conns : c > accepted => tpc[c] = "none"

NobodyAfterABarrier ==
  (pc \in {"returned", "destroyed"} /\ waited < GraceRounds) => Counted = {}

IInv == TypeOK /\ LiveIsTheCount /\ FreshBeyondAccepted /\ NobodyAfterABarrier

\* The counted connections are finitely many, at most MaxConns of them.
LEMMA CountedFinite ==
  /\ IsFiniteSet(Counted)
  /\ Cardinality(Counted) \in 0..MaxConns
<1>1. IsFiniteSet(Conns) /\ Cardinality(Conns) = MaxConns
  BY FS_Interval, GraceAssumption DEF Conns
<1>2. Counted \subseteq Conns
  BY Zenon DEF Counted
<1>3. IsFiniteSet(Counted) /\ Cardinality(Counted) <= Cardinality(Conns)
  BY <1>1, <1>2, FS_Subset, Zenon
<1>4. Cardinality(Counted) \in Nat
  BY <1>3, FS_CardinalityType, Zenon
<1> QED
  BY <1>1, <1>3, <1>4, GraceAssumption

\* The same after a step.
LEMMA CountedFiniteNext ==
  /\ IsFiniteSet(Counted')
  /\ Cardinality(Counted') \in 0..MaxConns
<1>1. IsFiniteSet(Conns) /\ Cardinality(Conns) = MaxConns
  BY FS_Interval, GraceAssumption DEF Conns
<1>2. Counted' \subseteq Conns
  BY Zenon DEF Counted, Conns
<1>3. IsFiniteSet(Counted') /\ Cardinality(Counted') <= Cardinality(Conns)
  BY <1>1, <1>2, FS_Subset, Zenon
<1>4. Cardinality(Counted') \in Nat
  BY <1>3, FS_CardinalityType, Zenon
<1> QED
  BY <1>1, <1>3, <1>4, GraceAssumption

\* The counter starts at zero with nobody to count.
LEMMA InitIInv == Init => IInv
<1> SUFFICES ASSUME Init PROVE IInv
  BY Zenon
<1>1. TypeOK
  <2>1. tpc \in [Conns -> {"none", "serving", "unwound", "gone"}] /\ stop \in BOOLEAN
    BY Zenon DEF Init
  <2>2. live \in 0..MaxConns /\ waited \in 0..GraceRounds /\ accepted \in 0..MaxConns
    BY GraceAssumption DEF Init
  <2> QED
    BY <2>1, <2>2, Zenon DEF Init, TypeOK
<1>2. Counted = {}
  BY Zenon DEF Init, Counted
<1>3. LiveIsTheCount
  BY <1>2, FS_EmptySet, Zenon DEF LiveIsTheCount, Init
<1> QED
  BY <1>1, <1>2, <1>3, Zenon DEF Init, IInv, FreshBeyondAccepted, NobodyAfterABarrier

\* Every step of run(), main() and the threads keeps the counter exact.
LEMMA NextIInv == IInv /\ [Next]_vars => IInv'
<1> SUFFICES ASSUME IInv, [Next]_vars PROVE IInv'
  BY Zenon
<1> USE GraceAssumption DEF IInv
<1>1. CASE Stop \/ CheckStop \/ AcceptNothing \/ Sleep \/ Destroy \/ Exited \/ UNCHANGED vars
  <2>1. Counted' = Counted
    BY <1>1, Zenon DEF Stop, CheckStop, AcceptNothing, Sleep, Destroy, Exited, vars, Counted, Conns
  <2>2. TypeOK'
    <3>1. tpc' = tpc /\ live' = live /\ accepted' = accepted /\ stop' \in BOOLEAN
      BY <1>1, Zenon DEF Stop, CheckStop, AcceptNothing, Sleep, Destroy, Exited, vars, TypeOK
    <3>2. waited' \in 0..GraceRounds
      BY <1>1 DEF Stop, CheckStop, AcceptNothing, Sleep, Destroy, Exited, vars, TypeOK
    <3>3. pc' \in {"check", "accept", "drain", "returned", "destroyed"}
      BY <1>1, Zenon DEF Stop, CheckStop, AcceptNothing, Sleep, Destroy, Exited, vars, TypeOK
    <3> QED
      BY <3>1, <3>2, <3>3, Zenon DEF TypeOK, Conns
  <2>3. LiveIsTheCount' /\ FreshBeyondAccepted'
    BY <1>1, <2>1, Zenon DEF Stop, CheckStop, AcceptNothing, Sleep, Destroy, Exited, vars,
                      LiveIsTheCount, FreshBeyondAccepted, Conns
  <2>4. NobodyAfterABarrier'
    BY <1>1, <2>1, Zenon DEF Stop, CheckStop, AcceptNothing, Sleep, Destroy, Exited, vars,
                      NobodyAfterABarrier, TypeOK
  <2> QED
    BY <2>2, <2>3, <2>4, Zenon
<1>2. CASE Return
  <2>1. Counted' = Counted
    BY <1>2, Zenon DEF Return, Counted, Conns
  <2>2. live <= 0 => Counted = {}
    BY CountedFinite, FS_EmptySet DEF LiveIsTheCount, TypeOK
  <2>3. TypeOK' /\ LiveIsTheCount' /\ FreshBeyondAccepted'
    BY <1>2, <2>1, Zenon DEF Return, TypeOK, LiveIsTheCount, FreshBeyondAccepted, Conns
  <2>4. NobodyAfterABarrier'
    BY <1>2, <2>1, <2>2 DEF Return, NobodyAfterABarrier, TypeOK
  <2> QED
    BY <2>3, <2>4, Zenon
<1>3. CASE Accept
  <2> DEFINE c == accepted + 1
  <2>1. c \in Conns /\ c \notin Counted
    BY <1>3 DEF Accept, TypeOK, FreshBeyondAccepted, Counted, Conns
  <2>2. tpc' = [tpc EXCEPT ![c] = "serving"]
    BY <1>3, Zenon DEF Accept
  <2> HIDE DEF c
  <2>3. Counted' = Counted \cup {c}
    BY <2>1, <2>2, Zenon DEF Counted, TypeOK, Conns
  <2>4. Cardinality(Counted') = Cardinality(Counted) + 1
    BY <2>1, <2>3, CountedFinite, FS_AddElement, Zenon
  <2>5. LiveIsTheCount'
    BY <1>3, <2>4, Zenon DEF Accept, LiveIsTheCount
  <2>6. TypeOK'
    <3>1. live' \in 0..MaxConns /\ accepted' \in 0..MaxConns
      BY <1>3, <2>5, CountedFiniteNext DEF Accept, TypeOK, LiveIsTheCount
    <3>2. tpc' \in [Conns -> {"none", "serving", "unwound", "gone"}]
      BY <2>1, <2>2, Zenon DEF TypeOK
    <3> QED
      BY <1>3, <3>1, <3>2, Zenon DEF Accept, TypeOK, Conns
  <2>7. FreshBeyondAccepted'
    BY <1>3 DEF Accept, FreshBeyondAccepted, TypeOK, Conns
  <2>8. NobodyAfterABarrier'
    BY <1>3, Zenon DEF Accept, NobodyAfterABarrier
  <2> QED
    BY <2>5, <2>6, <2>7, <2>8, Zenon
<1>4. ASSUME NEW c \in Conns, ServeEnds(c) PROVE IInv'
  <2>1. Counted' = Counted
    BY <1>4, Zenon DEF ServeEnds, Counted, TypeOK, Conns
  <2> QED
    BY <1>4, <2>1, Zenon DEF ServeEnds, TypeOK, LiveIsTheCount, FreshBeyondAccepted, NobodyAfterABarrier, Conns
<1>5. ASSUME NEW c \in Conns, CountOut(c) PROVE IInv'
  <2>1. c \in Counted
    BY <1>5, Zenon DEF CountOut, Counted
  <2>2. Counted' = Counted \ {c}
    BY <1>5, Zenon DEF CountOut, Counted, TypeOK, Conns
  <2>3. Cardinality(Counted') = Cardinality(Counted) - 1
    BY <2>1, <2>2, CountedFinite, FS_RemoveElement, Zenon
  <2>4. LiveIsTheCount'
    BY <1>5, <2>3, Zenon DEF CountOut, LiveIsTheCount
  <2>5. TypeOK'
    BY <1>5, <2>4, CountedFiniteNext, Zenon DEF CountOut, TypeOK, LiveIsTheCount
  <2>6. FreshBeyondAccepted'
    BY <1>5, Zenon DEF CountOut, FreshBeyondAccepted, TypeOK, Conns
  <2>7. NobodyAfterABarrier'
    BY <1>5, <2>1, <2>2, Zenon DEF CountOut, NobodyAfterABarrier
  <2> QED
    BY <2>4, <2>5, <2>6, <2>7, Zenon
<1> QED
  BY <1>1, <1>2, <1>3, <1>4, <1>5, Zenon DEF Next, RunStep

\* run() and the detached threads keep the counter and every other field in its type.
THEOREM TypeCorrect == Spec => []TypeOK
<1>1. IInv => TypeOK
  BY Zenon DEF IInv
<1> QED
  BY <1>1, InitIInv, NextIInv, PTL DEF Spec

\* run() returns within its grace only when every Connection object is gone: main()
\* then destroys the Resolver under nobody.  For every grace and connection count.
THEOREM Barrier == Spec => []CounterIsABarrier
<1>1. IInv => CounterIsABarrier
  BY Zenon DEF IInv, TypeOK, NobodyAfterABarrier, CounterIsABarrier, Counted, Alive
<1> QED
  BY <1>1, InitIInv, NextIInv, PTL DEF Spec

-----------------------------------------------------------------------------
(* Descriptors *)

Kinds == {"client_", "upstream_", "fd", "read_end", "write_end"}
Listener == <<0, "listener_">>

States == {"none", "ReadingRequest", "pipe", "Resolving", "candidate", "socket",
           "Connecting", "Relaying", "Failing", "Done"}

FdTypes ==
  /\ open \subseteq Numbers /\ fd \in [Slots -> Numbers \cup {None}]
  /\ refs \in [Conns -> SUBSET {"connection", "resolver"}]
  /\ state \in [Conns -> States] /\ left \in [Conns -> Nat]

\* The first and the last conjunct of EveryDescriptorOwned.
HeldOnce ==
  /\ open = {fd[s] : s \in Slots} \ {None}
  /\ \A s, t \in Slots : fd[s] = fd[t] /\ fd[s] # None => s = t

\* The middle conjunct, Fd by Fd.
Owners ==
  /\ fd[Listener] # None => pc # "destroyed"
  /\ \A c \in Conns :
       /\ fd[<<c, "client_">>] # None => tpc[c] = "serving"
       /\ fd[<<c, "upstream_">>] # None => tpc[c] = "serving"
       /\ fd[<<c, "fd">>] # None => state[c] = "socket"
       /\ fd[<<c, "read_end">>] # None => state[c] = "pipe" \/ refs[c] # {}
       /\ fd[<<c, "write_end">>] # None => state[c] = "pipe" \/ refs[c] # {}

\* A connection that has not come to its lookup has no job yet.
NoJobYet ==
  \A c \in Conns :
    tpc[c] = "none" \/ state[c] \in {"ReadingRequest", "pipe"} => refs[c] = {}

ServedOnly == \A c \in Conns : tpc[c] # "serving" => state[c] = "none"

FdInv == FdTypes /\ HeldOnce /\ Owners /\ NoJobYet /\ ServedOnly

\* An Fd is the listener's or one of the five of some connection.
LEMMA SlotKinds ==
  /\ Listener \in Slots
  /\ \A c \in Conns, k \in Kinds : <<c, k>> \in Slots /\ <<c, k>> # Listener
  /\ \A s \in Slots : s = Listener \/ \E c \in Conns, k \in Kinds : s = <<c, k>>
BY GraceAssumption DEF Slots, Listener, Kinds, Conns

\* Fd by Fd, Owners is what EveryDescriptorOwned says of existing objects.
LEMMA OwnersSuffice ==
  ASSUME Owners PROVE \A s \in Slots : fd[s] # None => OwnerExists(s)
<1> SUFFICES ASSUME NEW s \in Slots, fd[s] # None PROVE OwnerExists(s)
  BY Zenon
<1>1. CASE s = Listener
  BY <1>1, Zenon DEF Owners, OwnerExists, Listener
<1>2. ASSUME NEW c \in Conns, NEW k \in Kinds, s = <<c, k>> PROVE OwnerExists(s)
  BY <1>2, Zenon DEF Owners, OwnerExists, Kinds
<1> QED
  BY <1>1, <1>2, SlotKinds, Zenon

\* ~Fd() and reset() leave every other Fd alone, and no number behind.
LEMMA ClosesKeeps ==
  ASSUME FdTypes, HeldOnce, NEW S \in SUBSET Slots, Closes(S)
  PROVE  /\ HeldOnce' /\ open' \subseteq Numbers /\ fd' \in [Slots -> Numbers \cup {None}]
         /\ \A s \in Slots : fd'[s] = IF s \in S THEN None ELSE fd[s]
<1>1. \A s \in Slots : fd'[s] = IF s \in S THEN None ELSE fd[s]
  BY Zenon DEF Closes
<1>2. fd' \in [Slots -> Numbers \cup {None}] /\ open' \subseteq Numbers
  BY Zenon DEF Closes, FdTypes
<1>3. \A s, t \in Slots : fd'[s] = fd'[t] /\ fd'[s] # None => s = t
  BY <1>1, Zenon DEF HeldOnce
<1>4. open' = {fd'[s] : s \in Slots} \ {None}
  <2>1. \A n : n \in open' <=> n \in open /\ ~\E s \in S : fd[s] = n
    BY Zenon DEF Closes
  <2>2. \A n : n \in open <=> n # None /\ \E s \in Slots : fd[s] = n
    BY Zenon DEF HeldOnce
  <2>3. \A n : n \in {fd'[s] : s \in Slots} \ {None} <=> n # None /\ \E s \in Slots : fd'[s] = n
    BY Zenon
  <2>4. ASSUME NEW n, n # None
        PROVE  (\E s \in Slots : fd'[s] = n) <=> ((\E s \in Slots : fd[s] = n) /\ ~\E s \in S : fd[s] = n)
    BY <1>1, <2>4, Zenon DEF HeldOnce
  <2> QED
    BY <2>1, <2>2, <2>3, <2>4, Zenon
<1> QED
  BY <1>1, <1>2, <1>3, <1>4, Zenon DEF HeldOnce, Slots, Conns, None

\* A number that the kernel hands out is nobody else's.
LEMMA OpensKeeps ==
  ASSUME FdTypes, HeldOnce, NEW s \in Slots, fd[s] = None, Opens(s)
  PROVE  /\ HeldOnce' /\ open' \subseteq Numbers /\ fd' \in [Slots -> Numbers \cup {None}]
         /\ \A t \in Slots : t # s => fd'[t] = fd[t]
<1>1. PICK n \in Numbers \ open : open' = open \cup {n} /\ fd' = [fd EXCEPT ![s] = n]
  BY Zenon DEF Opens
<1>2. n # None
  BY LimitAssumption DEF Numbers, None
<1>3. \A t \in Slots : fd'[t] = IF t = s THEN n ELSE fd[t]
  BY <1>1, Zenon DEF FdTypes
<1>4. \A t \in Slots : fd[t] # n
  BY <1>1, <1>2, Zenon DEF HeldOnce
<1>5. \A t, u \in Slots : fd'[t] = fd'[u] /\ fd'[t] # None => t = u
  BY <1>3, <1>4, Zenon DEF HeldOnce
<1>6. open' = {fd'[t] : t \in Slots} \ {None}
  BY <1>1, <1>2, <1>3 DEF HeldOnce
<1>7. fd' \in [Slots -> Numbers \cup {None}] /\ open' \subseteq Numbers
  BY <1>1, Zenon DEF FdTypes
<1> QED
  BY <1>3, <1>5, <1>6, <1>7, Zenon DEF HeldOnce, Slots, Conns, None

\* A number that moves has one holder before and after.
LEMMA MovesKeeps ==
  ASSUME FdTypes, HeldOnce, NEW from \in Slots, NEW to \in Slots, from # to, Moves(from, to)
  PROVE  /\ HeldOnce' /\ open' \subseteq Numbers /\ fd' \in [Slots -> Numbers \cup {None}]
         /\ \A t \in Slots : fd'[t] = IF t = to THEN fd[from] ELSE IF t = from THEN None ELSE fd[t]
<1>1. \A t \in Slots : fd'[t] = IF t = to THEN fd[from] ELSE IF t = from THEN None ELSE fd[t]
  BY Zenon DEF Moves, FdTypes
<1>2. fd' \in [Slots -> Numbers \cup {None}] /\ open' \subseteq Numbers
  BY Zenon DEF Moves, FdTypes
<1>3. \A s, t \in Slots : fd'[s] = fd'[t] /\ fd'[s] # None => s = t
  BY <1>1, Zenon DEF HeldOnce
<1>4. open' = {fd'[s] : s \in Slots} \ {None}
  <2>1. \A n : n \in open' <=> n \in open /\ n # fd[to]
    BY Zenon DEF Moves
  <2>2. \A n : n \in open <=> n # None /\ \E s \in Slots : fd[s] = n
    BY Zenon DEF HeldOnce
  <2>3. ASSUME NEW n, n # None
        PROVE  (\E s \in Slots : fd'[s] = n) <=> ((\E s \in Slots : fd[s] = n) /\ n # fd[to])
    BY <1>1, <2>3, Zenon DEF HeldOnce
  <2> QED
    BY <2>1, <2>2, <2>3
<1> QED
  BY <1>1, <1>2, <1>3, <1>4, Zenon DEF HeldOnce, Slots, Conns, None

\* pipe() gives the two ends two numbers that are nobody else's.
LEMMA MakePipeKeeps ==
  ASSUME FdTypes, HeldOnce, NEW c \in Conns,
         fd[<<c, "read_end">>] = None, fd[<<c, "write_end">>] = None, MakePipe(c)
  PROVE  /\ HeldOnce' /\ open' \subseteq Numbers /\ fd' \in [Slots -> Numbers \cup {None}]
         /\ \A t \in Slots : t \notin Pipe(c) => fd'[t] = fd[t]
<1> DEFINE rd == <<c, "read_end">>
           wr == <<c, "write_end">>
<1>0. rd \in Slots /\ wr \in Slots /\ rd # wr /\ Pipe(c) = {rd, wr}
  BY Zenon DEF Slots, Pipe
<1>1. PICK r \in Numbers \ open, w \in Numbers \ open :
        r < w /\ open' = open \cup {r, w} /\ fd' = [fd EXCEPT ![rd] = r, ![wr] = w]
  BY Zenon DEF MakePipe
<1>a. fd[rd] = None /\ fd[wr] = None
  BY Zenon
<1> HIDE DEF rd, wr
<1>2. r # None /\ w # None /\ r # w
  BY <1>1, LimitAssumption DEF Numbers, None
<1>3. \A t \in Slots : fd'[t] = IF t = wr THEN w ELSE IF t = rd THEN r ELSE fd[t]
  BY <1>0, <1>1, Zenon DEF FdTypes
<1>4. \A t \in Slots : fd[t] # r /\ fd[t] # w
  BY <1>1, <1>2, Zenon DEF HeldOnce
<1>5. \A t, u \in Slots : fd'[t] = fd'[u] /\ fd'[t] # None => t = u
  BY <1>2, <1>3, <1>4, Zenon DEF HeldOnce
<1>6. open' = {fd'[t] : t \in Slots} \ {None}
  <2>1. \A n : n \in open <=> n # None /\ \E s \in Slots : fd[s] = n
    BY Zenon DEF HeldOnce
  <2>2. \A n : n \in open' <=> n \in open \/ n = r \/ n = w
    BY <1>1, Zenon
  <2>3. ASSUME NEW n, n # None
        PROVE  (\E s \in Slots : fd'[s] = n) <=> ((\E s \in Slots : fd[s] = n) \/ n = r \/ n = w)
    BY <1>0, <1>2, <1>3, <1>a, <2>3, Zenon
  <2> QED
    BY <1>2, <2>1, <2>2, <2>3
<1>7. fd' \in [Slots -> Numbers \cup {None}] /\ open' \subseteq Numbers
  BY <1>0, <1>1, Zenon DEF FdTypes
<1> QED
  BY <1>0, <1>3, <1>5, <1>6, <1>7, Zenon DEF HeldOnce, Slots, Conns, None

\* A call that closes the Fds S of connection c, lets its job go or not, and moves
\* its state on, provided that every Fd whose owner ends with it is in S.
LEMMA ClosingStep ==
  ASSUME FdInv, tpc \in [Conns -> {"none", "serving", "unwound", "gone"}],
         NEW c \in Conns, NEW S \in SUBSET Slots, NEW r \in SUBSET {"connection", "resolver"},
         NEW s \in States, NEW l \in [Conns -> Nat],
         Closes(S), refs' = [refs EXCEPT ![c] = r], state' = [state EXCEPT ![c] = s], left' = l,
         pc' = pc,
         tpc' = tpc \/ /\ \E u \in {"unwound", "gone"} : tpc' = [tpc EXCEPT ![c] = u]
                       /\ <<c, "client_">> \in S /\ <<c, "upstream_">> \in S,
         tpc[c] # "none",
         tpc'[c] # "serving" => s = "none",
         fd[<<c, "fd">>] # None => s = "socket" \/ <<c, "fd">> \in S,
         r # {} \/ s = "pipe" \/ Pipe(c) \subseteq S
           \/ (fd[<<c, "read_end">>] = None /\ fd[<<c, "write_end">>] = None),
         s \in {"ReadingRequest", "pipe"} => r = {}
  PROVE  FdInv'
<1> USE DEF FdInv
<1>k. \A d \in Conns, k \in Kinds : <<d, k>> \in Slots /\ <<d, k>> # Listener
  BY SlotKinds, Zenon
<1>l. Listener \in Slots
  BY SlotKinds, Zenon
<1>1. /\ HeldOnce' /\ open' \subseteq Numbers /\ fd' \in [Slots -> Numbers \cup {None}]
      /\ \A t \in Slots : fd'[t] = IF t \in S THEN None ELSE fd[t]
  BY ClosesKeeps, Zenon
<1>2. \A d \in Conns : refs'[d] = IF d = c THEN r ELSE refs[d]
  BY Zenon DEF FdTypes
<1>3. \A d \in Conns : state'[d] = IF d = c THEN s ELSE state[d]
  BY Zenon DEF FdTypes
<1>4. \A d \in Conns : d # c => tpc'[d] = tpc[d]
  BY Zenon
<1>5. FdTypes'
  BY <1>1, Zenon DEF FdTypes, Slots, Numbers, None, Conns
<1>6. Owners'
  <2>1. fd'[Listener] # None => pc' # "destroyed"
    BY <1>1, <1>l, Zenon DEF Owners
  <2>2. ASSUME NEW d \in Conns, d # c
        PROVE  /\ fd'[<<d, "client_">>] # None => tpc'[d] = "serving"
               /\ fd'[<<d, "upstream_">>] # None => tpc'[d] = "serving"
               /\ fd'[<<d, "fd">>] # None => state'[d] = "socket"
               /\ fd'[<<d, "read_end">>] # None => state'[d] = "pipe" \/ refs'[d] # {}
               /\ fd'[<<d, "write_end">>] # None => state'[d] = "pipe" \/ refs'[d] # {}
    <3>1. \A k \in Kinds : fd'[<<d, k>>] # None => fd[<<d, k>>] # None
      BY <1>1, <1>k, Zenon
    <3>2. tpc'[d] = tpc[d] /\ state'[d] = state[d] /\ refs'[d] = refs[d]
      BY <1>2, <1>3, <1>4, <2>2, Zenon
    <3> QED
      BY <3>1, <3>2, Zenon DEF Owners, Kinds
  <2>3. /\ fd'[<<c, "client_">>] # None => tpc'[c] = "serving"
        /\ fd'[<<c, "upstream_">>] # None => tpc'[c] = "serving"
    BY <1>1, <1>k, Zenon DEF Owners, Kinds
  <2>4. fd'[<<c, "fd">>] # None => state'[c] = "socket"
    BY <1>1, <1>3, <1>k, Zenon DEF Owners, Kinds
  <2>5. /\ fd'[<<c, "read_end">>] # None => state'[c] = "pipe" \/ refs'[c] # {}
        /\ fd'[<<c, "write_end">>] # None => state'[c] = "pipe" \/ refs'[c] # {}
    BY <1>1, <1>2, <1>3, <1>k, Zenon DEF Pipe, Kinds
  <2> QED
    BY <2>1, <2>2, <2>3, <2>4, <2>5, Zenon DEF Owners, Conns, None, Listener
<1>7. NoJobYet'
  <2>1. ASSUME NEW d \in Conns, tpc'[d] = "none" \/ state'[d] \in {"ReadingRequest", "pipe"}
        PROVE  refs'[d] = {}
    <3>1. CASE d = c
      <4>1. tpc'[c] # "none"
        BY Zenon
      <4> QED
        BY <1>2, <1>3, <2>1, <3>1, <4>1, Zenon
    <3>2. CASE d # c
      BY <1>2, <1>3, <1>4, <2>1, <3>2 DEF NoJobYet
    <3> QED
      BY <3>1, <3>2, Zenon
  <2> QED
    BY <2>1, Zenon DEF NoJobYet, Conns
<1>8. ServedOnly'
  BY <1>3, <1>4 DEF ServedOnly, Conns
<1> QED
  BY <1>1, <1>5, <1>6, <1>7, <1>8, Zenon

\* An Fd of connection c changes hands: nobody else's owner is affected.
LEMMA OwnersStep ==
  ASSUME Owners, NEW c \in Conns, pc' = pc, tpc' = tpc, refs' = refs,
         fd'[Listener] = fd[Listener],
         \A d \in Conns, k \in Kinds : d # c => fd'[<<d, k>>] = fd[<<d, k>>],
         \A d \in Conns : d # c => state'[d] = state[d],
         fd'[<<c, "client_">>] # None => tpc[c] = "serving",
         fd'[<<c, "upstream_">>] # None => tpc[c] = "serving",
         fd'[<<c, "fd">>] # None => state'[c] = "socket",
         fd'[<<c, "read_end">>] # None => state'[c] = "pipe" \/ refs[c] # {},
         fd'[<<c, "write_end">>] # None => state'[c] = "pipe" \/ refs[c] # {}
  PROVE  Owners'
<1>1. ASSUME NEW d \in Conns, d # c
      PROVE  /\ fd'[<<d, "client_">>] # None => tpc'[d] = "serving"
             /\ fd'[<<d, "upstream_">>] # None => tpc'[d] = "serving"
             /\ fd'[<<d, "fd">>] # None => state'[d] = "socket"
             /\ fd'[<<d, "read_end">>] # None => state'[d] = "pipe" \/ refs'[d] # {}
             /\ fd'[<<d, "write_end">>] # None => state'[d] = "pipe" \/ refs'[d] # {}
  <2>1. \A k \in Kinds : fd'[<<d, k>>] = fd[<<d, k>>]
    BY <1>1, Zenon
  <2>2. state'[d] = state[d]
    BY <1>1, Zenon
  <2> QED
    BY <2>1, <2>2, Zenon DEF Owners, Kinds
<1>2. fd'[Listener] # None => pc' # "destroyed"
  BY Zenon DEF Owners
<1> QED
  BY <1>1, <1>2, Zenon DEF Owners, Conns, None, Listener

\* What Descriptors adds does not disturb ThreadPerConn.
LEMMA Projects == [DescriptorsNext]_allVars => [Next]_vars
<1> SUFFICES ASSUME [DescriptorsNext]_allVars PROVE [Next]_vars
  BY Zenon
<1>1. CASE NoDescriptor
  BY <1>1, Zenon DEF NoDescriptor, Next, RunStep
<1>2. CASE AcceptOne \/ DestroyAll
  BY <1>2, Zenon DEF AcceptOne, DestroyAll, Next, RunStep
<1>3. ASSUME NEW c \in Conns, ThreadStep(c) PROVE [Next]_vars
  BY <1>3, Zenon DEF ThreadStep, AnswerAtOnce, Resolved, MakePipe, StartJob, StartFails,
     FinishResolve, Socket, SocketFails, Unreachable, Connects, ConnectFails,
     FinishConnect, UpstreamEnds, Finish, Unwind, Next
<1>4. ASSUME NEW c \in Conns, AnswerJob(c) \/ DropJob(c) PROVE [Next]_vars
  BY <1>4, Zenon DEF AnswerJob, DropJob
<1> QED
  BY <1>1, <1>2, <1>3, <1>4, Zenon DEF DescriptorsNext, allVars

\* The listener alone holds a number when run() begins.
LEMMA InitFdInv == DescriptorsInit => FdInv
<1> SUFFICES ASSUME DescriptorsInit PROVE FdInv
  BY Zenon
<1>1. \A s \in Slots : fd[s] = IF s = Listener THEN 1 ELSE None
  BY Zenon DEF DescriptorsInit, Listener
<1>2. FdTypes
  BY LimitAssumption DEF DescriptorsInit, FdTypes, Numbers, States
<1>3. HeldOnce
  BY <1>1, SlotKinds DEF DescriptorsInit, HeldOnce, None
<1>4. Owners
  BY <1>1, SlotKinds, Zenon DEF DescriptorsInit, Init, Owners, Kinds
<1>5. NoJobYet /\ ServedOnly
  BY Zenon DEF DescriptorsInit, NoJobYet, ServedOnly
<1> QED
  BY <1>2, <1>3, <1>4, <1>5, Zenon DEF FdInv



\* Every call of the accept loop, the threads and the resolver keeps the numbers and
\* their owners in step.
LEMMA NextFdInv == IInv /\ FdInv /\ [DescriptorsNext]_allVars => FdInv'
<1> SUFFICES ASSUME IInv, FdInv, [DescriptorsNext]_allVars PROVE FdInv'
  BY Zenon
<1> USE DEF FdInv
<1>k. \A c \in Conns, k \in Kinds : <<c, k>> \in Slots /\ <<c, k>> # Listener
  BY SlotKinds, Zenon
<1>l. Listener \in Slots
  BY SlotKinds, Zenon
<1>p. \A c \in Conns : Pipe(c) \subseteq Slots
  BY DEF Pipe, Slots
<1>t. tpc \in [Conns -> {"none", "serving", "unwound", "gone"}] /\ accepted \in 0..MaxConns
  BY Zenon DEF IInv, TypeOK
<1>1. CASE NoDescriptor \/ UNCHANGED allVars
  <2>1. UNCHANGED fdVars
    BY <1>1, Zenon DEF NoDescriptor, allVars
  <2>2. pc' = "destroyed" => pc = "destroyed"
    BY <1>1, Zenon DEF NoDescriptor, allVars, vars, Stop, CheckStop, AcceptNothing, Sleep, Return, Exited, CountOut
  <2>3. \A c \in Conns : /\ tpc[c] = "serving" => tpc'[c] = "serving"
                         /\ tpc'[c] = "none" => tpc[c] = "none"
    BY <1>1, <1>t, Zenon DEF NoDescriptor, allVars, vars, Stop, CheckStop, AcceptNothing, Sleep, Return, Exited, CountOut
  <2>4. FdTypes' /\ HeldOnce'
    BY <2>1 DEF fdVars, FdTypes, HeldOnce, Slots, Numbers, None, Conns
  <2>5. Owners'
    BY <2>1, <2>2, <2>3, Zenon DEF fdVars, Owners, Conns
  <2>6. NoJobYet' /\ ServedOnly'
    BY <2>1, <2>3, Zenon DEF fdVars, NoJobYet, ServedOnly, Conns
  <2> QED
    BY <2>4, <2>5, <2>6, Zenon
<1>2. CASE AcceptOne
  <2> DEFINE c == accepted + 1
  <2>1. c \in Conns /\ tpc[c] = "none"
    BY <1>2, <1>t, GraceAssumption DEF AcceptOne, Accept, IInv, FreshBeyondAccepted, Conns
  <2>2. tpc' = [tpc EXCEPT ![c] = "serving"] /\ pc' = "check"
    BY <1>2, Zenon DEF AcceptOne, Accept
  <2>3. Opens(<<c, "client_">>) /\ state' = [state EXCEPT ![c] = "ReadingRequest"] /\ UNCHANGED <<refs, left>>
    BY <1>2, Zenon DEF AcceptOne
  <2> HIDE DEF c
  <2>4. fd[<<c, "client_">>] = None /\ <<c, "client_">> \in Slots
    BY <2>1, <1>k, Zenon DEF Owners, Kinds
  <2>5. /\ HeldOnce' /\ open' \subseteq Numbers /\ fd' \in [Slots -> Numbers \cup {None}]
        /\ \A t \in Slots : t # <<c, "client_">> => fd'[t] = fd[t]
    BY <2>3, <2>4, OpensKeeps, Zenon
  <2>6. FdTypes'
    BY <2>1, <2>3, <2>5, Zenon DEF FdTypes, States, Slots, Numbers, None, Conns
  <2>7. Owners'
    BY <2>1, <2>2, <2>3, <2>5, <1>k, <1>l, <1>t, ZenonT(30) DEF Owners, Kinds, FdTypes, ServedOnly, Conns
  <2>8. NoJobYet' /\ ServedOnly'
    BY <2>1, <2>2, <2>3, <1>t, Zenon DEF NoJobYet, ServedOnly, FdTypes, Conns
  <2> QED
    BY <2>5, <2>6, <2>7, <2>8, Zenon
<1>3. CASE DestroyAll
  <2>1. Closes({Listener}) /\ UNCHANGED <<refs, state, left, tpc>> /\ pc' = "destroyed"
    BY <1>3, Zenon DEF DestroyAll, Destroy, Listener
  <2>2. /\ HeldOnce' /\ open' \subseteq Numbers /\ fd' \in [Slots -> Numbers \cup {None}]
        /\ \A t \in Slots : fd'[t] = IF t \in {Listener} THEN None ELSE fd[t]
    BY <2>1, <1>l, ClosesKeeps
  <2>3. FdTypes'
    BY <2>1, <2>2, Zenon DEF FdTypes, Slots, Numbers, None, Conns
  <2>4. Owners'
    BY <2>1, <2>2, <1>k, <1>l, Zenon DEF Owners, Kinds, Conns
  <2>5. NoJobYet' /\ ServedOnly'
    BY <2>1, Zenon DEF NoJobYet, ServedOnly, Conns
  <2> QED
    BY <2>2, <2>3, <2>4, <2>5, Zenon
<1>4. ASSUME NEW c \in Conns, ThreadStep(c) PROVE FdInv'
  <2> USE <1>t
  <2>s. tpc[c] = "serving"
    BY <1>4, Zenon DEF ThreadStep, AnswerAtOnce, Resolved, MakePipe, StartJob, StartFails,
       FinishResolve, Socket, SocketFails, Unreachable, Connects, ConnectFails,
       FinishConnect, UpstreamEnds, Finish, Unwind, Serving
  <2>i. UNCHANGED <<open, fd>> => Closes({})
    BY Zenon DEF Closes, FdTypes
  <2>c. /\ <<c, "client_">> \in Slots /\ <<c, "upstream_">> \in Slots /\ <<c, "fd">> \in Slots
        /\ Pipe(c) \in SUBSET Slots
    BY <1>k, <1>p, Zenon DEF Kinds
  <2>r. refs[c] \in SUBSET {"connection", "resolver"} /\ refs = [refs EXCEPT ![c] = refs[c]]
    BY Zenon DEF FdTypes
  <2>o. /\ fd[<<c, "fd">>] # None => state[c] = "socket"
        /\ refs[c] = {} /\ state[c] # "pipe" =>
             fd[<<c, "read_end">>] = None /\ fd[<<c, "write_end">>] = None
    BY Zenon DEF Owners
  <2>1. CASE AnswerAtOnce(c) \/ Unreachable(c) \/ UpstreamEnds(c)
    <3>1. /\ Closes({<<c, "upstream_">>}) /\ state' = [state EXCEPT ![c] = "Failing"]
          /\ UNCHANGED <<vars, refs, left>> /\ state[c] \notin {"socket", "pipe"}
      BY <2>1, Zenon DEF AnswerAtOnce, Unreachable, UpstreamEnds, Becomes, Serving
    <3>2. left \in [Conns -> Nat] /\ "Failing" \in States
      BY Zenon DEF FdTypes, States
    <3> QED
      BY <3>1, <3>2, <2>s, <2>c, <2>r, <2>o, ClosingStep, Zenon DEF vars
  <2>2. CASE Resolved(c)
    <3>1. /\ Closes({}) /\ state' = [state EXCEPT ![c] = "candidate"]
          /\ UNCHANGED <<vars, refs>> /\ state[c] \notin {"socket", "pipe"}
      BY <2>2, <2>i, Zenon DEF Resolved, Becomes, Serving
    <3>2. left' \in [Conns -> Nat] /\ "candidate" \in States
      BY <2>2, LimitAssumption, Zenon DEF Resolved, FdTypes, States
    <3> QED
      BY <3>1, <3>2, <2>s, <2>c, <2>r, <2>o, ClosingStep, Zenon DEF vars
  <2>3. CASE MakePipe(c)
    <3>1. state[c] = "ReadingRequest" /\ state' = [state EXCEPT ![c] = "pipe"] /\ UNCHANGED <<vars, refs, left>>
      BY <2>3, Zenon DEF MakePipe, Serving, Becomes
    <3>2. refs[c] = {}
      BY <3>1, Zenon DEF NoJobYet
    <3>3. fd[<<c, "read_end">>] = None /\ fd[<<c, "write_end">>] = None
      BY <3>1, <3>2, <2>o, Zenon
    <3>4. /\ HeldOnce' /\ open' \subseteq Numbers /\ fd' \in [Slots -> Numbers \cup {None}]
          /\ \A t \in Slots : t \notin Pipe(c) => fd'[t] = fd[t]
      BY <2>3, <3>3, MakePipeKeeps, Zenon
    <3>5. FdTypes'
      BY <3>1, <3>4, Zenon DEF FdTypes, States, Slots, Numbers, None, Conns
    <3>6. Owners'
      <4>1. \A d \in Conns, k \in Kinds : d # c \/ k \notin {"read_end", "write_end"} => fd'[<<d, k>>] = fd[<<d, k>>]
        BY <3>4, <1>k, Zenon DEF Pipe
      <4>2. fd'[Listener] = fd[Listener]
        BY <3>4, <1>l, Zenon DEF Pipe, Listener
      <4>3. pc' = pc /\ tpc' = tpc /\ refs' = refs
        BY <3>1, Zenon DEF vars
      <4>4. \A d \in Conns : state'[d] = IF d = c THEN "pipe" ELSE state[d]
        BY <3>1, Zenon DEF FdTypes
      <4>5. /\ fd[<<c, "client_">>] # None => tpc[c] = "serving"
            /\ fd[<<c, "upstream_">>] # None => tpc[c] = "serving"
            /\ fd[<<c, "fd">>] # None => state[c] = "socket"
            /\ fd[<<c, "read_end">>] # None => state[c] = "pipe" \/ refs[c] # {}
            /\ fd[<<c, "write_end">>] # None => state[c] = "pipe" \/ refs[c] # {}
        BY Zenon DEF Owners
      <4>6. /\ \A d \in Conns, k \in Kinds : d # c => fd'[<<d, k>>] = fd[<<d, k>>]
            /\ \A d \in Conns : d # c => state'[d] = state[d]
        BY <4>1, <4>4, Zenon
      <4>7. /\ fd'[<<c, "client_">>] # None => tpc[c] = "serving"
            /\ fd'[<<c, "upstream_">>] # None => tpc[c] = "serving"
            /\ fd'[<<c, "fd">>] # None => state'[c] = "socket"
            /\ fd'[<<c, "read_end">>] # None => state'[c] = "pipe" \/ refs[c] # {}
            /\ fd'[<<c, "write_end">>] # None => state'[c] = "pipe" \/ refs[c] # {}
        BY <3>1, <4>1, <4>4, <4>5, Zenon DEF Kinds
      <4> QED
        BY <4>2, <4>3, <4>6, <4>7, OwnersStep, Zenon
    <3>7. NoJobYet' /\ ServedOnly'
      BY <3>1, <3>2, <2>s, Zenon DEF NoJobYet, ServedOnly, FdTypes, vars, Conns
    <3> QED
      BY <3>4, <3>5, <3>6, <3>7, Zenon
  <2>4. CASE StartJob(c)
    <3>1. /\ Closes({}) /\ state' = [state EXCEPT ![c] = "Resolving"]
          /\ refs' = [refs EXCEPT ![c] = {"connection", "resolver"}]
          /\ UNCHANGED <<vars, left>> /\ state[c] # "socket"
      BY <2>4, <2>i, Zenon DEF StartJob, Becomes, Serving
    <3>2. left \in [Conns -> Nat] /\ "Resolving" \in States
      BY Zenon DEF FdTypes, States
    <3> QED
      BY <3>1, <3>2, <2>s, <2>c, <2>o, ClosingStep, Zenon DEF vars
  <2>5. CASE StartFails(c)
    <3>1. /\ Closes(Pipe(c)) /\ state' = [state EXCEPT ![c] = "Failing"]
          /\ UNCHANGED <<vars, refs, left>> /\ state[c] # "socket"
      BY <2>5, Zenon DEF StartFails, Becomes, Serving
    <3>2. left \in [Conns -> Nat] /\ "Failing" \in States
      BY Zenon DEF FdTypes, States
    <3> QED
      BY <3>1, <3>2, <2>s, <2>c, <2>r, <2>o, ClosingStep, Zenon DEF vars
  <2>6. CASE FinishResolve(c)
    <3>1. PICK S \in {{}, {<<c, "upstream_">>}}, s \in {"candidate", "Failing"} :
            /\ LetsGo(c, "connection", S) /\ state' = [state EXCEPT ![c] = s]
      BY <2>6, Zenon DEF FinishResolve, Becomes
    <3>2. state[c] = "Resolving" /\ left' \in [Conns -> Nat] /\ UNCHANGED vars
      BY <2>6, LimitAssumption DEF FinishResolve, Serving, FdTypes
    <3> DEFINE r == refs[c] \ {"connection"}
               T == S \cup (IF refs[c] = {"connection"} THEN Pipe(c) ELSE {})
    <3>3. refs' = [refs EXCEPT ![c] = r] /\ Closes(T)
      BY <3>1, Zenon DEF LetsGo
    <3>4. T \in SUBSET Slots /\ r \in SUBSET {"connection", "resolver"} /\ s \in States
      BY <2>c, <2>r, Zenon DEF States
    <3>5. \/ r # {} \/ Pipe(c) \subseteq T
          \/ (fd[<<c, "read_end">>] = None /\ fd[<<c, "write_end">>] = None)
      BY <2>r, <2>o, <3>2
    <3> HIDE DEF r, T
    <3> QED
      BY <3>1, <3>2, <3>3, <3>4, <3>5, <2>s, <2>o, ClosingStep, Zenon DEF vars
  <2>7. CASE Socket(c)
    <3>1. /\ state[c] = "candidate" /\ Opens(<<c, "fd">>) /\ state' = [state EXCEPT ![c] = "socket"]
          /\ UNCHANGED <<vars, refs>> /\ left' \in [Conns -> Nat]
      BY <2>7 DEF Socket, Serving, Becomes, FdTypes
    <3>2. fd[<<c, "fd">>] = None
      BY <3>1, <2>o, Zenon
    <3>3. /\ HeldOnce' /\ open' \subseteq Numbers /\ fd' \in [Slots -> Numbers \cup {None}]
          /\ \A t \in Slots : t # <<c, "fd">> => fd'[t] = fd[t]
      BY <3>1, <3>2, <2>c, OpensKeeps, Zenon
    <3>4. FdTypes'
      BY <3>1, <3>3, SMTT(30) DEF FdTypes, States, Slots, Numbers, None, Conns
    <3>5. Owners'
      <4>1. \A d \in Conns, k \in Kinds : d # c \/ k # "fd" => fd'[<<d, k>>] = fd[<<d, k>>]
        BY <3>3, <1>k, Zenon
      <4>2. fd'[Listener] = fd[Listener]
        BY <3>3, <1>l, Zenon DEF Listener
      <4>3. pc' = pc /\ tpc' = tpc /\ refs' = refs
        BY <3>1, Zenon DEF vars
      <4>4. \A d \in Conns : state'[d] = IF d = c THEN "socket" ELSE state[d]
        BY <3>1, Zenon DEF FdTypes
      <4>5. /\ fd[<<c, "client_">>] # None => tpc[c] = "serving"
            /\ fd[<<c, "upstream_">>] # None => tpc[c] = "serving"
            /\ fd[<<c, "fd">>] # None => state[c] = "socket"
            /\ fd[<<c, "read_end">>] # None => state[c] = "pipe" \/ refs[c] # {}
            /\ fd[<<c, "write_end">>] # None => state[c] = "pipe" \/ refs[c] # {}
        BY Zenon DEF Owners
      <4>6. /\ \A d \in Conns, k \in Kinds : d # c => fd'[<<d, k>>] = fd[<<d, k>>]
            /\ \A d \in Conns : d # c => state'[d] = state[d]
        BY <4>1, <4>4, Zenon
      <4>7. /\ fd'[<<c, "client_">>] # None => tpc[c] = "serving"
            /\ fd'[<<c, "upstream_">>] # None => tpc[c] = "serving"
            /\ fd'[<<c, "fd">>] # None => state'[c] = "socket"
            /\ fd'[<<c, "read_end">>] # None => state'[c] = "pipe" \/ refs[c] # {}
            /\ fd'[<<c, "write_end">>] # None => state'[c] = "pipe" \/ refs[c] # {}
        BY <3>1, <4>1, <4>4, <4>5, Zenon DEF Kinds
      <4> QED
        BY <4>2, <4>3, <4>6, <4>7, OwnersStep, Zenon
    <3>6. NoJobYet' /\ ServedOnly'
      BY <3>1, <2>s, Zenon DEF NoJobYet, ServedOnly, FdTypes, vars, Conns
    <3> QED
      BY <3>3, <3>4, <3>5, <3>6, Zenon
  <2>8. CASE SocketFails(c)
    <3>1. /\ Closes({}) /\ state' = [state EXCEPT ![c] = "candidate"]
          /\ UNCHANGED <<vars, refs>> /\ state[c] = "candidate" /\ left' \in [Conns -> Nat]
      BY <2>8, <2>i DEF SocketFails, Serving, FdTypes
    <3>2. "candidate" \in States
      BY Zenon DEF States
    <3> QED
      BY <3>1, <3>2, <2>s, <2>c, <2>r, <2>o, ClosingStep, Zenon DEF vars
  <2>9. CASE Connects(c)
    <3>1. PICK s \in {"Connecting", "Relaying"} : state' = [state EXCEPT ![c] = s]
      BY <2>9, Zenon DEF Connects, Becomes
    <3>2. /\ Moves(<<c, "fd">>, <<c, "upstream_">>) /\ UNCHANGED <<vars, refs, left>> /\ state[c] = "socket"
      BY <2>9, Zenon DEF Connects, Serving
    <3>3. /\ HeldOnce' /\ open' \subseteq Numbers /\ fd' \in [Slots -> Numbers \cup {None}]
          /\ \A t \in Slots : fd'[t] = IF t = <<c, "upstream_">> THEN fd[<<c, "fd">>]
                                       ELSE IF t = <<c, "fd">> THEN None ELSE fd[t]
      BY <3>2, <2>c, MovesKeeps
    <3>4. FdTypes'
      BY <3>1, <3>2, <3>3, Zenon DEF FdTypes, States, Slots, Numbers, None, Conns
    <3>5. Owners'
      <4>1. \A d \in Conns, k \in Kinds : d # c \/ k \notin {"fd", "upstream_"} => fd'[<<d, k>>] = fd[<<d, k>>]
        BY <3>3, <1>k, Zenon
      <4>2. fd'[Listener] = fd[Listener]
        BY <3>3, <1>l, Zenon DEF Listener
      <4>3. pc' = pc /\ tpc' = tpc /\ refs' = refs
        BY <3>2, Zenon DEF vars
      <4>4. \A d \in Conns : state'[d] = IF d = c THEN s ELSE state[d]
        BY <3>1, Zenon DEF FdTypes
      <4>5. fd'[<<c, "fd">>] = None
        BY <3>3, <2>c, Zenon
      <4>6. /\ fd[<<c, "read_end">>] # None => refs[c] # {}
            /\ fd[<<c, "write_end">>] # None => refs[c] # {}
        BY <3>2, Zenon DEF Owners
      <4> QED
        BY <4>1, <4>2, <4>3, <4>4, <4>5, <4>6, <2>s, OwnersStep, Zenon DEF Kinds
    <3>6. NoJobYet' /\ ServedOnly'
      BY <3>1, <3>2, <2>s, Zenon DEF NoJobYet, ServedOnly, FdTypes, vars, Conns
    <3> QED
      BY <3>3, <3>4, <3>5, <3>6, Zenon
  <2>10. CASE ConnectFails(c)
    <3>1. /\ Closes({<<c, "fd">>}) /\ state' = [state EXCEPT ![c] = "candidate"]
          /\ UNCHANGED <<vars, refs, left>> /\ state[c] # "pipe"
      BY <2>10, Zenon DEF ConnectFails, Becomes, Serving
    <3>2. left \in [Conns -> Nat] /\ "candidate" \in States
      BY Zenon DEF FdTypes, States
    <3> QED
      BY <3>1, <3>2, <2>s, <2>c, <2>r, <2>o, ClosingStep, Zenon DEF vars
  <2>11. CASE FinishConnect(c)
    <3>1. PICK S \in {{}, {<<c, "upstream_">>}}, s \in {"Relaying", "candidate"} :
            Closes(S) /\ state' = [state EXCEPT ![c] = s]
      BY <2>11, <2>i, Zenon DEF FinishConnect, Becomes
    <3>2. UNCHANGED <<vars, refs, left>> /\ state[c] = "Connecting"
      BY <2>11, Zenon DEF FinishConnect, Serving
    <3>3. left \in [Conns -> Nat] /\ s \in States /\ S \in SUBSET Slots
      BY <2>c, Zenon DEF FdTypes, States
    <3> QED
      BY <3>1, <3>2, <3>3, <2>s, <2>c, <2>r, <2>o, ClosingStep, Zenon DEF vars
  <2>12. CASE Finish(c) \/ Unwind(c)
    <3> DEFINE S == {<<c, "upstream_">>, <<c, "client_">>}
               r == refs[c] \ {"connection"}
               T == S \cup (IF refs[c] = {"connection"} THEN Pipe(c) ELSE {})
    <3>1. PICK s \in {"Done", "none"} : state' = [state EXCEPT ![c] = s]
                                        /\ (Finish(c) \/ (Unwind(c) /\ s = "none"))
      BY <2>12, Zenon DEF Finish, Unwind, Becomes
    <3>2. /\ LetsGo(c, "connection", S) /\ UNCHANGED <<left, pc>> /\ state[c] \notin {"socket", "pipe"}
      BY <2>12, Zenon DEF Finish, Unwind, Serving, ServeEnds, vars
    <3>3. refs' = [refs EXCEPT ![c] = r] /\ Closes(T)
      BY <3>2, Zenon DEF LetsGo
    <3>4. T \in SUBSET Slots /\ r \in SUBSET {"connection", "resolver"} /\ s \in States /\ left \in [Conns -> Nat]
      BY <2>c, <2>r DEF States, FdTypes
    <3>5. \/ r # {} \/ Pipe(c) \subseteq T
          \/ (fd[<<c, "read_end">>] = None /\ fd[<<c, "write_end">>] = None)
      BY <2>r, <2>o, <3>2
    <3>6. <<c, "client_">> \in T /\ <<c, "upstream_">> \in T
      BY Zenon
    <3>7. tpc' = tpc \/ (s = "none" /\ tpc' = [tpc EXCEPT ![c] = "unwound"])
      BY <3>1, Zenon DEF Finish, Unwind, ServeEnds, vars
    <3>8. tpc'[c] # "serving" => s = "none"
      BY <3>7, <2>s, Zenon
    <3> HIDE DEF S, r, T
    <3> QED
      BY <3>1, <3>2, <3>3, <3>4, <3>5, <3>6, <3>7, <3>8, <2>s, <2>o, ClosingStep, Zenon
  <2> QED
    BY <1>4, <2>1, <2>2, <2>3, <2>4, <2>5, <2>6, <2>7, <2>8, <2>9, <2>10, <2>11, <2>12, SMTT(30) DEF ThreadStep
<1>5. ASSUME NEW c \in Conns, AnswerJob(c) \/ DropJob(c) PROVE FdInv'
  <2> DEFINE r == refs[c] \ {"resolver"}
             T == IF refs[c] = {"resolver"} THEN Pipe(c) ELSE {}
  <2>1. /\ "resolver" \in refs[c] /\ UNCHANGED <<vars, state, left>>
        /\ refs[c] \in SUBSET {"connection", "resolver"} /\ state[c] \in States
        /\ left \in [Conns -> Nat] /\ state = [state EXCEPT ![c] = state[c]]
        /\ refs = [refs EXCEPT ![c] = refs[c]]
    BY <1>5, Zenon DEF AnswerJob, DropJob, FdTypes
  <2>2. tpc[c] # "none" /\ state[c] \notin {"ReadingRequest", "pipe"}
    BY <2>1, Zenon DEF NoJobYet
  <2>3. /\ fd[<<c, "fd">>] # None => state[c] = "socket"
        /\ tpc[c] # "serving" => state[c] = "none"
        /\ {<<c, "write_end">>} \in SUBSET Slots
    BY <1>k, Zenon DEF Owners, ServedOnly, Kinds
  <2>4. CASE AnswerJob(c)
    <3>1. Closes({<<c, "write_end">>}) /\ refs' = refs
      BY <2>4, Zenon DEF AnswerJob
    <3> QED
      BY <3>1, <2>1, <2>2, <2>3, <1>t, ClosingStep, Zenon DEF vars
  <2>5. CASE DropJob(c)
    <3>1. refs' = [refs EXCEPT ![c] = r] /\ Closes(T)
      <4>1. LetsGo(c, "resolver", {})
        BY <2>5, Zenon DEF DropJob
      <4>2. {} \cup T = T
        BY Zenon
      <4> QED
        BY <4>1, <4>2, Zenon DEF LetsGo
    <3>2. T \in SUBSET Slots /\ r \in SUBSET {"connection", "resolver"}
      BY <1>p, <2>1, Zenon
    <3>3. r # {} \/ Pipe(c) \subseteq T
      BY <2>1, Zenon
    <3> HIDE DEF r, T
    <3> QED
      BY <3>1, <3>2, <3>3, <2>1, <2>2, <2>3, <1>t, ClosingStep, Zenon DEF vars
  <2> QED
    BY <1>5, <2>4, <2>5, Zenon
<1> QED
  BY <1>1, <1>2, <1>3, <1>4, <1>5, Zenon DEF DescriptorsNext

\* Every open descriptor has exactly one owner that exists, and no number is left
\* open when its owner is gone: through every error path of the Connection, for any
\* number of connections, addresses and descriptors.
THEOREM Ownership == DescriptorsSpec => []EveryDescriptorOwned
<1>1. DescriptorsInit => IInv /\ FdInv
  BY InitIInv, InitFdInv, Zenon DEF DescriptorsInit
<1>2. IInv /\ FdInv /\ [DescriptorsNext]_allVars => IInv' /\ FdInv'
  BY NextIInv, NextFdInv, Projects, Zenon
<1>3. FdInv => EveryDescriptorOwned
  BY OwnersSuffice, Zenon DEF FdInv, HeldOnce, EveryDescriptorOwned
<1> QED
  BY <1>1, <1>2, <1>3, PTL DEF DescriptorsSpec

\* The threads and their descriptors implement the plain counter of ThreadPerConn.
THEOREM CountsAsSpecified == DescriptorsSpec => Spec
<1>1. DescriptorsInit => Init
  BY Zenon DEF DescriptorsInit
<1> QED
  BY <1>1, Projects, PTL DEF DescriptorsSpec, Spec
=============================================================================
