-------------------------- MODULE EventLoopProofs ---------------------------
(***************************************************************************)
(* That the event loop keeps one registration per connection and that no   *)
(* event outlives the connection it was reported for, with any number of   *)
(* connections, addresses and descriptors and however often a connection   *)
(* changes what it waits for.                                              *)
(*                                                                         *)
(* The invariant adds to the two properties what service() relies on: the  *)
(* connections' descriptors are apart, so that closing or disarming one    *)
(* takes no other connection's registration away; every registration is on *)
(* a descriptor that is in use, so that a number which the kernel hands    *)
(* out again has none; and between on_ready() and the new registration the *)
(* connection has at most the one that was captured before.                *)
(***************************************************************************)
EXTENDS EventLoop, TLAPS

FdsOf(a) == {client[a], upstream[a], pipe[a]} \ {NoFd}

\* The registration that live_ records for a.
Recorded(a) == <<slot[a].fd, slot[a].write, a>>

RegsOf(a) == {r \in kq : r[3] = a}

\* live_ records what is registered for a, and that is what a waits for.
InStep(a) ==
  /\ RegsOf(a) = {Recorded(a)}
  /\ slot[a].fd = WantFd(a) /\ slot[a].write = WantWrite(a) /\ slot[a].epoch = epoch[a]

DeadIsEmpty == \A a \in Addrs \ Live : want[a] = "None" /\ FdsOf(a) = {}

CurIsServed == IF pc = "rearm" THEN cur \in Live ELSE cur = "none"

FdsApart ==
  /\ \A a, b \in Addrs : a # b => FdsOf(a) \cap FdsOf(b) = {}
  /\ \A a \in Addrs : client[a] \notin held /\ upstream[a] \notin held
  /\ \A a \in Addrs : pipe[a] # NoFd => want[a] = "ReadResolver"

OthersInStep == \A a \in Live \ {cur} : InStep(a)

CurAtMostRecorded ==
  pc = "rearm" =>
    /\ \A r \in RegsOf(cur) : r = Recorded(cur)
    /\ \A b \in Addrs \ {cur} : slot[cur].fd \notin FdsOf(b)
    /\ slot[cur].epoch <= epoch[cur]
    /\ slot[cur].epoch = epoch[cur] => InStep(cur)

RegsInUse ==
  \A r \in kq : /\ r[1] \in held \cup FdsOf(r[3])
                /\ \A b \in Addrs : r[1] \in FdsOf(b) => b = r[3]

RegsAreLive == pc \notin {"clear", "returned"} => \A r \in kq : r[3] \in Live

BatchIsFresh ==
  /\ \A e \in batch : /\ e.addr \in Live /\ e.addr # cur
                      /\ slot[e.addr].id = e.id
                      /\ slot[e.addr].fd = e.fd /\ slot[e.addr].write = e.write
  /\ \A e, f \in batch : e.addr = f.addr => e = f
  /\ pc \notin {"batch", "accept", "rearm"} => batch = {}

Inv ==
  /\ TypeOK /\ DeadIsEmpty /\ CurIsServed /\ FdsApart /\ OthersInStep
  /\ CurAtMostRecorded /\ RegsInUse /\ RegsAreLive /\ BatchIsFresh

\* The invariant is what the two properties say, and more.
LEMMA InvSuffices == Inv => OneRegistration /\ EventsAreFresh
<1> SUFFICES ASSUME Inv PROVE OneRegistration /\ EventsAreFresh
  BY Zenon
<1>1. OneRegistration
  BY Zenon DEF Inv, OthersInStep, InStep, RegsOf, Recorded, RegsAreLive, OneRegistration
<1>2. EventsAreFresh
  BY Zenon DEF Inv, OthersInStep, InStep, BatchIsFresh, EventsAreFresh
<1> QED
  BY <1>1, <1>2, Zenon

\* Nothing is registered before run() begins.
LEMMA InitInv == Init => Inv
<1> SUFFICES ASSUME Init PROVE Inv
  BY Zenon
<1>1. Live = {}
  BY Zenon DEF Init, Live
<1>2. TypeOK
  <2>1. slot \in [Addrs -> [fd : Fds, write : BOOLEAN, epoch : Nat, id : 1..MaxConns] \cup {NoSlot}]
    BY Zenon DEF Init
  <2>2. want \in [Addrs -> Wants] /\ epoch \in [Addrs -> Nat]
    BY Zenon DEF Init, Wants
  <2>3. /\ client \in [Addrs -> Fds \cup {NoFd}] /\ upstream \in [Addrs -> Fds \cup {NoFd}]
        /\ pipe \in [Addrs -> Fds \cup {NoFd}]
    BY Zenon DEF Init
  <2>4. waited \in 0..GraceRounds /\ accepted \in 0..MaxConns
    BY LoopAssumption DEF Init
  <2> QED
    BY <2>1, <2>2, <2>3, <2>4, Zenon DEF Init, TypeOK
<1>3. \A a \in Addrs : FdsOf(a) = {}
  BY Zenon DEF Init, FdsOf
<1> QED
  BY <1>1, <1>2, <1>3, Zenon DEF Init, Inv, DeadIsEmpty, CurIsServed, FdsApart, OthersInStep,
     CurAtMostRecorded, RegsInUse, RegsAreLive, BatchIsFresh

\* Steps that move run() along and touch no connection.
Control ==
  \/ Stop \/ BeginAccept \/ AcceptRefused \/ AcceptEnd \/ Setup \/ PollFails
  \/ BatchDone \/ Shutdown \/ DrainOver \/ Return \/ Returned \/ UNCHANGED vars

LEMMA ControlInv == Inv /\ Control => Inv'
<1> SUFFICES ASSUME Inv, Control PROVE Inv'
  BY Zenon
<1> USE DEF Inv
<1>1. UNCHANGED <<kq, batch, cur, slot, connVars, held>>
  BY Zenon DEF Control, Stop, BeginAccept, AcceptRefused, AcceptEnd, Setup, PollFails, BatchDone,
         Shutdown, DrainOver, Return, Returned, vars, Rest
<1>2. /\ pc' = "rearm" <=> pc = "rearm"
      /\ pc' \notin {"clear", "returned"} => pc \notin {"clear", "returned"}
      /\ pc' \notin {"batch", "accept", "rearm"} => pc \notin {"batch", "accept", "rearm"} \/ batch = {}
  BY Zenon DEF Control, Stop, BeginAccept, AcceptRefused, AcceptEnd, Setup, PollFails, BatchDone,
         Shutdown, DrainOver, Return, Returned, vars
<1>3. TypeOK'
  <2>1. /\ stop' \in BOOLEAN /\ failed' \in BOOLEAN /\ draining' \in BOOLEAN /\ listening' \in BOOLEAN
        /\ pc' \in {"start", "check", "batch", "accept", "rearm", "clear", "returned"}
        /\ pending' \in BOOLEAN
    BY ZenonT(30) DEF Control, Stop, BeginAccept, AcceptRefused, AcceptEnd, Setup, PollFails, BatchDone,
           Shutdown, DrainOver, Return, Returned, vars, TypeOK, loopVars
  <2>2. waited' \in 0..GraceRounds /\ accepted' \in 0..MaxConns
    BY LoopAssumption DEF Control, Stop, BeginAccept, AcceptRefused, AcceptEnd, Setup, PollFails,
           BatchDone, Shutdown, DrainOver, Return, Returned, vars, TypeOK, loopVars, Rest
  <2> QED
    BY <1>1, <2>1, <2>2, Zenon DEF TypeOK, connVars
<1>4. Live' = Live /\ \A a \in Addrs : FdsOf(a)' = FdsOf(a) /\ (InStep(a)' <=> InStep(a))
  BY <1>1, Zenon DEF Live, FdsOf, InStep, RegsOf, Recorded, WantFd, WantWrite, connVars
<1>5. DeadIsEmpty' /\ CurIsServed' /\ FdsApart' /\ RegsInUse'
  BY <1>1, <1>2, <1>4 DEF DeadIsEmpty, CurIsServed, FdsApart, RegsInUse, connVars, TypeOK
<1>6. OthersInStep' /\ RegsAreLive' /\ BatchIsFresh'
  BY <1>1, <1>2, <1>4, Zenon DEF OthersInStep, RegsAreLive, BatchIsFresh, Live
<1>7. CurAtMostRecorded'
  BY <1>1, <1>2, <1>4, Zenon DEF CurAtMostRecorded, RegsOf, Recorded, FdsOf, connVars, CurIsServed, Live
<1> QED
  BY <1>3, <1>5, <1>6, <1>7, Zenon

\* A connection about which nothing changes stays in step.
LEMMA Kept ==
  ASSUME NEW a \in Addrs, InStep(a), RegsOf(a)' = RegsOf(a), slot'[a] = slot[a],
         want'[a] = want[a], epoch'[a] = epoch[a],
         client'[a] = client[a], upstream'[a] = upstream[a], pipe'[a] = pipe[a]
  PROVE  InStep(a)'
BY Zenon DEF InStep, Recorded, WantFd, WantWrite

\* What is registered for a connection in step is one of its own descriptors, and
\* no other's.
LEMMA OwnFd ==
  ASSUME Inv, NEW a \in Live, InStep(a)
  PROVE  slot[a].fd \in FdsOf(a) /\ \A b \in Addrs \ {a} : slot[a].fd \notin FdsOf(b)
<1>1. slot[a].fd \in Fds /\ a \in Addrs
  BY Zenon DEF Inv, TypeOK, Live
<1>2. slot[a].fd # NoFd
  BY <1>1, LoopAssumption, Zenon DEF NoFd
<1>3. slot[a].fd \in FdsOf(a)
  BY <1>2, Zenon DEF InStep, WantFd, FdsOf
<1> QED
  BY <1>1, <1>3, Zenon DEF Inv, FdsApart

\* A descriptor that is free has no registration and belongs to nobody.
LEMMA FreeFd ==
  ASSUME Inv, NEW fd \in Free
  PROVE  /\ \A r \in kq : r[1] # fd
         /\ fd \notin held /\ fd # NoFd /\ \A a \in Addrs : fd \notin FdsOf(a)
<1>1. fd \notin held /\ \A a \in Addrs : fd \notin FdsOf(a)
  BY Zenon DEF Free, Used, FdsOf
<1>2. fd # NoFd
  BY LoopAssumption, Zenon DEF Free, NoFd
<1>3. \A r \in kq : r[3] \in Addrs
  BY Zenon DEF Inv, TypeOK
<1> QED
  BY <1>1, <1>2, <1>3, Zenon DEF Inv, RegsInUse

\* kevent() reports registrations, and each is of a live connection that is in step.
LEMMA PollInv == Inv /\ Poll => Inv'
<1> SUFFICES ASSUME Inv, Poll PROVE Inv'
  BY Zenon
<1> USE DEF Inv
<1>1. PICK ready \in SUBSET kq :
        /\ batch' = {[fd |-> r[1], write |-> r[2], addr |-> r[3], id |-> slot[r[3]].id] : r \in ready}
        /\ waited' = Waited(ready)
  BY Zenon DEF Poll
<1>2. /\ pc = "check" /\ pc' = "batch" /\ cur = "none"
      /\ UNCHANGED <<stop, failed, draining, listening, kq, cur, slot, connVars, held, accepted>>
  BY Zenon DEF Poll, Rest, CurIsServed
<1>3. Live' = Live /\ \A a \in Addrs : FdsOf(a)' = FdsOf(a) /\ (InStep(a)' <=> InStep(a))
  BY <1>2, Zenon DEF Live, FdsOf, InStep, RegsOf, Recorded, WantFd, WantWrite, connVars
<1>4. ASSUME NEW r \in ready
      PROVE  /\ r[3] \in Live /\ r[3] \in Addrs /\ r[3] # cur
             /\ r[1] = slot[r[3]].fd /\ r[2] = slot[r[3]].write /\ r[1] \in Fds /\ r[2] \in BOOLEAN
             /\ slot[r[3]].id \in 0..MaxConns /\ r = Recorded(r[3])
  <2>1. r[3] \in Live /\ r[3] \in Addrs /\ r[3] # cur /\ r[1] \in Fds /\ r[2] \in BOOLEAN
    BY <1>2, LoopAssumption DEF RegsAreLive, TypeOK
  <2>2. r = Recorded(r[3])
    BY <2>1 DEF OthersInStep, InStep, RegsOf
  <2>3. slot[r[3]].id \in 0..MaxConns
    BY <2>1, LoopAssumption DEF TypeOK, NoSlot, Live
  <2> QED
    BY <2>1, <2>2, <2>3 DEF Recorded
<1>5. TypeOK'
  <2>1. waited' \in 0..GraceRounds
    BY <1>1, LoopAssumption DEF Poll, Waited, TypeOK
  <2>2. pending' \in BOOLEAN
    BY Zenon DEF Poll
  <2>3. batch' \subseteq [fd : Fds, write : BOOLEAN, addr : Addrs, id : 0..MaxConns]
    BY <1>1, <1>4
  <2> QED
    BY <1>2, <2>1, <2>2, <2>3, Zenon DEF TypeOK, connVars
<1>6. BatchIsFresh'
  <2>1. ASSUME NEW e \in batch'
        PROVE  /\ e.addr \in Live' /\ e.addr # cur'
               /\ slot'[e.addr].id = e.id
               /\ slot'[e.addr].fd = e.fd /\ slot'[e.addr].write = e.write
    <3>1. PICK r \in ready : e = [fd |-> r[1], write |-> r[2], addr |-> r[3], id |-> slot[r[3]].id]
      BY <1>1, Zenon
    <3> QED
      BY <3>1, <1>2, <1>3, <1>4, Zenon
  <2>2. ASSUME NEW e \in batch', NEW f \in batch', e.addr = f.addr PROVE e = f
    <3>1. PICK r \in ready : e = [fd |-> r[1], write |-> r[2], addr |-> r[3], id |-> slot[r[3]].id]
      BY <1>1, Zenon
    <3>2. PICK q \in ready : f = [fd |-> q[1], write |-> q[2], addr |-> q[3], id |-> slot[q[3]].id]
      BY <1>1, Zenon
    <3>3. r[3] = q[3]
      BY <2>2, <3>1, <3>2, Zenon
    <3> QED
      BY <3>1, <3>2, <3>3, <1>4, Zenon
  <2> QED
    BY <1>2, <2>1, <2>2, Zenon DEF BatchIsFresh
<1>7. DeadIsEmpty' /\ CurIsServed' /\ FdsApart' /\ RegsInUse' /\ OthersInStep' /\ RegsAreLive'
  <2>1. RegsInUse'
    BY <1>2, <1>3, Zenon DEF RegsInUse, TypeOK
  <2> QED
    BY <1>2, <1>3, <2>1, Zenon DEF DeadIsEmpty, CurIsServed, FdsApart, OthersInStep, RegsAreLive, connVars, Live
<1>8. CurAtMostRecorded'
  BY <1>2, Zenon DEF CurAtMostRecorded
<1> QED
  BY <1>5, <1>6, <1>7, <1>8, Zenon

\* The parts of a registration.
LEMMA Parts ==
  ASSUME NEW f \in Fds, NEW w \in BOOLEAN, NEW a \in Addrs, NEW r, r = <<f, w, a>>
  PROVE  r[1] = f /\ r[2] = w /\ r[3] = a /\ r \in Fds \X BOOLEAN \X Addrs
BY Zenon

\* The new connection has a free address and a free descriptor, so nothing else is
\* registered for either.
LEMMA AcceptInv ==
  ASSUME Inv, NEW a \in Addrs, NEW fd \in Fds, Accept(a, fd) PROVE Inv'
<1> USE DEF Inv
<1>1. /\ pc = "accept" /\ pc' = pc /\ cur = "none" /\ a \notin Live /\ fd \in Free
      /\ UNCHANGED <<loopVars, pending, batch, cur, upstream, pipe, held>>
  BY Zenon DEF Accept, CurIsServed
<1>2. /\ \A r \in kq : r[1] # fd
      /\ fd \notin held /\ fd # NoFd /\ \A b \in Addrs : fd \notin FdsOf(b)
  BY <1>1, FreeFd, Zenon
<1> DEFINE new == <<fd, FALSE, a>>
<1>3. kq' = kq \cup {new} /\ \A r \in kq : r[3] # a
  BY <1>1, <1>2, Zenon DEF Accept, Arm, Disarm, RegsAreLive
<1>n. new[1] = fd /\ new[3] = a /\ new \in Fds \X BOOLEAN \X Addrs
  BY Parts, Zenon
<1>4. /\ slot'[a] = [fd |-> fd, write |-> FALSE, epoch |-> 0, id |-> accepted + 1]
      /\ want'[a] = "ReadClient" /\ epoch'[a] = 0 /\ client'[a] = fd
      /\ \A b \in Addrs \ {a} : /\ slot'[b] = slot[b] /\ want'[b] = want[b]
                                /\ epoch'[b] = epoch[b] /\ client'[b] = client[b]
  BY Zenon DEF Accept, TypeOK
<1>5. TypeOK'
  <2>1. accepted' \in 0..MaxConns /\ accepted + 1 \in 1..MaxConns /\ accepted' = accepted + 1
    BY LoopAssumption DEF Accept, TypeOK
  <2>2. slot' \in [Addrs -> [fd : Fds, write : BOOLEAN, epoch : Nat, id : 1..MaxConns] \cup {NoSlot}]
    BY <2>1, Zenon DEF Accept, TypeOK
  <2>3. want' \in [Addrs -> Wants] /\ epoch' \in [Addrs -> Nat] /\ client' \in [Addrs -> Fds \cup {NoFd}]
    BY Zenon DEF Accept, TypeOK, Wants
  <2>4. kq' \subseteq Fds \X BOOLEAN \X Addrs
    <3> HIDE DEF new
    <3> QED
      BY <1>3, <1>n, Zenon DEF TypeOK
  <2> QED
    BY <1>1, <2>1, <2>2, <2>3, <2>4, Zenon DEF TypeOK, loopVars
<1>6. Live' = Live \cup {a}
  <2>1. slot'[a].id # 0
    BY <1>4, LoopAssumption DEF TypeOK, Accept
  <2>2. slot'[a] # NoSlot
    BY <2>1 DEF NoSlot
  <2>3. \A b \in Addrs \ {a} : slot'[b] = slot[b]
    BY <1>4, Zenon
  <2> QED
    BY <2>2, <2>3, Zenon DEF Live
<1>7. upstream[a] = NoFd /\ pipe[a] = NoFd
  BY <1>1, Zenon DEF DeadIsEmpty, FdsOf
<1>8. FdsOf(a)' = {fd} /\ \A b \in Addrs \ {a} : FdsOf(b)' = FdsOf(b)
  BY <1>1, <1>2, <1>4, <1>7, Zenon DEF FdsOf
<1>9. InStep(a)'
  <2>1. Recorded(a)' = new
    BY <1>4 DEF Recorded
  <2> HIDE DEF new
  <2>2. RegsOf(a)' = {new}
    BY <1>3, <1>n, Zenon DEF RegsOf
  <2>3. WantFd(a)' = fd /\ WantWrite(a)' = FALSE
    BY <1>4 DEF WantFd, WantWrite
  <2>4. slot'[a].fd = fd /\ slot'[a].write = FALSE /\ slot'[a].epoch = epoch'[a]
    BY <1>4
  <2>5. slot'[a].write = WantWrite(a)'
    BY <2>3, <2>4, Zenon
  <2> QED
    BY <2>1, <2>2, <2>3, <2>4, <2>5, Zenon DEF InStep
<1> HIDE DEF new
<1>10. ASSUME NEW b \in Live PROVE InStep(b)'
  <2>1. b \in Addrs \ {a} /\ b # cur
    BY <1>1, LoopAssumption, Zenon DEF Live
  <2>2. RegsOf(b)' = RegsOf(b)
    BY <1>3, <1>n, <2>1, Zenon DEF RegsOf
  <2> QED
    BY <1>1, <1>4, <2>1, <2>2, Kept, Zenon DEF OthersInStep
<1>11. OthersInStep' /\ DeadIsEmpty' /\ CurIsServed' /\ CurAtMostRecorded'
  BY <1>1, <1>4, <1>6, <1>8, <1>9, <1>10, Zenon DEF OthersInStep, DeadIsEmpty, CurIsServed, CurAtMostRecorded
<1>12. FdsApart'
  <2>1. \A b, c \in Addrs : b # c => FdsOf(b)' \cap FdsOf(c)' = {}
    BY <1>2, <1>8 DEF FdsApart
  <2>2. \A b \in Addrs : client'[b] \notin held' /\ upstream'[b] \notin held'
    BY <1>1, <1>2, <1>4, Zenon DEF FdsApart
  <2>3. \A b \in Addrs : pipe'[b] # NoFd => want'[b] = "ReadResolver"
    BY <1>1, <1>4, <1>7, Zenon DEF FdsApart
  <2> QED
    BY <2>1, <2>2, <2>3, Zenon DEF FdsApart, NoFd
<1>13. RegsInUse' /\ RegsAreLive'
  <2>1. ASSUME NEW r \in kq'
        PROVE  /\ r[1] \in held' \cup FdsOf(r[3])'
               /\ \A b \in Addrs : r[1] \in FdsOf(b)' => b = r[3]
    <3>1. CASE r = new
      BY <1>2, <1>n, <1>8, <3>1, Zenon
    <3>2. CASE r \in kq
      <4>1. r[3] \in Addrs \ {a} /\ r[1] # fd
        BY <1>2, <1>3, <3>2, Zenon DEF TypeOK
      <4>2. r[1] \in held \cup FdsOf(r[3]) /\ \A b \in Addrs : r[1] \in FdsOf(b) => b = r[3]
        BY <3>2, Zenon DEF RegsInUse
      <4> QED
        BY <1>1, <1>8, <4>1, <4>2, Zenon
    <3> QED
      BY <1>3, <3>1, <3>2, Zenon
  <2>2. RegsInUse'
    BY <2>1, Zenon DEF RegsInUse, FdsOf
  <2>3. RegsAreLive'
    BY <1>1, <1>3, <1>n, <1>6, Zenon DEF RegsAreLive
  <2> QED
    BY <2>2, <2>3, Zenon
<1>14. BatchIsFresh'
  <2>1. \A e \in batch : e.addr \in Addrs \ {a}
    BY <1>1, Zenon DEF BatchIsFresh, Live
  <2> QED
    BY <1>1, <1>4, <1>6, <2>1 DEF BatchIsFresh
<1> QED
  BY <1>5, <1>11, <1>12, <1>13, <1>14, Zenon

\* on_ready() that changes nothing: the connection is now the one being served.
LEMMA ServeOnly ==
  ASSUME Inv, NEW e \in batch, Service(e, <<>>, NoFd) PROVE Inv'
<1> USE DEF Inv
<1> DEFINE a == e.addr
<1>1. a \in Live /\ a \in Addrs /\ a # cur /\ cur = "none"
  BY Zenon DEF BatchIsFresh, Live, Service, CurIsServed
<1>2. /\ pc = "batch" /\ pc' = "rearm" /\ cur' = a /\ batch' = batch \ {e}
      /\ UNCHANGED <<kq, connVars, held, loopVars, pending, slot, accepted>>
  BY <1>1, Zenon DEF Service, Move
<1>3. Live' = Live /\ \A b \in Addrs : FdsOf(b)' = FdsOf(b) /\ (InStep(b)' <=> InStep(b))
  BY <1>2, Zenon DEF Live, FdsOf, InStep, RegsOf, Recorded, WantFd, WantWrite, connVars
<1>4. InStep(a) /\ \A b \in Live : InStep(b)
  BY <1>1, LoopAssumption, Zenon DEF OthersInStep, Live
<1>5. \A b \in Addrs \ {a} : slot[a].fd \notin FdsOf(b)
  BY <1>1, <1>4, OwnFd, Zenon
<1>6. TypeOK'
  BY <1>1, <1>2, Zenon DEF TypeOK, connVars, loopVars
<1>7. DeadIsEmpty' /\ CurIsServed' /\ FdsApart' /\ RegsInUse' /\ RegsAreLive'
  <2>1. RegsInUse'
    BY <1>2, <1>3 DEF RegsInUse, TypeOK
  <2> QED
    BY <1>1, <1>2, <1>3, <2>1, Zenon DEF DeadIsEmpty, CurIsServed, FdsApart, RegsAreLive, connVars
<1>8. OthersInStep'
  BY <1>3, <1>4, Zenon DEF OthersInStep, Live
<1>9. CurAtMostRecorded'
  <2>1. \A r \in RegsOf(a) : r = Recorded(a)
    BY <1>4, Zenon DEF InStep
  <2>2. RegsOf(a)' = RegsOf(a) /\ Recorded(a)' = Recorded(a)
    BY <1>2, Zenon DEF RegsOf, Recorded
  <2>3. slot'[a].epoch = epoch'[a] /\ epoch'[a] \in Nat
    BY <1>1, <1>2, <1>4, Zenon DEF InStep, connVars, TypeOK
  <2>4. slot'[a].epoch <= epoch'[a]
    BY <2>3
  <2>5. cur' = a /\ slot' = slot /\ a \in Addrs /\ InStep(a)'
    BY <1>1, <1>2, <1>3, <1>4, Zenon
  <2>6. \A b \in Addrs \ {a} : slot'[a].fd \notin FdsOf(b)'
    BY <1>3, <1>5, <2>5, Zenon
  <2> QED
    BY <2>1, <2>2, <2>4, <2>5, <2>6, Zenon DEF CurAtMostRecorded, RegsOf, Recorded
<1>10. BatchIsFresh'
  BY <1>1, <1>2, <1>3, Zenon DEF BatchIsFresh
<1> QED
  BY <1>6, <1>7, <1>8, <1>9, <1>10, Zenon

\* on_ready() that makes a move: it closes descriptors of this connection only, and
\* what it opens was free or is one that it just closed.
LEMMA ServeMove ==
  ASSUME Inv, NEW e \in batch, NEW m \in Moves, NEW fd \in Fds \cup {NoFd},
         Service(e, m, fd), m # <<>>
  PROVE  Inv'
<1> USE DEF Inv
<1> DEFINE a == e.addr
           gone == Drops((IF m[3] = "keep" THEN {} ELSE {upstream[a]})
                         \cup (IF m[1] = "ReadResolver" THEN {pipe[a]} ELSE {})
                         \cup (IF m[2] = "None" THEN {client[a]} ELSE {}))
<1>1. a \in Live /\ a \in Addrs /\ a # cur /\ cur = "none"
  BY Zenon DEF BatchIsFresh, Live, Service, CurIsServed
<1>2. /\ pc = "batch" /\ pc' = "rearm" /\ cur' = a /\ batch' = batch \ {e} /\ Move(a, m, fd)
      /\ UNCHANGED <<loopVars, pending, slot, accepted>>
  BY <1>1, Zenon DEF Service
<1>3. /\ m[1] = want[a] /\ kq' = Closed(kq, gone)
      /\ IF m[3] \in {"open", "reopen"} \/ m[2] = "ReadResolver" THEN fd \in Free \cup gone ELSE fd = NoFd
      /\ want' = [want EXCEPT ![a] = m[2]] /\ epoch' = [epoch EXCEPT ![a] = @ + 1]
      /\ upstream' = IF m[3] \in {"open", "reopen"} THEN [upstream EXCEPT ![a] = fd]
                     ELSE IF m[3] = "keep" THEN upstream ELSE [upstream EXCEPT ![a] = NoFd]
      /\ pipe' = [pipe EXCEPT ![a] = IF m[2] = "ReadResolver" THEN fd ELSE NoFd]
      /\ held' = IF m[2] = "ReadResolver" THEN held \cup {fd} ELSE held
      /\ client' = IF m[2] = "None" THEN [client EXCEPT ![a] = NoFd] ELSE client
  BY <1>2, Zenon DEF Move
<1>4. /\ m[2] \in Wants
      /\ m[2] = "ReadResolver" => m[3] = "keep" /\ m[1] = "ReadClient"
  BY DEF Moves, Wants
<1>5. /\ \A b \in Addrs \ {a} : /\ want'[b] = want[b] /\ epoch'[b] = epoch[b]
                                /\ client'[b] = client[b] /\ upstream'[b] = upstream[b]
                                /\ pipe'[b] = pipe[b]
      /\ want'[a] = m[2] /\ epoch'[a] = epoch[a] + 1
      /\ client'[a] = IF m[2] = "None" THEN NoFd ELSE client[a]
      /\ upstream'[a] = IF m[3] \in {"open", "reopen"} THEN fd
                        ELSE IF m[3] = "keep" THEN upstream[a] ELSE NoFd
      /\ pipe'[a] = IF m[2] = "ReadResolver" THEN fd ELSE NoFd
  BY <1>1, <1>3, Zenon DEF TypeOK
<1>6. gone \subseteq FdsOf(a) /\ gone \cap held = {} /\ NoFd \notin gone
  BY Zenon DEF Drops, FdsOf
<1>7. m[2] = "ReadResolver" => gone = {}
  BY <1>4, Zenon DEF Drops
<1>8. fd = NoFd \/ fd \in Free \/ fd \in gone
  BY <1>3, Zenon
<1>9. InStep(a) /\ \A b \in Live : InStep(b)
  BY <1>1, LoopAssumption, Zenon DEF OthersInStep, Live
<1>10. Live' = Live /\ \A b \in Addrs \ {a} : FdsOf(b)' = FdsOf(b)
  BY <1>2, <1>5, Zenon DEF Live, FdsOf
<1>11. \A b \in Addrs \ {a} : fd \notin FdsOf(b)
  BY <1>1, <1>6, <1>8, FreeFd, Zenon DEF FdsApart, FdsOf
<1>11a. fd # NoFd => fd \notin held
  BY <1>6, <1>8, FreeFd, Zenon
<1> HIDE DEF gone
<1>12. FdsOf(a)' \subseteq FdsOf(a) \cup ({fd} \ {NoFd})
  BY <1>5, Zenon DEF FdsOf
<1>13. TypeOK'
  <2>1. client' \in [Addrs -> Fds \cup {NoFd}] /\ upstream' \in [Addrs -> Fds \cup {NoFd}]
    BY <1>3, Zenon DEF TypeOK
  <2>2. pipe' \in [Addrs -> Fds \cup {NoFd}] /\ held' \subseteq Fds
    BY <1>3, <1>7, <1>8, Zenon DEF TypeOK, Free
  <2>3. want' \in [Addrs -> Wants] /\ epoch' \in [Addrs -> Nat]
    BY <1>3, <1>4 DEF TypeOK
  <2>4. kq' \subseteq kq
    BY <1>3, Zenon DEF Closed
  <2> QED
    BY <1>1, <1>2, <2>1, <2>2, <2>3, <2>4, Zenon DEF TypeOK, loopVars
<1>14. FdsApart'
  <2>1. ASSUME NEW b \in Addrs, NEW c \in Addrs, b # c PROVE FdsOf(b)' \cap FdsOf(c)' = {}
    <3>1. FdsOf(b) \cap FdsOf(c) = {}
      BY <2>1, Zenon DEF FdsApart
    <3> QED
      BY <2>1, <3>1, <1>10, <1>11, <1>12
  <2>2. \A b \in Addrs : client'[b] \notin held /\ upstream'[b] \notin held
    BY <1>5, <1>11a, LoopAssumption DEF FdsApart, TypeOK, NoFd
  <2>3. m[2] = "ReadResolver" => fd \in Free
    BY <1>3, <1>7, Zenon
  <2>4. m[2] = "ReadResolver" => client' = client /\ upstream' = upstream
    BY <1>3, <1>4, Zenon
  <2>5. m[2] = "ReadResolver" => \A b \in Addrs : client[b] # fd /\ upstream[b] # fd
    BY <2>3 DEF Free, Used
  <2>6. \A b \in Addrs : client'[b] \notin held' /\ upstream'[b] \notin held'
    BY <1>3, <2>2, <2>4, <2>5
  <2>7. \A b \in Addrs : pipe'[b] # NoFd => want'[b] = "ReadResolver"
    BY <1>5, Zenon DEF FdsApart
  <2> QED
    BY <2>1, <2>6, <2>7, Zenon DEF FdsApart, NoFd
<1>15. OthersInStep'
  <2> SUFFICES ASSUME NEW b \in Live, b # a PROVE InStep(b)'
    BY <1>2, <1>10, Zenon DEF OthersInStep
  <2>1. b \in Addrs \ {a} /\ InStep(b)
    BY <1>9, Zenon DEF Live
  <2>2. slot[b].fd \notin gone
    BY <1>1, <1>6, <2>1, OwnFd, Zenon
  <2>3. \A r \in RegsOf(b) : r[1] = slot[b].fd
    BY <2>1 DEF InStep, Recorded
  <2>4. RegsOf(b)' = RegsOf(b)
    BY <1>3, <2>2, <2>3, Zenon DEF RegsOf, Closed
  <2> QED
    BY <1>2, <1>5, <2>1, <2>4, Kept, Zenon
<1>16. CurAtMostRecorded'
  <2>1. \A r \in RegsOf(a) : r = Recorded(a)
    BY <1>9, Zenon DEF InStep
  <2>2. RegsOf(a)' \subseteq RegsOf(a) /\ Recorded(a)' = Recorded(a)
    BY <1>2, <1>3, Zenon DEF RegsOf, Recorded, Closed
  <2>3. slot'[a].epoch = epoch[a] /\ epoch[a] \in Nat /\ epoch'[a] = epoch[a] + 1
    <3>1. slot'[a].epoch = epoch[a]
      BY <1>2, <1>9, Zenon DEF InStep
    <3> QED
      BY <1>1, <1>5, <3>1, Zenon DEF TypeOK
  <2>4. slot'[a].epoch <= epoch'[a] /\ slot'[a].epoch # epoch'[a]
    <3>1. \A n \in Nat : n <= n + 1 /\ n # n + 1
      OBVIOUS
    <3> HIDE DEF a
    <3> QED
      BY <2>3, <3>1, Zenon
  <2>5. \A b \in Addrs \ {a} : slot'[a].fd \notin FdsOf(b)'
    BY <1>1, <1>2, <1>9, <1>10, OwnFd
  <2> QED
    BY <1>2, <2>1, <2>2, <2>4, <2>5, Zenon DEF CurAtMostRecorded, RegsOf, Recorded
<1>17. RegsInUse'
  <2> SUFFICES ASSUME NEW r \in kq'
               PROVE  /\ r[1] \in held' \cup FdsOf(r[3])'
                      /\ \A b \in Addrs : r[1] \in FdsOf(b)' => b = r[3]
    BY Zenon DEF RegsInUse, FdsOf
  <2>1. /\ r \in kq /\ r[1] \notin gone /\ r[3] \in Addrs /\ r[1] \in held \cup FdsOf(r[3])
        /\ \A b \in Addrs : r[1] \in FdsOf(b) => b = r[3]
    BY <1>3, Zenon DEF Closed, RegsInUse, TypeOK
  <2>0. \A b \in Addrs : r[1] \in FdsOf(b)' => b = r[3]
    <3>1. fd # NoFd => r[1] # fd
      BY <1>8, <2>1, FreeFd, Zenon
    <3>2. r[1] \in FdsOf(a)' => r[1] \in FdsOf(a)
      BY <1>12, <3>1, Zenon
    <3> QED
      BY <1>10, <2>1, <3>2, Zenon
  <2>2. CASE r[1] \in held
    BY <1>3, <2>0, <2>2, Zenon
  <2>3. CASE r[1] \in FdsOf(r[3]) /\ r[3] # a
    BY <1>10, <2>0, <2>1, <2>3, Zenon
  <2>4. ASSUME r[1] \in FdsOf(a), r[3] = a, r[1] \notin held PROVE r[1] \in FdsOf(r[3])'
    <3>1. CASE r[1] = client[a]
      <4>1. m[2] # "None"
        BY <2>1, <2>4, <3>1, Zenon DEF gone, Drops, FdsOf
      <4> QED
        BY <1>5, <2>4, <3>1, <4>1, Zenon DEF FdsOf
    <3>2. CASE r[1] = upstream[a]
      <4>1. m[3] = "keep"
        BY <2>1, <2>4, <3>2, Zenon DEF gone, Drops, FdsOf
      <4> QED
        BY <1>5, <2>4, <3>2, <4>1, Zenon DEF FdsOf
    <3>3. CASE r[1] = pipe[a]
      <4>1. m[1] = "ReadResolver"
        BY <1>1, <1>3, <2>4, <3>3, Zenon DEF FdsApart, FdsOf
      <4> QED
        BY <2>1, <2>4, <3>3, <4>1, Zenon DEF gone, Drops, FdsOf
    <3> QED
      BY <2>4, <3>1, <3>2, <3>3, Zenon DEF FdsOf
  <2> QED
    BY <2>0, <2>1, <2>2, <2>3, <2>4, Zenon
<1>18. DeadIsEmpty' /\ CurIsServed' /\ RegsAreLive'
  <2>1. kq' \subseteq kq
    BY <1>3, Zenon DEF Closed
  <2>2. DeadIsEmpty'
    BY <1>1, <1>2, <1>5, <1>10, ZenonT(30) DEF DeadIsEmpty
  <2>3. CurIsServed' /\ RegsAreLive'
    BY <1>1, <1>2, <1>10, <2>1, Zenon DEF CurIsServed, RegsAreLive
  <2> QED
    BY <2>2, <2>3, Zenon
<1>19. BatchIsFresh'
  BY <1>1, <1>2, <1>10, Zenon DEF BatchIsFresh
<1> QED
  BY <1>13, <1>14, <1>15, <1>16, <1>17, <1>18, <1>19, Zenon

\* A connection is destroyed: the descriptors that go with it are its own, so the
\* others keep their registrations, if taking its old one away did not touch them.
LEMMA Destroyed ==
  ASSUME Inv, NEW a \in Live, NEW regs, regs \subseteq kq, Destroy(a, regs), UNCHANGED held,
         \A b \in Live \ {a} : InStep(b) /\ {r \in regs : r[3] = b} = RegsOf(b)
  PROVE  /\ Live' = Live \ {a} /\ \A b \in Live \ {a} : slot'[b] = slot[b] /\ InStep(b)'
         /\ DeadIsEmpty' /\ FdsApart' /\ RegsInUse' /\ kq' \subseteq regs
         /\ slot' \in [Addrs -> [fd : Fds, write : BOOLEAN, epoch : Nat, id : 1..MaxConns] \cup {NoSlot}]
         /\ want' \in [Addrs -> Wants] /\ epoch' \in [Addrs -> Nat]
         /\ client' \in [Addrs -> Fds \cup {NoFd}]
         /\ upstream' \in [Addrs -> Fds \cup {NoFd}]
         /\ pipe' \in [Addrs -> Fds \cup {NoFd}]
<1> USE DEF Inv
<1> DEFINE gone == Drops({client[a], upstream[a], pipe[a]})
<1>0. a \in Addrs
  BY Zenon DEF Live
<1>1. /\ kq' = Closed(regs, gone) /\ kq' \subseteq regs
      /\ slot' = [slot EXCEPT ![a] = NoSlot]
      /\ want' = [want EXCEPT ![a] = "None"] /\ epoch' = [epoch EXCEPT ![a] = 0]
      /\ client' = [client EXCEPT ![a] = NoFd] /\ upstream' = [upstream EXCEPT ![a] = NoFd]
      /\ pipe' = [pipe EXCEPT ![a] = NoFd]
  BY Zenon DEF Destroy, Closed
<1>2. /\ slot'[a] = NoSlot /\ want'[a] = "None"
      /\ client'[a] = NoFd /\ upstream'[a] = NoFd /\ pipe'[a] = NoFd
      /\ \A b \in Addrs \ {a} : /\ slot'[b] = slot[b] /\ want'[b] = want[b] /\ epoch'[b] = epoch[b]
                                /\ client'[b] = client[b] /\ upstream'[b] = upstream[b]
                                /\ pipe'[b] = pipe[b]
  BY <1>0, <1>1, Zenon DEF TypeOK
<1>3. Live' = Live \ {a}
  BY <1>2, Zenon DEF Live
<1>4. FdsOf(a)' = {} /\ \A b \in Addrs \ {a} : FdsOf(b)' = FdsOf(b)
  BY <1>2, Zenon DEF FdsOf
<1>5. gone = FdsOf(a) \ held
  BY Zenon DEF Drops, FdsOf
<1> HIDE DEF gone
<1>6. ASSUME NEW b \in Live \ {a} PROVE slot'[b] = slot[b] /\ InStep(b)'
  <2>1. b \in Addrs \ {a} /\ InStep(b)
    BY Zenon DEF Live
  <2>2. slot[b].fd \notin gone
    BY <1>0, <1>5, <2>1, OwnFd, Zenon
  <2>3. \A r \in RegsOf(b) : r[1] = slot[b].fd
    BY <2>1 DEF InStep, Recorded
  <2>4. RegsOf(b)' = {r \in regs : r[3] = b /\ r[1] \notin gone}
    BY <1>1, Zenon DEF RegsOf, Closed
  <2>5. RegsOf(b)' = RegsOf(b)
    BY <2>2, <2>3, <2>4, Zenon
  <2> QED
    BY <1>2, <2>1, <2>5, Kept, Zenon
<1>7. DeadIsEmpty'
  BY <1>2, <1>3, <1>4, Zenon DEF DeadIsEmpty
<1>8. FdsApart'
  <2>1. \A b, c \in Addrs : b # c => FdsOf(b)' \cap FdsOf(c)' = {}
    BY <1>4, Zenon DEF FdsApart
  <2>2. NoFd \notin held
    BY LoopAssumption, Zenon DEF TypeOK, NoFd
  <2>3. \A b \in Addrs : client'[b] \notin held' /\ upstream'[b] \notin held'
    BY <1>2, <2>2 DEF FdsApart
  <2>4. \A b \in Addrs : pipe'[b] # NoFd => want'[b] = "ReadResolver"
    BY <1>2, Zenon DEF FdsApart
  <2> QED
    BY <2>1, <2>3, <2>4, Zenon DEF FdsApart, NoFd
<1>9. RegsInUse'
  <2> SUFFICES ASSUME NEW r \in kq'
               PROVE  /\ r[1] \in held' \cup FdsOf(r[3])'
                      /\ \A b \in Addrs : r[1] \in FdsOf(b)' => b = r[3]
    BY Zenon DEF RegsInUse, FdsOf
  <2>1. /\ r \in kq /\ r[1] \notin gone /\ r[3] \in Addrs /\ r[1] \in held \cup FdsOf(r[3])
        /\ \A b \in Addrs : r[1] \in FdsOf(b) => b = r[3]
    BY <1>1 DEF Closed, RegsInUse, TypeOK
  <2> QED
    BY <1>4, <1>5, <2>1, Zenon
<1>10. /\ slot' \in [Addrs -> [fd : Fds, write : BOOLEAN, epoch : Nat, id : 1..MaxConns] \cup {NoSlot}]
       /\ epoch' \in [Addrs -> Nat]
  BY <1>1, Zenon DEF TypeOK
<1>11. want' \in [Addrs -> Wants]
  BY <1>1, Zenon DEF TypeOK, Wants
<1>12. /\ client' \in [Addrs -> Fds \cup {NoFd}] /\ upstream' \in [Addrs -> Fds \cup {NoFd}]
       /\ pipe' \in [Addrs -> Fds \cup {NoFd}]
  BY <1>1, Zenon DEF TypeOK
<1> QED
  BY <1>1, <1>3, <1>6, <1>7, <1>8, <1>9, <1>10, <1>11, <1>12, Zenon

\* disarm(old_fd, old_write) takes the served connection's registration, whether its
\* descriptor is still open or not, and no other connection's.
LEMMA OldTaken ==
  ASSUME Inv, pc = "rearm"
  PROVE  /\ \A r \in WithoutOld(cur) : r \in kq /\ r[3] # cur
         /\ \A b \in Live \ {cur} : InStep(b) /\ {r \in WithoutOld(cur) : r[3] = b} = RegsOf(b)
<1> USE DEF Inv
<1>1. ASSUME NEW r \in WithoutOld(cur) PROVE r \in kq /\ r[3] # cur
  <2>1. r \in kq /\ ~(r[1] = slot[cur].fd /\ r[2] = slot[cur].write)
    BY Zenon DEF WithoutOld, Disarm
  <2>2. r[3] = cur => r = Recorded(cur)
    BY <2>1, Zenon DEF CurAtMostRecorded, RegsOf
  <2> QED
    BY <2>1, <2>2 DEF Recorded
<1>2. ASSUME NEW b \in Live \ {cur}
      PROVE  InStep(b) /\ {r \in WithoutOld(cur) : r[3] = b} = RegsOf(b)
  <2>1. b \in Addrs /\ InStep(b)
    BY Zenon DEF OthersInStep, Live
  <2>2. slot[b].fd \in FdsOf(b)
    BY <2>1, OwnFd, Zenon
  <2>3. slot[b].fd # slot[cur].fd
    BY <2>1, <2>2, Zenon DEF CurAtMostRecorded
  <2>4. \A r \in RegsOf(b) : r[1] = slot[b].fd
    BY <2>1 DEF InStep, Recorded
  <2> QED
    BY <2>1, <2>3, <2>4, Zenon DEF RegsOf, WithoutOld, Disarm
<1> QED
  BY <1>1, <1>2, Zenon

\* The served connection is done, or cannot be registered again.
LEMMA EndInv == Inv /\ (ServiceDone \/ ServiceRearmFails) => Inv'
<1> SUFFICES ASSUME Inv, ServiceDone \/ ServiceRearmFails PROVE Inv'
  BY Zenon
<1> USE DEF Inv
<1>1. /\ pc = "rearm" /\ pc' = "batch" /\ cur' = "none" /\ cur \in Live
      /\ Destroy(cur, WithoutOld(cur))
      /\ UNCHANGED <<loopVars, pending, batch, held, accepted>>
  BY Zenon DEF ServiceDone, ServiceRearmFails, CurIsServed
<1>2. /\ \A r \in WithoutOld(cur) : r \in kq /\ r[3] # cur
      /\ \A b \in Live \ {cur} : InStep(b) /\ {r \in WithoutOld(cur) : r[3] = b} = RegsOf(b)
  BY <1>1, OldTaken, Zenon
<1>3. WithoutOld(cur) \subseteq kq /\ held' = held
  BY <1>1, <1>2, Zenon
<1>4. /\ Live' = Live \ {cur} /\ \A b \in Live \ {cur} : slot'[b] = slot[b] /\ InStep(b)'
      /\ DeadIsEmpty' /\ FdsApart' /\ RegsInUse' /\ kq' \subseteq WithoutOld(cur)
      /\ slot' \in [Addrs -> [fd : Fds, write : BOOLEAN, epoch : Nat, id : 1..MaxConns] \cup {NoSlot}]
      /\ want' \in [Addrs -> Wants] /\ epoch' \in [Addrs -> Nat]
      /\ client' \in [Addrs -> Fds \cup {NoFd}]
      /\ upstream' \in [Addrs -> Fds \cup {NoFd}]
      /\ pipe' \in [Addrs -> Fds \cup {NoFd}]
  BY <1>1, <1>2, <1>3, Destroyed, Zenon
<1>5. kq' \subseteq kq
  BY <1>3, <1>4, Zenon
<1>6. TypeOK'
  BY <1>1, <1>4, <1>5, Zenon DEF TypeOK, loopVars
<1>7. OthersInStep' /\ CurIsServed' /\ CurAtMostRecorded' /\ RegsAreLive'
  BY <1>1, <1>2, <1>4, Zenon DEF OthersInStep, CurIsServed, CurAtMostRecorded, RegsAreLive
<1>8. BatchIsFresh'
  BY <1>1, <1>4, LoopAssumption, ZenonT(30) DEF BatchIsFresh, Live
<1> QED
  BY <1>4, <1>6, <1>7, <1>8, Zenon

\* live_.clear() destroys one connection after the other.
LEMMA ClearInv ==
  ASSUME Inv, NEW a \in Addrs, Clear(a) PROVE Inv'
<1> USE DEF Inv
<1>1. /\ pc = "clear" /\ pc' = "clear" /\ cur = "none" /\ cur' = "none" /\ a \in Live /\ Destroy(a, kq)
      /\ batch = {} /\ UNCHANGED <<loopVars, pending, batch, held, accepted>>
  BY Zenon DEF Clear, CurIsServed, BatchIsFresh
<1>2. \A b \in Live \ {a} : InStep(b) /\ {r \in kq : r[3] = b} = RegsOf(b)
  BY <1>1, LoopAssumption, Zenon DEF OthersInStep, RegsOf, Live
<1>3. held' = held /\ kq \subseteq kq
  BY <1>1, Zenon
<1>4. /\ Live' = Live \ {a} /\ \A b \in Live \ {a} : slot'[b] = slot[b] /\ InStep(b)'
      /\ DeadIsEmpty' /\ FdsApart' /\ RegsInUse' /\ kq' \subseteq kq
      /\ slot' \in [Addrs -> [fd : Fds, write : BOOLEAN, epoch : Nat, id : 1..MaxConns] \cup {NoSlot}]
      /\ want' \in [Addrs -> Wants] /\ epoch' \in [Addrs -> Nat]
      /\ client' \in [Addrs -> Fds \cup {NoFd}]
      /\ upstream' \in [Addrs -> Fds \cup {NoFd}]
      /\ pipe' \in [Addrs -> Fds \cup {NoFd}]
  BY <1>1, <1>2, <1>3, Destroyed, Zenon
<1>5. TypeOK'
  BY <1>1, <1>4, Zenon DEF TypeOK, loopVars
<1>6. OthersInStep' /\ CurIsServed' /\ CurAtMostRecorded' /\ RegsAreLive' /\ BatchIsFresh'
  BY <1>1, <1>4, Zenon DEF OthersInStep, CurIsServed, CurAtMostRecorded, RegsAreLive, BatchIsFresh
<1> QED
  BY <1>4, <1>5, <1>6, Zenon

\* An unchanged epoch means that nothing moved, so the old registration stands.
LEMMA SameInv == Inv /\ ServiceSame => Inv'
<1> SUFFICES ASSUME Inv, ServiceSame PROVE Inv'
  BY Zenon
<1> USE DEF Inv
<1>1. /\ pc = "rearm" /\ pc' = "batch" /\ cur' = "none" /\ cur \in Live /\ ~Changed(cur)
      /\ UNCHANGED <<loopVars, kq, pending, batch, slot, connVars, held, accepted>>
  BY Zenon DEF ServiceSame, CurIsServed
<1>2. \A b \in Live : InStep(b)
  BY <1>1, Zenon DEF OthersInStep, CurAtMostRecorded, Changed
<1>3. Live' = Live /\ \A b \in Addrs : FdsOf(b)' = FdsOf(b) /\ (InStep(b)' <=> InStep(b))
  BY <1>1, Zenon DEF Live, FdsOf, InStep, RegsOf, Recorded, WantFd, WantWrite, connVars
<1>4. TypeOK'
  BY <1>1, Zenon DEF TypeOK, loopVars, connVars
<1>5. OthersInStep'
  BY <1>2, <1>3, Zenon DEF OthersInStep, Live
<1>6. DeadIsEmpty' /\ CurIsServed' /\ FdsApart' /\ CurAtMostRecorded' /\ RegsInUse' /\ RegsAreLive'
  <2>1. DeadIsEmpty' /\ CurIsServed' /\ CurAtMostRecorded' /\ RegsAreLive'
    BY <1>1, <1>3, Zenon DEF DeadIsEmpty, CurIsServed, CurAtMostRecorded, RegsAreLive, connVars
  <2>2. FdsApart'
    BY <1>1, <1>3, Zenon DEF FdsApart, connVars
  <2>3. \A r \in kq : r[3] \in Addrs
    BY Zenon DEF TypeOK
  <2>4. kq' = kq /\ held' = held
    BY <1>1, Zenon
  <2>5. RegsInUse'
    BY <1>3, <2>3, <2>4, Zenon DEF RegsInUse
  <2> QED
    BY <2>1, <2>2, <2>5, Zenon
<1>7. BatchIsFresh'
  BY <1>1, <1>3, LoopAssumption, Zenon DEF BatchIsFresh, Live
<1> QED
  BY <1>4, <1>5, <1>6, <1>7, Zenon

\* The old registration is taken away and the one the connection now waits for is
\* made, on a descriptor of its own.
LEMMA RearmInv == Inv /\ ServiceRearm => Inv'
<1> SUFFICES ASSUME Inv, ServiceRearm PROVE Inv'
  BY Zenon
<1> USE DEF Inv
<1> DEFINE new == <<WantFd(cur), WantWrite(cur), cur>>
<1>1. /\ pc = "rearm" /\ pc' = "batch" /\ cur' = "none" /\ cur \in Live /\ cur \in Addrs
      /\ WantFd(cur) # NoFd
      /\ UNCHANGED <<loopVars, pending, batch, connVars, held, accepted>>
      /\ kq' = Disarm(WithoutOld(cur), WantFd(cur), WantWrite(cur)) \cup {new}
  BY Zenon DEF ServiceRearm, CurIsServed, Arm, Live
<1>2. WantFd(cur) \in FdsOf(cur) /\ WantFd(cur) \in Fds /\ WantWrite(cur) \in BOOLEAN
  <2>1. /\ client[cur] \in Fds \cup {NoFd} /\ upstream[cur] \in Fds \cup {NoFd}
        /\ pipe[cur] \in Fds \cup {NoFd} /\ WantFd(cur) # NoFd
    BY <1>1, Zenon DEF TypeOK
  <2>2. WantFd(cur) \in FdsOf(cur) /\ WantFd(cur) \in Fds
    BY <2>1, Zenon DEF WantFd, FdsOf
  <2> QED
    BY <2>2 DEF WantWrite
<1>3. new[1] = WantFd(cur) /\ new[3] = cur /\ new \in Fds \X BOOLEAN \X Addrs
  BY <1>1, <1>2, Parts, Zenon
<1>4. /\ slot'[cur] = [fd |-> WantFd(cur), write |-> WantWrite(cur), epoch |-> epoch[cur],
                       id |-> slot[cur].id]
      /\ \A b \in Addrs \ {cur} : slot'[b] = slot[b]
  BY <1>1, Zenon DEF ServiceRearm, TypeOK
<1>5. slot[cur].id \in 1..MaxConns /\ epoch[cur] \in Nat
  BY <1>1, Zenon DEF TypeOK, Live
<1>6. slot' \in [Addrs -> [fd : Fds, write : BOOLEAN, epoch : Nat, id : 1..MaxConns] \cup {NoSlot}]
  BY <1>1, <1>2, <1>5, Zenon DEF ServiceRearm, TypeOK
<1>7. /\ \A r \in WithoutOld(cur) : r \in kq /\ r[3] # cur
      /\ \A b \in Live \ {cur} : InStep(b) /\ {r \in WithoutOld(cur) : r[3] = b} = RegsOf(b)
  BY <1>1, OldTaken, Zenon
<1>8. Live' = Live
  <2>1. slot'[cur].id = slot[cur].id
    BY <1>4
  <2>2. \A n \in 1..MaxConns : n # 0
    BY LoopAssumption
  <2>3. slot'[cur] # NoSlot
    BY <1>5, <2>1, <2>2 DEF NoSlot
  <2>4. cur \in Live /\ \A b \in Addrs \ {cur} : slot'[b] = slot[b]
    BY <1>1, <1>4, Zenon
  <2> QED
    BY <2>3, <2>4, Zenon DEF Live
<1>9. \A b \in Addrs : FdsOf(b)' = FdsOf(b)
  BY <1>1, Zenon DEF FdsOf, connVars
<1>11. \A r \in kq' : r = new \/ (r \in WithoutOld(cur) /\ r \in kq /\ r[3] # cur)
  BY <1>1, <1>7, Zenon DEF Disarm
<1>12. ASSUME NEW a \in Addrs, a = cur PROVE InStep(a)'
  <2>0. slot'[a].fd = WantFd(cur) /\ slot'[a].write = WantWrite(cur) /\ slot'[a].epoch = epoch[cur]
    <3> DEFINE rec == [fd |-> WantFd(cur), write |-> WantWrite(cur), epoch |-> epoch[cur], id |-> slot[cur].id]
    <3>1. slot'[a] = rec
      BY <1>4, <1>12, Zenon
    <3>2. rec.fd = WantFd(cur) /\ rec.write = WantWrite(cur) /\ rec.epoch = epoch[cur]
      BY Zenon
    <3> HIDE DEF rec
    <3> QED
      BY <3>1, <3>2, Zenon
  <2>1. Recorded(a)' = new
    BY <1>12, <2>0, Zenon DEF Recorded
  <2>2. WantFd(a)' = WantFd(cur) /\ WantWrite(a)' = WantWrite(cur) /\ epoch'[a] = epoch[cur]
    BY <1>1, <1>12, Zenon DEF WantFd, WantWrite, connVars
  <2>3. slot'[a].fd = WantFd(a)' /\ slot'[a].epoch = epoch'[a]
    BY <2>0, <2>2, Zenon
  <2>4. slot'[a].write = WantWrite(a)'
    BY <2>0, <2>2, Zenon
  <2> HIDE DEF new
  <2>5. RegsOf(a)' = {new}
    BY <1>1, <1>3, <1>11, <1>12, Zenon DEF RegsOf
  <2> QED
    BY <2>1, <2>3, <2>4, <2>5, Zenon DEF InStep
<1> HIDE DEF new
<1>13. ASSUME NEW b \in Live \ {cur} PROVE InStep(b)'
  <2>1. b \in Addrs \ {cur} /\ InStep(b)
    BY <1>7, Zenon DEF Live
  <2>2. slot[b].fd # WantFd(cur)
    BY <1>1, <1>2, <2>1, OwnFd
  <2>3. \A r \in RegsOf(b) : r[1] = slot[b].fd /\ r[3] = b /\ r \in WithoutOld(cur)
    <3>1. \A r \in RegsOf(b) : r \in WithoutOld(cur) /\ r[3] = b
      BY <1>7, Zenon
    <3>2. \A r \in RegsOf(b) : r[1] = slot[b].fd
      BY <2>1 DEF InStep, Recorded
    <3> QED
      BY <3>1, <3>2, Zenon
  <2>4. RegsOf(b)' = {r \in kq' : r[3] = b}
    BY Zenon DEF RegsOf
  <2>5. RegsOf(b)' \subseteq RegsOf(b)
    BY <1>3, <1>11, <2>1, <2>4, Zenon DEF RegsOf
  <2>6. RegsOf(b) \subseteq RegsOf(b)'
    BY <1>1, <2>2, <2>3, <2>4, Zenon DEF Disarm
  <2>7. RegsOf(b)' = RegsOf(b)
    BY <2>5, <2>6, Zenon
  <2> QED
    BY <1>1, <1>4, <2>1, <2>7, Kept, Zenon DEF connVars
<1>14. TypeOK'
  <2>1. kq' \subseteq Fds \X BOOLEAN \X Addrs
    BY <1>3, <1>11, Zenon DEF TypeOK
  <2> QED
    BY <1>1, <1>6, <2>1, Zenon DEF TypeOK, loopVars, connVars
<1>15. OthersInStep' /\ CurIsServed' /\ CurAtMostRecorded'
  BY <1>1, <1>8, <1>12, <1>13, Zenon DEF OthersInStep, CurIsServed, CurAtMostRecorded
<1>16. DeadIsEmpty' /\ FdsApart'
  BY <1>1, <1>8, <1>9, Zenon DEF DeadIsEmpty, FdsApart, connVars
<1>17. RegsInUse' /\ RegsAreLive'
  <2>1. \A b \in Addrs : WantFd(cur) \in FdsOf(b) => b = cur
    BY <1>1, <1>2, Zenon DEF FdsApart
  <2>2. cur \in Live /\ held' = held /\ (pc' \notin {"clear", "returned"} /\ pc \notin {"clear", "returned"})
    BY <1>1, Zenon
  <2>3. \A r \in kq : r[3] \in Addrs
    BY Zenon DEF TypeOK
  <2>4. RegsInUse'
    BY <1>1, <1>2, <1>3, <1>9, <1>11, <2>1, <2>2, <2>3 DEF RegsInUse
  <2>5. RegsAreLive'
    BY <1>3, <1>8, <1>11, <2>2, Zenon DEF RegsAreLive
  <2> QED
    BY <2>4, <2>5, Zenon
<1>18. BatchIsFresh'
  <2>1. \A e \in batch : e.addr \in Addrs \ {cur} /\ e.addr # "none"
    BY LoopAssumption, Zenon DEF BatchIsFresh, Live
  <2> QED
    BY <1>1, <1>4, <1>8, <2>1, ZenonT(30) DEF BatchIsFresh
<1> QED
  BY <1>14, <1>15, <1>16, <1>17, <1>18, Zenon

\* The last holder of a job closes its pipe, which no connection waits on any more.
LEMMA ReleaseInv ==
  ASSUME Inv, NEW fd \in Fds, JobReleased(fd) PROVE Inv'
<1> USE DEF Inv
<1>1. /\ fd \in held /\ held' = held \ {fd}
      /\ UNCHANGED <<loopVars, pc, pending, batch, cur, slot, connVars, accepted>>
      /\ kq' = IF \E a \in Addrs : pipe[a] = fd THEN kq ELSE Closed(kq, {fd})
  BY Zenon DEF JobReleased
<1>2. kq' \subseteq kq /\ Live' = Live /\ \A b \in Addrs : FdsOf(b)' = FdsOf(b)
  BY <1>1, Zenon DEF Closed, Live, FdsOf, connVars
<1>3. kq' # kq => \A b \in Addrs : fd \notin FdsOf(b)
  BY <1>1, Zenon DEF FdsOf, FdsApart
<1>4. \A r \in kq : r \in kq' \/ (r[1] = fd /\ kq' # kq)
  BY <1>1, Zenon DEF Closed
<1>5. ASSUME NEW b \in Live, InStep(b) PROVE InStep(b)'
  <2>1. b \in Addrs /\ slot[b].fd \in FdsOf(b)
    BY <1>5, OwnFd, Zenon DEF Live
  <2>2. \A r \in RegsOf(b) : r[1] = slot[b].fd
    BY <1>5 DEF InStep, Recorded
  <2>3. RegsOf(b)' = RegsOf(b)
    BY <1>2, <1>3, <1>4, <2>1, <2>2, Zenon DEF RegsOf
  <2> QED
    BY <1>1, <1>5, <2>1, <2>3, Kept, Zenon DEF connVars
<1>6. TypeOK'
  BY <1>1, <1>2, ZenonT(30) DEF TypeOK, loopVars, connVars
<1>7. DeadIsEmpty' /\ CurIsServed' /\ FdsApart'
  BY <1>1, <1>2, Zenon DEF DeadIsEmpty, CurIsServed, FdsApart, connVars, TypeOK
<1>8. OthersInStep' /\ RegsAreLive' /\ BatchIsFresh'
  BY <1>1, <1>2, <1>5, Zenon DEF OthersInStep, RegsAreLive, BatchIsFresh, Live
<1>9. CurAtMostRecorded'
  <2> SUFFICES ASSUME pc = "rearm", NEW a \in Live, a = cur
               PROVE  /\ \A r \in RegsOf(a)' : r = Recorded(a)
                      /\ \A b \in Addrs \ {a} : slot[a].fd \notin FdsOf(b)'
                      /\ slot[a].epoch <= epoch[a]
                      /\ slot[a].epoch = epoch[a] => InStep(a)'
    BY <1>1, ZenonT(30) DEF CurAtMostRecorded, CurIsServed, Recorded, RegsOf, connVars, InStep, WantFd, WantWrite, FdsOf
  <2>1. RegsOf(a)' \subseteq RegsOf(a)
    BY <1>1, <1>2, Zenon DEF RegsOf
  <2>2. /\ \A r \in RegsOf(a) : r = Recorded(a)
        /\ \A b \in Addrs \ {a} : slot[a].fd \notin FdsOf(b)
        /\ slot[a].epoch <= epoch[a]
        /\ slot[a].epoch = epoch[a] => InStep(a)
    BY Zenon DEF CurAtMostRecorded
  <2> QED
    BY <1>2, <1>5, <2>1, <2>2, Zenon
<1>10. RegsInUse'
  <2> SUFFICES ASSUME NEW r \in kq'
               PROVE  /\ r[1] \in held' \cup FdsOf(r[3])'
                      /\ \A b \in Addrs : r[1] \in FdsOf(b)' => b = r[3]
    BY Zenon DEF RegsInUse, FdsOf
  <2>1. /\ r \in kq /\ r[3] \in Addrs /\ r[1] \in held \cup FdsOf(r[3])
        /\ \A b \in Addrs : r[1] \in FdsOf(b) => b = r[3]
    BY <1>2, Zenon DEF RegsInUse, TypeOK
  <2>2. CASE r[1] # fd
    BY <1>1, <1>2, <2>1, <2>2, Zenon
  <2>3. CASE r[1] = fd
    <3>1. PICK a \in Addrs : pipe[a] = fd
      BY <1>1, <2>3, Zenon DEF Closed
    <3>2. fd \in FdsOf(a)
      BY <3>1, LoopAssumption, Zenon DEF FdsOf, NoFd
    <3> QED
      BY <1>2, <2>1, <2>3, <3>2, Zenon
  <2> QED
    BY <2>2, <2>3, Zenon
<1> QED
  BY <1>6, <1>7, <1>8, <1>9, <1>10, Zenon

LEMMA NextInv == Inv /\ [Next]_vars => Inv'
<1> SUFFICES ASSUME Inv, [Next]_vars PROVE Inv'
  BY Zenon
<1>1. CASE Control
  BY <1>1, ControlInv, Zenon
<1>2. CASE Poll
  BY <1>2, PollInv, Zenon
<1>3. CASE \E a \in Addrs, fd \in Fds : Accept(a, fd)
  BY <1>3, AcceptInv, Zenon
<1>4. CASE \E e \in batch : Service(e, <<>>, NoFd)
  BY <1>4, ServeOnly, Zenon
<1>5. CASE \E a \in Addrs : Advance(a)
  <2>1. PICK e \in batch, m \in Moves, fd \in Fds \cup {NoFd} : Service(e, m, fd)
    BY <1>5, Zenon DEF Advance
  <2>2. CASE m = <<>>
    <3>1. fd = NoFd
      BY <2>1, <2>2, Zenon DEF Service
    <3> QED
      BY <2>1, <2>2, <3>1, ServeOnly, Zenon
  <2>3. CASE m # <<>>
    BY <2>1, <2>3, ServeMove, Zenon
  <2> QED
    BY <2>2, <2>3, Zenon
<1>6. CASE ServiceDone \/ ServiceRearmFails
  BY <1>6, EndInv, Zenon
<1>7. CASE ServiceSame
  BY <1>7, SameInv, Zenon
<1>8. CASE ServiceRearm
  BY <1>8, RearmInv, Zenon
<1>9. CASE \E a \in Addrs : Clear(a)
  BY <1>9, ClearInv, Zenon
<1>10. CASE \E fd \in Fds : JobReleased(fd)
  BY <1>10, ReleaseInv, Zenon
<1> QED
  BY <1>1, <1>2, <1>3, <1>4, <1>5, <1>6, <1>7, <1>8, <1>9, <1>10, Zenon DEF Next, LoopStep, Control

\* run(), service() and do_accept() keep every field of the loop, its connections
\* and the kernel queue in its type.
THEOREM TypeCorrect == Spec => []TypeOK
<1>1. Inv => TypeOK
  BY Zenon DEF Inv
<1> QED
  BY <1>1, InitInv, NextInv, PTL DEF Spec

\* "Exactly one registration per connection", on what the connection waits for, and
\* nothing else registered: service() and do_accept() keep it, for any number of
\* connections and any reuse of addresses and descriptors.
THEOREM Registration == Spec => []OneRegistration
<1>1. Spec => []Inv
  BY InitInv, NextInv, PTL DEF Spec
<1>2. Inv => OneRegistration
  BY InvSuffices, Zenon
<1> QED
  BY <1>1, <1>2, PTL

\* No event that kevent() reported is handled for another connection than the one
\* it was reported for, nor twice.
THEOREM Freshness == Spec => []EventsAreFresh
<1>1. Spec => []Inv
  BY InitInv, NextInv, PTL DEF Spec
<1>2. Inv => EventsAreFresh
  BY InvSuffices, Zenon
<1> QED
  BY <1>1, <1>2, PTL

-----------------------------------------------------------------------------
(* The loop implements Backend *)

\* Live connections have different numbers, of connections that were accepted; and
\* run() is on its way out only after stop() or a failure, and out with none alive.
Numbered ==
  /\ \A a \in Live : slot[a].id \in 1..accepted
  /\ \A a, b \in Live : slot[a].id = slot[b].id => a = b
  /\ draining \/ pc \in {"clear", "returned"} => stop \/ failed
  /\ pc = "returned" => Live = {}

\* Steps that leave live_ and the count of connections alone.
Still ==
  \/ Stop \/ BeginAccept \/ AcceptEnd \/ Setup \/ PollFails
  \/ BatchDone \/ Shutdown \/ DrainOver \/ Return \/ Returned \/ UNCHANGED vars
  \/ Poll \/ (\E e \in batch : Service(e, <<>>, NoFd)) \/ (\E a \in Addrs : Advance(a))
  \/ ServiceSame \/ (\E fd \in Fds : JobReleased(fd))

\* One connection less.
Ends(a) ==
  /\ a \in Live /\ slot' = [slot EXCEPT ![a] = NoSlot]
  /\ pc \notin {"returned"} /\ pc' \notin {"returned"}
  /\ pc' = "clear" => pc = "clear"
  /\ UNCHANGED <<loopVars, accepted>>

\* A registration is replaced.
Renewed ==
  /\ Live' = Live /\ \A a \in Live : slot'[a].id = slot[a].id
  /\ pc = "rearm" /\ pc' = "batch"
  /\ UNCHANGED <<loopVars, accepted>>

\* What a step is, to the promise.
LEMMA StepKinds ==
  ASSUME Inv, [Next]_vars
  PROVE  \/ Still \/ (\E a \in Addrs, fd \in Fds : Accept(a, fd)) \/ AcceptRefused
         \/ (\E a \in Addrs : Ends(a)) \/ Renewed
<1>1. CASE ServiceDone \/ ServiceRearmFails
  <2>1. cur \in Live /\ cur \in Addrs
    BY <1>1, Zenon DEF Inv, CurIsServed, Live, ServiceDone, ServiceRearmFails
  <2>2. Ends(cur)
    BY <1>1, <2>1, Zenon DEF Ends, ServiceDone, ServiceRearmFails, Destroy
  <2> QED
    BY <2>1, <2>2, Zenon
<1>2. CASE ServiceRearm
  <2>1. cur \in Live /\ cur \in Addrs /\ slot[cur].id \in 1..MaxConns
    BY <1>2, Zenon DEF Inv, CurIsServed, Live, ServiceRearm, TypeOK
  <2>2. slot'[cur].id = slot[cur].id /\ \A b \in Addrs \ {cur} : slot'[b] = slot[b]
    BY <1>2, <2>1, Zenon DEF ServiceRearm, Inv, TypeOK
  <2>3. slot'[cur] # NoSlot
    BY <2>1, <2>2, LoopAssumption DEF NoSlot
  <2>4. Live' = Live
    BY <2>1, <2>2, <2>3, Zenon DEF Live
  <2>5. \A a \in Live : slot'[a].id = slot[a].id
    BY <2>2, Zenon DEF Live
  <2> QED
    BY <1>2, <2>4, <2>5, Zenon DEF Renewed, ServiceRearm
<1>3. CASE \E a \in Addrs : Clear(a)
  <2>1. PICK a \in Addrs : Clear(a)
    BY <1>3, Zenon
  <2>2. Ends(a)
    BY <2>1, Zenon DEF Ends, Clear, Destroy
  <2> QED
    BY <2>2, Zenon
<1> QED
  BY <1>1, <1>2, <1>3, Zenon DEF Next, LoopStep, Still

LEMMA StillFrame ==
  ASSUME Inv, Numbered, Still
  PROVE  /\ UNCHANGED <<slot, accepted>> /\ Live' = Live /\ Life' = Life
         /\ (stop \/ failed) => (stop' \/ failed')
         /\ pc = "returned" => pc' = "returned"
         /\ pc' = "returned" => pc = "returned" \/ Return
         /\ draining' \/ pc' \in {"clear", "returned"} => stop' \/ failed'
         /\ (stop' \/ failed') /\ ~(stop \/ failed) => pc' # "returned"
<1> USE DEF Still, Stop, BeginAccept, AcceptEnd, Setup, PollFails, BatchDone, Shutdown, DrainOver, Return,
            Returned, Poll, ServiceSame, JobReleased, vars, loopVars, Rest
<1>1. CASE (\E e \in batch : Service(e, <<>>, NoFd)) \/ (\E a \in Addrs : Advance(a))
  <2>1. PICK e \in batch : \E m, fd : Service(e, m, fd)
    BY <1>1, Zenon DEF Advance
  <2>2. /\ UNCHANGED <<slot, accepted, loopVars>> /\ pc = "batch" /\ pc' \in {"batch", "rearm"}
    BY <2>1, Zenon DEF Service
  <2> QED
    BY <2>2, Zenon DEF Numbered, Live, Life
<1>2. CASE ~((\E e \in batch : Service(e, <<>>, NoFd)) \/ (\E a \in Addrs : Advance(a)))
  <2>1. UNCHANGED <<slot, accepted>>
    BY <1>2, Zenon
  <2>2. Live' = Live /\ Life' = Life
    BY <2>1, Zenon DEF Live, Life
  <2>3. (stop \/ failed) => (stop' \/ failed')
    BY <1>2, Zenon
  <2>4. pc = "returned" => pc' = "returned"
    BY <1>2, Zenon
  <2>5. pc' = "returned" => pc = "returned" \/ Return
    BY <1>2, Zenon
  <2>6. draining' \/ pc' \in {"clear", "returned"} => stop' \/ failed'
    <3>0. Shutdown \/ draining' = draining
      BY <1>2, Zenon
    <3>1. draining' => draining \/ stop' \/ failed'
      <4>1. CASE Shutdown
        <5>1. (stop \/ failed) /\ stop' = stop /\ failed' = failed
          BY <4>1, Zenon
        <5> QED
          BY <5>1, Zenon
      <4>2. CASE draining' = draining
        BY <4>2, Zenon
      <4> QED
        BY <3>0, <4>1, <4>2, Zenon
    <3>2. pc' \in {"clear", "returned"} => pc \in {"clear", "returned"} \/ draining \/ failed'
      BY <1>2, Zenon
    <3> QED
      BY <2>3, <3>1, <3>2, Zenon DEF Numbered
  <2>7. (stop' \/ failed') /\ ~(stop \/ failed) => pc' # "returned"
    <3>1. ~(stop \/ failed) => pc \notin {"clear", "returned"}
      BY Zenon DEF Numbered
    <3>2. pc' = "returned" => pc \in {"clear", "returned"}
      BY <1>2, Zenon
    <3> QED
      BY <3>1, <3>2, Zenon
  <2> QED
    BY <2>1, <2>2, <2>3, <2>4, <2>5, <2>6, <2>7, Zenon
<1> QED
  BY <1>1, <1>2, Zenon

LEMMA EndsFrame ==
  ASSUME Inv, NEW a \in Addrs, Ends(a)
  PROVE  Live' = Live \ {a} /\ \A b \in Live \ {a} : slot'[b] = slot[b]
<1>1. slot'[a] = NoSlot /\ \A b \in Addrs \ {a} : slot'[b] = slot[b]
  BY Zenon DEF Ends, Inv, TypeOK
<1> QED
  BY <1>1, Zenon DEF Live

LEMMA AcceptFrame ==
  ASSUME Inv, NEW a \in Addrs, NEW fd \in Fds, Accept(a, fd)
  PROVE  /\ a \notin Live /\ Live' = Live \cup {a} /\ slot'[a].id = accepted + 1
         /\ \A b \in Live : slot'[b] = slot[b]
         /\ accepted' = accepted + 1 /\ accepted < MaxConns
         /\ pc = "accept" /\ UNCHANGED <<pc, loopVars>>
<1>1. /\ slot'[a].id = accepted + 1 /\ \A b \in Addrs \ {a} : slot'[b] = slot[b]
      /\ accepted' = accepted + 1 /\ accepted < MaxConns /\ a \notin Live
      /\ pc = "accept" /\ UNCHANGED <<pc, loopVars>>
  BY Zenon DEF Accept, Inv, TypeOK
<1>2. slot'[a] # NoSlot
  <2>0. accepted \in 0..MaxConns
    BY Zenon DEF Inv, TypeOK
  <2>1. slot'[a].id # 0
    BY <1>1, <2>0, LoopAssumption
  <2> QED
    BY <2>1 DEF NoSlot
<1> QED
  BY <1>1, <1>2, Zenon DEF Live

LEMMA NumberedInv ==
  ASSUME Inv, Numbered, [Next]_vars PROVE Numbered'
<1>0. accepted \in Nat /\ MaxConns \in Nat
  <2>1. accepted \in 0..MaxConns
    BY Zenon DEF Inv, TypeOK
  <2> QED
    BY <2>1, LoopAssumption
<1>1. CASE Still
  <2>1. /\ UNCHANGED <<slot, accepted>> /\ Live' = Live
        /\ pc' = "returned" => pc = "returned" \/ Return
        /\ draining' \/ pc' \in {"clear", "returned"} => stop' \/ failed'
    BY <1>1, StillFrame, Zenon
  <2> QED
    BY <2>1, Zenon DEF Numbered, Return
<1>2. CASE \E a \in Addrs, fd \in Fds : Accept(a, fd)
  <2>1. PICK a \in Addrs, fd \in Fds : Accept(a, fd)
    BY <1>2, Zenon
  <2>2. /\ a \notin Live /\ Live' = Live \cup {a} /\ slot'[a].id = accepted + 1
        /\ \A b \in Live : slot'[b] = slot[b]
        /\ accepted' = accepted + 1 /\ pc = "accept" /\ UNCHANGED <<pc, loopVars>>
    BY <2>1, AcceptFrame, Zenon
  <2>3. \A b \in Live' : slot'[b].id \in 1..accepted'
    BY <1>0, <2>2 DEF Numbered
  <2>4. \A b, c \in Live' : slot'[b].id = slot'[c].id => b = c
    BY <1>0, <2>2 DEF Numbered
  <2> QED
    BY <2>2, <2>3, <2>4, Zenon DEF Numbered, loopVars
<1>3. CASE AcceptRefused
  <2>1. UNCHANGED <<slot, loopVars, pc>> /\ Live' = Live /\ accepted' = accepted + 1 /\ pc = "accept"
    BY <1>3, Zenon DEF AcceptRefused, Live
  <2> QED
    BY <1>0, <2>1 DEF Numbered, loopVars
<1>4. CASE \E a \in Addrs : Ends(a)
  <2>1. PICK a \in Addrs : Ends(a)
    BY <1>4, Zenon
  <2> QED
    BY <2>1, EndsFrame, ZenonT(30) DEF Numbered, Ends, loopVars
<1>5. CASE Renewed
  <2>1. Live' = Live /\ accepted' = accepted /\ \A a \in Live : slot'[a].id = slot[a].id
    BY <1>5, Zenon DEF Renewed
  <2>2. /\ \A a \in Live' : slot'[a].id \in 1..accepted'
        /\ \A a, b \in Live' : slot'[a].id = slot'[b].id => a = b
    BY <2>1 DEF Numbered
  <2>3. pc' = "batch" /\ draining' = draining /\ stop' = stop /\ failed' = failed
    BY <1>5, Zenon DEF Renewed, loopVars
  <2> QED
    BY <2>2, <2>3, Zenon DEF Numbered
<1> QED
  BY <1>1, <1>2, <1>3, <1>4, <1>5, StepKinds, Zenon

\* Every step is one of the promise, or nothing to it.
LEMMA LoopStepsAsBackend ==
  ASSUME Inv, Numbered, [Next]_vars PROVE [Promise!Next]_(Promise!vars)
<1> DEFINE over == pc = "returned"
           ends == stop \/ failed
<1>0. accepted \in 0..MaxConns /\ MaxConns \in Nat
  BY LoopAssumption, Zenon DEF Inv, TypeOK
<1>1. CASE Still
  <2>1. /\ UNCHANGED <<slot, accepted>> /\ Life' = Life
        /\ ends => ends'
        /\ pc = "returned" => pc' = "returned"
        /\ pc' = "returned" => pc = "returned" \/ Return
        /\ ends' /\ ~ends => pc' # "returned"
    BY <1>1, StillFrame, Zenon
  <2>2. CASE ends' /\ ~ends
    <3>1. ends' = TRUE /\ over' = over
      BY <2>1, <2>2, Zenon
    <3>2. Promise!Stop
      BY <2>1, <2>2, <3>1, Zenon DEF Promise!Stop
    <3> QED
      BY <3>2, Zenon DEF Promise!Next
  <2>3. CASE ends' = ends /\ over' = over
    BY <2>1, <2>3, Zenon DEF Promise!vars
  <2>4. CASE ends' = ends /\ over' # over
    <3>1. Return /\ pc' = "returned" /\ Live = {} /\ ends
      BY <2>1, <2>4, Zenon DEF Return, Numbered
    <3>2. \A c \in 1..MaxConns : Life[c] # "live"
      BY <3>1, Zenon DEF Life
    <3>3. over' = TRUE
      BY <3>1, Zenon
    <3>4. Promise!Return
      BY <2>1, <2>4, <3>1, <3>2, <3>3, Zenon DEF Promise!Return, Promise!Conns
    <3> QED
      BY <3>4, Zenon DEF Promise!Next
  <2> QED
    BY <2>1, <2>2, <2>3, <2>4, Zenon
<1>2. ASSUME NEW c \in 1..MaxConns, c = accepted + 1, accepted' = accepted + 1, pc = "accept",
             UNCHANGED <<pc, loopVars>>, NEW l \in {"live", "closed"},
             Life' = [Life EXCEPT ![c] = l]
      PROVE  [Promise!Next]_(Promise!vars)
  <2>1. Life[c] = "new" /\ \A d \in 1..(c - 1) : Life[d] # "new"
    BY <1>0, <1>2 DEF Life
  <2>2. over' = over /\ ends' = ends /\ ~over
    BY <1>2, Zenon DEF loopVars
  <2>3. Promise!Accept
    BY <1>2, <2>1, <2>2, Zenon DEF Promise!Accept, Promise!Conns
  <2> QED
    BY <2>3, Zenon DEF Promise!Next
<1>3. CASE \E a \in Addrs, fd \in Fds : Accept(a, fd)
  <2>1. PICK a \in Addrs, fd \in Fds : Accept(a, fd)
    BY <1>3, Zenon
  <2>2. /\ a \notin Live /\ Live' = Live \cup {a} /\ slot'[a].id = accepted + 1
        /\ \A b \in Live : slot'[b] = slot[b]
        /\ accepted' = accepted + 1 /\ accepted < MaxConns
        /\ pc = "accept" /\ UNCHANGED <<pc, loopVars>>
    BY <2>1, AcceptFrame, Zenon
  <2>3. \A b \in Live : slot[b].id \in 1..accepted
    BY Zenon DEF Numbered
  <2>4. Life' = [Life EXCEPT ![accepted + 1] = "live"]
    <3>1. ASSUME NEW i \in 1..MaxConns
          PROVE  (\E b \in Live' : slot'[b].id = i) <=> (i = accepted + 1 \/ \E b \in Live : slot[b].id = i)
      BY <2>2, Zenon
    <3>2. ASSUME NEW i \in 1..MaxConns
          PROVE  Life'[i] = IF i = accepted + 1 THEN "live" ELSE Life[i]
      <4>1. accepted' = accepted + 1 /\ (i > accepted' <=> i > accepted /\ i # accepted + 1)
        BY <1>0, <2>2
      <4>2. Life'[i] = IF i > accepted' THEN "new" ELSE IF \E b \in Live' : slot'[b].id = i THEN "live" ELSE "closed"
        BY Zenon DEF Life
      <4>3. Life[i] = IF i > accepted THEN "new" ELSE IF \E b \in Live : slot[b].id = i THEN "live" ELSE "closed"
        BY Zenon DEF Life
      <4> QED
        BY <3>1, <4>1, <4>2, <4>3, Zenon
    <3> QED
      BY <3>2, Zenon DEF Life
  <2>8. accepted + 1 \in 1..MaxConns
    BY <1>0, <2>2
  <2> QED
    BY <1>2, <2>2, <2>4, <2>8, Zenon
<1>4. CASE AcceptRefused
  <2>1. /\ UNCHANGED <<slot, loopVars, pc>> /\ Live' = Live /\ accepted' = accepted + 1 /\ pc = "accept"
        /\ accepted < MaxConns
    BY <1>4, Zenon DEF AcceptRefused, Live
  <2>2. \A b \in Live : slot[b].id \in 1..accepted
    BY Zenon DEF Numbered
  <2>3. ASSUME NEW i \in 1..MaxConns
        PROVE  Life'[i] = IF i = accepted + 1 THEN "closed" ELSE Life[i]
    BY <1>0, <2>1, <2>2 DEF Life
  <2>4. Life' = [Life EXCEPT ![accepted + 1] = "closed"]
    BY <2>3, Zenon DEF Life
  <2>8. accepted + 1 \in 1..MaxConns
    BY <1>0, <2>1
  <2> QED
    BY <1>2, <2>1, <2>4, <2>8, Zenon
<1>5. CASE \E a \in Addrs : Ends(a)
  <2>1. PICK a \in Addrs : Ends(a)
    BY <1>5, Zenon
  <2>2. /\ a \in Live /\ Live' = Live \ {a} /\ \A b \in Live \ {a} : slot'[b] = slot[b]
        /\ pc # "returned" /\ pc' # "returned" /\ UNCHANGED <<loopVars, accepted>>
    BY <2>1, EndsFrame, Zenon DEF Ends
  <2>3. slot[a].id \in 1..accepted /\ slot[a].id \in 1..MaxConns
    BY <1>0, <2>2 DEF Numbered
  <2>4. ASSUME NEW i \in 1..MaxConns
        PROVE  (\E b \in Live' : slot'[b].id = i) <=> (i # slot[a].id /\ \E b \in Live : slot[b].id = i)
    BY <2>2, Zenon DEF Numbered
  <2>5. ASSUME NEW i \in 1..MaxConns
        PROVE  Life'[i] = IF i = slot[a].id THEN "closed" ELSE Life[i]
    BY <1>0, <2>2, <2>3, <2>4 DEF Life
  <2> DEFINE gone == {slot[a].id}
  <2>6. /\ Life' = [i \in 1..MaxConns |-> IF i \in gone THEN "closed" ELSE Life[i]]
        /\ gone \in SUBSET {i \in 1..MaxConns : Life[i] = "live"}
    <3>1. Life[slot[a].id] = "live"
      BY <1>0, <2>2, <2>3 DEF Life
    <3>2. Life' = [i \in 1..MaxConns |-> Life'[i]]
      BY Zenon DEF Life
    <3> QED
      BY <2>3, <2>5, <3>1, <3>2, Zenon
  <2> HIDE DEF gone
  <2>7. over' = over /\ ends' = ends
    BY <2>2, Zenon DEF loopVars
  <2>8. Promise!CloseConns
    BY <2>2, <2>6, <2>7, Zenon DEF Promise!CloseConns, Promise!Conns
  <2> QED
    BY <2>8, Zenon DEF Promise!Next
<1>6. CASE Renewed
  <2>1. Live' = Live /\ accepted' = accepted /\ \A a \in Live : slot'[a].id = slot[a].id
    BY <1>6, Zenon DEF Renewed
  <2>2. \A i \in 1..MaxConns : (\E b \in Live' : slot'[b].id = i) <=> (\E b \in Live : slot[b].id = i)
    BY <2>1, Zenon
  <2>3. Life' = Life
    BY <2>1, <2>2, Zenon DEF Life
  <2>4. over' = over /\ ends' = ends
    BY <1>6, Zenon DEF Renewed, loopVars
  <2> QED
    BY <2>3, <2>4, Zenon DEF Promise!vars
<1> QED
  BY <1>1, <1>3, <1>4, <1>5, <1>6, StepKinds, Zenon

\* The event loop does what a backend promises, step by step: connections are
\* accepted in order, closed once, and all of them closed when run() returns.
THEOREM LoopIsBackend == Spec => ImplementsBackend
<1>1. Init => Inv /\ Numbered /\ Promise!Init
  <2> SUFFICES ASSUME Init PROVE Inv /\ Numbered /\ Promise!Init
    BY Zenon
  <2>1. Live = {}
    BY Zenon DEF Init, Live
  <2>2. Numbered
    BY <2>1, Zenon DEF Init, Numbered
  <2>3. Life = [c \in 1..MaxConns |-> "new"]
    BY DEF Init, Life
  <2>4. (stop \/ failed) = FALSE /\ (pc = "returned") = FALSE
    BY Zenon DEF Init
  <2> QED
    BY <2>2, <2>3, <2>4, InitInv, Zenon DEF Promise!Init, Promise!Conns
<1>2. Inv /\ Numbered /\ [Next]_vars => (Inv /\ Numbered)'
  BY NextInv, NumberedInv, Zenon
<1>3. Inv /\ Numbered /\ [Next]_vars => [Promise!Next]_(Promise!vars)
  BY LoopStepsAsBackend, Zenon
<1> QED
  BY <1>1, <1>2, <1>3, PTL DEF Spec, ImplementsBackend, Promise!Spec
=============================================================================
