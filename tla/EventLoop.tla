----------------------------- MODULE EventLoop ------------------------------
(***************************************************************************)
(* The kqueue backend (backend/event_loop.cpp, EventLoop): one thread that *)
(* accepts, and services whichever connection has an event, keeping one    *)
(* kernel registration per connection.                                     *)
(*                                                                         *)
(* A Connection is known by its address, which is also the udata of its    *)
(* registration, and which the allocator may use again.  Descriptors are   *)
(* numbers the kernel uses again as soon as they are closed, and closing   *)
(* one drops its registrations.  A connection makes the moves of           *)
(* ConnMoves.  A resolver pipe stays open while a resolver thread holds    *)
(* the job, even after the connection has let go of it.                    *)
(***************************************************************************)
EXTENDS Integers, FiniteSets, ConnMoves

CONSTANTS
  Addrs,        \* addresses of Connection objects
  Fds,          \* descriptor numbers for sockets and pipes
  KeventMayFail,  \* kevent() may fail for another reason than a signal
  GraceRounds,  \* empty rounds drain() waits for: grace_ms / 100
  MaxConns,     \* bound: how many connections arrive
  MaxEpoch      \* bound: how often one connection changes what it waits on

ASSUME LoopAssumption ==
  /\ KeventMayFail \in BOOLEAN
  /\ GraceRounds \in Nat /\ MaxConns \in Nat /\ MaxEpoch \in Nat
  /\ "none" \notin Fds /\ "none" \notin Addrs

VARIABLES
  stop,       \* stop_
  failed,     \* kevent failed: the loop ends by itself
  pc,         \* where run() is
  draining,   \* in drain()
  waited,     \* empty rounds in drain()
  listening,  \* the listener is registered
  kq,         \* registrations <<fd, write, address>>
  pending,    \* the listener's event of this round is still to be handled
  batch,      \* the connections' events still to be handled: [fd, write, addr, id]
  cur,        \* the connection on_ready() was just called for
  slot,       \* live_: slot[a] = [fd, write, epoch, id], or NoSlot
  want,       \* want[a], epoch[a]: of the Connection at a
  epoch,
  client,     \* client[a], upstream[a], pipe[a]: its descriptors
  upstream,
  pipe,
  held,       \* pipes whose job a resolver thread still holds
  accepted    \* accepted_

connVars == <<want, epoch, client, upstream, pipe>>
loopVars == <<stop, failed, draining, waited, listening>>
vars == <<loopVars, pc, kq, pending, batch, cur, slot, connVars, held, accepted>>

NoFd   == "none"
NoSlot == [id |-> 0]

Live == {a \in Addrs : slot[a] # NoSlot}

\* want_fd() and want_write().
WantFd(a) ==
  IF want[a] \in {"ReadClient", "WriteClient"} THEN client[a]
  ELSE IF want[a] \in {"ReadUpstream", "WriteUpstream"} THEN upstream[a]
  ELSE IF want[a] = "ReadResolver" THEN pipe[a] ELSE NoFd

WantWrite(a) == want[a] \in {"WriteClient", "WriteUpstream"}

Used == held \cup UNION {{client[a], upstream[a], pipe[a]} : a \in Addrs}
Free == Fds \ Used

Init ==
  /\ stop = FALSE /\ failed = FALSE
  /\ pc = "start" /\ draining = FALSE /\ waited = 0 /\ listening = FALSE
  /\ kq = {} /\ pending = FALSE /\ batch = {} /\ cur = "none"
  /\ slot = [a \in Addrs |-> NoSlot]
  /\ want = [a \in Addrs |-> "None"] /\ epoch = [a \in Addrs |-> 0]
  /\ client = [a \in Addrs |-> NoFd]
  /\ upstream = [a \in Addrs |-> NoFd]
  /\ pipe = [a \in Addrs |-> NoFd]
  /\ held = {} /\ accepted = 0

-----------------------------------------------------------------------------
(* The kernel's side: EV_DELETE, EV_ADD, and close() *)

Disarm(regs, fd, write) == {r \in regs : ~(r[1] = fd /\ r[2] = write)}

Arm(regs, fd, write, a) == Disarm(regs, fd, write) \cup {<<fd, write, a>>}

Closed(regs, fds) == {r \in regs : r[1] \notin fds}

\* The descriptors that are closed when connection a lets go of these.
Drops(fds) == fds \ (held \cup {NoFd})

-----------------------------------------------------------------------------
(* Accepting *)

Stop ==
  /\ ~stop
  /\ stop' = TRUE
  /\ UNCHANGED <<failed, draining, waited, listening, pc, kq, pending, batch, cur, slot, connVars, held, accepted>>

\* It is the listener's turn: do_accept() runs until accept_one has no more to give.
BeginAccept ==
  /\ pc = "batch" /\ pending
  /\ pc' = "accept" /\ pending' = FALSE
  /\ UNCHANGED <<loopVars, kq, batch, cur, slot, connVars, held, accepted>>

\* One turn of do_accept's loop: make the Connection, register it, enter it in live_.
Accept(a, fd) ==
  /\ pc = "accept"
  /\ accepted < MaxConns
  /\ a \notin Live /\ fd \in Free
  /\ accepted' = accepted + 1
  /\ want' = [want EXCEPT ![a] = "ReadClient"]
  /\ epoch' = [epoch EXCEPT ![a] = 0]
  /\ client' = [client EXCEPT ![a] = fd]
  /\ kq' = Arm(kq, fd, FALSE, a)
  /\ slot' = [slot EXCEPT ![a] = [fd |-> fd, write |-> FALSE, epoch |-> 0, id |-> accepted + 1]]
  /\ UNCHANGED <<loopVars, pc, pending, batch, cur, upstream, pipe, held>>

\* The registration fails and the connection is destroyed there and then.
AcceptRefused ==
  /\ pc = "accept"
  /\ accepted < MaxConns /\ Free # {}
  /\ accepted' = accepted + 1
  /\ UNCHANGED <<loopVars, pc, kq, pending, batch, cur, slot, connVars, held>>

\* EAGAIN, out of descriptors, or another failure.
AcceptEnd ==
  /\ pc = "accept"
  /\ pc' = "batch"
  /\ UNCHANGED <<loopVars, kq, pending, batch, cur, slot, connVars, held, accepted>>

-----------------------------------------------------------------------------
(* Servicing *)

\* on_ready() that makes the move m, with fd for the descriptor it opens, if any.
\* The old upstream or pipe is closed first, so its number may be had again.
Move(a, m, fd) ==
  LET keeps == m[3] = "keep"
      gone  == Drops((IF keeps THEN {} ELSE {upstream[a]})
                     \cup (IF m[1] = "ReadResolver" THEN {pipe[a]} ELSE {})
                     \cup (IF m[2] = "None" THEN {client[a]} ELSE {}))
      opens == m[3] \in {"open", "reopen"} \/ m[2] = "ReadResolver"
  IN  /\ m \in Moves /\ m[1] = want[a]
      /\ epoch[a] < MaxEpoch \/ m[3] = "close"
      /\ m[3] = "open" => upstream[a] = NoFd
      /\ m[2] = "ReadUpstream" => upstream[a] # NoFd
      /\ IF opens THEN fd \in Free \cup gone ELSE fd = NoFd
      /\ want' = [want EXCEPT ![a] = m[2]]
      /\ epoch' = [epoch EXCEPT ![a] = @ + 1]
      /\ upstream' = IF m[3] \in {"open", "reopen"} THEN [upstream EXCEPT ![a] = fd]
                     ELSE IF keeps THEN upstream ELSE [upstream EXCEPT ![a] = NoFd]
      /\ pipe' = [pipe EXCEPT ![a] = IF m[2] = "ReadResolver" THEN fd ELSE NoFd]
      /\ held' = IF m[2] = "ReadResolver" THEN held \cup {fd} ELSE held
      /\ client' = IF m[2] = "None" THEN [client EXCEPT ![a] = NoFd] ELSE client
      /\ kq' = Closed(kq, gone)

\* service(), up to the return of on_ready(); an event of a connection that is
\* gone is ignored.  slot[a] is the registration as it was captured before.
Service(e, m, fd) ==
  /\ pc = "batch" /\ e \in batch
  /\ batch' = batch \ {e}
  /\ IF e.addr \notin Live
     THEN m = <<>> /\ fd = NoFd /\ UNCHANGED <<pc, cur, kq, connVars, held>>
     ELSE /\ pc' = "rearm" /\ cur' = e.addr
          /\ \/ m = <<>> /\ fd = NoFd /\ UNCHANGED <<kq, connVars, held>>
             \/ m # <<>> /\ Move(e.addr, m, fd)
  /\ UNCHANGED <<loopVars, pending, slot, accepted>>

\* The Connection at a is destroyed, its registrations being regs.
Destroy(a, regs) ==
  LET gone == Drops({client[a], upstream[a], pipe[a]})
  IN  /\ kq' = Closed(regs, gone)
      /\ slot' = [slot EXCEPT ![a] = NoSlot]
      /\ want' = [want EXCEPT ![a] = "None"]
      /\ epoch' = [epoch EXCEPT ![a] = 0]
      /\ client' = [client EXCEPT ![a] = NoFd]
      /\ upstream' = [upstream EXCEPT ![a] = NoFd]
      /\ pipe' = [pipe EXCEPT ![a] = NoFd]

\* The connection waits for something else than what is registered for it.
ChangedPair(a) == slot[a].fd # WantFd(a) \/ slot[a].write # WantWrite(a)

Changed(a) == slot[a].epoch # epoch[a]

\* Trust close() to take registrations away.
OldGone(a) == kq

\* The registrations after disarm(old_fd, old_write).
WithoutOld(a) == Disarm(kq, slot[a].fd, slot[a].write)

\* service(), after on_ready(): done, or nothing to wait on.
ServiceDone ==
  /\ pc = "rearm" /\ WantFd(cur) = NoFd
  /\ Destroy(cur, WithoutOld(cur))
  /\ pc' = "batch" /\ cur' = "none"
  /\ UNCHANGED <<loopVars, pending, batch, held, accepted>>

\* The same registration will do.
ServiceSame ==
  /\ pc = "rearm" /\ WantFd(cur) # NoFd /\ ~Changed(cur)
  /\ pc' = "batch" /\ cur' = "none"
  /\ UNCHANGED <<loopVars, kq, pending, batch, slot, connVars, held, accepted>>

\* Replace the registration ...
ServiceRearm ==
  /\ pc = "rearm" /\ WantFd(cur) # NoFd /\ Changed(cur)
  /\ kq' = Arm(WithoutOld(cur), WantFd(cur), WantWrite(cur), cur)
  /\ slot' = [slot EXCEPT ![cur] = [fd |-> WantFd(cur), write |-> WantWrite(cur),
                                    epoch |-> epoch[cur], id |-> slot[cur].id]]
  /\ pc' = "batch" /\ cur' = "none"
  /\ UNCHANGED <<loopVars, pending, batch, connVars, held, accepted>>

\* ... and when that fails give the connection up.
ServiceRearmFails ==
  /\ pc = "rearm" /\ WantFd(cur) # NoFd /\ Changed(cur)
  /\ Destroy(cur, WithoutOld(cur))
  /\ pc' = "batch" /\ cur' = "none"
  /\ UNCHANGED <<loopVars, pending, batch, held, accepted>>

\* A resolver thread lets go of its job; the pipe goes with the last holder.
JobReleased(fd) ==
  /\ fd \in held
  /\ held' = held \ {fd}
  /\ kq' = IF \E a \in Addrs : pipe[a] = fd THEN kq ELSE Closed(kq, {fd})
  /\ UNCHANGED <<loopVars, pc, pending, batch, cur, slot, connVars, accepted>>

-----------------------------------------------------------------------------
(* run() and drain() *)

Rest == <<slot, connVars, held, accepted>>

\* Make the kqueue and register the listener; if that fails run() returns at once.
Setup ==
  /\ pc = "start"
  /\ \/ pc' = "check" /\ listening' = TRUE /\ UNCHANGED failed
     \/ KeventMayFail /\ pc' = "clear" /\ failed' = TRUE /\ UNCHANGED listening
  /\ UNCHANGED <<stop, draining, waited, kq, pending, batch, cur, Rest>>

\* A drain that never counts.
NothingWaited(ready) == waited

\* drain() counts only the rounds without an event.
Waited(ready) == IF draining /\ ready = {} THEN waited + 1 ELSE waited

\* kevent(): any of the registered events, possibly none before the timeout.
\* A signal (EINTR) changes nothing.
Poll ==
  /\ pc = "check"
  /\ IF draining THEN Live # {} /\ waited < GraceRounds ELSE ~stop /\ ~failed
  /\ \E ready \in SUBSET kq :
       /\ batch' = {[fd |-> r[1], write |-> r[2], addr |-> r[3], id |-> slot[r[3]].id] : r \in ready}
       /\ waited' = Waited(ready)
  /\ pending' \in (IF listening THEN BOOLEAN ELSE {FALSE})
  /\ pc' = "batch"
  /\ UNCHANGED <<stop, failed, draining, listening, kq, cur, Rest>>

\* kevent() fails: leave the loop.
PollFails ==
  /\ KeventMayFail
  /\ pc = "check"
  /\ \/ ~draining /\ ~stop /\ ~failed /\ failed' = TRUE /\ UNCHANGED pc
     \/ draining /\ Live # {} /\ pc' = "clear" /\ UNCHANGED failed
  /\ UNCHANGED <<stop, draining, waited, listening, kq, pending, batch, cur, Rest>>

BatchDone ==
  /\ pc = "batch" /\ batch = {} /\ ~pending
  /\ pc' = "check"
  /\ UNCHANGED <<loopVars, kq, pending, batch, cur, Rest>>

\* Stop accepting, and drain.
Shutdown ==
  /\ pc = "check" /\ ~draining /\ (stop \/ failed)
  /\ listening' = FALSE
  /\ draining' = TRUE /\ waited' = 0
  /\ UNCHANGED <<stop, failed, pc, kq, pending, batch, cur, Rest>>

\* drain() that leaves its loop at once.
DrainSkipped ==
  /\ pc = "check" /\ draining
  /\ pc' = "returned"
  /\ UNCHANGED <<loopVars, kq, pending, batch, cur, Rest>>

DrainOver ==
  /\ pc = "check" /\ draining
  /\ Live = {} \/ waited >= GraceRounds
  /\ pc' = "clear"
  /\ UNCHANGED <<loopVars, kq, pending, batch, cur, Rest>>

\* live_.clear(), one connection at a time.
Clear(a) ==
  /\ pc = "clear" /\ a \in Live
  /\ Destroy(a, kq)
  /\ UNCHANGED <<loopVars, pc, pending, batch, cur, held, accepted>>

Return ==
  /\ pc = "clear" /\ Live = {}
  /\ pc' = "returned"
  /\ UNCHANGED <<loopVars, kq, pending, batch, cur, Rest>>

Returned == pc = "returned" /\ UNCHANGED vars

\* kevent() reports a's descriptor.
PollReports(a) == Poll /\ \E e \in batch' : e.addr = a

\* on_ready() is called for a and changes what it waits for.
Advance(a) ==
  \E e \in batch, m \in Moves, fd \in Fds \cup {NoFd} : e.addr = a /\ Service(e, m, fd)

LoopStep ==
  \/ Setup
  \/ BeginAccept
  \/ \E a \in Addrs, fd \in Fds : Accept(a, fd)
  \/ AcceptRefused \/ AcceptEnd
  \/ \E e \in batch : Service(e, <<>>, NoFd)
  \/ \E a \in Addrs : Advance(a)
  \/ ServiceDone \/ ServiceSame \/ ServiceRearm \/ ServiceRearmFails
  \/ Poll \/ BatchDone \/ Shutdown \/ DrainOver \/ Return
  \/ \E a \in Addrs : Clear(a)

Next ==
  \/ Stop \/ LoopStep \/ PollFails \/ Returned
  \/ \E fd \in Fds : JobReleased(fd)

Spec == Init /\ [][Next]_vars

\* The loop's thread runs.  Nothing is asked of the peers: they may be silent for
\* ever, and nothing in the loop times out.
FairSpec == Spec /\ WF_vars(LoopStep)

\* A registered descriptor is reported ready again and again, until its connection
\* gets further.
PeersAnswer == \A a \in Addrs : SF_vars(PollReports(a)) /\ SF_vars(Advance(a))

\* Rounds of kevent without an event come again and again.
QuietRounds == SF_vars(Poll /\ batch' = {})

-----------------------------------------------------------------------------
(* Properties *)

\* The fields keep their types; what is registered and what is in live_ is always a
\* descriptor, never the -1 that want_fd() returns for nothing to wait on.
TypeOK ==
  /\ stop \in BOOLEAN /\ failed \in BOOLEAN /\ draining \in BOOLEAN /\ listening \in BOOLEAN
  /\ pc \in {"start", "check", "batch", "accept", "rearm", "clear", "returned"}
  /\ waited \in 0..GraceRounds
  /\ pending \in BOOLEAN /\ cur \in Addrs \cup {"none"}
  /\ kq \subseteq Fds \X BOOLEAN \X Addrs
  /\ batch \subseteq [fd : Fds, write : BOOLEAN, addr : Addrs, id : 0..MaxConns]
  /\ slot \in [Addrs -> [fd : Fds, write : BOOLEAN, epoch : Nat, id : 1..MaxConns] \cup {NoSlot}]
  /\ want \in [Addrs -> Wants] /\ epoch \in [Addrs -> Nat]
  /\ client \in [Addrs -> Fds \cup {NoFd}]
  /\ upstream \in [Addrs -> Fds \cup {NoFd}]
  /\ pipe \in [Addrs -> Fds \cup {NoFd}]
  /\ held \subseteq Fds /\ accepted \in 0..MaxConns

\* "Exactly one registration per connection": whenever the loop is not in the
\* middle of servicing it, a live connection has one registration, on the
\* descriptor and in the direction it waits for, and nothing else is registered.
\* So no connection waits unregistered and no write filter outlives its bytes.
OneRegistration ==
  /\ \A a \in Live \ {cur} :
       {r \in kq : r[3] = a} = {<<WantFd(a), WantWrite(a), a>>}
  /\ pc \notin {"clear", "returned"} => \A r \in kq : r[3] \in Live

\* An event that is still to be handled is for the connection that now lives at
\* its address, for what that connection waits on now, and is its only one: the
\* address of a connection that ended earlier in the batch never leads to the one
\* that took its place.
EventsAreFresh ==
  /\ \A e \in batch : /\ e.addr \in Live /\ e.addr # cur
                      /\ slot[e.addr].id = e.id
                      /\ WantFd(e.addr) = e.fd /\ WantWrite(e.addr) = e.write
  /\ \A e, f \in batch : e.addr = f.addr => e = f

\* A connection that is accepted, and whose peers answer, is in time served to its
\* end: service() never forgets it with its sockets open.
ConnectionsEnd == PeersAnswer => \A a \in Addrs : (a \in Live) ~> (a \notin Live)

\* After stop() the loop comes to its end, even if connections hang: once they are
\* silent the grace of drain() runs out.  (One that is never silent can hold it up.)
StopEndsRun == QuietRounds => (stop ~> pc = "returned")

\* Is the i-th accepted connection yet to come, alive, or over?
Life == [i \in 1..MaxConns |->
          IF i > accepted THEN "new"
          ELSE IF \E a \in Live : slot[a].id = i THEN "live" ELSE "closed"]

Promise == INSTANCE Backend WITH
  life <- Life, returned <- (pc = "returned"), stop <- (stop \/ failed)

\* The loop does what a backend promises: when run() returns every connection it
\* accepted is closed.
ImplementsBackend == Promise!Spec
=============================================================================
