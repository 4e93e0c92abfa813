---------------------------- MODULE Descriptors -----------------------------
(***************************************************************************)
(* Who owns which file descriptor (class Fd of socket.hpp), followed       *)
(* through thread_per_conn, the Connections its threads serve and the      *)
(* resolver's jobs, against a descriptor table of finite size.             *)
(*                                                                         *)
(* A descriptor is a number that the kernel hands out again as soon as it  *)
(* is closed, so a second close() of the same number would hit whatever    *)
(* another thread opened in between; a close() that is missed is a number  *)
(* lost until the process ends.  Steps are single system calls: the        *)
(* threads interleave between any two of them.                             *)
(***************************************************************************)
EXTENDS ThreadPerConn

CONSTANTS
  Limit,          \* the process's descriptor limit, not counting stdio
  MaxEndpoints    \* bound: addresses that a lookup returns

ASSUME LimitAssumption == Limit \in Nat \ {0} /\ MaxEndpoints \in Nat \ {0}

VARIABLES
  open,    \* the numbers that are open, as the kernel sees it
  fd,      \* fd[s]: the number that the Fd object s holds, None when it is empty
  refs,    \* refs[c]: who holds the shared_ptr to the ResolveJob of connection c
  state,   \* state[c]: state_ of the Connection, and where in begin_connect it is
  left     \* left[c]: endpoints_ that are still untried

fdVars == <<open, fd, refs, state, left>>
allVars == <<vars, fdVars>>

Numbers == 1..Limit
None == 0

\* The Fd objects: the backend's listener_, and for each connection the two of its
\* Connection, the local one of begin_connect, and the two ends of its job's pipe.
Slots == {<<0, "listener_">>} \cup
  (Conns \X {"client_", "upstream_", "fd", "read_end", "write_end"})

Pipe(c) == {<<c, "read_end">>, <<c, "write_end">>}

\* listen_on was the first to get a number.
DescriptorsInit ==
  /\ Init
  /\ open = {1}
  /\ fd = [s \in Slots |-> IF s = <<0, "listener_">> THEN 1 ELSE None]
  /\ refs = [c \in Conns |-> {}]
  /\ state = [c \in Conns |-> "none"]
  /\ left = [c \in Conns |-> 0]

-----------------------------------------------------------------------------
(* class Fd *)

\* The kernel picks the lowest number that is free; the empty Fd s gets it.
Opens(s) ==
  \E n \in Numbers \ open :
    /\ \A m \in Numbers \ open : n <= m
    /\ open' = open \cup {n} /\ fd' = [fd EXCEPT ![s] = n]

\* release() where reset() was meant: the number is given up without a close().
Releases(S) ==
  /\ open' = open
  /\ fd' = [s \in Slots |-> IF s \in S THEN None ELSE fd[s]]

\* ~Fd() or reset() of every Fd in S.
Closes(S) ==
  /\ open' = open \ {fd[s] : s \in S}
  /\ fd' = [s \in Slots |-> IF s \in S THEN None ELSE fd[s]]

\* The moved-from Fd keeps its number, and closes it too.
MovesAndKeeps(from, to) ==
  /\ open' = open \ {fd[to]}
  /\ fd' = [fd EXCEPT ![to] = fd[from]]

\* operator=(Fd&&): the target closes what it had, the source gives its number up.
Moves(from, to) ==
  /\ open' = open \ {fd[to]}
  /\ fd' = [fd EXCEPT ![to] = fd[from], ![from] = None]

\* who lets go of the job of c: the last one to do so deletes it, and with it the
\* two ends of its pipe.  The Fds in S are closed by the same call.
LetsGo(c, who, S) ==
  /\ refs' = [refs EXCEPT ![c] = @ \ {who}]
  /\ Closes(S \cup (IF refs[c] = {who} THEN Pipe(c) ELSE {}))

-----------------------------------------------------------------------------
(* The accept loop and main() *)

\* accept() gives the connection a number, which moves on into its Connection.
AcceptOne ==
  /\ Accept
  /\ Opens(<<accepted + 1, "client_">>)
  /\ state' = [state EXCEPT ![accepted + 1] = "ReadingRequest"]
  /\ UNCHANGED <<refs, left>>

\* main() joins the resolver threads, which drain their queue first, and destroys
\* the backend.
DestroyAll ==
  /\ Destroy
  /\ \A c \in Conns : "resolver" \notin refs[c]
  /\ Closes({<<0, "listener_">>})
  /\ UNCHANGED <<refs, state, left>>

\* Nothing is opened or closed: the flag, the waits, and accept_one without a
\* connection (none is pending, accept() failed, or the table is full).
NoDescriptor ==
  /\ Stop \/ CheckStop \/ AcceptNothing \/ Sleep \/ Return \/ Exited
     \/ \E c \in Conns : CountOut(c)
  /\ UNCHANGED fdVars

-----------------------------------------------------------------------------
(* The thread of connection c *)

Becomes(c, s) == state' = [state EXCEPT ![c] = s]

\* The thread of c is in on_ready(), in state s.
Serving(c, s) == tpc[c] = "serving" /\ pc # "destroyed" /\ state[c] = s

\* do_read_client answers without an upstream: an error, or a cached response.
AnswerAtOnce(c) ==
  /\ Serving(c, "ReadingRequest")
  /\ Closes({<<c, "upstream_">>}) /\ Becomes(c, "Failing")
  /\ UNCHANGED <<vars, refs, left>>

\* begin_resolve: resolved on the spot, from the resolver's cache or blocking.
Resolved(c) ==
  /\ Serving(c, "ReadingRequest")
  /\ left' = [left EXCEPT ![c] = MaxEndpoints]
  /\ Becomes(c, "candidate")
  /\ UNCHANGED <<vars, open, fd, refs>>

\* Resolver::start: pipe() takes two numbers or none.
MakePipe(c) ==
  /\ Serving(c, "ReadingRequest")
  /\ \E r \in Numbers \ open, w \in Numbers \ open :
       /\ r < w
       /\ \A n \in Numbers \ open : n \in {r, w} \/ n > w
       /\ open' = open \cup {r, w}
       /\ fd' = [fd EXCEPT ![<<c, "read_end">>] = r, ![<<c, "write_end">>] = w]
  /\ Becomes(c, "pipe")
  /\ UNCHANGED <<vars, refs, left>>

\* The job is queued: the connection and the resolver hold it.
StartJob(c) ==
  /\ Serving(c, "pipe")
  /\ refs' = [refs EXCEPT ![c] = {"connection", "resolver"}]
  /\ Becomes(c, "Resolving")
  /\ UNCHANGED <<vars, open, fd, left>>

\* fcntl() failed, or the resolver is closed: the job dies where it was made.
StartFails(c) ==
  /\ Serving(c, "pipe")
  /\ Closes(Pipe(c)) /\ Becomes(c, "Failing")
  /\ UNCHANGED <<vars, refs, left>>

\* The byte has come.  The lookup found addresses, or it failed.
FinishResolve(c) ==
  /\ Serving(c, "Resolving") /\ fd[<<c, "write_end">>] = None
  /\ \/ /\ LetsGo(c, "connection", {})
        /\ left' = [left EXCEPT ![c] = MaxEndpoints]
        /\ Becomes(c, "candidate")
     \/ /\ LetsGo(c, "connection", {<<c, "upstream_">>})
        /\ Becomes(c, "Failing")
        /\ UNCHANGED left
  /\ UNCHANGED vars

\* begin_connect, start_connect: a socket for the next address ...
Socket(c) ==
  /\ Serving(c, "candidate") /\ left[c] > 0
  /\ Opens(<<c, "fd">>)
  /\ left' = [left EXCEPT ![c] = @ - 1]
  /\ Becomes(c, "socket")
  /\ UNCHANGED <<vars, refs>>

\* ... or none, for want of a number or of memory: on to the next address.
SocketFails(c) ==
  /\ Serving(c, "candidate") /\ left[c] > 0
  /\ left' = [left EXCEPT ![c] = @ - 1]
  /\ UNCHANGED <<vars, open, fd, refs, state>>

\* No address is left: 502.
Unreachable(c) ==
  /\ Serving(c, "candidate") /\ left[c] = 0
  /\ Closes({<<c, "upstream_">>}) /\ Becomes(c, "Failing")
  /\ UNCHANGED <<vars, refs, left>>

\* connect() succeeded or is in progress: the socket moves into upstream_.
Connects(c) ==
  /\ Serving(c, "socket")
  /\ Moves(<<c, "fd">>, <<c, "upstream_">>)
  /\ \E s \in {"Connecting", "Relaying"} : Becomes(c, s)
  /\ UNCHANGED <<vars, refs, left>>

\* fcntl() or connect() failed: start_connect's Fd goes out of scope.
ConnectFails(c) ==
  /\ Serving(c, "socket")
  /\ Closes({<<c, "fd">>}) /\ Becomes(c, "candidate")
  /\ UNCHANGED <<vars, refs, left>>

\* finish_connect: SO_ERROR is clear, or the socket is closed and the next address
\* is tried.
FinishConnect(c) ==
  /\ Serving(c, "Connecting")
  /\ \/ Becomes(c, "Relaying") /\ UNCHANGED <<open, fd>>
     \/ Becomes(c, "candidate") /\ Closes({<<c, "upstream_">>})
  /\ UNCHANGED <<vars, refs, left>>

\* The response has ended, or the request could not be sent: what is left to do is
\* for the client.
UpstreamEnds(c) ==
  /\ Serving(c, "Relaying")
  /\ Closes({<<c, "upstream_">>}) /\ Becomes(c, "Failing")
  /\ UNCHANGED <<vars, refs, left>>

\* finish(): all is sent, or the client or the upstream broke off.
Finish(c) ==
  /\ \E s \in {"ReadingRequest", "Relaying", "Failing"} : Serving(c, s)
  /\ LetsGo(c, "connection", {<<c, "upstream_">>, <<c, "client_">>})
  /\ Becomes(c, "Done")
  /\ UNCHANGED <<vars, left>>

\* ~Connection(): it is done, or what it waits for did not come in time.
Unwind(c) ==
  /\ \E s \in {"ReadingRequest", "Resolving", "Connecting", "Relaying", "Failing", "Done"} :
       Serving(c, s)
  /\ ServeEnds(c)
  /\ LetsGo(c, "connection", {<<c, "upstream_">>, <<c, "client_">>})
  /\ Becomes(c, "none")
  /\ UNCHANGED left

ThreadStep(c) ==
  \/ AnswerAtOnce(c) \/ Resolved(c)
  \/ MakePipe(c) \/ StartJob(c) \/ StartFails(c) \/ FinishResolve(c)
  \/ Socket(c) \/ SocketFails(c) \/ Unreachable(c) \/ Connects(c) \/ ConnectFails(c)
  \/ FinishConnect(c) \/ UpstreamEnds(c) \/ Finish(c) \/ Unwind(c)

-----------------------------------------------------------------------------
(* worker_loop(), with the job of connection c *)

\* The byte is written and the write end closed, which wakes the connection ...
AnswerJob(c) ==
  /\ "resolver" \in refs[c] /\ fd[<<c, "write_end">>] # None
  /\ Closes({<<c, "write_end">>})
  /\ UNCHANGED <<vars, refs, state, left>>

\* ... which may be gone by the time the worker lets the job go.
DropJob(c) ==
  /\ "resolver" \in refs[c] /\ fd[<<c, "write_end">>] = None
  /\ LetsGo(c, "resolver", {})
  /\ UNCHANGED <<vars, state, left>>

-----------------------------------------------------------------------------
DescriptorsNext ==
  \/ NoDescriptor \/ AcceptOne \/ DestroyAll
  \/ \E c \in Conns : ThreadStep(c) \/ AnswerJob(c) \/ DropJob(c)

DescriptorsSpec == DescriptorsInit /\ [][DescriptorsNext]_allVars

\* A thread is scheduled, poll_timeout_ms bounds its waits and the peers do not keep
\* a relay going for ever; a resolver with threads answers every job.
FairDescriptors ==
  /\ DescriptorsSpec
  /\ \A c \in Conns :
       WF_allVars(ThreadStep(c)) /\ WF_allVars(AnswerJob(c)) /\ WF_allVars(DropJob(c))

-----------------------------------------------------------------------------
(* Properties *)

\* The object that the Fd s is a member of, or the call it is a local of, exists.
OwnerExists(s) ==
  LET c == s[1] IN
  CASE s[2] = "listener_" -> pc # "destroyed"
    [] s[2] \in {"client_", "upstream_"} -> tpc[c] = "serving"
    [] s[2] = "fd" -> state[c] = "socket"
    [] OTHER -> state[c] = "pipe" \/ refs[c] # {}

\* "Every fd in this program lives in one of these" (socket.hpp): the open numbers
\* are those that the Fds of existing objects hold, no number is held twice (it
\* would be closed twice, the second time under another connection), and no number
\* stays open that nobody holds.
EveryDescriptorOwned ==
  /\ open = {fd[s] : s \in Slots} \ {None}
  /\ \A s \in Slots : fd[s] # None => OwnerExists(s)
  /\ \A s, t \in Slots : fd[s] = fd[t] /\ fd[s] # None => s = t

\* A proxy that has run out of descriptors recovers: connections that cannot get a
\* second one are answered 502 and give up their first, instead of all waiting on
\* each other.
RecoversFromLimit == (open = Numbers) ~> (open # Numbers)
=============================================================================
