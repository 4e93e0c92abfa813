------------------------------- MODULE Intake -------------------------------
(***************************************************************************)
(* What Connection::do_read_client (connection.cpp) makes of a client's    *)
(* stream.  After a read it depends on how many bytes have come by then.   *)
(*                                                                         *)
(* The limit on the header is looked at only while the header is           *)
(* incomplete.  A header over the limit is refused, then, if some read     *)
(* ends past the limit and before the header does.  If none does, it is    *)
(* taken like any other, although config.hpp:22 says that such a request   *)
(* gets 400.  Nothing else depends on where the reads cut the stream       *)
(* (OneVerdict).                                                           *)
(*                                                                         *)
(* Http, which parses the bytes, and Connection, which is given the        *)
(* parser's verdict, are both shown to implement this: a Request of        *)
(* Connection stands for the streams of Http that have that header, that   *)
(* length and that verdict.                                                *)
(***************************************************************************)
EXTENDS Naturals

CONSTANTS MaxHeaderBytes, MaxBodyBytes   \* limits of Config

VARIABLES
  request,    \* what the stream holds: the length of the header with the empty line that
              \* ends it, the length of the body, and what parse_request says of it
  received,   \* how much of the stream has come
  outcome     \* "reading", the status of an error reply, "forward", or "gone" (hung up)

vars == <<request, received, outcome>>

Init ==
  /\ request.header \in Nat \ {0} /\ request.length \in Nat
  /\ request.verdict \in {"Ok", "BadRequest", "NotImplemented"}
  /\ received = 0 /\ outcome = "reading"

\* What has become of request r when n bytes of the stream are there.
Outcome(r, n) ==
  IF n < r.header THEN IF n > MaxHeaderBytes THEN "400" ELSE "reading"
  ELSE IF r.verdict = "BadRequest" THEN "400"
  ELSE IF r.verdict = "NotImplemented" THEN "501"
  ELSE IF r.length > MaxBodyBytes THEN "413"
  ELSE IF n < r.header + r.length THEN "reading" ELSE "forward"

Read ==
  /\ outcome = "reading"
  /\ received' > received
  /\ outcome' = Outcome(request, received')
  /\ UNCHANGED request

\* The client hangs up, its socket fails, or the backend gives the connection up.
Leave ==
  /\ outcome = "reading"
  /\ outcome' = "gone"
  /\ UNCHANGED <<request, received>>

Next == Read \/ Leave

Spec == Init /\ [][Next]_vars

-----------------------------------------------------------------------------
\* What becomes of a request when all of it is there at once.
Verdict(r) == Outcome(r, r.header + r.length)

\* Each request comes to its one verdict, wherever the reads cut it, but for one with a
\* header over the limit: a read that ends past the limit and before the header does
\* refuses it (do_read_client), whatever would have come next.
OneVerdict ==
  \/ outcome \in {"reading", "gone", Verdict(request)}
  \/ outcome = "400" /\ MaxHeaderBytes < received /\ received < request.header
=============================================================================
