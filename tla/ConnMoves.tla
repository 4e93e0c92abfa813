----------------------------- MODULE ConnMoves ------------------------------
(***************************************************************************)
(* What a call of Connection::on_ready() may do to what the connection     *)
(* waits for.  Connection is shown to make these moves and no others;      *)
(* EventLoop relies on nothing else about a connection.                    *)
(***************************************************************************)

Wants == {"ReadClient", "WriteClient", "ReadUpstream", "WriteUpstream", "ReadResolver", "None"}

\* <<want before, want after, what becomes of the upstream socket>>.  The wait for
\* the resolver opens its job's pipe, leaving it drops the job, and reaching None
\* closes everything.
Moves ==
  { <<"ReadClient",    "ReadResolver",  "keep">>,
    <<"ReadClient",    "WriteUpstream", "open">>,
    <<"ReadClient",    "WriteClient",   "close">>,
    <<"ReadClient",    "None",          "close">>,
    <<"ReadResolver",  "WriteUpstream", "open">>,
    <<"ReadResolver",  "WriteClient",   "close">>,
    <<"WriteUpstream", "WriteUpstream", "keep">>,
    <<"WriteUpstream", "WriteUpstream", "reopen">>,
    <<"WriteUpstream", "ReadUpstream",  "keep">>,
    <<"WriteUpstream", "WriteClient",   "close">>,
    <<"ReadUpstream",  "WriteClient",   "keep">>,
    <<"ReadUpstream",  "None",          "close">>,
    <<"WriteClient",   "ReadUpstream",  "keep">>,
    <<"WriteClient",   "None",          "close">> }
=============================================================================
