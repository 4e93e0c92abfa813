---------------------------- MODULE MCConnection ----------------------------
(* Instances of Connection for TLC. *)
EXTENDS Connection

\* Accepted requests without and with a body, headers one unit over the limit of 2
\* and past it by more than a read of 3, one per refusal, and a body too large.
MCRequests ==
  { [header |-> 2, length |-> 0, verdict |-> "Ok", shared |-> TRUE],
    [header |-> 1, length |-> 2, verdict |-> "Ok", shared |-> FALSE],
    [header |-> 3, length |-> 0, verdict |-> "Ok", shared |-> TRUE],
    [header |-> 6, length |-> 0, verdict |-> "Ok", shared |-> FALSE],
    [header |-> 2, length |-> 3, verdict |-> "Ok", shared |-> FALSE],
    [header |-> 1, length |-> 0, verdict |-> "BadRequest", shared |-> FALSE],
    [header |-> 2, length |-> 0, verdict |-> "NotImplemented", shared |-> FALSE] }

\* No cookie, the two spellings that are looked for, and one that is not.
MCResponses == [ok : BOOLEAN, cookie : {"", "Set-Cookie", "set-cookie", "SET-COOKIE"}]
=============================================================================
