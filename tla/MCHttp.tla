------------------------------- MODULE MCHttp -------------------------------
(* An instance of Http for TLC. *)
EXTENDS Http, SequencesExt

\* Every URL of up to five characters, and a host in brackets with every end of up to three,
\* in a request without headers.
URLs  == BoundedSeq(Chars, 5) \cup {<<"[", "a", "]">> \o u : u \in BoundedSeq(Chars, 3)}
Plain == {<<RequestLine("GET", TRUE, u), CRLF, CRLF>> : u \in URLs}

\* A few request lines with every list of up to two headers and bodies of up to three bytes.
Lines ==
  {<<RequestLine("POST", TRUE, <<"a", ":", "80", "80", "/">>)>>, <<RequestLine("PUT", TRUE, <<"a">>)>>,
   <<RequestLine("GET", FALSE, <<"a">>)>>, <<Junk>>, <<>>}
HeaderLines ==
  {Header("Host", "host", "other"), Header("HOST", "host", "a"), Header("te", "te", "x"), Junk,
   Header("Transfer-Encoding", "transfer-encoding", "chunked"), Header("Accept", "accept", "x"),
   Header("Content-Length", "content-length", "2"), Header("content-length", "content-length", "15"),
   Header("Content-Length", "content-length", "99"), Header("Content-Length", "content-length", "")}
RECURSIVE Lay(_)
Lay(hs) == IF hs = <<>> THEN <<>> ELSE <<Head(hs), CRLF>> \o Lay(Tail(hs))
Full ==
  {l \o <<CRLF>> \o Lay(hs) \o <<CRLF>> \o [i \in 1..b |-> Byte] :
     l \in Lines, hs \in BoundedSeq(HeaderLines, 2), b \in {0, 1, 3}}

MCMessages == Plain \cup Full
MCNumber   == ("2" :> 2) @@ ("15" :> 15) @@ ("99" :> 99)
=============================================================================
