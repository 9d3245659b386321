------------------------------ MODULE MCProxy -------------------------------
(***************************************************************************)
(* Proxy with the sizes of the responses given for TLC: one buffer, the    *)
(* whole cache of the runs, and more than the cache takes.                 *)
(***************************************************************************)
EXTENDS Proxy

MCPieces == [u \in Uris |-> IF u = "a" THEN 1 ELSE IF u = "b" THEN 2 ELSE 3]

\* Responses that response_buf holds whole.
MCShort == [u \in Uris |-> 1]
=============================================================================
