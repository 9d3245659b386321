------------------------------- MODULE MCTiny -------------------------------
(* Requests for model checking Tiny; a line buffer holds three characters. *)
EXTENDS Tiny

Short(reply) == [text |-> <<"c", "l", "r", "l">>, reply |-> reply]

\* a header of three characters: its CR LF alone fill the next line
LongHeader == [text |-> <<"c", "l", "c", "c", "c", "r", "l", "r", "l">>, reply |-> "file"]

MCRequests == {Short(r) : r \in {"501", "404", "file", "empty", "cgi", "cgi_crash", "cgi_noexec"}}
                 \cup {LongHeader}
=============================================================================
