-------------------------------- MODULE Tiny --------------------------------
(***************************************************************************)
(* The iterative web server src/proxylab/tiny/tiny.c and one peer of it,   *)
(* the fetch of src/proxylab/proxy.c (read_requesthdrs to Close), over Rio *)
(* and a connection that carries any number of bytes at a time and that    *)
(* the peer may leave at any moment.  One connection is open at a time;    *)
(* others wait in the listen queue.                                        *)
(*                                                                         *)
(* A request is its text, a sequence of characters, and the reply it asks  *)
(* for; what travels are the positions 1, 2, ... in the text and in the    *)
(* response.  "l" and "r" are LF and CR, "c" is any other character.       *)
(***************************************************************************)
EXTENDS Rio

CONSTANTS MAXLINE,    \* the size of the server's line buffers
          CHUNK,      \* MAXLINE of the peer: the size of response_buf
          Requests,   \* records [text, reply]
          Addresses   \* length of the lists getaddrinfo() returns

Replies == {"501", "404", "403", "file", "empty", "cgi", "cgi_crash", "cgi_noexec"}

ASSUME TinyAssumption == /\ MAXLINE \in Nat \ {0, 1} /\ CHUNK \in Nat \ {0}
                         /\ Addresses \in Nat
                         /\ Requests \subseteq [text : Seq({"c", "l", "r"}) \ {<<>>}, reply : Replies]

VARIABLES spc,      \* where the server is
          line,     \* what rio_readlineb() has put in usrbuf so far
          blank,    \* whether buf of read_requesthdrs() holds "\r\n"
          out,      \* the pieces the server still has to write
          child,    \* the CGI process: "none", "running" or "exited"
          cgiout,   \* what it still has to write
          ppc,      \* where the peer is
          request,  \* what it asks for
          pout,     \* the part of the request it still has to write
          chunk,    \* response_buf
          relayed,  \* what it has passed on
          tries,    \* addresses each side has not tried yet
          fds       \* sockets each side holds

server == <<spc, line, blank, out, child, cgiout>>
peer   == <<ppc, request, pout, chunk, relayed>>
vars   == <<rio, net, server, peer, tries, fds>>

Numbered(n) == [i \in 1 .. n |-> i]
Text(l) == [i \in 1 .. Len(l) |-> request.text[l[i]]]

(* The pieces doit() writes for a reply: clienterror() four, a file its    *)
(* headers and its content, a CGI program two before it starts.            *)
Pieces(reply) == CASE reply \in {"501", "404", "403"} -> << <<1>>, <<2>>, <<3>>, <<4>> >>
                   [] reply = "file"                  -> << <<1>>, <<2, 3, 4, 5>> >>
                   [] reply = "empty"                 -> << <<1>> >>
                   [] OTHER                           -> << <<1>>, <<2>> >>

(* What the CGI program writes: adder() its answer; nothing when the       *)
(* arguments have no '&', on which it crashes; and when it cannot be       *)
(* executed, the exit of the forked server writes the log lines the parent *)
(* still had in its stdio buffer, whose place the response has not (0).    *)
Output(reply) == CASE reply = "cgi"        -> <<3, 4>>
                   [] reply = "cgi_noexec" -> <<0>>
                   [] OTHER                -> <<>>

\* there are at most four pieces
Piece(pieces, k) == IF k \in DOMAIN pieces THEN pieces[k] ELSE <<>>
Joined(pieces) == Piece(pieces, 1) \o (Piece(pieces, 2) \o (Piece(pieces, 3) \o Piece(pieces, 4)))

Whole(reply) == Joined(Pieces(reply)) \o Output(reply)

----------------------------------------------------------------------------
(* open_listenfd() and open_clientfd()                                     *)

KeepFailed(x) == fds' = [fds EXCEPT ![x] = @ + 1]  \* mutant: the socket is not closed

CloseFailed(x) == UNCHANGED fds

(* The next address: no socket for it, or it cannot be bound or connected. *)
NextAddress(x) == /\ tries[x] > 0
                  /\ tries' = [tries EXCEPT ![x] = @ - 1]
                  /\ UNCHANGED fds \/ CloseFailed(x)

Opened(x) == tries[x] > 0 /\ fds' = [fds EXCEPT ![x] = @ + 1] /\ UNCHANGED tries
Closed(x) == fds' = [fds EXCEPT ![x] = @ - 1]

----------------------------------------------------------------------------
(* The server                                                              *)

\* unix_error() or SIGPIPE: all descriptors go
ServerDies == /\ spc' = "dead" /\ fds' = [fds EXCEPT !["tiny"] = 0]
              /\ UNCHANGED <<line, blank, out, child, cgiout>>

Listen == /\ spc = "boot"
          /\ \/ NextAddress("tiny") /\ UNCHANGED server
             \/ Opened("tiny") /\ spc' = "accept" /\ UNCHANGED <<line, blank, out, child, cgiout>>
             \/ /\ tries["tiny"] = 0 /\ ServerDies /\ UNCHANGED tries
          /\ UNCHANGED <<rio, net, peer>>

Accept == /\ spc = "accept" /\ open["tiny"]
          /\ spc' = "request" /\ line' = <<>>
          /\ rio' = [rio EXCEPT !["tiny"] = rio_readinitb]
          /\ fds' = [fds EXCEPT !["tiny"] = @ + 1]
          /\ UNCHANGED <<net, peer, tries, blank, out, child, cgiout>>

(* Accept() has an error, with a client in the listen queue or none: the   *)
(* kernel resets the client.  Or the client is accepted and Getnameinfo()  *)
(* has one.                                                                *)
AcceptFails == /\ spc = "accept" /\ ServerDies
               /\ \/ open["tiny"] /\ (Aborted("tiny") \/ Shut("tiny"))
                  \/ ~open["tiny"] /\ UNCHANGED net
               /\ UNCHANGED <<rio, peer, tries>>

Reading == spc \in {"request", "headers"}

ServerRefills == /\ Reading /\ Refill("tiny")
                 /\ UNCHANGED <<server, peer, tries, fds>>

ServerReadFails == /\ Reading /\ ReadFails("tiny")
                   /\ ServerDies /\ Shut("tiny")
                   /\ UNCHANGED <<rio, peer, tries>>

(* What doit() does with the line l that rio_readlineb() returns; at the   *)
(* end of the stream l is empty and usrbuf is not touched.  The buf of     *)
(* read_requesthdrs() is not initialised: it may hold the blank line the   *)
(* last call left there, which matters only if nothing is read into it.    *)
Respond == spc' = "write" /\ out' = Pieces(request.reply)

BareLf(l)  == Text(l) = <<"l">>  \* mutant
IsBlank(l) == Text(l) = <<"r", "l">>

TakeLine(l) ==
  /\ line' = <<>>
  /\ UNCHANGED <<child, cgiout>>
  /\ IF spc = "request"
     THEN \/ l = <<>> /\ spc' = "close" /\ UNCHANGED <<blank, out>>
          \/ l # <<>> /\ request.reply = "501" /\ Respond /\ UNCHANGED blank
          \/ /\ l # <<>> /\ request.reply # "501"
             /\ spc' = "headers" /\ blank' \in BOOLEAN /\ UNCHANGED out
     ELSE /\ blank' = IF l = <<>> THEN blank ELSE IsBlank(l)
          /\ IF blank' THEN Respond ELSE UNCHANGED <<spc, out>>

(* A line ends with LF or when it fills the buffer but for its NUL.        *)
EndsLine(l) == Text(l)[Len(l)] = "l" \/ Len(l) = MAXLINE - 1

ServerCopies ==
  /\ Reading /\ rio["tiny"].cnt > 0
  /\ rio' = [rio EXCEPT !["tiny"] = Advanced(@, 1)]
  /\ LET l == line \o Copied(rio["tiny"], 1)
     IN  IF EndsLine(l) THEN TakeLine(l)
         ELSE line' = l /\ UNCHANGED <<spc, blank, out, child, cgiout>>
  /\ UNCHANGED <<net, peer, tries, fds>>

ServerSeesEof == /\ Reading /\ AtEof("tiny")
                 /\ rio' = [rio EXCEPT !["tiny"] = AtEnd(@)]
                 /\ TakeLine(line)
                 /\ UNCHANGED <<net, peer, tries, fds>>

\* mutant: a short count is taken for the whole piece
WroteAll(pieces, k) == Tail(pieces)

(* rio_writen() goes on after a short count. *)
Wrote(pieces, k) == IF k = Len(Head(pieces)) THEN Tail(pieces)
                    ELSE <<Rest(Head(pieces), k)>> \o Tail(pieces)

ServerWrites ==
  /\ spc = "write" /\ out # <<>>
  /\ \E k \in 1 .. Len(Head(out)) : Sent("tiny", Head(out), k) /\ out' = Wrote(out, k)
  /\ UNCHANGED <<spc, line, blank, child, cgiout, rio, peer, tries, fds>>

ServerWriteFails == /\ spc = "write" /\ out # <<>> /\ reset["tiny"]
                    /\ ServerDies /\ Shut("tiny")
                    /\ UNCHANGED <<rio, peer, tries>>

(* The response is written, up to the content of an empty file, which      *)
(* Mmap() cannot map, or the part a CGI program writes.                    *)
Written ==
  /\ spc = "write" /\ out = <<>>
  /\ CASE request.reply = "empty" -> ServerDies /\ Shut("tiny")
       [] request.reply \in {"cgi", "cgi_crash", "cgi_noexec"} ->
            /\ spc' = "wait" /\ child' = "running" /\ cgiout' = Output(request.reply)
            /\ UNCHANGED <<line, blank, out, net, fds>>
       [] OTHER -> spc' = "close" /\ UNCHANGED <<line, blank, out, child, cgiout, net, fds>>
  /\ UNCHANGED <<rio, peer, tries>>

(* The headers are written and nothing of the content is: the server opens *)
(* and maps the file, or forks.                                            *)
BodyIsNext == /\ spc = "write"
              /\ \/ request.reply \in {"file", "empty"} /\ out = Tail(Pieces(request.reply))
                 \/ request.reply \in {"cgi", "cgi_crash", "cgi_noexec"} /\ out = <<>>

(* Open(), Mmap() or Fork() has an error, for want of descriptors, memory  *)
(* or processes, or because the file has gone since stat().                *)
BodyFails == /\ BodyIsNext /\ ServerDies /\ Shut("tiny")
             /\ UNCHANGED <<rio, peer, tries>>

(* The child writes to the same end; SIGPIPE ends it alone. *)
ChildRuns ==
  /\ child = "running"
  /\ \/ /\ cgiout # <<>>
        /\ \E k \in 1 .. Len(cgiout) : Sent("tiny", cgiout, k) /\ cgiout' = Rest(cgiout, k)
        /\ UNCHANGED child
     \/ /\ cgiout = <<>> \/ reset["tiny"]
        /\ child' = "exited" /\ cgiout' = <<>> /\ UNCHANGED net
  /\ UNCHANGED <<spc, line, blank, out, rio, peer, tries, fds>>

Reapable == child = "exited"

Waited == /\ spc = "wait" /\ Reapable
          /\ child' = "none" /\ spc' = "close"
          /\ UNCHANGED <<line, blank, out, cgiout, rio, net, peer, tries, fds>>

ServerCloses == /\ spc = "close" /\ spc' = "accept"
                /\ Shut("tiny") /\ Closed("tiny")
                /\ UNCHANGED <<line, blank, out, child, cgiout, rio, peer, tries>>

Server == \/ Listen \/ Accept \/ ServerRefills \/ ServerReadFails \/ ServerCopies \/ ServerSeesEof
          \/ ServerWrites \/ ServerWriteFails \/ Written \/ ChildRuns \/ Waited \/ ServerCloses

\* a system call that may have an error at any time has one
ServerFails == AcceptFails \/ BodyFails

----------------------------------------------------------------------------
(* The peer                                                                *)

Forget == pout' = <<>> /\ chunk' = <<>> /\ relayed' = <<>> /\ UNCHANGED request

\* unix_error(), a kill, or for another client a user who gives up
PeerExits == ppc' = "idle" /\ Forget /\ fds' = [fds EXCEPT !["peer"] = 0]

Begin == /\ ppc = "idle" /\ ~open["tiny"] /\ ppc' = "connect"
         /\ request' \in Requests
         /\ pout' = Numbered(Len(request'.text))
         /\ tries' = [tries EXCEPT !["peer"] = Addresses]
         /\ UNCHANGED <<rio, net, server, chunk, relayed, fds>>

(* The result of open_clientfd() is not looked at: without a connection    *)
(* Rio_writen() fails on descriptor -1.                                    *)
Connect ==
  /\ ppc = "connect"
  /\ \/ NextAddress("peer") /\ UNCHANGED <<rio, net, peer>>
     \/ /\ Opened("peer") /\ spc \notin {"boot", "dead"} /\ ppc' = "send"
        /\ open' = [x \in Ends |-> TRUE] /\ in' = [x \in Ends |-> <<>>]
        /\ reset' = [x \in Ends |-> FALSE]
        /\ rio' = [rio EXCEPT !["peer"] = rio_readinitb]
        /\ UNCHANGED <<request, pout, chunk, relayed>>
     \/ tries["peer"] = 0 /\ PeerExits /\ UNCHANGED <<rio, net, tries>>
  /\ UNCHANGED server

PeerWrites == /\ ppc = "send" /\ pout # <<>>
              /\ \E k \in 1 .. Len(pout) : Sent("peer", pout, k) /\ pout' = Rest(pout, k)
              /\ ppc' = IF pout' = <<>> THEN "read" ELSE "send"
              /\ UNCHANGED <<request, chunk, relayed, rio, server, tries, fds>>

PeerRefills == /\ ppc = "read" /\ Len(chunk) < CHUNK /\ Refill("peer")
               /\ UNCHANGED <<server, peer, tries, fds>>

PeerCopies == /\ ppc = "read" /\ Len(chunk) < CHUNK /\ rio["peer"].cnt > 0
              /\ chunk' = chunk \o Copied(rio["peer"], CHUNK - Len(chunk))
              /\ rio' = [rio EXCEPT !["peer"] = Advanced(@, CHUNK - Len(chunk))]
              /\ UNCHANGED <<ppc, request, pout, relayed, net, server, tries, fds>>

(* rio_readnb() returns a full chunk, what there is before the end of the  *)
(* stream, or 0 at the end.                                                *)
PeerRelays == /\ ppc = "read"
              /\ Len(chunk) = CHUNK \/ (chunk # <<>> /\ AtEof("peer"))
              /\ relayed' = relayed \o chunk /\ chunk' = <<>>
              /\ UNCHANGED <<ppc, request, pout, rio, net, server, tries, fds>>

PeerSeesEof == /\ ppc = "read" /\ chunk = <<>> /\ AtEof("peer") /\ ppc' = "eof"
               /\ UNCHANGED <<request, pout, chunk, relayed, rio, net, server, tries, fds>>

PeerFails == /\ \/ ppc = "send" /\ reset["peer"]
                \/ ppc = "read" /\ Len(chunk) < CHUNK /\ ReadFails("peer")
             /\ Shut("peer") /\ PeerExits
             /\ UNCHANGED <<rio, server, tries>>

PeerCloses == /\ ppc = "eof" /\ ppc' = "idle" /\ Forget
              /\ Shut("peer") /\ Closed("peer")
              /\ UNCHANGED <<rio, server, tries>>

PeerQuits == /\ ppc \in {"send", "read"}
             /\ Shut("peer") \/ Aborted("peer")
             /\ PeerExits
             /\ UNCHANGED <<rio, server, tries>>

Peer == Connect \/ PeerWrites \/ PeerRefills \/ PeerCopies \/ PeerRelays
          \/ PeerSeesEof \/ PeerFails \/ PeerCloses

----------------------------------------------------------------------------
Init == /\ rio = [x \in Ends |-> rio_readinitb]
        /\ in = [x \in Ends |-> <<>>]
        /\ open = [x \in Ends |-> FALSE] /\ reset = [x \in Ends |-> FALSE]
        /\ spc = "boot" /\ line = <<>> /\ blank = FALSE /\ out = <<>>
        /\ child = "none" /\ cgiout = <<>>
        /\ ppc = "idle" /\ request \in Requests /\ pout = <<>> /\ chunk = <<>> /\ relayed = <<>>
        /\ tries = [x \in Ends |-> Addresses] /\ fds = [x \in Ends |-> 0]

Next == Server \/ ServerFails \/ Peer \/ Begin \/ PeerQuits

(* The kernel moves bytes, and each process goes on, as long as it can;    *)
(* nobody has to connect or to leave.                                      *)
Spec == Init /\ [][Next]_vars /\ WF_vars(Server) /\ WF_vars(Peer)

----------------------------------------------------------------------------
(* Until the peer leaves, the line being read, the rest of the buffer, the *)
(* kernel and what is still to be written are the end of the request,      *)
(* without a gap and in order, however read() and write() cut it           *)
(* (csapp.c:761-879).                                                      *)
RequestInOrder ==
  Reading /\ open["peer"] =>
    LET s == line \o Unread(rio["tiny"]) \o in["tiny"] \o pout
        n == Len(request.text)
    IN  s = [i \in 1 .. Len(s) |-> n - Len(s) + i]

(* A peer that sees the end of the stream has passed on the whole response *)
(* or, from a server that died on the way to the content, the headers      *)
(* alone (tiny.c:149-169, 195-211, proxy.c:150-155).  A response cut       *)
(* anywhere else shows as a reset, which is what a header line whose end   *)
(* falls on the end of the buffer brings about (99-111).  The whole of a   *)
(* CGI program's response is what the program writes, nothing if it        *)
(* crashes.                                                                *)
Headers(reply) == IF reply = "file" THEN Piece(Pieces(reply), 1) ELSE Joined(Pieces(reply))

WholeAtEof == ppc = "eof" => \/ relayed = Whole(request.reply)
                             \/ spc = "dead" /\ relayed = Headers(request.reply)

(* Once it has a client, the server dies of nothing but that client, who   *)
(* must have left before, or of the system calls between the headers and   *)
(* the content: no short count, interrupted call or end of stream in the   *)
(* request or the response ends it (tiny.c:161-169, 205,                   *)
(* csapp.c:791-806, 894-923).                                              *)
DiesMidwayOfPeer ==
  [][spc \notin {"boot", "accept", "dead"} /\ spc' = "dead" =>
       \/ reset["tiny"] /\ ~open["peer"]
       \/ BodyIsNext]_vars

(* Whatever the order of its steps with the peer's, the server comes back  *)
(* to its next client or dies, but for one case: a request that ends       *)
(* before its blank line keeps it in read_requesthdrs() (tiny.c:31-39,     *)
(* 105-108).                                                               *)
ReturnsToAccept ==
  spc \notin {"boot", "accept", "dead"} ~>
    \/ spc \in {"accept", "dead"}
    \/ spc = "headers" /\ AtEof("tiny") /\ ~blank

(* When the server waits for a client it has its listening socket alone    *)
(* and no CGI process; a peer between two requests has no socket           *)
(* (tiny.c:38, 205-211, csapp.c:934-1013).                                 *)
NothingLeft == /\ spc = "accept" => child = "none" /\ fds["tiny"] = 1
               /\ spc = "close" => child = "none"
               /\ ppc = "idle" => fds["peer"] = 0
=============================================================================
