-------------------------------- MODULE Rio ---------------------------------
(***************************************************************************)
(* The buffered half of the Rio package, src/proxylab/csapp.c, and the     *)
(* stream sockets below it.  A rio_t is a record: cnt unread bytes of the  *)
(* array buf, from index bufptr on; read() overwrites buf from its start.  *)
(* The bytes of a stream are numbered, so that a byte says where in the    *)
(* stream it belongs.                                                      *)
(*                                                                         *)
(* The connection has two ends, "tiny" and "peer"; the kernel carries any  *)
(* number of bytes at a time, a process may close its end at any moment,   *)
(* and an end that is closed with bytes unread resets the other.           *)
(***************************************************************************)
EXTENDS Integers, Sequences, SequencesExt, FiniteSetsExt

CONSTANTS RIO_BUFSIZE,  \* bytes of rio_buf
          SOCKBUF       \* bytes the kernel holds for one end

ASSUME RioAssumption == RIO_BUFSIZE \in Nat \ {0} /\ SOCKBUF \in Nat \ {0}

VARIABLES rio,    \* the rio_t each process reads its end with
          in,     \* bytes in the kernel for each end
          open,   \* whether each end is open
          reset   \* whether each end got a reset: its next system call fails

net == <<in, open, reset>>

Ends == {"tiny", "peer"}
Other(x) == CHOOSE y \in Ends : y # x

----------------------------------------------------------------------------
(* rio_t *)

rio_readinitb == [cnt |-> 0, bufptr |-> 1, buf |-> [i \in 1 .. RIO_BUFSIZE |-> 0]]

\* mutant: the buffer pointer is left where it was
FilledBehind(rp, data) ==
  [rp EXCEPT !.cnt = Len(data),
             !.buf = [i \in DOMAIN @ |-> IF i <= Len(data) THEN data[i] ELSE @[i]]]

(* read() returned data: they replace the start of the buffer. *)
Filled(rp, data) ==
  [cnt |-> Len(data), bufptr |-> 1,
   buf |-> [i \in DOMAIN rp.buf |-> IF i <= Len(data) THEN data[i] ELSE rp.buf[i]]]

Interrupted(rp) == [rp EXCEPT !.cnt = -1]
AtEnd(rp)       == [rp EXCEPT !.cnt = 0]

(* rio_read() copies min(n, cnt) bytes. *)
Copyable(rp, n) == Min({n, rp.cnt})
Copied(rp, n)   == SubSeq(rp.buf, rp.bufptr, rp.bufptr + Copyable(rp, n) - 1)
Advanced(rp, n) == [rp EXCEPT !.bufptr = @ + Copyable(rp, n), !.cnt = @ - Copyable(rp, n)]

Unread(rp) == IF rp.cnt <= 0 THEN <<>> ELSE Copied(rp, rp.cnt)

----------------------------------------------------------------------------
(* System calls on end x                                                   *)

Rest(s, k)  == SubSeq(s, k + 1, Len(s))

(* The refill of rio_read(): EINTR is tried again, a short count is taken. *)
Refill(x) ==
  /\ rio[x].cnt <= 0
  /\ \/ rio' = [rio EXCEPT ![x] = Interrupted(@)] /\ UNCHANGED net
     \/ \E k \in 1 .. Min({RIO_BUFSIZE, Len(in[x])}) :
           /\ rio' = [rio EXCEPT ![x] = Filled(@, SubSeq(in[x], 1, k))]
           /\ in' = [in EXCEPT ![x] = Rest(@, k)]
           /\ UNCHANGED <<open, reset>>

(* read() returns 0. *)
AtEof(x) == rio[x].cnt <= 0 /\ in[x] = <<>> /\ ~open[Other(x)] /\ ~reset[x]

\* mutant: any interrupted call is an error
FailsWhenInterrupted(x) == rio[x].cnt <= 0

(* read() returns -1: bytes that had arrived may still have been read.     *)
ReadFails(x) == rio[x].cnt <= 0 /\ reset[x]

(* write() takes k of the n bytes of s; into a closed connection they are  *)
(* lost and answered by a reset, which may overtake bytes on their way.    *)
Sent(x, s, k) ==
  /\ ~reset[x]
  /\ \/ /\ open[Other(x)]
        /\ k + Len(in[Other(x)]) <= SOCKBUF
        /\ in' = [in EXCEPT ![Other(x)] = @ \o SubSeq(s, 1, k)]
        /\ UNCHANGED <<open, reset>>
     \/ /\ ~open[Other(x)] /\ k = Len(s)
        /\ reset' = [reset EXCEPT ![x] = TRUE]
        /\ \E p \in Prefixes(in[x]) : in' = [in EXCEPT ![x] = p]
        /\ UNCHANGED open

(* close() or exit(). *)
Shut(x) ==
  /\ open' = [open EXCEPT ![x] = FALSE]
  /\ IF in[x] = <<>> \/ ~open[Other(x)] THEN in' = [in EXCEPT ![x] = <<>>] /\ UNCHANGED reset
     ELSE /\ reset' = [reset EXCEPT ![Other(x)] = TRUE]
          /\ \E p \in Prefixes(in[Other(x)]) : in' = [in EXCEPT ![Other(x)] = p, ![x] = <<>>]

(* The connection is lost. *)
Aborted(x) ==
  /\ open' = [open EXCEPT ![x] = FALSE]
  /\ reset' = [reset EXCEPT ![Other(x)] = TRUE]
  /\ \E p \in Prefixes(in[Other(x)]) : in' = [in EXCEPT ![Other(x)] = p, ![x] = <<>>]
=============================================================================
