-------------------------------- MODULE CSim --------------------------------
(***************************************************************************)
(* The cache simulator of src/cachelab/csim.c: the fscanf() loop over a    *)
(* valgrind trace and the cache lines with their use counters.             *)
(*                                                                         *)
(* A trace line " M 20,4\n" is the tokens blank, op, address, comma, size, *)
(* newline ("I" lines have no blank).  A token is <<character, 0>>, or     *)
(* <<"hex", n>> for a number.  input holds what fscanf() can see.          *)
(***************************************************************************)
EXTENDS Integers, Sequences, FiniteSets, SequencesExt

CONSTANTS s, E, b,     \* set bits, lines per set, block bits
          Addresses,   \* addresses in the trace
          TraceLength  \* bound on the lines of the trace

ASSUME CSimAssumption == /\ s \in Nat /\ b \in Nat /\ E \in Nat \ {0}
                         /\ Addresses \subseteq Nat /\ TraceLength \in Nat

VARIABLES cache,  \* cache[set][i]: valid, tag and ucount of a line
          hit, miss, evict,
          input,  \* tokens not scanned yet
          lines   \* lines read so far

vars == <<cache, hit, miss, evict, input, lines>>

Sets == 0 .. 2^s - 1
Ways == 0 .. E - 1
Ops  == {"I", "L", "S", "M"}

set_index(a) == (a \div 2^b) % 2^s
tag_info(a)  == a \div 2^(s + b)

Least(S) == CHOOSE i \in S : \A k \in S : i <= k

----------------------------------------------------------------------------
(* One access.  Its state is the record of the cache and the counters.     *)

FirstWayOnly(ways, tag) ==  \* mutant: the search stops after the first line
  {i \in {0} : ways[i].valid = 1 /\ ways[i].tag = tag}

(* The lines of a set hit_or_miss() would return, and space_query().       *)
HitWays(ways, tag) == {i \in Ways : ways[i].valid = 1 /\ ways[i].tag = tag}
EmptyWays(ways)    == {i \in Ways : ways[i].valid = 0}

FirstWay(ways) == 0  \* mutant: lru_index is never set

(* The loop over ucount: the first line with the greatest one.             *)
LruWay(ways) ==
  CHOOSE i \in Ways : \A k \in Ways : \/ ways[k].ucount < ways[i].ucount
                                      \/ ways[k].ucount = ways[i].ucount /\ i <= k

NotAged(ways) == ways  \* mutant: ucount is not increased
Aged(ways) == [i \in Ways |-> [ways[i] EXCEPT !.ucount = @ + 1]]

Used(ways, i, tag) == [ways EXCEPT ![i] = [valid |-> 1, tag |-> tag, ucount |-> 0]]

load_or_store(c, a) ==
  LET x == set_index(a)
      tag == tag_info(a)
      ways == Aged(c.cache[x])
      Into(i) == [c EXCEPT !.cache[x] = Used(ways, i, tag)]
  IN  IF HitWays(ways, tag) # {}
      THEN [Into(Least(HitWays(ways, tag))) EXCEPT !.hit = @ + 1]
      ELSE IF EmptyWays(ways) # {}
      THEN [Into(Least(EmptyWays(ways))) EXCEPT !.miss = @ + 1]
      ELSE [Into(LruWay(ways)) EXCEPT !.miss = @ + 1, !.evict = @ + 1]

Operate(c, op, a) == IF op \in {"S", "L"} THEN load_or_store(c, a)
                     ELSE IF op = "M" THEN load_or_store(load_or_store(c, a), a)
                     ELSE c

----------------------------------------------------------------------------
(* The file and fscanf(tracefile, "%c %x", &operation, &address)           *)

Text(op, a) == (IF op = "I" THEN <<>> ELSE <<<<"blank", 0>>>>)
               \o <<<<op, 0>>, <<"hex", a>>, <<"comma", 0>>, <<"hex", 1>>, <<"nl", 0>>>>

(* More of the file; kept ahead of fscanf(), which skips over a newline.   *)
FileLine ==
  /\ lines < TraceLength
  /\ Len(input) <= 1
  /\ \E op \in Ops, a \in Addresses : input' = input \o Text(op, a)
  /\ lines' = lines + 1
  /\ UNCHANGED <<cache, hit, miss, evict>>

NotWhite(tok) == tok[1] \notin {"blank", "nl"}
\* The blank in the format skips any amount of white space.
Skipped(q) == IF \E k \in DOMAIN q : NotWhite(q[k])
              THEN SubSeq(q, SelectInSeq(q, NotWhite), Len(q))
              ELSE <<>>

(* %c takes any character.  Where %x finds no number it stores nothing and *)
(* scanning goes on there: between an operation and its address there is   *)
(* nothing, so operation is then none of S, L and M.                       *)
Scan ==
  LET op == Head(input)[1]
      rest == Skipped(Tail(input))
      c == [cache |-> cache, hit |-> hit, miss |-> miss, evict |-> evict]
      d == Operate(c, op, Head(rest)[2])
  IN  /\ input # <<>>
      /\ Len(input) > 1 \/ lines = TraceLength
      /\ IF rest # <<>> /\ Head(rest)[1] = "hex"
         THEN /\ input' = Tail(rest)
              /\ cache' = d.cache /\ hit' = d.hit /\ miss' = d.miss /\ evict' = d.evict
         ELSE /\ input' = rest
              /\ UNCHANGED <<cache, hit, miss, evict>>
      /\ UNCHANGED lines

Init == /\ cache = [x \in Sets |-> [i \in Ways |-> [valid |-> 0, tag |-> 0, ucount |-> 0]]]
        /\ hit = 0 /\ miss = 0 /\ evict = 0
        /\ input = <<>> /\ lines = 0

(* fscanf() meets the end of the file: the loop ends, and so does main().  *)
EndOfFile == input = <<>> /\ lines = TraceLength /\ UNCHANGED vars

Next == FileLine \/ Scan \/ EndOfFile

Spec == Init /\ [][Next]_vars

----------------------------------------------------------------------------
Valid(x) == {i \in Ways : cache[x][i].valid = 1}

(* The use counters order the valid lines of a set: no two are equal, so   *)
(* the loop that looks for the greatest one (csim.c:138-146) has one       *)
(* answer and never leaves lru_index at its initial 0.                     *)
CountersOrderSet ==
  \A x \in Sets : \A i, k \in Valid(x) :
     cache[x][i].ucount = cache[x][k].ucount => i = k

(* No tag is in two lines of a set (csim.c:104-132).                       *)
TagsUnique ==
  \A x \in Sets : \A i, k \in Valid(x) : cache[x][i].tag = cache[x][k].tag => i = k

(* The tags of a set by use counter, the least first. *)
ByRecency(x) ==
  [n \in 1 .. Cardinality(Valid(x)) |->
     cache[x][CHOOSE i \in Valid(x) :
                Cardinality({k \in Valid(x) : cache[x][k].ucount < cache[x][i].ucount}) = n - 1].tag]

\* the operation fscanf() has not reached yet
Unread == SelectInSeq(input, LAMBDA tok : tok[1] \in Ops)

Lru == INSTANCE LruCache WITH
  Ways <- E, SetOf <- set_index, TagOf <- tag_info,
  Lines <- [op : Ops, addr : Addresses],
  order <- [x \in Sets |-> ByRecency(x)],
  stats <- [hits |-> hit, misses |-> miss, evictions |-> evict],
  next <- IF Unread = 0 THEN [op |-> "none", addr |-> 0]
          ELSE [op |-> input[Unread][1], addr |-> input[Unread + 1][2]]

(* The simulator is a least-recently-used cache, and each line of the      *)
(* trace is simulated once, in order, with the accesses its operation      *)
(* stands for (csim.c:84-155, 192-204).                                    *)
IsLruCache == Lru!Spec
=============================================================================
