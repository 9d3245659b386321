------------------------------ MODULE LruCache ------------------------------
(***************************************************************************)
(* A set-associative cache with least-recently-used replacement, driven by *)
(* a trace of lines: what the simulator of cachelab is to reproduce.  Each *)
(* set is the sequence of its tags, the most recently used one first.      *)
(***************************************************************************)
EXTENDS Integers, Sequences, SequencesExt

CONSTANTS Sets,
          Ways,       \* tags a set can hold
          Lines,      \* trace lines, [op |-> .., addr |-> ..]
          SetOf(_),   \* the set an address falls into
          TagOf(_)    \* and its tag there

VARIABLES order,  \* order[x]: the tags in set x
          stats,  \* hits, misses and evictions so far
          next    \* the line read and not simulated yet, or NoLine

NoLine == [op |-> "none", addr |-> 0]

Count(st, h, m, e) == [hits |-> st.hits + h, misses |-> st.misses + m, evictions |-> st.evictions + e]

\* One access, from a state [order, stats] to the next.
Access(st, a) ==
  LET x == SetOf(a)
      t == TagOf(a)
      q == st.order[x]
      at == CHOOSE k \in DOMAIN q : q[k] = t
      full == Len(q) = Ways
  IN  IF Contains(q, t)
      THEN [order |-> [st.order EXCEPT ![x] = <<t>> \o RemoveAt(q, at)], stats |-> Count(st.stats, 1, 0, 0)]
      ELSE [order |-> [st.order EXCEPT ![x] = <<t>> \o (IF full THEN Front(q) ELSE q)],
            stats |-> Count(st.stats, 0, 1, IF full THEN 1 ELSE 0)]

\* A modify is a load and a store; an instruction fetch is not simulated.
Effect(st, line) == CASE line.op \in {"L", "S"} -> Access(st, line.addr)
                      [] line.op = "M" -> Access(Access(st, line.addr), line.addr)
                      [] OTHER -> st

Init == /\ order = [x \in Sets |-> <<>>]
        /\ stats = [hits |-> 0, misses |-> 0, evictions |-> 0]
        /\ next = NoLine

Read == next = NoLine /\ next' \in Lines /\ UNCHANGED <<order, stats>>

Simulate == LET st == Effect([order |-> order, stats |-> stats], next) IN
            /\ next # NoLine /\ next' = NoLine
            /\ order' = st.order /\ stats' = st.stats

Spec == Init /\ [][Read \/ Simulate]_<<order, stats, next>>
=============================================================================
