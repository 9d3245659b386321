----------------------------- MODULE Allocator ------------------------------
(***************************************************************************)
(* What an allocator promises its user, as the driver checks it for each   *)
(* trace (src/malloclab/mdriver.c, eval_mm_valid and add_range): payloads  *)
(* are aligned, inside the heap and apart, nobody but the user writes      *)
(* them, and realloc keeps their content.  A request may always be refused.*)
(***************************************************************************)
EXTENDS Integers, Sequences

CONSTANTS Limit,         \* words of memory
          Sizes,         \* requests
          Pattern(_)     \* the k-th word the user writes into a payload

VARIABLE obj  \* the payloads the user holds: address -> their words

Span(p, n) == p .. p + n - 1

\* p can hold n words without touching the payloads at the addresses Q
Apart(p, n, Q) == /\ p % 2 = 0 /\ Span(p, n) \subseteq 0 .. Limit - 1
                  /\ \A q \in Q : Span(p, n) \cap Span(q, Len(obj[q])) = {}

Bind(f, p, v) == [q \in DOMAIN f \cup {p} |-> IF q = p THEN v ELSE f[q]]
Less(f, p)    == [q \in DOMAIN f \ {p} |-> f[q]]

New(p, n) == /\ n \in Sizes \ {0} /\ Apart(p, n, DOMAIN obj)
             /\ obj' = Bind(obj, p, [k \in 1 .. n |-> Pattern(k)])

Free(p) == obj' = Less(obj, p)

Resize(p, q, n) ==
  /\ n \in Sizes \ {0} /\ Apart(q, n, DOMAIN obj)
  /\ obj' = Bind(Less(obj, p), q, [k \in 1 .. n |-> IF k <= Len(obj[p]) THEN obj[p][k]
                                                                       ELSE Pattern(k)])

(* The heap is reset between two passes. *)
Reset == obj' = <<>>

Init == obj = <<>>

\* What is new in a step is a payload the user holds after it.
Next == \/ \E p \in DOMAIN obj' : New(p, Len(obj'[p]))
        \/ \E p \in DOMAIN obj : Free(p)
        \/ Reset
        \/ \E p \in DOMAIN obj, q \in DOMAIN obj' : Resize(p, q, Len(obj'[q]))

Spec == Init /\ [][Next]_obj
=============================================================================
