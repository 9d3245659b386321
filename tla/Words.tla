------------------------------- MODULE Words -------------------------------
(***************************************************************************)
(* The 32-bit arithmetic of C on this machine: a word is the set of the    *)
(* positions of its ones, so that no operation needs a number above 2^31.  *)
(* Signed overflow wraps around, which is what gcc makes of the datalab    *)
(* functions at the optimisation level of their Makefile.                  *)
(***************************************************************************)
EXTENDS Naturals

Bit == 0..31
Word == SUBSET Bit

\* the word of a small number
Num(n) == {b \in 0..16 : (n \div 2^b) % 2 = 1}

Zero == {}
One == {0}
TMin == {31}
TMax == 0..30

Not(x) == Bit \ x
Xor(x, y) == (x \ y) \cup (y \ x)
IsZero(x) == IF x = Zero THEN One ELSE Zero  \* the operator ! of C

Shl(x, n) == {b + n : b \in x} \cap Bit
Shr(x, n) == {b \in Bit : b + n \in x}                           \* unsigned
Sar(x, n) == Shr(x, n) \cup IF 31 \in x THEN (32 - n)..31 ELSE {}  \* int

\* position b is carried into from a place where both have a one, past
\* places where at least one has
Carried(x, y) == {b \in Bit : \E c \in x \cap y : c < b /\ (c + 1)..(b - 1) \subseteq x \cup y}
Plus(x, y) == Xor(Xor(x, y), Carried(x, y))
Minus(x, y) == Plus(Plus(x, Not(y)), One)

\* unsigned and signed order: the highest place where the two differ decides
Below(x, y) == \E b \in y \ x : \A c \in x \ y : c < b
Less(x, y) == Below(Xor(x, TMin), Xor(y, TMin))
AtMost(x, y) == x = y \/ Less(x, y)
=============================================================================
