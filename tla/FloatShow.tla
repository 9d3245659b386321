----------------------------- MODULE FloatShow -----------------------------
(***************************************************************************)
(* src/datalab/fshow.c: what the tool prints for the bits of a float.      *)
(***************************************************************************)
EXTENDS Words, Integers

get_exp(uf) == Shr(uf, 23) \cap (0..7)
get_frac(uf) == uf \cap (0..22)
get_sign(uf) == Shr(uf, 31) \cap One
BIAS == 127

\* the number of a word below 2^8
ValueOf(x) == CHOOSE n \in 0..255 : Num(n) = x

ExponentZero == 0 - BIAS  \* mutant: a denormalised number has the exponent of its field
DenormExponent == 1 - BIAS
show_float(uf) ==
  LET exp    == get_exp(uf)
      frac   == get_frac(uf)
      shown(k, m, e) == [kind |-> k, sign |-> get_sign(uf), mantissa |-> m, exponent |-> e]
  IN CASE exp = 0..7 /\ frac = {} -> shown("Infinity", {}, 0)
       [] exp = 0..7 /\ frac # {} -> shown("NaN", {}, 0)
       [] exp = {}                -> shown("Denormalized", frac, DenormExponent)
       [] OTHER                   -> shown("Normalized", frac \cup {23}, ValueOf(exp) - BIAS)

\* a is one unit in the last place below b
NextAbove(a, b) ==
  \/ a.exponent = b.exponent /\ b.mantissa = Plus(a.mantissa, One)
  \/ a.exponent + 1 = b.exponent /\ a.mantissa = 0..23 /\ b.mantissa = {23}
=============================================================================
