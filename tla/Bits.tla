-------------------------------- MODULE Bits --------------------------------
(***************************************************************************)
(* The puzzles of src/datalab/bits.c and, named test_..., the functions of *)
(* src/datalab/tests.c that say what they should return.  The puzzles use  *)
(* only the operators each is allowed; the references say it with sets of  *)
(* bits and with the order of the numbers.                                 *)
(***************************************************************************)
EXTENDS Words, FiniteSets

bitAnd(x, y) == Not(Not(x) \cup Not(y))
tmin == Shl(One, 31)
negate(x) == Plus(Not(x), One)

\* a byte pattern repeated through the word
Twice(x, n) == Plus(Shl(x, n), x)
allEvenBits(x) == IsZero(Not(x) \cap Twice(Twice(Num(85), 8), 16))

\* neighbouring fields of n bits added up
AddFields(x, mask, n) == Plus(x \cap mask, Sar(x, n) \cap mask)
bitCount(x) ==
  LET x1 == AddFields(x,  Twice(Twice(Num(85), 8), 16), 1)
      x2 == AddFields(x1, Twice(Twice(Num(51), 8), 16), 2)
      x3 == AddFields(x2, Twice(Twice(Num(15), 8), 16), 4)
      x4 == AddFields(x3, Twice(Num(255), 16), 8)
  IN AddFields(x4, Twice(Num(255), 8), 16)

logicalShift(x, n) == Sar(x, n) \cap Not(Shl(Sar(tmin, n), 1))
isNegative(x) == Sar(x, 31) \cap One

isGreater(x, y) ==
  LET same_msb == IsZero(Xor(Sar(x, 31), Sar(y, 31)))
      msb_x    == Sar(x, 31) \cap One
      neg_y_x  == Sar(Plus(y, Plus(Not(x), One)), 31) \cap One
  IN (same_msb \cap neg_y_x) \cup (IsZero(same_msb) \cap IsZero(msb_x))

isPower2(x) ==
  LET minus1 == Plus(x, Not(Zero))
  IN IsZero(x \cap minus1) \cap IsZero(IsZero(x)) \cap IsZero(IsZero(Xor(x, tmin)))

fitsBits(x, n) == LET top == Sar(x, n - 1) IN IsZero(Xor(top, Not(Zero))) \cup IsZero(top)

\* all ones when x is not zero
Spread(x) == Sar(Shl(Not(IsZero(x)), 31), 31)
conditional(x, y, z) == Plus(y \cap Spread(x), z \cap Not(Spread(x)))

\* each one spread over the n places below it
Smear(x, n) == Sar(x, n) \cup x
greatestBitPos(x) ==
  LET below   == Smear(Smear(Smear(Smear(Smear(x, 1), 2), 4), 8), 16)
      pos_ans == Sar(Plus(below, One), 1) \cap Not(tmin)
      neg     == Spread(Sar(x, 31))
  IN Plus(neg \cap tmin, Not(neg) \cap pos_ans)

\* the steps of float_i2f: how far the loop shifts, what rounding adds
Normalise(t) == CHOOSE n \in 0..31 : 31 \in Shl(t, n) /\ \A k \in 0..(n - 1) : 31 \notin Shl(t, k)
NeverCarries(frac) == FALSE  \* mutant: the case of a carry out of the fraction forgotten
CarriesOut(frac) == Shr(frac, 24) = One
RoundsUp(temp) ==
  LET last_8 == temp \cap Num(255)
  IN \/ Below(Num(128), last_8)
     \/ last_8 = Num(128) /\ 8 \in temp
float_i2f(x) ==
  LET mag    == IF Less(x, Zero) THEN negate(x) ELSE x
      count  == Normalise(mag)
      temp   == Shl(mag, count)
      rounds == IF RoundsUp(temp) THEN Plus(Shr(temp, 8), One) ELSE Shr(temp, 8)
      exp    == IF CarriesOut(rounds) THEN Num(31 - count + 127 + 1) ELSE Num(31 - count + 127)
      frac   == IF CarriesOut(rounds) THEN Shr(rounds, 1) ELSE rounds
  IN IF x = Zero THEN Zero ELSE Plus(Plus(x \cap tmin, Shl(exp, 23)), frac \cap (0..22))

float_abs(uf) ==
  LET exp  == Shr(uf, 23) \cap Num(255)
      frac == uf \cap (0..22)
  IN IF exp = Num(255) /\ frac # Zero THEN uf ELSE uf \cap TMax

----------------------------------------------------------------------------
test_bitAnd(x, y) == x \cap y
test_tmin == TMin
test_negate(x) == Minus(Zero, x)
test_allEvenBits(x) == IF \A b \in Bit : b % 2 = 0 => b \in x THEN One ELSE Zero
test_bitCount(x) == Num(Cardinality(x))
test_logicalShift(x, n) == Shr(x, n)
test_isNegative(x) == IF Less(x, Zero) THEN One ELSE Zero
test_isGreater(x, y) == IF Less(y, x) THEN One ELSE Zero
test_isPower2(x) == IF \E b \in 0..30 : x = Shl(One, b) THEN One ELSE Zero
test_fitsBits(x, n) ==
  LET limit == Shl(One, n - 1)
  IN IF AtMost(Minus(Zero, limit), x) /\ AtMost(x, Minus(limit, One)) THEN One ELSE Zero
test_conditional(x, y, z) == IF x # Zero THEN y ELSE z
test_greatestBitPos(x) == {b \in x : \A c \in x : c <= b}

(* (float) x: of the two neighbours with 24 significant bits the nearer    *)
(* one, and of two equally near ones the one whose last bit is 0.          *)
Encoded(sign, val) ==
  LET top == CHOOSE b \in val : \A c \in val : c <= b
  IN sign \cup Shl(Num(top + 127), 23)
          \cup (IF top > 23 THEN Shr(val \ {top}, top - 23) ELSE Shl(val \ {top}, 23 - top))
test_float_i2f(x) ==
  LET mag  == IF Less(x, Zero) THEN Minus(Zero, x) ELSE x
      top  == CHOOSE b \in mag : \A c \in mag : c <= b
      unit == top - 23
      low  == {b \in mag : b >= unit}
      high == Plus(low, {unit})
      near == IF \/ Below(Minus(mag, low), Minus(high, mag))
                 \/ Minus(mag, low) = Minus(high, mag) /\ unit \notin low
              THEN low ELSE high
  IN CASE x = Zero  -> Zero
       [] top <= 23 -> Encoded(x \cap TMin, mag)
       [] OTHER     -> Encoded(x \cap TMin, near)

\* isnan() and the sign of -f
IsNaN(uf) == 23..30 \subseteq uf /\ uf \cap (0..22) # {}
test_float_abs(uf) == IF ~IsNaN(uf) /\ 31 \in uf THEN uf \ {31} ELSE uf
=============================================================================
