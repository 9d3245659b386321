------------------------------ MODULE MCBtest ------------------------------
(* Command lines for Btest: none, and the options alone and together.      *)
EXTENDS Btest

Option(o, x) == [opt |-> o, arg |-> x]
Numeral(text, low, upper, float, rest) ==
  [text |-> text, strtoll |-> low, upper |-> upper, strtof |-> float, rest |-> rest]
\* 7, 0xe0, 5000000000, -1, 1.5, 1e
Seven   == Numeral(<<"7">>, Num(7), 0, {}, FALSE)
Hex     == Numeral(<<"0", "x", "e", "0">>, {5, 6, 7}, 0, {}, FALSE)
TooLong == Numeral(<<"5", "0", "0", "0", "0", "0", "0", "0", "0", "0">>, {}, 2, {}, FALSE)
MinusOne == Numeral(<<"-", "1">>, Bit, -1, {}, FALSE)
Float15 == Numeral(<<"1", ".", "5">>, {}, 0, {22} \cup (23..29), FALSE)
NoFloat == Numeral(<<"1", "e">>, One, 0, {23}, TRUE)

MCCommandLines ==
  << <<>>,
     <<Option("h", "")>>, <<Option("r", 0 - 1)>>, <<Option("1", TooLong)>>, <<Option("2", NoFloat)>>,
     <<Option("1", Seven), Option("1", MinusOne), Option("f", "tmin")>>,
     <<Option("g", ""), Option("f", "float_abs"), Option("1", Float15), Option("1", Float15)>>,
     <<Option("f", "isGreater"), Option("2", Hex), Option("r", 1)>>,
     <<Option("f", "logicalShift"), Option("2", Seven), Option("T", 0)>>,
     <<Option("f", "conditional"), Option("1", MinusOne), Option("3", Seven), Option("T", 1)>> >>
=============================================================================
