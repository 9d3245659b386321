------------------------------- MODULE Btest -------------------------------
(***************************************************************************)
(* The test harness of the data lab, src/datalab/btest.c: main() reads its *)
(* options, run_tests() goes through the table of decl.c, and              *)
(* test_function() compares the puzzle and its reference for every         *)
(* combination of the values that gen_vals() puts in arg_test_vals, until  *)
(* they differ or the alarm rings.                                         *)
(***************************************************************************)
EXTENDS Bits, FloatShow, Sequences, SequencesExt

CONSTANTS CommandLines, \* a sequence of command lines: sequences of options, see below
          TEST_RANGE,  \* values taken around each place of interest
          Sample,      \* a word in the place of the random values
          MaxTimeouts  \* bound: how many functions run out of time

ASSUME BtestAssumption == TEST_RANGE \in Nat \ {0} /\ Sample \subseteq Bit /\ MaxTimeouts \in Nat

VARIABLES
  argv,           \* the options not yet read
  opts,           \* test_fname, has_arg, argval, global_rating, timeout_limit
  pc,             \* "options", "exit", "next" function, "test", "done", or "lost"
                  \* after a stray longjmp
  i,              \* the function under test
  arg_test_vals,  \* the values for each of its arguments
  a,              \* a1, a2, a3
  errors,         \* sum over the functions so far
  points, max_points,
  alarm,          \* the timer is running
  timeouts        \* ghost: functions that ran out of time

score == <<errors, points, max_points>>
vars == <<argv, opts, pc, i, arg_test_vals, a, score, alarm, timeouts>>

\* argument ranges: of all words, of small numbers, of bit patterns of floats
All == [kind |-> "int", min |-> TMin, max |-> TMax]
Small(lo, hi) == [kind |-> "int", min |-> Num(lo), max |-> Num(hi)]
Float == [kind |-> "float", min |-> One, max |-> One]
Entry(name, rating, ranges) == [name |-> name, rating |-> rating, ranges |-> ranges]

test_set ==
  << Entry("bitAnd", 1, <<All, All>>), Entry("tmin", 1, <<>>),
     Entry("negate", 2, <<All>>), Entry("allEvenBits", 2, <<All>>),
     Entry("bitCount", 4, <<All>>), Entry("logicalShift", 3, <<All, Small(0, 31)>>),
     Entry("isNegative", 2, <<All>>), Entry("isGreater", 3, <<All, All>>),
     Entry("isPower2", 4, <<All>>), Entry("fitsBits", 2, <<All, Small(1, 32)>>),
     Entry("conditional", 3, <<All, All, All>>), Entry("greatestBitPos", 4, <<All>>),
     Entry("float_i2f", 4, <<Float>>), Entry("float_abs", 2, <<Float>>) >>

solution_funct(name, x) ==
  CASE name = "bitAnd" -> bitAnd(x[1], x[2])  [] name = "tmin" -> tmin
    [] name = "negate" -> negate(x[1])        [] name = "allEvenBits" -> allEvenBits(x[1])
    [] name = "bitCount" -> bitCount(x[1])    [] name = "logicalShift" -> logicalShift(x[1], ValueOf(x[2]))
    [] name = "isNegative" -> isNegative(x[1]) [] name = "isGreater" -> isGreater(x[1], x[2])
    [] name = "isPower2" -> isPower2(x[1])    [] name = "fitsBits" -> fitsBits(x[1], ValueOf(x[2]))
    [] name = "conditional" -> conditional(x[1], x[2], x[3])
    [] name = "greatestBitPos" -> greatestBitPos(x[1])
    [] name = "float_i2f" -> float_i2f(x[1])  [] name = "float_abs" -> float_abs(x[1])
test_funct(name, x) ==
  CASE name = "bitAnd" -> test_bitAnd(x[1], x[2])  [] name = "tmin" -> test_tmin
    [] name = "negate" -> test_negate(x[1])        [] name = "allEvenBits" -> test_allEvenBits(x[1])
    [] name = "bitCount" -> test_bitCount(x[1])    [] name = "logicalShift" -> test_logicalShift(x[1], ValueOf(x[2]))
    [] name = "isNegative" -> test_isNegative(x[1]) [] name = "isGreater" -> test_isGreater(x[1], x[2])
    [] name = "isPower2" -> test_isPower2(x[1])    [] name = "fitsBits" -> test_fitsBits(x[1], ValueOf(x[2]))
    [] name = "conditional" -> test_conditional(x[1], x[2], x[3])
    [] name = "greatestBitPos" -> test_greatestBitPos(x[1])
    [] name = "float_i2f" -> test_float_i2f(x[1])  [] name = "float_abs" -> test_float_abs(x[1])

----------------------------------------------------------------------------
(* gen_vals()                                                              *)

MAX_TEST_VALS == 13 * TEST_RANGE

\* the bit patterns around the boundaries of the floating point format
NearFloat(k) ==
  LET sign == TMin  smallest_norm == {23}  one == 23..29  largest_norm == 24..30
      both(w) == <<w, sign \cup w>>
  IN both(Num(k)) \o both(Plus(smallest_norm, Num(k))) \o both(Minus(smallest_norm, Num(k)))
       \o both(Plus(one, Num(k))) \o both(Minus(one, Num(k))) \o both(Minus(largest_norm, Num(k)))
SpecialFloats == <<23..30, 23..31, 22..30, 22..31>>

\* the ends of a range, its zero if it has one, and a random value
Near(r, k) ==
  <<Plus(r.min, Num(k)), Minus(r.max, Num(k))>>
    \o SelectSeq(<<Num(k), Minus(Zero, Num(k))>>, LAMBDA w : AtMost(r.min, w) /\ AtMost(w, r.max))
    \o <<Sample>>

FitsWhole(r) == AtMost(Minus(r.max, Num(MAX_TEST_VALS)), r.min)
Whole(r) ==
  LET last == CHOOSE n \in 0..(MAX_TEST_VALS + 1) : Plus(r.min, Num(n)) = r.max
  IN [k \in 1..(last + 1) |-> Plus(r.min, Num(k - 1))]

SkipsZero(r, range) == FlattenSeq([k \in 1..range |-> Near(r, k)])  \* mutant: i starts at 1
Sampled(r, range) == FlattenSeq([k \in 1..range |-> Near(r, k - 1)])
gen_vals(r, range) ==
  CASE r.kind = "float" -> FlattenSeq([k \in 1..range |-> NearFloat(k - 1)]) \o SpecialFloats
    [] r.kind = "int" /\ FitsWhole(r)  -> Whole(r)
    [] r.kind = "int" /\ ~FitsWhole(r) -> Sampled(r, range)

\* the largest n whose power args stays within TEST_RANGE, at least 1
arg_test_range(args) == CHOOSE n \in 1..TEST_RANGE : n^args <= TEST_RANGE /\ (n + 1)^args > TEST_RANGE

----------------------------------------------------------------------------
(* main(): an option is a record of its letter opt and its argument arg. A *)
(* numeral has its characters text and what the C library makes of it:     *)
(* strtoll (the low word and the bits above the 31st as a number), strtof, *)
(* and whether strtof leaves characters behind.                            *)

TIMEOUT_LIMIT == 10

\* a point, or an e that no x precedes
IsFloat(text) ==
  \E k \in DOMAIN text :
    \/ text[k] = "."
    \/ text[k] \in {"e", "E"} /\ \A l \in 1..(k - 1) : text[l] \notin {"x", "X"}

\* an integer is refused where an earlier option left a value
Accepts(numeral, val) ==
  IF IsFloat(numeral.text) THEN ~numeral.rest ELSE val = Zero /\ numeral.upper \in {-1, 0, 1}
get_num_val(numeral) == IF IsFloat(numeral.text) THEN numeral.strtof ELSE numeral.strtoll

Init == /\ \E n \in DOMAIN CommandLines : argv = CommandLines[n]
        /\ opts = [test_fname |-> "", has_arg |-> {}, argval |-> [k \in 1..3 |-> Zero],
                   global_rating |-> 0, timeout_limit |-> TIMEOUT_LIMIT]
        /\ pc = "options" /\ i = 1 /\ arg_test_vals = <<>> /\ a = <<>>
        /\ errors = 0 /\ points = 0 /\ max_points = 0 /\ alarm = FALSE /\ timeouts = 0

Exit == pc' = "exit" /\ UNCHANGED opts
Set(field, val) == opts' = [opts EXCEPT ![field] = val] /\ UNCHANGED pc

OneOption ==
  /\ pc = "options" /\ argv # <<>>
  /\ argv' = Tail(argv)
  /\ LET opt == Head(argv).opt  arg == Head(argv).arg
     IN CASE opt = "g" -> UNCHANGED <<opts, pc>>  \* what is printed
          [] opt = "f" -> Set("test_fname", arg)
          [] opt = "r" -> IF arg < 0 THEN Exit ELSE Set("global_rating", arg)
          [] opt = "T" -> Set("timeout_limit", arg)
          [] opt \in {"1", "2", "3"} ->
               LET k == CHOOSE n \in 1..3 : ToString(n) = opt
               IN IF Accepts(arg, opts.argval[k])
                  THEN /\ opts' = [opts EXCEPT !.has_arg = @ \cup {k}, !.argval[k] = get_num_val(arg)]
                       /\ UNCHANGED pc
                  ELSE Exit
          [] OTHER -> Exit
  /\ UNCHANGED <<i, arg_test_vals, a, score, alarm, timeouts>>

NoMoreOptions ==
  /\ pc = "options" /\ argv = <<>>
  /\ pc' = "next"
  /\ UNCHANGED <<argv, opts, i, arg_test_vals, a, score, alarm, timeouts>>

Wanted == opts.test_fname \in {"", test_set[i].name}

SkipFunction ==
  /\ pc = "next" /\ i <= Len(test_set) /\ ~Wanted
  /\ i' = i + 1
  /\ UNCHANGED <<argv, opts, pc, arg_test_vals, a, score, alarm, timeouts>>

values(k) ==
  LET ranges == test_set[i].ranges
  IN IF k \in opts.has_arg THEN <<opts.argval[k]>> ELSE gen_vals(ranges[k], arg_test_range(Len(ranges)))

StartFunction ==
  /\ pc = "next" /\ i <= Len(test_set) /\ Wanted
  /\ arg_test_vals' = [k \in DOMAIN test_set[i].ranges |-> values(k)]
  /\ a' = [k \in DOMAIN test_set[i].ranges |-> 1]
  /\ alarm' = (alarm \/ opts.timeout_limit > 0)
  /\ pc' = "test"
  /\ UNCHANGED <<argv, opts, i, score, timeouts>>

rating == IF opts.global_rating # 0 THEN opts.global_rating ELSE test_set[i].rating

\* test_function() returns the number of its errors, and the timer runs on
Return(n) ==
  /\ errors' = errors + n
  /\ points' = points + IF n = 0 THEN rating ELSE 0
  /\ max_points' = max_points + rating
  /\ i' = i + 1
  /\ pc' = "next"
  /\ UNCHANGED <<argv, opts, arg_test_vals>>

args == [k \in DOMAIN a |-> arg_test_vals[k][a[k]]]
Differs == solution_funct(test_set[i].name, args) # test_funct(test_set[i].name, args)
AllTried == \A k \in DOMAIN a : a[k] = Len(arg_test_vals[k])

\* a1, a2, a3 run like the digits of a counter, the last one fastest
Advanced ==
  LET at == CHOOSE k \in DOMAIN a : /\ a[k] < Len(arg_test_vals[k])
                                    /\ \A l \in DOMAIN a : l > k => a[l] = Len(arg_test_vals[l])
  IN [k \in DOMAIN a |-> IF k < at THEN a[k] ELSE IF k = at THEN a[k] + 1 ELSE 1]

TestOne ==
  /\ pc = "test"
  /\ IF Differs \/ AllTried
     THEN Return(IF Differs THEN 1 ELSE 0) /\ a' = <<>>
     ELSE a' = Advanced /\ UNCHANGED <<argv, opts, pc, i, arg_test_vals, score>>
  /\ UNCHANGED <<alarm, timeouts>>

(* siglongjmp() into test_function(), which counts one error.              *)
Timeout ==
  /\ pc = "test" /\ alarm /\ timeouts < MaxTimeouts
  /\ alarm' = FALSE
  /\ timeouts' = timeouts + 1
  /\ Return(1) /\ a' = <<>>

(* The alarm of a function that has returned: siglongjmp() into a frame    *)
(* that is gone, and anything may happen.                                  *)
LateTimeout ==
  /\ pc = "next" /\ alarm
  /\ pc' = "lost"
  /\ alarm' = FALSE
  /\ UNCHANGED <<argv, opts, i, arg_test_vals, a, score, timeouts>>

Finish ==
  /\ pc = "next" /\ i > Len(test_set)
  /\ pc' = "done"
  /\ UNCHANGED <<argv, opts, i, arg_test_vals, a, score, alarm, timeouts>>

Next == OneOption \/ NoMoreOptions \/ SkipFunction \/ StartFunction \/ TestOne \/ Timeout \/ LateTimeout \/ Finish
Spec == Init /\ [][Next]_vars

----------------------------------------------------------------------------
(* No puzzle of bits.c differs from its reference on the values around the *)
(* ends of the number range, around zero and around the boundaries of the  *)
(* float format: only a timeout costs points.                              *)
OnlyTimeoutsCost == errors = timeouts /\ (timeouts = 0 => points = max_points)

(* gen_vals() stays inside its row of arg_test_vals, and puts both ends of *)
(* the range and a zero inside it among the values; an argument given with *)
(* -1, -2 or -3 is the only value.                                          *)
ValuesFitAndReachTheEnds ==
  pc = "test" => \A k \in DOMAIN arg_test_vals :
    LET r == test_set[i].ranges[k]  vals == ToSet(arg_test_vals[k])
    IN /\ Len(arg_test_vals[k]) <= MAX_TEST_VALS
       /\ k \in opts.has_arg => vals = {opts.argval[k]}
       /\ (r.kind = "int" /\ k \notin opts.has_arg) =>
            /\ {r.min, r.max} \subseteq vals
            /\ (AtMost(r.min, Zero) /\ AtMost(Zero, r.max)) => Zero \in vals

(* fshow prints the positive floats in the order of their bits and one     *)
(* unit apart, across the step from denormalised to normalised too.        *)
ShownInOrder ==
  pc = "test" /\ test_set[i].name = "float_abs" =>
    LET uf == args[1]
    IN uf \cap {31} = {} /\ Below(uf, 23..30) /\ Plus(uf, One) # 23..30 =>
         NextAbove(show_float(uf), show_float(Plus(uf, One)))
=============================================================================
