----------------------------- MODULE TestTrans -----------------------------
(***************************************************************************)
(* Grading the transposes of the cache lab: driver.py runs test-trans once *)
(* per matrix size; test-trans has tracegen run each registered function   *)
(* under valgrind, cuts the function's accesses out of the trace, gives    *)
(* them to csim-ref and reports the submission's misses.                   *)
(***************************************************************************)
EXTENDS Trans, FiniteSets, TLC

CONSTANTS ByHand,      \* sizes test-trans is also run with by hand
          GlobalSets,  \* cache sets tracegen's other variables may fall into
          CsimPoints,  \* what test-csim may print, of 27
          MaxTimeouts  \* runs of test-trans that may take over 120 s

ASSUME TestTransAssumption ==
  /\ \A z \in ByHand : z[1] \in 1 .. 256 /\ z[2] \in 1 .. 256
  /\ GlobalSets \subseteq 0 .. 31
  /\ CsimPoints \subseteq 0 .. 27
  /\ MaxTimeouts \in Nat

VARIABLES
  todo,      \* sizes test-trans still has to be run with, this one first
  reported,  \* the TEST_TRANS_RESULTS so far: [correct, misses]
  score,     \* the points of driver.py, in tenths, one per report
  pc,        \* "csim", "eval", "rows", "simulate", "score", "done"
  fn,        \* the function eval_perf() is at
  pos, B,    \* tracegen: the loops of the function and the array B
  globals,   \* the cache set of tracegen's other variables, fixed at linking
  results,   \* test-trans's struct results
  cache,     \* csim-ref's state after the trace so far
  timeouts   \* bound

vars == <<todo, reported, score, pc, fn, pos, B, globals, results, cache, timeouts>>

Graded == <<<<32, 32>>, <<64, 64>>, <<61, 67>>>>
INT_MAX == 2147483647

M == todo[1][1]
N == todo[1][2]

(* csim-ref -s 5 -E 1 -b 5.  Only its operators are used, not its state.   *)
Ref == INSTANCE CSim WITH
  s <- 5, E <- 1, b <- 5, Addresses <- {}, TraceLength <- 0,
  cache <- cache.cache, hit <- cache.hit, miss <- cache.miss, evict <- cache.evict,
  input <- <<>>, lines <- 0

NoAccess == [cache |-> [x \in 0 .. 31 |-> [w \in {0} |-> [valid |-> 0, tag |-> 0, ucount |-> 0]]],
             hit |-> 0, miss |-> 0, evict |-> 0]

Simulated(c, addrs) ==
  LET f[k \in 0 .. Len(addrs)] ==
        IF k = 0 THEN c ELSE Ref!load_or_store(f[k - 1], addrs[k])
  IN  f[Len(addrs)]

(* The variables of tracegen that are neither A nor B lie behind them; the *)
(* worst case is that each has a line of its own and all fall into one set.*)
GlobalAddr(g, n) == 2 * 256 * 256 * SizeOfInt + n * 1024 + g * 32
BeforeCall(g) == <<GlobalAddr(g, 0), GlobalAddr(g, 1), GlobalAddr(g, 2), GlobalAddr(g, 3)>>
EndMarker(g) == <<GlobalAddr(g, 0)>>

NoResults == [funcid |-> 0, correct |-> 0, misses |-> INT_MAX]

----------------------------------------------------------------------------
Init ==
  /\ todo \in {Graded} \cup {<<z>> : z \in ByHand}
  /\ pc = IF todo = Graded THEN "csim" ELSE "eval"
  /\ reported = <<>> /\ score = <<>>
  /\ fn = 1 /\ pos = Start /\ B = <<>>
  /\ globals \in GlobalSets /\ results = NoResults /\ cache = NoAccess
  /\ timeouts = 0

(* driver.py runs ./test-csim first: it prints up to 27 points. *)
TestCsim ==
  /\ pc = "csim"
  /\ \E points \in CsimPoints : score' = <<10 * points>>
  /\ pc' = "eval"
  /\ UNCHANGED <<todo, reported, fn, pos, B, globals, results, cache, timeouts>>

(* system("valgrind ... ./tracegen -M -N -F"): the matrices are filled and *)
(* the start marker is written.  The submission is known by its name.      *)
Tracegen ==
  /\ pc = "eval" /\ fn <= Len(func_list)
  /\ results' = IF func_list[fn] = "transpose_submit"
                THEN [results EXCEPT !.funcid = fn] ELSE results
  /\ pos' = Start
  /\ B' = Junk(M, N)
  /\ cache' = Simulated(NoAccess, BeforeCall(globals))
  /\ pc' = "rows"
  /\ UNCHANGED <<todo, reported, score, fn, globals, timeouts>>

(* The function runs one row of a block. *)
RunRow ==
  /\ pc = "rows" /\ ~Finished(func_list[fn], M, N, pos)
  /\ LET cells == Row(func_list[fn], M, N, pos)
     IN  B' = Moved(B, cells) /\ cache' = Simulated(cache, Accesses(M, N, cells))
  /\ pos' = NextRow(func_list[fn], M, N, pos)
  /\ UNCHANGED <<todo, reported, score, pc, fn, globals, results, timeouts>>

NextFunction == fn' = fn + 1 /\ pos' = Start /\ B' = <<>> /\ cache' = NoAccess

(* tracegen leaves with the function's number plus one when B is not the   *)
(* transpose: eval_perf() goes on with the next function.                  *)
ValidationError ==
  /\ pc = "rows" /\ Finished(func_list[fn], M, N, pos)
  /\ ~is_transpose(M, N, B)
  /\ pc' = "eval"
  /\ NextFunction
  /\ UNCHANGED <<todo, reported, score, globals, results, timeouts>>

(* The accesses from one marker to the other go to csim-ref.               *)
EvalPerf ==
  LET total == Simulated(cache, EndMarker(globals))
  IN  /\ pc = "rows" /\ Finished(func_list[fn], M, N, pos)
      /\ is_transpose(M, N, B)
      /\ results' = IF results.funcid = fn
                    THEN [results EXCEPT !.correct = 1, !.misses = total.miss]
                    ELSE results
      /\ pc' = "eval"
      /\ NextFunction
      /\ UNCHANGED <<todo, reported, score, globals, timeouts>>

----------------------------------------------------------------------------
(* computeMissScore() of driver.py, in tenths; round() rounds half up.     *)
computeMissScore(miss, lower, upper, full) ==
  IF miss <= lower THEN 10 * full
  ELSE IF miss >= upper THEN 0
  ELSE (20 * full * (upper - miss) + (upper - lower)) \div (2 * (upper - lower))

Full == <<8, 8, 10>>
Points(k, r) ==
  r.correct * computeMissScore(r.misses, <<300, 1300, 2000>>[k], <<600, 2000, 3000>>[k], Full[k])

Printed(r) ==
  /\ reported' = Append(reported, r)
  /\ score' = IF score = <<>> THEN score ELSE Append(score, Points(Len(reported'), r))
  /\ todo' = Tail(todo)
  /\ pc' = IF Tail(todo) = <<>> THEN "done" ELSE "eval"
  /\ fn' = 1 /\ pos' = Start /\ B' = <<>>
  /\ results' = NoResults /\ cache' = NoAccess

(* main() of test-trans emits the results and driver.py reads them. *)
Report ==
  /\ pc = "eval" /\ fn > Len(func_list)
  /\ Printed([correct |-> results.correct, misses |-> results.misses])
  /\ UNCHANGED <<globals, timeouts>>

(* SIGALRM after 120 s, wherever eval_perf() is: 0:0. *)
sigalrm_handler ==
  /\ pc \in {"eval", "rows"} /\ timeouts < MaxTimeouts
  /\ timeouts' = timeouts + 1
  /\ Printed([correct |-> 0, misses |-> 0])
  /\ UNCHANGED globals

Done == pc = "done" /\ UNCHANGED vars

Next == \/ TestCsim \/ Tracegen \/ RunRow \/ ValidationError \/ EvalPerf
        \/ Report \/ sigalrm_handler \/ Done

Spec == Init /\ [][Next]_vars
----------------------------------------------------------------------------
(* Whatever the blocks leave out at the edges and on the diagonal, each    *)
(* function transposes every size it is meant for; and the results count   *)
(* as correct just the sizes transpose_submit() has a branch for: for any  *)
(* other one it writes nothing (trans.c:44-110, test-trans.c:71-90).       *)
SizesMeantForValidate ==
  /\ pc = "rows" /\ Finished(func_list[fn], M, N, pos) =>
       (is_transpose(M, N, B) <=> func_list[fn] = "trans" \/ Block(M, N) # 0)
  /\ pc = "eval" /\ fn > Len(func_list) => (results.correct = 1 <=> Block(M, N) # 0)

(* The points of the graded sizes: 32x32 and 61x67 stay under the misses   *)
(* for full points, 64x64 gets a part, wherever tracegen's other variables *)
(* fall in the cache; a run that was cut off gets none, and test-csim's    *)
(* points are not touched (trans.c:43-109, driver.py:20-28, 88-97).        *)
Deserved == <<{80}, 1 .. 79, {100}>>
CutOff(r) == r = [correct |-> 0, misses |-> 0]
PointsDeserved ==
  pc = "done" /\ score # <<>> =>
    /\ score[1] \in {10 * p : p \in CsimPoints}
    /\ \A k \in DOMAIN reported :
         score[k + 1] \in IF CutOff(reported[k]) THEN {0} ELSE Deserved[k]
    /\ Cardinality({k \in DOMAIN reported : CutOff(reported[k])}) = timeouts
=============================================================================
