------------------------------ MODULE MDriver -------------------------------
(***************************************************************************)
(* The allocator driver, src/malloclab/mdriver.c: for each trace the       *)
(* correctness pass with its range list and its check of the data, the     *)
(* utilization pass, and the timing of fcyc.c; then the performance index. *)
(* The heap is reset between the passes.  The allocator under test is the  *)
(* one of mm.c or one of its predecessors mm_exp.c and mm_safe_copy.c.     *)
(*                                                                         *)
(* The requests of a trace, its weight and the number of traces are chosen *)
(* as they are read; a block is named by its address (trace->blocks) and a *)
(* request of n words is 4n bytes.                                         *)
(***************************************************************************)
EXTENDS Blocks

CONSTANTS Requests,    \* sizes in the first trace
          Later,       \* sizes in the traces after it
          MaxTraces,   \* bound on the traces
          Libs,        \* allocators under test
          Candidates,  \* see Explicit
          Times,       \* durations fcyc() may measure
          kbest, maxsamples, \* parameters of fcyc()
          Throughputs  \* operations per second, in thousands, of the index

ASSUME MDriverAssumption == /\ Requests \subseteq Nat /\ Later \subseteq Requests
                            /\ MaxTraces \in Nat \ {0} /\ Throughputs \subseteq Nat
                            /\ Times \subseteq Nat
                            /\ Libs \subseteq {"mm", "mm_exp", "mm_safe_copy"}
                            /\ Candidates \in Nat \ {0}
                            /\ kbest \in Nat \ {0} /\ maxsamples \in Nat \ {0}

VARIABLES lib,     \* the allocator
          heap,    \* mem, mem_brk and the free lists
          live,    \* blocks and block_sizes: bp -> size asked for
          ranges,  \* the range list: records [lo, hi] of words
          total,   \* eval_mm_util(): total_size and max_total_size
          pass,    \* "libc", "valid", "util", "speed", "done", "index",
                   \* "exit", or "wild" after a jump out of nowhere
          verdict, \* what malloc_error() or app_error() said
          values, samplecount, \* fcyc(): the smallest samples, sorted
          mm_stats, \* valid and util of the traces, this one last
          errors,   \* errors > 0
          alarmed,  \* the timeout has come
          perfindex, \* in percent, NoIndex before it is computed
          report    \* what is printed: the totals of the table, and avg_mm_util

heapvars == <<lib, heap, live, ranges, total>>
fcycvars == <<values, samplecount>>
indexvars == <<perfindex, report>>
vars == <<heapvars, pass, verdict, fcycvars, mm_stats, errors, alarmed, indexvars>>

Seg  == INSTANCE Heap
Exp  == INSTANCE Explicit WITH BestFit <- lib = "mm_safe_copy"

mm_init(h, granted) == IF lib = "mm" THEN Seg!mm_init(h, granted) ELSE Exp!mm_init(h, granted)
mm_malloc(n, granted) == IF lib = "mm" THEN Seg!mm_malloc(heap, n, granted)
                                       ELSE Exp!mm_malloc(heap, n, granted)
mm_free(bp) == IF lib = "mm" THEN Seg!mm_free(heap, bp) ELSE Exp!mm_free(heap, bp)
mm_realloc(bp, n, granted) == IF lib = "mm" THEN Seg!mm_realloc(heap, bp, n, granted)
                                            ELSE Exp!mm_realloc(heap, bp, n, granted)

NoIndex == -1
NoTable == <<>>

----------------------------------------------------------------------------
(* Ranges and data                                                         *)

(* One end of the new payload lies in an old one. *)
Overlaps(R, lo, hi) == \E r \in R : lo \in r.lo .. r.hi \/ hi \in r.lo .. r.hi

(* The checks of add_range() in their order. *)
RangeVerdict(R, brk, lo, n) ==
  IF lo % 2 # 0 THEN "misaligned"
  ELSE IF lo \notin 0 .. brk - 1 \/ lo + n - 1 \notin 0 .. brk - 1 THEN "outside"
  ELSE IF Overlaps(R, lo, lo + n - 1) THEN "overlaps"
  ELSE "ok"

Extent(lo, n) == [lo |-> lo, hi |-> lo + n - 1]

KeepRange(R, lo) == R  \* mutant: the record of a freed block stays
remove_range(R, lo) == {r \in R : r.lo # lo}

(* The driver's words of a payload: randomize_block() and check_index().   *)
Word(k) == -k
Fill(h, bp, data) ==
  [h EXCEPT !.mem = [a \in DOMAIN @ |-> IF a \in bp .. bp + Len(data) - 1 THEN data[a - bp + 1]
                                                                        ELSE @[a]]]
randomize_block(h, bp, n) == Fill(h, bp, [k \in 1 .. n |-> Word(k)])
check_index(h, bp, n) == IF \E k \in 1 .. n : h.mem[bp + k - 1] # Word(k) THEN "garbled" ELSE "ok"

\* the sizes this trace asks for
Sizes == IF Len(mm_stats) = 1 THEN Requests ELSE Later

Hold(f, bp, n) == [p \in DOMAIN f \cup {bp} |-> IF p = bp THEN n ELSE f[p]]
Drop(f, bp)    == [p \in DOMAIN f \ {bp} |-> f[p]]
SizeAt(bp)     == IF bp = NULL THEN 0 ELSE live[bp]

----------------------------------------------------------------------------
(* eval_mm_valid()                                                         *)

\* malloc_error() and return 0: the trace is invalid, its other passes are skipped.
Reject(why) == verdict' = why /\ pass' = "done" /\ errors' = TRUE

\* What was said first is kept; reports of check_index() do not stop the pass.
Report(why) == /\ verdict' = IF verdict = "ok" THEN why ELSE verdict
               /\ errors' = (errors \/ why # "ok")
               /\ UNCHANGED pass

(* What malloc or realloc returned, x, is checked and recorded as the      *)
(* payload of n words that replaces the one at old, if there is one.       *)
Record(x, old, n, data) ==
  LET R == remove_range(ranges, old)
      v == RangeVerdict(R, x.h.brk, x.bp, n)
  IN  IF v # "ok" THEN heap' = x.h /\ ranges' = R /\ Reject(v) /\ UNCHANGED live
      ELSE /\ heap' = randomize_block(x.h, x.bp, n)
           /\ ranges' = R \cup {Extent(x.bp, n)}
           /\ live' = Hold(Drop(live, old), x.bp, n)
           /\ Report(data)

ValidAlloc(x, n) ==
  IF x.bp = NULL THEN heap' = x.h /\ Reject("refused") /\ UNCHANGED <<live, ranges>>
  ELSE Record(x, NULL, n, "ok")

(* bp is NULL for a block that was resized to 0 before; x is what          *)
(* mm_realloc() returned.                                                  *)
ValidRealloc(x, bp, n) ==
  LET before == check_index(heap, bp, SizeAt(bp))
      after  == check_index(x.h, x.bp, Smaller(n, SizeAt(bp)))
  IN  IF x.bp = NULL /\ n # 0
      THEN heap' = x.h /\ Reject("refused") /\ UNCHANGED <<live, ranges>>
      ELSE IF n = 0
      THEN /\ heap' = x.h /\ ranges' = remove_range(ranges, bp) /\ live' = Drop(live, bp)
           /\ Report(before)
      ELSE Record(x, bp, n, IF before # "ok" THEN before ELSE after)

ValidFree(bp) ==
  /\ heap' = mm_free(bp)
  /\ ranges' = remove_range(ranges, bp)
  /\ live' = Drop(live, bp)
  /\ Report(check_index(heap, bp, SizeAt(bp)))

Valid == /\ pass = "valid"
         /\ \E granted \in BOOLEAN :
              \/ \E n \in Sizes \ {0} : ValidAlloc(mm_malloc(n, granted), n)
              \/ \E bp \in DOMAIN live \cup {NULL}, n \in Sizes :
                   ValidRealloc(mm_realloc(bp, n, granted), bp, n)
              \/ \E bp \in DOMAIN live \cup {NULL} : ValidFree(bp)
         /\ UNCHANGED <<lib, total, fcycvars, mm_stats, alarmed, indexvars>>

----------------------------------------------------------------------------
(* eval_mm_util(): nobody writes into the payloads, which hold Junk.       *)

SizesOnly(h, bp, n) == Fill(h, bp, [k \in 1 .. n |-> Junk])

(* A resized block counts for the difference. *)
Growth(n, old) == n - old

(* total_size changes by d; max_total_size is its high water mark.         *)
Count(d) == total' = [size |-> total.size + d, max |-> Larger(total.max, total.size + d)]

\* app_error(): there will be no index
Exits(why) == verdict' = why /\ pass' = "exit"

UtilSized(x, old, n) ==
  IF x.bp = NULL /\ n # 0
  THEN heap' = x.h /\ Exits("refused") /\ UNCHANGED <<live, total>>
  ELSE /\ heap' = IF n = 0 THEN x.h ELSE SizesOnly(x.h, x.bp, n)
       /\ live' = IF n = 0 THEN Drop(live, old) ELSE Hold(Drop(live, old), x.bp, n)
       /\ Count(Growth(n, SizeAt(old)))
       /\ UNCHANGED <<pass, verdict>>

UtilFree(bp) == /\ heap' = mm_free(bp) /\ live' = Drop(live, bp)
                /\ Count(-SizeAt(bp)) /\ UNCHANGED <<pass, verdict>>

Util == /\ pass = "util"
        /\ \E granted \in BOOLEAN :
             \/ \E n \in Sizes \ {0} : UtilSized(mm_malloc(n, granted), NULL, n)
             \/ \E bp \in DOMAIN live \cup {NULL}, n \in Sizes :
                   UtilSized(mm_realloc(bp, n, granted), bp, n)
             \/ \E bp \in DOMAIN live : UtilFree(bp)
        /\ UNCHANGED <<lib, ranges, fcycvars, mm_stats, errors, alarmed, indexvars>>

----------------------------------------------------------------------------
(* run_tests() and fcyc()                                                  *)

(* mem_reset_brk(), clear_ranges(), reinit_trace() and mm_init(), which    *)
(* starts from the words and list heads the last pass left.                *)
Begin(next) ==
  /\ pass' = next
  /\ heap' = mm_init(mem_reset_brk(heap), TRUE).h
  /\ live' = <<>>
  /\ ranges' = {}
  /\ total' = [size |-> 0, max |-> 0]
  /\ UNCHANGED <<lib, verdict, fcycvars, errors, alarmed, indexvars>>

(* add_sample(): one of the kbest smallest, in order. *)
Insert(seq, v) == SelectSeq(seq, LAMBDA w : w <= v) \o <<v>> \o SelectSeq(seq, LAMBDA w : w > v)
add_sample(v) ==
  /\ values' = IF samplecount < kbest THEN Insert(values, v)
               ELSE IF v < values[kbest] THEN Insert(SubSeq(values, 1, kbest - 1), v)
               ELSE values
  /\ samplecount' = samplecount + 1

(* 1 + epsilon is 1.01 *)
has_converged == samplecount >= kbest /\ 101 * values[1] >= 100 * values[kbest]

(* One run of eval_mm_speed(): the requests of the other passes on a fresh *)
(* heap; only its duration is looked at.                                   *)
Sample(v) ==
  /\ pass = "speed"
  /\ samplecount = 0 \/ (~has_converged /\ samplecount < maxsamples)
  /\ add_sample(v)
  /\ UNCHANGED <<heapvars, pass, verdict, mm_stats, errors, alarmed, indexvars>>

Measured ==
  /\ pass = "speed" /\ samplecount > 0
  /\ has_converged \/ samplecount >= maxsamples
  /\ pass' = "done"
  /\ UNCHANGED <<heapvars, verdict, fcycvars, mm_stats, errors, alarmed, indexvars>>

This(field, v) == mm_stats' = [mm_stats EXCEPT ![Len(mm_stats)][field] = v]

EndOfTrace ==
  \/ pass = "valid" /\ This("valid", 1) /\ Begin("util")
  \/ pass = "util" /\ This("util", (100 * total.max) \div heap.brk) /\ Begin("speed")

----------------------------------------------------------------------------
(* run_tests() over the traces, and main()                                 *)

NoStats == [valid |-> 0, util |-> 0]

(* mem_deinit() and mem_init(): a fresh area is mapped; the list heads are *)
(* the allocator's own.                                                    *)
FreshArea == /\ heap' = mm_init([mem_init EXCEPT !.fl = heap.fl], TRUE).h
             /\ live' = <<>> /\ ranges' = {} /\ total' = [size |-> 0, max |-> 0]

(* After a timeout no trace is run any more. *)
NextTrace ==
  /\ pass = "done" /\ Len(mm_stats) < MaxTraces
  /\ mm_stats' = Append(mm_stats, NoStats)
  /\ FreshArea
  /\ values' = <<>> /\ samplecount' = 0
  /\ IF verdict = "timeout" THEN UNCHANGED <<pass, verdict>>
                             ELSE pass' = "valid" /\ verdict' = "ok"
  /\ UNCHANGED <<lib, errors, alarmed, indexvars>>

(* The last trace is done, or -c asked for one correctness pass only; no   *)
(* heap and no sample is looked at from here on.                           *)
TestsEnd ==
  /\ \/ pass = "done"
     \/ pass = "valid" /\ Len(mm_stats) = 1
  /\ pass' = "index"
  /\ mm_stats' = IF pass = "valid" THEN [mm_stats EXCEPT ![1].valid = 1] ELSE mm_stats
  /\ FreshArea
  /\ values' = <<>>
  /\ UNCHANGED <<lib, verdict, samplecount, errors, alarmed, indexvars>>

(* One term of the index: 0 below min, all of it above max.                *)
Share(x, min, max, weight) ==
  IF x < min THEN 0 ELSE IF x > max THEN weight ELSE ((x - min) * weight) \div (max - min)

UTIL_WEIGHT == 61
WeightCounts(w, kind) == w \in {"all", kind}

Counting(weight, kind) == {i \in DOMAIN mm_stats : WeightCounts(weight[i], kind)}
Utils(T) == MapThenSumSet(LAMBDA i : mm_stats[i].util, T)

AnyRun(e) == TRUE  \* mutant: errors are printed and do not count
Clean(e) == ~e

(* printresults(): the totals of the valid traces, shown without errors.   *)
Table(weight) ==
  LET U == {i \in Counting(weight, "util") : mm_stats[i].valid = 1}
  IN IF Clean(errors) THEN [util |-> Utils(U), traces |-> Larger(1, Cardinality(U))] ELSE NoTable

(* The weight of a trace says whether its utilization and its throughput   *)
(* count, valid or not; with no time measured the throughput is 0.         *)
Index ==
  /\ pass = "index" /\ perfindex = NoIndex
  /\ \E weight \in [DOMAIN mm_stats -> {"none", "all", "util", "perf"}],
        speed \in IF samplecount = 0 THEN {0} ELSE Throughputs :
       LET U == Counting(weight, "util")
           P == Counting(weight, "perf")
           avg == IF U = {} THEN 0 ELSE Utils(U) \div Cardinality(U)
       IN  /\ report' = [table |-> Table(weight), avg_mm_util |-> avg]
           /\ perfindex' = IF Clean(errors)
                           THEN Share(avg, 60, 92, UTIL_WEIGHT)
                                + Share(IF P = {} THEN 0 ELSE speed, 3000, 13000, 100 - UTIL_WEIGHT)
                           ELSE 0
  /\ pass' = "exit"
  /\ UNCHANGED <<heapvars, verdict, fcycvars, mm_stats, errors, alarmed>>

(* SIGALRM.  In run_tests() timeout_handler() jumps back to the trace it   *)
(* was at, which counts as not valid like all that follow.  The alarm is   *)
(* set before the libc runs and never cancelled: before run_tests() the    *)
(* jump buffer is not filled, after it its frame is gone.                  *)
Timeout ==
  /\ pass \notin {"exit", "wild"} /\ ~alarmed
  /\ alarmed' = TRUE
  /\ errors' = TRUE
  /\ IF pass \in {"libc", "index"}
     THEN pass' = "wild" /\ UNCHANGED <<verdict, mm_stats>>
     ELSE pass' = "done" /\ verdict' = "timeout" /\ This("valid", 0)
  /\ UNCHANGED <<heapvars, fcycvars, indexvars>>

(* With -l the C library's allocator runs the traces first; main() ends    *)
(* when it refuses a request.                                              *)
LibcRuns ==
  /\ pass = "libc"
  /\ pass' \in {"valid", "exit"}
  /\ UNCHANGED <<heapvars, verdict, fcycvars, mm_stats, errors, alarmed, indexvars>>

Done == pass \in {"exit", "wild"} /\ UNCHANGED vars

Init == /\ lib \in Libs
        /\ heap = mm_init(mem_init, TRUE).h
        /\ live = <<>> /\ ranges = {} /\ total = [size |-> 0, max |-> 0]
        /\ pass \in {"libc", "valid"} /\ verdict = "ok"
        /\ values = <<>> /\ samplecount = 0
        /\ mm_stats = <<NoStats>> /\ errors = FALSE /\ alarmed = FALSE
        /\ perfindex = NoIndex /\ report = [table |-> NoTable, avg_mm_util |-> 0]

Next == \/ Valid \/ Util \/ EndOfTrace \/ (\E v \in Times : Sample(v)) \/ Measured
        \/ LibcRuns \/ NextTrace \/ TestsEnd \/ Index \/ Timeout \/ Done

Spec == Init /\ [][Next]_vars

----------------------------------------------------------------------------
(* Each free block of the heap is on one list, the list of its size, once, *)
(* and its links agree both ways (mm.c:467-502).                           *)
ListsMatchHeap ==
  /\ UNION {Range(FreeList(heap, k)) : k \in Lists} = FreeBlocks(heap)
  /\ \A k \in Lists : LET l == FreeList(heap, k) IN
        \A i \in DOMAIN l : /\ k = IF lib = "mm" THEN Seg!get_list(SizeOf(heap, l[i])) ELSE 0
                            /\ PREV_FREE(heap, l[i]) = IF i = 1 THEN NULL ELSE l[i - 1]

(* The consistency checks of the allocators find nothing (mm.c:439-535,    *)
(* mm_exp.c:558-631), and more: the walk over the headers ends at the      *)
(* epilogue just below mem_brk, header and footer agree, no block is below *)
(* the minimum, no two free blocks are neighbours, and the lists hold the  *)
(* free blocks.                                                            *)
HeapConsistent ==
  /\ heap.ok
  /\ lib = "mm" => Seg!mm_checkheap(heap)
  /\ Last(Walk(heap)) = heap.brk
  /\ heap.mem[2] = DSIZE + 1
  /\ \A bp \in Real(heap) : Seg!checksize(heap, bp)
  /\ ListsMatchHeap

(* The heap grows, or a request is refused, only when no free block could  *)
(* hold it: starting at the list of its size, first fit misses none        *)
(* (mm.c:411-427).                                                         *)
FitIsFound ==
  \A n \in Requests \ {0} :
     LET a == Seg!Adjust(n)
         fit == IF lib = "mm" THEN Seg!find_fit(heap, a) ELSE Exp!find_fit(heap, a)
     IN  fit = NULL => \A bp \in FreeBlocks(heap) : SizeOf(heap, bp) < a

(* Whatever an allocator returns next, add_range() lets an overlap pass    *)
(* only when the new payload swallows old ones whole and neither of its    *)
(* ends touches one (mdriver.c:589-598).                                   *)
MissesOnlySwallowed ==
  \A lo \in 0 .. MAX_HEAP - 1, n \in Requests \ {0} :
     RangeVerdict(ranges, heap.brk, lo, n) = "ok" =>
        \A r \in ranges : \/ lo + n - 1 < r.lo \/ lo > r.hi
                          \/ lo < r.lo /\ r.hi < lo + n - 1

(* The driver finds nothing wrong with these allocators but that memory    *)
(* runs out, and during the correctness pass its range list holds the      *)
(* payloads of the allocated blocks: nothing is lost or garbled when a     *)
(* request fails or a block moves (mdriver.c:560-646, 682-707).  An        *)
(* overlap escapes the list only as MissesOnlySwallowed says.              *)
RangesArePayloads ==
  /\ verdict \in {"ok", "refused", "timeout"}
  /\ verdict = "ok" => DOMAIN live = Real(heap) \ FreeBlocks(heap)
  /\ pass = "valid" => ranges = {Extent(bp, live[bp]) : bp \in DOMAIN live}
  /\ MissesOnlySwallowed

(* The score is honest.  The utilization max_total_size / mem_heapsize()   *)
(* is never above 1: total_size is what the live payloads add up to, and   *)
(* at no time did they need more than the heap there is at the end.  And   *)
(* points are given only when no error was seen and no trace was cut off,  *)
(* 100 at most; the table, which sums over the valid traces, then shows    *)
(* the utilization that the index, which sums over all, is made of         *)
(* (mdriver.c:195-247, 433-545, 987-1069, 1224-1319).                      *)
ScoreIsHonest ==
  /\ pass = "util" => /\ total.size = MapThenSumSet(LAMBDA bp : live[bp], DOMAIN live)
                      /\ total.max <= heap.brk
  /\ perfindex > 0 => /\ \A i \in DOMAIN mm_stats : mm_stats[i].valid = 1
                      /\ verdict = "ok"
                      /\ perfindex <= 100
  /\ report.table # NoTable => report.avg_mm_util = report.table.util \div report.table.traces

Promised == INSTANCE Allocator WITH
  Limit <- MAX_HEAP, Sizes <- Requests, Pattern <- Word,
  obj <- [bp \in DOMAIN live |-> [k \in 1 .. live[bp] |-> IF pass # "valid" THEN Word(k)
                                                          ELSE heap.mem[bp + k - 1]]]

(* Every trace of requests gets what Allocator promises: payloads apart    *)
(* and aligned, which nobody but the user writes (mdriver.c:554-613,       *)
(* 847-985).  That realloc moves the content whole is the driver's own     *)
(* check, whose verdict RangesArePayloads wants to be good.                *)
KeepsPromise == Promised!Spec
=============================================================================
