CONSTANTS
  CHUNKSIZE = 6
  MAX_HEAP = 28
  Requests = {0, 1, 10}
  Later = {10}
  MaxTraces = 2
  Libs = {"mm", "mm_exp", "mm_safe_copy"}
  Candidates = 2
  Times = {100, 101, 102}
  kbest = 2
  maxsamples = 3
  Throughputs = {2999, 8000, 20000}
SPECIFICATION Spec
INVARIANTS HeapConsistent FitIsFound RangesArePayloads ScoreIsHonest
PROPERTIES KeepsPromise
