---------------------------- MODULE MDriverProofs ---------------------------
(***************************************************************************)
(* Theorems of MDriver: three allocators keep their heap in order under    *)
(* every sequence of requests, refusals, resets and timeouts of the        *)
(* driver, their first or best fit misses no block, the driver's range     *)
(* list holds the payloads, and what the driver sees of them is what       *)
(* Allocator promises.  The invariant is DriverInv: the heap is Sane, that *)
(* is, it Holds the payloads (BlocksProofs) for the lists of the allocator *)
(* under test, and during the correctness pass the range list and the      *)
(* data are those of the payloads.                                         *)
(***************************************************************************)
EXTENDS MDriver, BlocksProofs

----------------------------------------------------------------------------
(* The operators of the instances                                          *)

SegClass == [n \in Nat |-> Seg!get_list(n)]
ExpClass == [n \in Nat |-> 0]

(* What the allocators share with this module is the same there.           *)
LEMMA SegWords ==
  /\ Seg!NULL = NULL /\ Seg!DSIZE = DSIZE /\ Seg!Lists = Lists
  /\ \A h, a, w : Seg!PUT(h, a, w) = PUT(h, a, w)
  /\ \A h, a : Seg!SizeOf(h, a) = SizeOf(h, a)
  /\ \A h, a : Seg!Allocated(h, a) <=> Allocated(h, a)
  /\ \A h, a : Seg!NEXT_BLKP(h, a) = NEXT_BLKP(h, a)
  /\ \A h, a : Seg!PREV_BLKP(h, a) = PREV_BLKP(h, a)
  /\ \A h, a : Seg!NEXT_FREE(h, a) = NEXT_FREE(h, a)
  /\ \A h, a : Seg!PREV_FREE(h, a) = PREV_FREE(h, a)
  /\ \A h, a, p : Seg!SET_NEXT(h, a, p) = SET_NEXT(h, a, p)
  /\ \A h, a, p : Seg!SET_PREV(h, a, p) = SET_PREV(h, a, p)
  /\ \A h, a, n, t : Seg!Mark(h, a, n, t) = Mark(h, a, n, t)
  /\ \A n : Seg!Even(n) = Even(n)
  /\ \A a, b : Seg!Larger(a, b) = Larger(a, b)
  /\ \A a, b : Seg!Smaller(a, b) = Smaller(a, b)
  /\ \A h, n, g : Seg!mem_sbrk(h, n, g) = mem_sbrk(h, n, g)
  BY DEF Seg!NULL, NULL, Seg!DSIZE, DSIZE, Seg!Lists, Lists, Seg!PUT, PUT, Seg!GET_SIZE, GET_SIZE, Seg!GET_ALLOC, GET_ALLOC,
         Seg!SizeOf, SizeOf, Seg!Allocated, Allocated, Seg!NEXT_BLKP, NEXT_BLKP, Seg!PREV_BLKP, PREV_BLKP,
         Seg!NEXT_FREE, NEXT_FREE, Seg!PREV_FREE, PREV_FREE, Seg!SET_NEXT, SET_NEXT, Seg!SET_PREV, SET_PREV,
         Seg!Mark, Mark, Seg!Even, Even, Seg!Larger, Larger, Seg!Smaller, Smaller, Seg!mem_sbrk, mem_sbrk

\* The walks of the instance Seg are the walks of this module.
LEMMA SegWalks ==
  /\ \A h : Seg!Walk(h) = Walk(h)
  /\ \A h, k : Seg!FreeList(h, k) = FreeList(h, k)
<1>1. Seg!MaxBlocks = MaxBlocks
  BY DEF Seg!MaxBlocks, MaxBlocks
<1>2. ASSUME NEW h PROVE Seg!Walk(h) = Walk(h)
  BY DEF Walk, Seg!Walk, MaxBlocks, Seg!MaxBlocks, After, Seg!After, DSIZE, Seg!DSIZE, SizeOf, Seg!SizeOf,
         GET_SIZE, Seg!GET_SIZE, NEXT_BLKP, Seg!NEXT_BLKP
<1>3. ASSUME NEW h, NEW k PROVE Seg!Nodes(h, k) = Nodes(h, k)
  BY DEF Seg!Nodes, Nodes, MaxBlocks, Seg!MaxBlocks, Link, Seg!Link, Seg!NULL, NULL, Seg!NEXT_FREE, NEXT_FREE
<1>4. ASSUME NEW h, NEW k PROVE Seg!FreeList(h, k) = FreeList(h, k)
  BY <1>3 DEF Seg!FreeList, FreeList, MaxBlocks, Seg!MaxBlocks, Seg!NULL, NULL
<1> QED
  BY <1>2, <1>4

\* The checks of the instance Seg are those of this module.
LEMMA SegChecks ==
  /\ \A h : Seg!EndsInOrder(h) <=> EndsInOrder(h)
  /\ \A h : Seg!Visited(h) = Visited(h)
  /\ \A h : Seg!FreeBlocks(h) = FreeBlocks(h)
  /\ \A h, a : Seg!checkblock(h, a) <=> checkblock(h, a)
  /\ \A h, k, n : Seg!Fits(h, k, n) = Fits(h, k, n)
  /\ \A h : Seg!Places(h) = Places(h)
  /\ \A S : Seg!Min(S) = Min(S)
  /\ \A f : Seg!Last(f) = Last(f)
<1>1. \A f : Seg!Last(f) = Last(f)
  BY DEF Seg!Last, Last
<1>2. \A S : Seg!Min(S) = Min(S)
  BY DEF Seg!Min, Min
<1>3. ASSUME NEW h PROVE Seg!Blocks(h) = Blocks(h)
  BY SegWalks DEF Seg!Blocks, Blocks, Seg!Range, Range
<1>4. ASSUME NEW h PROVE Seg!Real(h) = Real(h)
  BY <1>3, SegWords DEF Seg!Real, Real
<1>5. ASSUME NEW h PROVE Seg!FreeBlocks(h) = FreeBlocks(h)
  BY <1>4, SegWords DEF Seg!FreeBlocks, FreeBlocks
<1>6. ASSUME NEW h PROVE Seg!EndsInOrder(h) <=> EndsInOrder(h)
  BY <1>1, SegWalks, SegWords DEF Seg!EndsInOrder, EndsInOrder
<1>7. ASSUME NEW h PROVE Seg!Visited(h) = Visited(h)
  BY <1>3, SegWords DEF Seg!Visited, Visited
<1>8. ASSUME NEW h, NEW a PROVE Seg!checkblock(h, a) <=> checkblock(h, a)
  BY SegWords DEF Seg!checkblock, checkblock
<1>9. ASSUME NEW h, NEW k, NEW n PROVE Seg!Fits(h, k, n) = Fits(h, k, n)
  BY SegWalks, SegWords DEF Seg!Fits, Fits
<1>10. ASSUME NEW h PROVE Seg!Places(h) = Places(h)
  BY SegWalks, SegWords DEF Seg!Places, Places
<1> QED
  BY <1>1, <1>2, <1>5, <1>6, <1>7, <1>8, <1>9, <1>10

\* The words of the instance Exp are the words of this module.
LEMMA ExpWords ==
  /\ Exp!NULL = NULL /\ Exp!DSIZE = DSIZE /\ Exp!Lists = Lists
  /\ \A h, a, w : Exp!PUT(h, a, w) = PUT(h, a, w)
  /\ \A h, a : Exp!SizeOf(h, a) = SizeOf(h, a)
  /\ \A h, a : Exp!Allocated(h, a) <=> Allocated(h, a)
  /\ \A h, a : Exp!NEXT_BLKP(h, a) = NEXT_BLKP(h, a)
  /\ \A h, a : Exp!PREV_BLKP(h, a) = PREV_BLKP(h, a)
  /\ \A h, a : Exp!NEXT_FREE(h, a) = NEXT_FREE(h, a)
  /\ \A h, a : Exp!PREV_FREE(h, a) = PREV_FREE(h, a)
  /\ \A h, a, p : Exp!SET_NEXT(h, a, p) = SET_NEXT(h, a, p)
  /\ \A h, a, p : Exp!SET_PREV(h, a, p) = SET_PREV(h, a, p)
  /\ \A h, a, n, t : Exp!Mark(h, a, n, t) = Mark(h, a, n, t)
  /\ \A n : Exp!Even(n) = Even(n)
  /\ \A a, b : Exp!Larger(a, b) = Larger(a, b)
  /\ \A a, b : Exp!Smaller(a, b) = Smaller(a, b)
  /\ \A h, n, g : Exp!mem_sbrk(h, n, g) = mem_sbrk(h, n, g)
  BY DEF Exp!NULL, NULL, Exp!DSIZE, DSIZE, Exp!Lists, Lists, Exp!PUT, PUT, Exp!GET_SIZE, GET_SIZE, Exp!GET_ALLOC, GET_ALLOC,
         Exp!SizeOf, SizeOf, Exp!Allocated, Allocated, Exp!NEXT_BLKP, NEXT_BLKP, Exp!PREV_BLKP, PREV_BLKP,
         Exp!NEXT_FREE, NEXT_FREE, Exp!PREV_FREE, PREV_FREE, Exp!SET_NEXT, SET_NEXT, Exp!SET_PREV, SET_PREV,
         Exp!Mark, Mark, Exp!Even, Even, Exp!Larger, Larger, Exp!Smaller, Smaller, Exp!mem_sbrk, mem_sbrk

\* The walks of the instance Exp are the walks of this module.
LEMMA ExpWalks ==
  /\ \A h : Exp!Walk(h) = Walk(h)
  /\ \A h, k : Exp!FreeList(h, k) = FreeList(h, k)
<1>1. Exp!MaxBlocks = MaxBlocks
  BY DEF Exp!MaxBlocks, MaxBlocks
<1>2. ASSUME NEW h PROVE Exp!Walk(h) = Walk(h)
  BY DEF Walk, Exp!Walk, MaxBlocks, Exp!MaxBlocks, After, Exp!After, DSIZE, Exp!DSIZE, SizeOf, Exp!SizeOf,
         GET_SIZE, Exp!GET_SIZE, NEXT_BLKP, Exp!NEXT_BLKP
<1>3. ASSUME NEW h, NEW k PROVE Exp!Nodes(h, k) = Nodes(h, k)
  BY DEF Exp!Nodes, Nodes, MaxBlocks, Exp!MaxBlocks, Link, Exp!Link, Exp!NULL, NULL, Exp!NEXT_FREE, NEXT_FREE
<1>4. ASSUME NEW h, NEW k PROVE Exp!FreeList(h, k) = FreeList(h, k)
  BY <1>3 DEF Exp!FreeList, FreeList, MaxBlocks, Exp!MaxBlocks, Exp!NULL, NULL
<1> QED
  BY <1>2, <1>4

\* The checks of the instance Exp are those of this module.
LEMMA ExpChecks ==
  /\ \A h : Exp!EndsInOrder(h) <=> EndsInOrder(h)
  /\ \A h : Exp!Visited(h) = Visited(h)
  /\ \A h : Exp!FreeBlocks(h) = FreeBlocks(h)
  /\ \A h, a : Exp!checkblock(h, a) <=> checkblock(h, a)
  /\ \A h, k, n : Exp!Fits(h, k, n) = Fits(h, k, n)
  /\ \A S : Exp!Min(S) = Min(S)
  /\ \A S : Exp!Max(S) = Max(S)
  /\ \A f : Exp!Last(f) = Last(f)
<1>1. \A f : Exp!Last(f) = Last(f)
  BY DEF Exp!Last, Last
<1>2. \A S : Exp!Min(S) = Min(S)
  BY DEF Exp!Min, Min
<1>3. ASSUME NEW h PROVE Exp!Blocks(h) = Blocks(h)
  BY ExpWalks DEF Exp!Blocks, Blocks, Exp!Range, Range
<1>4. ASSUME NEW h PROVE Exp!Real(h) = Real(h)
  BY <1>3, ExpWords DEF Exp!Real, Real
<1>5. ASSUME NEW h PROVE Exp!FreeBlocks(h) = FreeBlocks(h)
  BY <1>4, ExpWords DEF Exp!FreeBlocks, FreeBlocks
<1>6. ASSUME NEW h PROVE Exp!EndsInOrder(h) <=> EndsInOrder(h)
  BY <1>1, ExpWalks, ExpWords DEF Exp!EndsInOrder, EndsInOrder
<1>7. ASSUME NEW h PROVE Exp!Visited(h) = Visited(h)
  BY <1>3, ExpWords DEF Exp!Visited, Visited
<1>8. ASSUME NEW h, NEW a PROVE Exp!checkblock(h, a) <=> checkblock(h, a)
  BY ExpWords DEF Exp!checkblock, checkblock
<1>9. ASSUME NEW h, NEW k, NEW n PROVE Exp!Fits(h, k, n) = Fits(h, k, n)
  BY ExpWalks, ExpWords DEF Exp!Fits, Fits
<1>10. \A S : Exp!Max(S) = Max(S)
  BY DEF Exp!Max, Max
<1> QED
  BY <1>1, <1>2, <1>5, <1>6, <1>7, <1>8, <1>9, <1>10
(* get_list(): the first list whose limit a size does not exceed.          *)
LEMMA GetList ==
  ASSUME NEW n \in Nat
  PROVE  LET k == Seg!get_list(n) IN
         /\ k \in Lists
         /\ k = 10 \/ 4 * n <= 2^(k + 4) + 8
         /\ \A j \in Lists : j < k => 4 * n > 2^(j + 4) + 8
<1> DEFINE lim == [j \in Lists |-> 2^(j + 4) + 8]
           S == {j \in Lists : j = 10 \/ 4 * n <= lim[j]}
           P(k) == /\ k \in Lists
                   /\ k = 10 \/ 4 * n <= lim[k]
                   /\ \A j \in 0 .. k - 1 : 4 * n > lim[j]
<1>1. lim \in [Lists -> Int]
  BY DEF Lists
<1>2. S \subseteq Nat /\ 10 \in S
  BY DEF Lists
<1>3. PICK k \in S : \A j \in S : k <= j
  <2> HIDE DEF S
  <2> QED
    BY <1>2, LeastOf
<1>4. P(k)
  <2> HIDE DEF lim
  <2>1. ASSUME NEW j \in 0 .. k - 1 PROVE 4 * n > lim[j]
    <3>1. j \in Lists /\ j # 10 /\ j < k
      BY <1>3 DEF Lists
    <3>2. j \notin S
      BY <3>1, <1>2, <1>3
    <3>3. lim[j] \in Int
      BY <3>1, <1>1
    <3> QED
      BY <3>1, <3>2, <3>3
  <2> QED
    BY <2>1, <1>3
<1>5. Seg!get_list(n) = CHOOSE j \in Lists : /\ j = 10 \/ 4 * n <= 2^(j + 4) + 8
                                            /\ \A m \in 0 .. j - 1 : 4 * n > 2^(m + 4) + 8
  BY DEF Seg!get_list, Seg!Lists, Lists
<1>6. \E j \in Lists : /\ j = 10 \/ 4 * n <= 2^(j + 4) + 8
                       /\ \A m \in 0 .. j - 1 : 4 * n > 2^(m + 4) + 8
  <2>1. \A j \in Lists : lim[j] = 2^(j + 4) + 8 /\ \A m \in 0 .. j - 1 : m \in Lists
    BY DEF Lists
  <2> HIDE DEF lim
  <2> QED
    BY <2>1, <1>4
<1>7. LET j == Seg!get_list(n) IN
      /\ j \in Lists
      /\ j = 10 \/ 4 * n <= 2^(j + 4) + 8
      /\ \A m \in 0 .. j - 1 : 4 * n > 2^(m + 4) + 8
  BY <1>5, <1>6
<1>8. \A j \in Lists : j < Seg!get_list(n) => j \in 0 .. Seg!get_list(n) - 1
  BY <1>7 DEF Lists
<1> QED
  BY <1>7, <1>8

\* Both allocators map sizes to lists; get_list() does so monotonically.
LEMMA ClassesAre ==
  /\ SegClass \in Classes /\ ExpClass \in Classes
  /\ \A n \in Nat : SegClass[n] = Seg!get_list(n) /\ ExpClass[n] = 0
  /\ \A m, n \in Nat : m <= n => SegClass[m] <= SegClass[n]
<1>1. \A n \in Nat : SegClass[n] = Seg!get_list(n) /\ Seg!get_list(n) \in Lists /\ ExpClass[n] = 0 /\ 0 \in Lists
  BY GetList DEF SegClass, ExpClass, Lists
<1>2. SegClass \in Classes /\ ExpClass \in Classes
  BY <1>1 DEF SegClass, ExpClass, Classes
<1>3. ASSUME NEW m \in Nat, NEW n \in Nat, m <= n PROVE SegClass[m] <= SegClass[n]
  <2> DEFINE j == Seg!get_list(m)
             k == Seg!get_list(n)
  <2>1. SUFFICES ASSUME ~(j <= k) PROVE FALSE
    BY <1>1
  <2>2. j \in Lists /\ k \in Lists
    BY <1>1
  <2>3. k < j /\ k # 10
    BY <2>1, <2>2 DEF Lists
  <2>4. 4 * n <= 2^(k + 4) + 8
    BY <2>3, GetList
  <2>5. 4 * m > 2^(k + 4) + 8
    BY <2>2, <2>3, GetList
  <2>6. 2^(k + 4) + 8 \in Int
    BY <2>2 DEF Lists
  <2> QED
    BY <2>4, <2>5, <2>6, <1>3
<1> QED
  BY <1>1, <1>2, <1>3

----------------------------------------------------------------------------
(* mm.c                                                                    *)

\* add_node() of mm.c.
LEMMA SegAdd ==
  ASSUME NEW h, NEW b, SizeOf(h, b) \in Nat
  PROVE  Seg!add_node(h, b) = Add(h, b, SegClass[SizeOf(h, b)])
<1>1. SegClass[SizeOf(h, b)] = Seg!get_list(SizeOf(h, b))
  BY ClassesAre
<1> QED
  BY <1>1, SegWords DEF Seg!add_node, Add

\* delete_node() of mm.c for a neighbour that is free.
LEMMA SegUnlinked ==
  ASSUME NEW h, NEW b, NEW free, SizeOf(h, b) \in Nat
  PROVE  Seg!Unlink(h, b, free) = Unlinked(h, SegClass, b, free)
<1>1. SegClass[SizeOf(h, b)] = Seg!get_list(SizeOf(h, b))
  BY ClassesAre
<1>2. Seg!delete_node(h, b) = Del(h, b, SegClass[SizeOf(h, b)])
  BY <1>1, SegWords DEF Seg!delete_node, Del
<1> QED
  BY <1>2 DEF Seg!Unlink, Unlinked

\* coalesce() of mm.c.
LEMMA SegCoalesced ==
  ASSUME NEW h, NEW bp, Meets(h, SegClass, bp)
  PROVE  Seg!coalesce(h, bp) = Coalesced(h, SegClass, bp)
<1> DEFINE c == SegClass
           prev == PREV_BLKP(h, bp)
           next == NEXT_BLKP(h, bp)
           before == ~Allocated(h, prev)
           behind == ~Allocated(h, next)
           at == IF before THEN prev ELSE bp
           size == SizeOf(h, bp) + (IF before THEN SizeOf(h, prev) ELSE 0)
                                 + (IF behind THEN SizeOf(h, next) ELSE 0)
           h1 == Unlinked(h, c, prev, before)
           h2 == Unlinked(h1, c, next, behind)
           h3 == Mark(h2, at, size, 0)
<1>1. /\ SizeOf(h, prev) \in Nat /\ SizeOf(h1, next) \in Nat
      /\ size \in Nat /\ SizeOf(h3, at) = size
  BY DEF Meets
<1>2. Coalesced(h, c, bp) = [h |-> Add(h3, at, c[size]), bp |-> at]
  BY DEF Coalesced
<1>3. Seg!PREV_BLKP(h, bp) = prev /\ Seg!NEXT_BLKP(h, bp) = next
  BY SegWords
<1>4. Seg!PrevIsFree(h, bp) = before /\ Seg!NextIsFree(h, bp) = behind
  <2>1. before = ~Seg!Allocated(h, prev) /\ behind = ~Seg!Allocated(h, next)
    BY SegWords DEF Allocated, Seg!Allocated
  <2> QED
    BY <2>1, <1>3 DEF Seg!PrevIsFree, Seg!NextIsFree
<1>5. Seg!SizeOf(h, bp) + Seg!Gain(h, prev, before) + Seg!Gain(h, next, behind) = size
  BY SegWords DEF Seg!Gain
<1> HIDE DEF prev, next, before, behind, at, size
<1>6. Seg!Unlink(h, prev, before) = h1
  BY <1>1, SegUnlinked
<1> HIDE DEF h1
<1>7. Seg!Unlink(h1, next, behind) = h2
  BY <1>1, SegUnlinked
<1> HIDE DEF h2
<1>8. Seg!Joined(h2, at, size) = [h |-> Add(h3, at, c[size]), bp |-> at]
  <2>1. Seg!Mark(h2, at, size, 0) = h3
    BY SegWords
  <2> HIDE DEF h3
  <2>2. Seg!add_node(h3, at) = Add(h3, at, c[SizeOf(h3, at)])
    BY <1>1, SegAdd
  <2> QED
    BY <2>1, <2>2, <1>1 DEF Seg!Joined
<1>9. (IF before THEN prev ELSE bp) = at
  BY DEF at
<1> HIDE DEF h3
<1> QED
  BY <1>2, <1>3, <1>4, <1>5, <1>6, <1>7, <1>8, <1>9 DEF Seg!coalesce

\* extend_heap() of mm.c.
LEMMA SegGrown ==
  ASSUME NEW h, NEW words, NEW granted, GrownMeets(h, SegClass, words, granted)
  PROVE  Seg!extend_heap(h, words, granted) = Grown(h, SegClass, words, granted)
<1> DEFINE size == Even(words)
           new == mem_sbrk(h, size, granted)
           h1 == PUT(Mark(new.h, new.at, size, 0), new.at + size - 1, 1)
<1>1. new.got => Meets(h1, SegClass, new.at)
  BY DEF GrownMeets
<1>2. Seg!Even(words) = size /\ Seg!mem_sbrk(h, size, granted) = new
  BY SegWords
<1>3. Seg!PUT(Seg!Mark(new.h, new.at, size, 0), new.at + size - 1, 1) = h1
  BY SegWords
<1>4. Grown(h, SegClass, words, granted) = IF ~new.got THEN [h |-> h, bp |-> NULL] ELSE Coalesced(h1, SegClass, new.at)
  BY DEF Grown
<1> HIDE DEF size, new, h1
<1>5. new.got => Seg!coalesce(h1, new.at) = Coalesced(h1, SegClass, new.at)
  BY <1>1, SegCoalesced
<1> QED
  BY <1>2, <1>3, <1>4, <1>5, SegWords DEF Seg!extend_heap

\* place() of mm.c.
LEMMA SegTaken ==
  ASSUME NEW h, NEW bp, NEW n \in Nat, TakenMeets(h, SegClass, bp, n)
  PROVE  Seg!place(h, bp, n) = Taken(h, SegClass, bp, n)
<1> DEFINE csize == SizeOf(h, bp)
           h1 == Del(h, bp, SegClass[csize])
           rest == csize - n
           h2 == Mark(Mark(h1, bp, n, 1), bp + n, rest, 0)
<1>1. csize \in Nat /\ (rest >= 6 => SizeOf(h2, bp + n) = rest)
  BY DEF TakenMeets
<1>2. Taken(h, SegClass, bp, n) = IF rest >= 6 THEN Add(h2, bp + n, SegClass[rest]) ELSE Mark(h1, bp, csize, 1)
  BY DEF Taken
<1>3. Seg!SizeOf(h, bp) = csize
  BY SegWords
<1>4. Seg!delete_node(h, bp) = h1
  <2>1. SegClass[csize] = Seg!get_list(csize)
    BY <1>1, ClassesAre
  <2> QED
    BY <2>1, SegWords DEF Seg!delete_node, Del
<1>5. Seg!Splits(rest) <=> rest >= 6
  BY SegWords DEF Seg!Splits, DSIZE
<1>6. Seg!Mark(Seg!Mark(h1, bp, n, 1), bp + n, rest, 0) = h2 /\ Seg!Mark(h1, bp, csize, 1) = Mark(h1, bp, csize, 1)
  BY SegWords
<1>7. rest >= 6 => rest \in Nat
  BY <1>1
<1> HIDE DEF csize, h1, h2
<1>8. rest >= 6 => Seg!add_node(h2, bp + n) = Add(h2, bp + n, SegClass[rest])
  BY <1>1, <1>7, SegAdd
<1> QED
  BY <1>2, <1>3, <1>4, <1>5, <1>6, <1>8 DEF Seg!place

\* mm_free() of mm.c.
LEMMA SegReleased ==
  ASSUME NEW h, NEW bp, bp # NULL, Meets(Mark(h, bp, SizeOf(h, bp), 0), SegClass, bp)
  PROVE  Seg!mm_free(h, bp) = Released(h, SegClass, bp)
<1> DEFINE h1 == Mark(h, bp, SizeOf(h, bp), 0)
<1>1. Seg!Mark(h, bp, Seg!SizeOf(h, bp), 0) = h1 /\ bp # Seg!NULL
  BY SegWords
<1>2. Released(h, SegClass, bp) = Coalesced(h1, SegClass, bp).h
  BY DEF Released
<1> HIDE DEF h1
<1>3. Seg!coalesce(h1, bp) = Coalesced(h1, SegClass, bp)
  BY SegCoalesced DEF h1
<1> QED
  BY <1>1, <1>2, <1>3 DEF Seg!mm_free

\* A block for a request of n words: its tags fit and its size is aligned.
AdjustedTo(n, asize) == asize \in Nat /\ asize >= 6 /\ asize % 2 = 0 /\ n + 2 <= asize

\* The block size mm_malloc() of mm.c asks for has room for two tags.
LEMMA SegAdjusted ==
  ASSUME NEW n \in Nat
  PROVE  AdjustedTo(n, Seg!Adjust(n))
<1>1. Seg!Adjust(n) = IF n <= 2 THEN 6 ELSE Even(n + 2)
  BY SegWords DEF Seg!Adjust, DSIZE
<1>2. CASE n <= 2
  BY <1>1, <1>2 DEF AdjustedTo
<1>3. CASE ~(n <= 2)
  <2>1. n + 2 \in Nat /\ n + 2 >= 5
    BY <1>3
  <2>2. Even(n + 2) \in Nat /\ Even(n + 2) % 2 = 0 /\ n + 2 <= Even(n + 2) /\ Even(n + 2) >= 6
    BY <2>1, EvenIs
  <2> QED
    BY <2>2, <1>1, <1>3 DEF AdjustedTo
<1> QED
  BY <1>2, <1>3

(* What find_fit() finds is large enough, and it misses nothing that is.   *)
Finds(h, c, s, n, fit) ==
  /\ fit # NULL => Offers(h, c, s, fit, n)
  /\ fit = NULL => \A b \in FreeBlocks(h) : SizeOf(h, b) < n

\* find_fit() of mm.c: a free block that is large enough, if there is one.
LEMMA SegFinds ==
  ASSUME NEW h, NEW s, Holds(h, SegClass, s), NEW n \in Nat
  PROVE  Finds(h, SegClass, s, n, Seg!find_fit(h, n))
<1> DEFINE c == SegClass
           L == Seg!get_list(n) .. 10
           K == {k \in L : Fits(h, k, n) # {}}
           k == Min(K)
           fit == Seg!find_fit(h, n)
<1>1. c \in Classes /\ c[n] = Seg!get_list(n) /\ c[n] \in Lists /\ Seg!get_list(n) \in Lists
  BY ClassesAre, GetList
<1>2. fit = IF K = {} THEN NULL ELSE FreeList(h, k)[Min(Fits(h, k, n))]
  <2>1. Seg!Searched(n) = L
    BY DEF Seg!Searched
  <2>2. Seg!Min(K) = k
    BY SegChecks
  <2> QED
    BY <2>1, <2>2, SegWalks, SegChecks, SegWords DEF Seg!find_fit
<1>3. \A j \in L : j \in Lists /\ j \in Nat
  BY <1>1 DEF Lists
<1>4. K # {} => fit # NULL /\ Offers(h, c, s, fit, n)
  <2>1. SUFFICES ASSUME K # {} PROVE fit # NULL /\ Offers(h, c, s, fit, n)
    OBVIOUS
  <2>2. K \subseteq Nat
    BY <1>3
  <2>3. k \in K
    <3> HIDE DEF K
    <3> QED
      BY <2>1, <2>2, LeastPlace
  <2>4. k \in Lists /\ Fits(h, k, n) # {}
    BY <2>3, <1>3
  <2> HIDE DEF K, k, c
  <2>5. Fits(h, k, n) \subseteq 1 .. MaxBlocks /\ \A i \in Fits(h, k, n) : Offers(h, c, s, FreeList(h, k)[i], n)
    BY <2>4, <1>1, FitOffers DEF c
  <2>6. Min(Fits(h, k, n)) \in Fits(h, k, n)
    <3>1. Fits(h, k, n) \subseteq Nat
      BY <2>5
    <3> QED
      BY <3>1, <2>4, LeastPlace
  <2>7. Offers(h, c, s, fit, n)
    BY <1>2, <2>1, <2>5, <2>6
  <2> HIDE DEF fit
  <2>8. fit # NULL
    BY <2>7, OffersFacts DEF NULL
  <2> QED
    BY <2>7, <2>8
<1>5. ASSUME K = {}, NEW b \in FreeBlocks(h) PROVE SizeOf(h, b) < n
  <2>1. SizeOf(h, b) \in Nat
    <3>2. SizeOf(h, b) > 0
      BY DEF FreeBlocks, Real
    <3>3. SizeOf(h, b) \in Int
      <4>1. PICK B, sz, al : Sound(h, c, B, sz, al)
        BY DEF Holds
      <4>2. Rep(h, c, B, sz, al, Free(B, al)) /\ b \in B
        BY <4>1, SoundBlocks DEF Sound, Free
      <4> QED
        BY <4>2, RepFacts
    <3> QED
      BY <3>2, <3>3
  <2>2. SUFFICES ASSUME n <= SizeOf(h, b) PROVE FALSE
    BY <2>1
  <2>3. c[SizeOf(h, b)] \in Lists /\ Fits(h, c[SizeOf(h, b)], n) # {}
    BY <2>2, <1>1, FitsFound DEF c
  <2>4. c[n] <= c[SizeOf(h, b)]
    BY <2>1, <2>2, ClassesAre
  <2>5. c[SizeOf(h, b)] \in L
    <3> HIDE DEF c
    <3> QED
      BY <2>3, <2>4, <1>1 DEF Lists
  <2> QED
    BY <2>3, <2>5, <1>5
<1> HIDE DEF K
<1>6. K = {} => fit = NULL
  BY <1>2
<1> HIDE DEF fit, c
<1> QED
  BY <1>4, <1>5, <1>6 DEF Finds, c, fit

\* mm_malloc() of mm.c.
LEMMA SegServes ==
  ASSUME NEW h, NEW s, Holds(h, SegClass, s), NEW n \in Nat \ {0}, NEW granted \in BOOLEAN
  PROVE  Serves(h, SegClass, s, Seg!mm_malloc(h, n, granted), Seg!Adjust(n))
<1> DEFINE c == SegClass
           a == Seg!Adjust(n)
           fit == Seg!find_fit(h, a)
           w == Larger(a, CHUNKSIZE)
           y == IF fit # NULL THEN [h |-> h, bp |-> fit] ELSE Grown(h, c, w, granted)
<1>1. a \in Nat /\ a >= 6 /\ a % 2 = 0
  BY SegAdjusted DEF AdjustedTo
<1>2. c \in Classes
  BY ClassesAre
<1>3. fit # NULL => Offers(h, c, s, fit, a)
  BY <1>1, SegFinds DEF Finds
<1>4. w \in Nat /\ w >= 5 /\ a <= w
  BY <1>1, BlocksAssumption DEF Larger
<1>5. Seg!mm_malloc(h, n, granted) = Seg!Placed(Seg!Found(h, fit, a, granted), a)
  BY DEF Seg!mm_malloc
<1>6. Served(h, c, fit, a, granted) = IF y.bp = NULL THEN y ELSE [h |-> Taken(y.h, c, y.bp, a), bp |-> y.bp]
  BY DEF Served
<1>7. Seg!Larger(a, CHUNKSIZE) = w
  BY SegWords
<1> HIDE DEF a, fit, w, c
<1>8. /\ GrownMeets(h, c, w, granted)
      /\ Grown(h, c, w, granted) = [h |-> h, bp |-> NULL] \/ Offers(Grown(h, c, w, granted).h, c, s, Grown(h, c, w, granted).bp, w)
  BY <1>2, <1>4, GrownHolds DEF c
<1>9. Seg!extend_heap(h, w, granted) = Grown(h, c, w, granted)
  BY <1>8, SegGrown DEF c
<1>10. Seg!Found(h, fit, a, granted) = y
  BY <1>7, <1>9, SegWords DEF Seg!Found
<1>11. y.bp # NULL => Offers(y.h, c, s, y.bp, a)
  <2>1. CASE fit # NULL
    BY <2>1, <1>3
  <2>2. CASE fit = NULL
    <3> DEFINE g == Grown(h, c, w, granted)
    <3>1. y = g
      BY <2>2
    <3>2. g = [h |-> h, bp |-> NULL] \/ Offers(g.h, c, s, g.bp, w)
      BY <1>8
    <3> HIDE DEF g
    <3>3. g.bp # NULL => Offers(g.h, c, s, g.bp, w)
      BY <3>2
    <3>4. g.bp # NULL => Offers(g.h, c, s, g.bp, a)
      BY <3>3, <1>1, <1>4, OffersLess
    <3> HIDE DEF y
    <3> QED
      BY <3>1, <3>4
  <2> QED
    BY <2>1, <2>2
<1> HIDE DEF y
<1>12. y.bp # NULL => Seg!place(y.h, y.bp, a) = Taken(y.h, c, y.bp, a)
  <2>1. SUFFICES ASSUME y.bp # NULL PROVE Seg!place(y.h, y.bp, a) = Taken(y.h, c, y.bp, a)
    OBVIOUS
  <2>2. TakenMeets(y.h, c, y.bp, a)
    BY <2>1, <1>1, <1>2, <1>11, TakenHolds
  <2> QED
    BY <2>2, <1>1, SegTaken DEF c
<1>13. Seg!Placed(y, a) = Served(h, c, fit, a, granted)
  BY <1>6, <1>12, SegWords DEF Seg!Placed
<1>14. Serves(h, c, s, Served(h, c, fit, a, granted), a)
  BY <1>1, <1>2, <1>3, ServedHolds DEF c
<1> QED
  BY <1>5, <1>10, <1>13, <1>14 DEF c, a

\* mm_free() of mm.c on a block the user holds.
LEMMA SegFrees ==
  ASSUME NEW h, NEW s, Holds(h, SegClass, s), NEW bp \in DOMAIN s
  PROVE  Seg!mm_free(h, bp) = Released(h, SegClass, bp)
<1>1. bp # NULL
  BY HoldsFacts DEF NULL
<1>2. Meets(Mark(h, bp, SizeOf(h, bp), 0), SegClass, bp)
  BY ClassesAre, ReleasedHolds
<1> QED
  BY <1>1, <1>2, SegReleased

\* mm_realloc() of mm.c.
LEMMA SegMoves ==
  ASSUME NEW h, NEW s, Holds(h, SegClass, s), NEW bp \in DOMAIN s, NEW n \in Nat \ {0},
         NEW granted \in BOOLEAN
  PROVE  Moves(h, SegClass, s, Seg!mm_realloc(h, bp, n, granted), bp, n, Seg!Adjust(n))
<1> DEFINE c == SegClass
           x == Seg!mm_malloc(h, n, granted)
           a == Seg!Adjust(n)
           m == Smaller(n, SizeOf(x.h, bp))
           g == Copied(x.h, x.bp, bp, m)
<1>1. a \in Nat /\ n + 2 <= a /\ c \in Classes /\ bp # NULL /\ n \in Nat /\ Holds(h, c, s)
  <2>1. a \in Nat /\ n + 2 <= a
    BY SegAdjusted DEF AdjustedTo
  <2> QED
    BY <2>1, ClassesAre, HoldsFacts DEF NULL
<1>2. Serves(h, c, s, x, a)
  BY SegServes
<1>3. Seg!mm_realloc(h, bp, n, granted) = Seg!Moved(x, bp, n)
  BY DEF Seg!mm_realloc
<1> HIDE DEF c, x, a
<1>4. Moves(h, c, s, MovedFrom(x, c, bp, n), bp, n, a) /\ MovesFrom(x, c, bp, n)
  BY <1>1, <1>2, MovedHolds
<1>5. x.bp # NULL => Seg!mm_free(g, bp) = Released(g, c, bp)
  <2>1. SUFFICES ASSUME x.bp # NULL PROVE Seg!mm_free(g, bp) = Released(g, c, bp)
    OBVIOUS
  <2>2. PICK t : Holds(g, c, t) /\ bp \in DOMAIN t
    BY <2>1, <1>4 DEF MovesFrom
  <2> HIDE DEF g
  <2> QED
    BY <2>2, SegFrees DEF c
<1>6. Seg!memcpy(x.h, x.bp, bp, Seg!Smaller(n, Seg!SizeOf(x.h, bp))) = g
  BY SegWords DEF Seg!memcpy, Copied
<1>7. MovedFrom(x, c, bp, n) = IF x.bp = NULL THEN x ELSE [h |-> Released(g, c, bp), bp |-> x.bp]
  BY <1>1 DEF MovedFrom
<1> HIDE DEF g
<1>8. Seg!Moved(x, bp, n) = MovedFrom(x, c, bp, n)
  BY <1>1, <1>5, <1>6, <1>7, SegWords DEF Seg!Moved
<1> QED
  BY <1>3, <1>4, <1>8 DEF c, a

(* mm_init() on an empty heap. *)
Starts(h, c, h1) == \E s : Holds(h1, c, s) /\ DOMAIN s = {} /\ h1.ok = h.ok

\* The words of the prologue and the epilogue.
Ends(h) == PUT(PUT(Mark(mem_sbrk(h, 4, TRUE).h, 2, DSIZE, 1), 3, 1), 0, 0)

\* The first words of a heap: padding, prologue, epilogue.
LEMMA EndsAre ==
  ASSUME NEW h \in HeapType, h.brk = 0
  PROVE  /\ mem_sbrk(h, 4, TRUE).got /\ Ends(h) \in HeapType /\ Ends(h).brk = 4
         /\ Ends(h).mem[1] = 3 /\ Ends(h).mem[2] = 3 /\ Ends(h).mem[3] = 1
         /\ Ends(h).fl = h.fl /\ Ends(h).ok = h.ok
<1> DEFINE new == mem_sbrk(h, 4, TRUE)
           g == new.h
           h1 == Mark(g, 2, 2, 1)
           h2 == PUT(h1, 3, 1)
           h3 == PUT(h2, 0, 0)
<1>1. new.got /\ g \in HeapType /\ g.fl = h.fl /\ g.ok = h.ok /\ g.brk = 4
  <2>1. 4 \in Nat /\ TRUE \in BOOLEAN /\ h.brk + 4 <= MAX_HEAP /\ h.brk + 4 = 4
    BY BlocksAssumption
  <2> HIDE DEF new
  <2>2. /\ new.got <=> TRUE /\ h.brk + 4 <= MAX_HEAP
        /\ new.got => /\ new.at = h.brk /\ new.h \in HeapType
                      /\ new.h.mem = h.mem /\ new.h.fl = h.fl /\ new.h.ok = h.ok
                      /\ new.h.brk = h.brk + 4
    BY <2>1, SbrkIs DEF new
  <2> QED
    BY <2>1, <2>2
<1> HIDE DEF new, g
<1>2. 0 \in Addr /\ 1 \in Addr /\ 2 \in Addr /\ 3 \in Addr
  BY BlocksAssumption DEF Addr
<1>3. /\ h1 \in HeapType /\ h1.brk = 4 /\ h1.fl = h.fl /\ h1.ok = h.ok
      /\ h1.mem[1] = 3 /\ h1.mem[2] = 3
  <2>1. 2 \in Int /\ 1 \in {0, 1} /\ 2 - 1 \in Addr /\ 2 + 2 - 2 \in Addr
    BY <1>2
  <2>2. /\ h1 \in HeapType
        /\ \A x \in Addr : h1.mem[x] = IF x \in {2 - 1, 2 + 2 - 2} THEN 2 + 1 ELSE g.mem[x]
        /\ h1.brk = g.brk /\ h1.fl = g.fl /\ h1.ok = g.ok
    BY <2>1, <1>1, MarkIs
  <2> HIDE DEF h1
  <2> QED
    BY <2>2, <1>1, <1>2
<1> HIDE DEF h1
<1>4. /\ h2 \in HeapType /\ h2.mem = [h1.mem EXCEPT ![3] = 1]
      /\ h2.brk = h1.brk /\ h2.fl = h1.fl /\ h2.ok = h1.ok
  <2>1. h1 \in HeapType /\ 3 \in Addr /\ 1 \in Int
    BY <1>2, <1>3
  <2> QED
    BY <2>1, PutIs
<1> HIDE DEF h2
<1>5. /\ h3 \in HeapType /\ h3.mem = [h2.mem EXCEPT ![0] = 0]
      /\ h3.brk = h2.brk /\ h3.fl = h2.fl /\ h3.ok = h2.ok
  <2> DEFINE o == 0
  <2>1. h2 \in HeapType /\ o \in Addr /\ o \in Int
    BY <1>2, <1>4
  <2> HIDE DEF o
  <2>2. /\ PUT(h2, o, o) \in HeapType /\ PUT(h2, o, o).mem = [h2.mem EXCEPT ![o] = o]
        /\ PUT(h2, o, o).brk = h2.brk /\ PUT(h2, o, o).fl = h2.fl /\ PUT(h2, o, o).ok = h2.ok
    BY <2>1, PutIs
  <2> QED
    BY <2>2 DEF o
<1>6. h1.mem \in [Addr -> Int] /\ h2.mem \in [Addr -> Int]
  BY <1>3, <1>4 DEF HeapType
<1>7. Ends(h) = h3
  BY DEF Ends, DSIZE, h2, h1, g, new
<1> HIDE DEF h3
<1>8. h3.mem[1] = 3 /\ h3.mem[2] = 3 /\ h3.mem[3] = 1
  BY <1>2, <1>3, <1>4, <1>5, <1>6
<1> QED
  BY <1>1, <1>3, <1>4, <1>5, <1>7, <1>8 DEF new

(* The first chunk follows the prologue. *)
LEMMA ChunkStarts ==
  ASSUME NEW h \in HeapType, NEW c \in Classes, h.brk = 4,
         h.mem[1] = 3, h.mem[2] = 3, h.mem[3] = 1, \A k \in Lists : h.fl[k] = 0
  PROVE  GrownMeets(h, c, CHUNKSIZE, TRUE) /\ Starts(h, c, Grown(h, c, CHUNKSIZE, TRUE).h)
<1> DEFINE x == Grown(h, c, CHUNKSIZE, TRUE)
<1>1. PICK s : Holds(h, c, s) /\ DOMAIN s = {}
  BY EmptyHolds
<1>2. CHUNKSIZE \in Nat /\ CHUNKSIZE >= 5 /\ 4 + Even(CHUNKSIZE) <= MAX_HEAP
  BY BlocksAssumption, EvenIs
<1>3. Offers(x.h, c, s, x.bp, CHUNKSIZE) /\ KeptAll(h, x.h, s) /\ GrownMeets(h, c, CHUNKSIZE, TRUE)
  BY <1>1, <1>2, GrownHolds
<1> HIDE DEF x
<1>4. Holds(x.h, c, s) /\ x.h.ok = h.ok
  BY <1>3, OffersHolds DEF KeptAll
<1> QED
  BY <1>1, <1>3, <1>4 DEF Starts, x

\* mm_init() of mm.c.
LEMMA SegStarts ==
  ASSUME NEW h \in HeapType, h.brk = 0
  PROVE  Starts(h, SegClass, Seg!mm_init(h, TRUE).h)
<1> DEFINE c == SegClass
           none == [k \in Lists |-> 0]
           e == Ends(h)
           g == [e EXCEPT !.fl = none]
<1>1. /\ mem_sbrk(h, 4, TRUE).got /\ e \in HeapType /\ e.brk = 4
      /\ e.mem[1] = 3 /\ e.mem[2] = 3 /\ e.mem[3] = 1
      /\ e.fl = h.fl /\ e.ok = h.ok
  BY EndsAre
<1>2. none \in [Lists -> Int] /\ \A k \in Lists : none[k] = 0
  OBVIOUS
<1>3. Seg!NoLists(h) = none
  BY SegWords DEF Seg!NoLists, NULL
<1>4. Seg!PUT(Seg!PUT(Seg!Mark(Seg!mem_sbrk(h, 4, TRUE).h, 2, Seg!DSIZE, 1), 3, 1), 0, 0) = e
  BY SegWords DEF Ends
<1> HIDE DEF e, none
<1>5. /\ g \in HeapType /\ g.mem = e.mem /\ g.brk = e.brk /\ g.ok = e.ok /\ g.fl = none
  BY <1>1, <1>2 DEF HeapType
<1>6. Seg!mm_init(h, TRUE) = Seg!extend_heap(g, CHUNKSIZE, TRUE)
  BY <1>1, <1>3, <1>4, SegWords DEF Seg!mm_init
<1> HIDE DEF g, c
<1>7. GrownMeets(g, c, CHUNKSIZE, TRUE) /\ Starts(g, c, Grown(g, c, CHUNKSIZE, TRUE).h)
  <2>1. c \in Classes
    BY ClassesAre DEF c
  <2>2. g.brk = 4 /\ g.mem[1] = 3 /\ g.mem[2] = 3 /\ g.mem[3] = 1 /\ \A k \in Lists : g.fl[k] = 0
    BY <1>1, <1>2, <1>5
  <2> QED
    BY <2>1, <2>2, <1>5, ChunkStarts
<1>8. Seg!extend_heap(g, CHUNKSIZE, TRUE) = Grown(g, c, CHUNKSIZE, TRUE)
  BY <1>7, SegGrown DEF c
<1>9. g.ok = h.ok
  BY <1>1, <1>5
<1> QED
  BY <1>6, <1>7, <1>8, <1>9 DEF Starts, c

----------------------------------------------------------------------------
(* mm_exp.c and mm_safe_copy.c                                             *)

\* add_node() of mm_exp.c.
LEMMA ExpAdd ==
  ASSUME NEW h, NEW b
  PROVE  Exp!add_node(h, b) = Add(h, b, 0)
BY ExpWords DEF Exp!add_node, Add, Exp!free_list, Exp!SET_LIST

\* delete_node() of mm_exp.c.
LEMMA ExpDel ==
  ASSUME NEW h, NEW b
  PROVE  Exp!delete_node(h, b) = Del(h, b, 0)
BY ExpWords DEF Exp!delete_node, Del, Exp!SET_LIST

\* The heap that the consistency check of mm_exp.c does not end.
Checked(h) == Exp!mm_checkheap(h)

\* mm_checkheap() of mm_exp.c finds nothing in a heap in order.
LEMMA ExpChecked ==
  ASSUME NEW h, NEW s, Holds(h, ExpClass, s), h.ok
  PROVE  Checked(h) = h
<1>1. InOrder(h, ExpClass, s)
  BY ClassesAre, HoldsInOrder
<1>2. EndsInOrder(h) /\ \A b \in Visited(h) : checkblock(h, b)
  BY <1>1 DEF InOrder
<1>3. h \in HeapType /\ h.ok = TRUE
  <2>1. h \in HeapType
    BY HoldsType
  <2> QED
    BY <2>1 DEF HeapType
<1>4. [h EXCEPT !.ok = TRUE] = h
  BY <1>3 DEF HeapType
<1>5. (h.ok /\ Exp!EndsInOrder(h) /\ \A b \in Exp!Visited(h) : Exp!checkblock(h, b)) = TRUE
  BY <1>2, ExpChecks
<1> QED
  BY <1>4, <1>5 DEF Checked, Exp!mm_checkheap

\* coalesce() of mm_exp.c, which checks the heap.
LEMMA ExpCoalesced ==
  ASSUME NEW h, NEW bp, Meets(h, ExpClass, bp)
  PROVE  Exp!coalesce(h, bp) = [bp |-> Coalesced(h, ExpClass, bp).bp, h |-> Checked(Coalesced(h, ExpClass, bp).h)]
<1> DEFINE c == ExpClass
           prev == PREV_BLKP(h, bp)
           next == NEXT_BLKP(h, bp)
           before == ~Allocated(h, prev)
           behind == ~Allocated(h, next)
           at == IF before THEN prev ELSE bp
           own == SizeOf(h, bp)
           psize == SizeOf(h, prev)
           nsize == SizeOf(h, next)
           size == own + (IF before THEN psize ELSE 0) + (IF behind THEN nsize ELSE 0)
           h1 == Unlinked(h, c, prev, before)
           h2 == Unlinked(h1, c, next, behind)
           h3 == Mark(h2, at, size, 0)
           x == Coalesced(h, c, bp)
<1>1. /\ own \in Nat /\ psize \in Nat /\ nsize \in Nat /\ SizeOf(h1, next) \in Nat
      /\ size \in Nat /\ Mark(h, bp, own, 0) = h
  BY DEF Meets
<1>2. x = [h |-> Add(h3, at, c[size]), bp |-> at]
  BY DEF Coalesced
<1>3. c[size] = 0 /\ c[psize] = 0 /\ c[SizeOf(h1, next)] = 0
  BY <1>1, ClassesAre
<1>4. x.h = Add(h3, at, 0) /\ x.bp = at
  BY <1>2, <1>3
<1>5. /\ h1 = IF before THEN Exp!delete_node(h, prev) ELSE h
      /\ h2 = IF behind THEN Exp!delete_node(h1, next) ELSE h1
  BY <1>3, ExpDel DEF Unlinked
<1>6. /\ Exp!PREV_BLKP(h, bp) = prev /\ Exp!NEXT_BLKP(h, bp) = next
      /\ Exp!SizeOf(h, bp) = own /\ Exp!SizeOf(h, prev) = psize /\ Exp!SizeOf(h, next) = nsize
      /\ (Exp!Allocated(h, prev) <=> ~before) /\ (Exp!Allocated(h, next) <=> ~behind)
  BY ExpWords
<1> HIDE DEF x, h1, h2
<1>7. \A g, a, n : Exp!Joined(g, a, n) = [bp |-> a, h |-> Checked(Add(Mark(g, a, n, 0), a, 0))]
  BY ExpAdd, ExpWords DEF Exp!Joined, Checked
<1> HIDE DEF prev, next, before, behind, own, psize, nsize
<1>8. x.bp = at /\ x.h = Add(h3, at, 0) /\ h3 = Mark(h2, at, size, 0)
  BY <1>4
<1> DEFINE r == [bp |-> at, h |-> Checked(Add(h3, at, 0))]
<1>9. [bp |-> x.bp, h |-> Checked(x.h)] = r
  BY <1>8
<1>10. /\ at = IF before THEN prev ELSE bp
      /\ size = own + (IF before THEN psize ELSE 0) + (IF behind THEN nsize ELSE 0)
  OBVIOUS
<1>11. r = [bp |-> at, h |-> Checked(Add(h3, at, 0))]
  OBVIOUS
<1> HIDE DEF r, h3, at, size
<1>12. ~before /\ ~behind => Exp!coalesce(h, bp) = r
  <2>1. SUFFICES ASSUME ~before /\ ~behind PROVE Exp!coalesce(h, bp) = r
    OBVIOUS
  <2>2. Exp!coalesce(h, bp) = Exp!Alone(h, bp)
    BY <1>6, <2>1 DEF Exp!coalesce
  <2>3. Exp!Alone(h, bp) = [bp |-> bp, h |-> Checked(Add(h, bp, 0))]
    BY ExpAdd DEF Exp!Alone, Checked
  <2>4. h3 = h /\ at = bp
    BY <1>1, <1>5, <1>8, <1>10, <2>1
  <2> QED
    BY <2>2, <2>3, <2>4, <1>11
<1>13. ~before /\ behind => Exp!coalesce(h, bp) = r
  <2>1. SUFFICES ASSUME ~before /\ behind PROVE Exp!coalesce(h, bp) = r
    OBVIOUS
  <2>2. Exp!coalesce(h, bp) = Exp!WithNext(h, bp, next)
    BY <1>6, <2>1 DEF Exp!coalesce
  <2>3. Exp!WithNext(h, bp, next) = Exp!Joined(Exp!delete_node(h, next), bp, own + nsize)
    BY <1>6 DEF Exp!WithNext
  <2>4. h2 = Exp!delete_node(h, next) /\ at = bp /\ size = own + nsize
    BY <1>1, <1>5, <1>10, <2>1
  <2> QED
    BY <2>2, <2>3, <2>4, <1>7, <1>8, <1>11
<1>14. before /\ ~behind => Exp!coalesce(h, bp) = r
  <2>1. SUFFICES ASSUME before /\ ~behind PROVE Exp!coalesce(h, bp) = r
    OBVIOUS
  <2>2. Exp!coalesce(h, bp) = Exp!WithPrev(h, bp, prev)
    BY <1>6, <2>1 DEF Exp!coalesce
  <2>3. Exp!WithPrev(h, bp, prev) = Exp!Joined(Exp!delete_node(h, prev), prev, own + psize)
    BY <1>6 DEF Exp!WithPrev
  <2>4. h2 = Exp!delete_node(h, prev) /\ at = prev /\ size = own + psize
    BY <1>1, <1>5, <1>10, <2>1
  <2> QED
    BY <2>2, <2>3, <2>4, <1>7, <1>8, <1>11
<1>15. before /\ behind => Exp!coalesce(h, bp) = r
  <2>1. SUFFICES ASSUME before /\ behind PROVE Exp!coalesce(h, bp) = r
    OBVIOUS
  <2>2. Exp!coalesce(h, bp) = Exp!WithBoth(h, bp, prev, next)
    BY <1>6, <2>1 DEF Exp!coalesce
  <2>3. Exp!WithBoth(h, bp, prev, next) = Exp!Joined(Exp!delete_node(Exp!delete_node(h, prev), next), prev, own + psize + nsize)
    BY <1>6 DEF Exp!WithBoth
  <2>4. h2 = Exp!delete_node(Exp!delete_node(h, prev), next) /\ at = prev /\ size = own + psize + nsize
    BY <1>1, <1>5, <1>10, <2>1
  <2> QED
    BY <2>2, <2>3, <2>4, <1>7, <1>8, <1>11
<1>16. Exp!coalesce(h, bp) = r
  BY <1>12, <1>13, <1>14, <1>15
<1> QED
  BY <1>9, <1>16 DEF x, c

\* extend_heap() of mm_exp.c.
LEMMA ExpGrown ==
  ASSUME NEW h, NEW s, Holds(h, ExpClass, s), h.ok, NEW words \in Nat, words >= 5, NEW granted \in BOOLEAN
  PROVE  Exp!extend_heap(h, words, granted) = Grown(h, ExpClass, words, granted)
<1> DEFINE c == ExpClass
           size == Even(words)
           new == mem_sbrk(h, size, granted)
           h1 == PUT(Mark(new.h, new.at, size, 0), new.at + size - 1, 1)
           x == Coalesced(h1, c, new.at)
           g == Grown(h, c, words, granted)
<1>1. c \in Classes
  BY ClassesAre
<1>2. /\ GrownMeets(h, c, words, granted)
      /\ ~(granted /\ h.brk + size <= MAX_HEAP) => g = [h |-> h, bp |-> NULL]
      /\ granted /\ h.brk + size <= MAX_HEAP => Offers(g.h, c, s, g.bp, words) /\ KeptAll(h, g.h, s)
  BY <1>1, GrownHolds
<1>3. new.got => Meets(h1, c, new.at)
  BY <1>2 DEF GrownMeets
<1>4. new.got <=> granted /\ h.brk + size <= MAX_HEAP
  <2>1. size \in Nat /\ h \in HeapType
    BY EvenIs, HoldsType
  <2> HIDE DEF size
  <2> QED
    BY <2>1, SbrkIs
<1>5. ~new.got => new.h = h
  BY DEF mem_sbrk
<1>6. g = IF ~new.got THEN [h |-> h, bp |-> NULL] ELSE x
  BY DEF Grown
<1>7. x = [bp |-> x.bp, h |-> x.h]
  BY DEF Coalesced
<1>8. Exp!extend_heap(h, words, granted) = Exp!Extended(new, size)
  BY ExpWords DEF Exp!extend_heap
<1>9. Exp!PUT(Exp!Mark(new.h, new.at, size, 0), new.at + size - 1, 1) = h1
  BY ExpWords
<1> HIDE DEF c, g
<1>10. CASE ~new.got
  BY <1>5, <1>6, <1>8, <1>10, ExpWords DEF Exp!Extended, g, c
<1>11. CASE new.got
  <2>1. Exp!Extended(new, size) = Exp!coalesce(h1, new.at)
    BY <1>9, <1>11 DEF Exp!Extended
  <2>2. g = x
    BY <1>6, <1>11
  <2> HIDE DEF h1, new
  <2>3. Exp!coalesce(h1, new.at) = [bp |-> x.bp, h |-> Checked(x.h)]
    BY <1>3, <1>11, ExpCoalesced DEF c
  <2> HIDE DEF x
  <2>4. Holds(x.h, c, s) /\ x.h.ok
    BY <2>2, <1>2, <1>4, <1>11, OffersHolds DEF KeptAll
  <2>5. Checked(x.h) = x.h
    BY <2>4, ExpChecked DEF c
  <2> QED
    BY <2>1, <2>2, <2>3, <2>5, <1>7, <1>8 DEF g, c
<1> QED
  BY <1>10, <1>11

\* place() of mm_exp.c.
LEMMA ExpTaken ==
  ASSUME NEW h, NEW bp, NEW n \in Nat, TakenMeets(h, ExpClass, bp, n)
  PROVE  Exp!place(h, bp, n) = Taken(h, ExpClass, bp, n)
<1> DEFINE csize == SizeOf(h, bp)
           h1 == Del(h, bp, 0)
           rest == csize - n
           h2 == Mark(Mark(h1, bp, n, 1), bp + n, rest, 0)
<1>1. csize \in Nat
  BY DEF TakenMeets
<1>2. ExpClass[csize] = 0 /\ (rest >= 6 => ExpClass[rest] = 0)
  BY <1>1, ClassesAre
<1>3. Taken(h, ExpClass, bp, n) = IF rest >= 6 THEN Add(h2, bp + n, 0) ELSE Mark(h1, bp, csize, 1)
  BY <1>2 DEF Taken
<1>4. /\ Exp!SizeOf(h, bp) = csize /\ Exp!delete_node(h, bp) = h1
      /\ Exp!Mark(Exp!Mark(h1, bp, n, 1), bp + n, rest, 0) = h2
      /\ Exp!Mark(h1, bp, csize, 1) = Mark(h1, bp, csize, 1)
      /\ Exp!add_node(h2, bp + n) = Add(h2, bp + n, 0)
  BY ExpWords, ExpDel, ExpAdd
<1>5. rest < 3 * Exp!DSIZE <=> ~(rest >= 6)
  BY <1>1, ExpWords DEF DSIZE
<1> HIDE DEF csize, h1, h2
<1> QED
  BY <1>3, <1>4, <1>5 DEF Exp!place

\* mm_free() of mm_exp.c on a block the user holds.
LEMMA ExpFrees ==
  ASSUME NEW h, NEW s, Holds(h, ExpClass, s), h.ok, NEW bp \in DOMAIN s
  PROVE  Exp!mm_free(h, bp) = Released(h, ExpClass, bp)
<1> DEFINE c == ExpClass
           h1 == Mark(h, bp, SizeOf(h, bp), 0)
           x == Coalesced(h1, c, bp)
<1>1. bp # NULL /\ c \in Classes
  BY HoldsFacts, ClassesAre DEF NULL
<1>2. /\ Meets(h1, c, bp) /\ Holds(Released(h, c, bp), c, Minus(s, bp))
      /\ KeptAll(h, Released(h, c, bp), Minus(s, bp))
  BY <1>1, ReleasedHolds
<1>3. Released(h, c, bp) = x.h
  BY DEF Released
<1>4. Exp!Mark(h, bp, Exp!SizeOf(h, bp), 0) = h1 /\ bp # Exp!NULL
  BY <1>1, ExpWords
<1> HIDE DEF h1
<1>5. Exp!coalesce(h1, bp).h = Checked(x.h)
  BY <1>2, ExpCoalesced DEF c
<1> HIDE DEF x, c
<1>6. Checked(x.h) = x.h
  BY <1>2, <1>3, ExpChecked DEF KeptAll, c
<1> QED
  BY <1>3, <1>4, <1>5, <1>6 DEF Exp!mm_free, Checked, c

\* The block size mm_malloc() of mm_exp.c asks for has room for two tags.
LEMMA ExpAdjusted ==
  ASSUME NEW n \in Nat
  PROVE  AdjustedTo(n, Exp!Adjust(n))
<1>1. Exp!Adjust(n) = IF n <= 2 THEN 6 ELSE 2 * ((n + 3) \div 2)
  <2>1. n + 2 + 2 - 1 = n + 3
    OBVIOUS
  <2> QED
    BY <2>1, ExpWords DEF Exp!Adjust, DSIZE
<1> DEFINE q == (n + 3) \div 2
<1>2. q \in Nat /\ n + 3 <= 2 * q + 1
  OBVIOUS
<1> HIDE DEF q
<1>3. (2 * q) % 2 = 0
  BY <1>2
<1>4. CASE n <= 2
  BY <1>1, <1>4 DEF AdjustedTo
<1>5. CASE ~(n <= 2)
  <2>1. Exp!Adjust(n) = 2 * q
    BY <1>1, <1>5 DEF q
  <2>2. 2 * q \in Nat /\ 2 * q >= 6 /\ n + 2 <= 2 * q
    BY <1>2, <1>5
  <2> QED
    BY <2>1, <2>2, <1>3 DEF AdjustedTo
<1> QED
  BY <1>4, <1>5

\* The instances count as this module does.
LEMMA ExpCardinality ==
  /\ \A S : Exp!Cardinality(S) = Cardinality(S)
  /\ \A S : Seg!Cardinality(S) = Cardinality(S)
BY DEF Exp!Cardinality, Seg!Cardinality, Cardinality

(* There is a candidate when anything fits.                                *)
LEMMA CandidatesAre ==
  ASSUME NEW h, NEW n, Fits(h, 0, n) \subseteq Nat
  PROVE  /\ Exp!CandidatePlaces(h, n) \subseteq Fits(h, 0, n)
         /\ Fits(h, 0, n) # {} => Exp!CandidatePlaces(h, n) # {}
<1> DEFINE F == Fits(h, 0, n)
<1>1. Exp!CandidatePlaces(h, n) = {i \in F : Cardinality({k \in F : k < i}) < Candidates}
  BY ExpChecks, ExpCardinality DEF Exp!CandidatePlaces
<1> HIDE DEF F
<1>2. F # {} => \E i \in F : Cardinality({k \in F : k < i}) < Candidates
  <2>1. SUFFICES ASSUME F # {} PROVE \E i \in F : Cardinality({k \in F : k < i}) < Candidates
    OBVIOUS
  <2>2. PICK i \in F : \A k \in F : i <= k
    BY <2>1, LeastOf DEF F
  <2>3. {k \in F : k < i} = {}
    BY <2>2 DEF F
  <2>4. Cardinality({}) = 0
    BY FS_EmptySet
  <2>5. 0 < Candidates
    BY MDriverAssumption
  <2> QED
    BY <2>3, <2>4, <2>5
<1> QED
  BY <1>1, <1>2 DEF F

(* The least of the sizes is at one of the places, at a first one.         *)
LEMMA BestIsCandidate ==
  ASSUME NEW h, NEW fits, fits \subseteq Nat, fits # {},
         \A i \in fits : SizeOf(h, FreeList(h, 0)[i]) \in Nat
  PROVE  Exp!BestCandidate(h, fits) \in fits
<1> DEFINE size(i) == SizeOf(h, FreeList(h, 0)[i])
           S == {size(i) : i \in fits}
           P(i) == \A k \in fits : size(i) < size(k) \/ (size(i) = size(k) /\ i <= k)
<1>1. PICK m \in S : \A x \in S : m <= x
  <2>1. S \subseteq Nat /\ S # {}
    OBVIOUS
  <2> HIDE DEF S
  <2> QED
    BY <2>1, LeastOf
<1> DEFINE T == {i \in fits : size(i) = m}
<1>2. PICK i \in T : \A k \in T : i <= k
  <2>1. T \subseteq Nat /\ T # {}
    BY <1>1
  <2> HIDE DEF T
  <2> QED
    BY <2>1, LeastOf
<1>3. ASSUME NEW k \in fits PROVE size(i) < size(k) \/ (size(i) = size(k) /\ i <= k)
  <2>1. size(k) \in S /\ size(i) = m /\ m <= size(k)
    BY <1>1, <1>2
  <2>2. size(k) \in Nat /\ m \in Nat
    BY <1>1
  <2>3. CASE size(k) = m
    BY <2>1, <2>3, <1>2
  <2>4. CASE size(k) # m
    BY <2>1, <2>2, <2>4
  <2> QED
    BY <2>3, <2>4
<1>4. Exp!BestCandidate(h, fits) = CHOOSE j \in fits : P(j)
  BY ExpWords, ExpWalks DEF Exp!BestCandidate
<1>5. i \in fits /\ P(i)
  BY <1>2, <1>3
<1> HIDE DEF P
<1> QED
  BY <1>4, <1>5

\* find_fit() of mm_exp.c and mm_safe_copy.c.
LEMMA ExpFinds ==
  ASSUME NEW h, NEW s, Holds(h, ExpClass, s), NEW n \in Nat
  PROVE  Finds(h, ExpClass, s, n, Exp!find_fit(h, n))
<1> DEFINE c == ExpClass
           F == Fits(h, 0, n)
           C == Exp!CandidatePlaces(h, n)
           best == lib = "mm_safe_copy"
           at == IF best THEN Exp!BestCandidate(h, C) ELSE Exp!LastCandidate(h, C)
           fit == Exp!find_fit(h, n)
<1>1. c \in Classes /\ 0 \in Lists
  BY ClassesAre DEF Lists
<1>2. /\ F \subseteq 1 .. MaxBlocks
      /\ \A i \in F : Offers(h, c, s, FreeList(h, 0)[i], n) /\ SizeOf(h, FreeList(h, 0)[i]) \in Nat
  BY <1>1, FitOffers
<1>3. F \subseteq Nat /\ MaxBlocks \in Nat
  BY <1>2, BlocksAssumption DEF MaxBlocks
<1>4. C \subseteq F /\ (F # {} => C # {})
  BY <1>3, CandidatesAre
<1>5. fit = IF C = {} THEN NULL ELSE FreeList(h, 0)[at]
  BY ExpWalks, ExpWords DEF Exp!find_fit
<1> HIDE DEF C, F
<1>6. C # {} => at \in C
  <2>1. SUFFICES ASSUME C # {} PROVE at \in C
    OBVIOUS
  <2>2. Exp!BestCandidate(h, C) \in C
    <3>1. C \subseteq Nat /\ \A i \in C : SizeOf(h, FreeList(h, 0)[i]) \in Nat
      BY <1>2, <1>3, <1>4
    <3> QED
      BY <3>1, <2>1, BestIsCandidate
  <2>3. Exp!LastCandidate(h, C) \in C
    <3>1. C \subseteq 1 .. MaxBlocks
      BY <1>2, <1>4
    <3>2. Max(C) \in C
      BY <3>1, <2>1, <1>3, GreatestPlace
    <3> QED
      BY <3>2, ExpChecks DEF Exp!LastCandidate
  <2> QED
    BY <2>2, <2>3
<1> HIDE DEF at, fit
<1>7. C # {} => fit # NULL /\ Offers(h, c, s, fit, n)
  <2>1. SUFFICES ASSUME C # {} PROVE fit # NULL /\ Offers(h, c, s, fit, n)
    OBVIOUS
  <2>2. Offers(h, c, s, fit, n)
    BY <2>1, <1>2, <1>4, <1>5, <1>6
  <2>3. fit # NULL
    BY <2>2, OffersFacts DEF NULL
  <2> QED
    BY <2>2, <2>3
<1>8. ASSUME F = {}, NEW b \in FreeBlocks(h) PROVE SizeOf(h, b) < n
  <2>1. SizeOf(h, b) \in Nat
    <3>2. SizeOf(h, b) > 0
      BY DEF FreeBlocks, Real
    <3>3. SizeOf(h, b) \in Int
      <4>1. PICK B, sz, al : Sound(h, c, B, sz, al)
        BY DEF Holds
      <4>2. Rep(h, c, B, sz, al, Free(B, al)) /\ b \in B
        BY <4>1, SoundBlocks DEF Sound, Free
      <4> QED
        BY <4>2, RepFacts
    <3> QED
      BY <3>2, <3>3
  <2>2. SUFFICES ASSUME n <= SizeOf(h, b) PROVE FALSE
    BY <2>1
  <2>3. Fits(h, c[SizeOf(h, b)], n) # {}
    BY <2>2, <1>1, FitsFound DEF c
  <2>4. c[SizeOf(h, b)] = 0
    BY <2>1, ClassesAre
  <2> QED
    BY <2>3, <2>4, <1>8 DEF F
<1>9. C = {} => fit = NULL
  BY <1>5
<1> HIDE DEF c
<1> QED
  BY <1>4, <1>7, <1>8, <1>9 DEF Finds, c, fit

\* mm_malloc() of mm_exp.c.
LEMMA ExpServes ==
  ASSUME NEW h, NEW s, Holds(h, ExpClass, s), h.ok, NEW n \in Nat \ {0}, NEW granted \in BOOLEAN
  PROVE  Serves(h, ExpClass, s, Exp!mm_malloc(h, n, granted), Exp!Adjust(n))
<1> DEFINE c == ExpClass
           a == Exp!Adjust(n)
           fit == Exp!find_fit(h, a)
           w == Larger(a, CHUNKSIZE)
           y == IF fit # NULL THEN [h |-> h, bp |-> fit] ELSE Grown(h, c, w, granted)
<1>1. a \in Nat /\ a >= 6 /\ a % 2 = 0
  BY ExpAdjusted DEF AdjustedTo
<1>2. c \in Classes
  BY ClassesAre
<1>3. fit # NULL => Offers(h, c, s, fit, a)
  BY <1>1, ExpFinds DEF Finds
<1>4. w \in Nat /\ w >= 5 /\ a <= w
  BY <1>1, BlocksAssumption DEF Larger
<1>5. Exp!mm_malloc(h, n, granted) = Exp!Placed(Exp!Found(h, fit, a, granted), a)
  BY DEF Exp!mm_malloc
<1>6. Served(h, c, fit, a, granted) = IF y.bp = NULL THEN y ELSE [h |-> Taken(y.h, c, y.bp, a), bp |-> y.bp]
  BY DEF Served
<1>7. Exp!Larger(a, CHUNKSIZE) = w
  BY ExpWords
<1> HIDE DEF a, fit, w, c
<1>8. /\ GrownMeets(h, c, w, granted)
      /\ Grown(h, c, w, granted) = [h |-> h, bp |-> NULL] \/ Offers(Grown(h, c, w, granted).h, c, s, Grown(h, c, w, granted).bp, w)
  BY <1>2, <1>4, GrownHolds DEF c
<1>9. Exp!extend_heap(h, w, granted) = Grown(h, c, w, granted)
  BY <1>4, ExpGrown DEF c
<1>10. Exp!Found(h, fit, a, granted) = y
  BY <1>7, <1>9, ExpWords DEF Exp!Found
<1>11. y.bp # NULL => Offers(y.h, c, s, y.bp, a)
  <2>1. CASE fit # NULL
    BY <2>1, <1>3
  <2>2. CASE fit = NULL
    <3> DEFINE g == Grown(h, c, w, granted)
    <3>1. y = g
      BY <2>2
    <3>2. g = [h |-> h, bp |-> NULL] \/ Offers(g.h, c, s, g.bp, w)
      BY <1>8
    <3> HIDE DEF g
    <3>3. g.bp # NULL => Offers(g.h, c, s, g.bp, w)
      BY <3>2
    <3>4. g.bp # NULL => Offers(g.h, c, s, g.bp, a)
      BY <3>3, <1>1, <1>4, OffersLess
    <3> HIDE DEF y
    <3> QED
      BY <3>1, <3>4
  <2> QED
    BY <2>1, <2>2
<1> HIDE DEF y
<1>12. y.bp # NULL => Exp!place(y.h, y.bp, a) = Taken(y.h, c, y.bp, a)
  <2>1. SUFFICES ASSUME y.bp # NULL PROVE Exp!place(y.h, y.bp, a) = Taken(y.h, c, y.bp, a)
    OBVIOUS
  <2>2. TakenMeets(y.h, c, y.bp, a)
    BY <2>1, <1>1, <1>2, <1>11, TakenHolds
  <2> QED
    BY <2>2, <1>1, ExpTaken DEF c
<1>13. Exp!Placed(y, a) = Served(h, c, fit, a, granted)
  BY <1>6, <1>12, ExpWords DEF Exp!Placed
<1>14. Serves(h, c, s, Served(h, c, fit, a, granted), a)
  BY <1>1, <1>2, <1>3, ServedHolds DEF c
<1> QED
  BY <1>5, <1>10, <1>13, <1>14 DEF c, a

\* mm_realloc() of mm_exp.c.
LEMMA ExpMoves ==
  ASSUME NEW h, NEW s, Holds(h, ExpClass, s), h.ok, NEW bp \in DOMAIN s, NEW n \in Nat \ {0},
         NEW granted \in BOOLEAN
  PROVE  Moves(h, ExpClass, s, Exp!mm_realloc(h, bp, n, granted), bp, n, Exp!Adjust(n))
<1> DEFINE c == ExpClass
           x == Exp!mm_malloc(h, n, granted)
           a == Exp!Adjust(n)
           m == Smaller(n, SizeOf(x.h, bp))
           g == Copied(x.h, x.bp, bp, m)
<1>1. a \in Nat /\ n + 2 <= a /\ c \in Classes /\ bp # NULL /\ n \in Nat /\ Holds(h, c, s) /\ h \in HeapType
  <2>1. a \in Nat /\ n + 2 <= a
    BY ExpAdjusted DEF AdjustedTo
  <2> QED
    BY <2>1, ClassesAre, HoldsFacts DEF NULL
<1>2. Serves(h, c, s, x, a)
  BY ExpServes
<1>3. Exp!mm_realloc(h, bp, n, granted) = Exp!Moved(x, bp, n)
  BY DEF Exp!mm_realloc
<1> HIDE DEF c, x, a
<1>4. Moves(h, c, s, MovedFrom(x, c, bp, n), bp, n, a) /\ MovesFrom(x, c, bp, n)
  BY <1>1, <1>2, MovedHolds
<1>5. x.bp # NULL => Exp!mm_free(g, bp) = Released(g, c, bp)
  <2>1. SUFFICES ASSUME x.bp # NULL PROVE Exp!mm_free(g, bp) = Released(g, c, bp)
    OBVIOUS
  <2>2. PICK t : Holds(g, c, t) /\ bp \in DOMAIN t
    BY <2>1, <1>4 DEF MovesFrom
  <2>3. g.ok
    <3>1. x.h.ok = h.ok
      BY <2>1, <1>2 DEF Serves, KeptAll
    <3>2. g.ok = x.h.ok
      <4>1. PICK s1 : Holds(x.h, c, s1)
        BY <2>1, <1>2 DEF Serves
      <4>2. x.h \in HeapType
        BY <4>1, HoldsType
      <4> QED
        BY <4>2 DEF Copied, HeapType
    <3> QED
      BY <3>1, <3>2
  <2> HIDE DEF g
  <2> QED
    BY <2>2, <2>3, ExpFrees DEF c
<1>6. Exp!memcpy(x.h, x.bp, bp, Exp!Smaller(n, Exp!SizeOf(x.h, bp))) = g
  BY ExpWords DEF Exp!memcpy, Copied
<1>7. MovedFrom(x, c, bp, n) = IF x.bp = NULL THEN x ELSE [h |-> Released(g, c, bp), bp |-> x.bp]
  BY <1>1 DEF MovedFrom
<1> HIDE DEF g
<1>8. Exp!Moved(x, bp, n) = MovedFrom(x, c, bp, n)
  BY <1>1, <1>5, <1>6, <1>7, ExpWords DEF Exp!Moved
<1> QED
  BY <1>3, <1>4, <1>8 DEF c, a

(* No list but the first has blocks. *)
OneList(h) == \A k \in Lists : k # 0 => h.fl[k] = 0

\* mm_init() of mm_exp.c.
LEMMA ExpStarts ==
  ASSUME NEW h \in HeapType, h.brk = 0, OneList(h), h.ok
  PROVE  Starts(h, ExpClass, Exp!mm_init(h, TRUE).h)
<1> DEFINE c == ExpClass
           e == Ends(h)
           g == [e EXCEPT !.fl[0] = 0]
<1>1. /\ mem_sbrk(h, 4, TRUE).got /\ e \in HeapType /\ e.brk = 4
      /\ e.mem[1] = 3 /\ e.mem[2] = 3 /\ e.mem[3] = 1
      /\ e.fl = h.fl /\ e.ok = h.ok
  BY EndsAre
<1>2. Exp!PUT(Exp!PUT(Exp!Mark(Exp!mem_sbrk(h, 4, TRUE).h, 2, Exp!DSIZE, 1), 3, 1), 0, 0) = e
  BY ExpWords DEF Ends
<1> HIDE DEF e
<1>3. /\ g \in HeapType /\ g.mem = e.mem /\ g.brk = e.brk /\ g.ok = e.ok
      /\ \A k \in Lists : g.fl[k] = IF k = 0 THEN 0 ELSE e.fl[k]
  <2> DEFINE o == 0
  <2>1. o \in Lists /\ o \in Int
    BY DEF Lists
  <2> HIDE DEF o
  <2>2. LET f == [e EXCEPT !.fl[o] = o] IN
        /\ f \in HeapType /\ f.mem = e.mem /\ f.brk = e.brk /\ f.ok = e.ok
        /\ \A k \in Lists : f.fl[k] = IF k = o THEN o ELSE e.fl[k]
    BY <1>1, <2>1, SetHead
  <2> QED
    BY <2>2 DEF o
<1>4. Exp!mm_init(h, TRUE) = Exp!extend_heap(g, CHUNKSIZE, TRUE)
  BY <1>1, <1>2, ExpWords DEF Exp!mm_init, Exp!SET_LIST, NULL
<1> HIDE DEF g
<1>5. g.brk = 4 /\ g.mem[1] = 3 /\ g.mem[2] = 3 /\ g.mem[3] = 1 /\ \A k \in Lists : g.fl[k] = 0
  BY <1>1, <1>3 DEF OneList
<1>6. PICK s : Holds(g, c, s) /\ DOMAIN s = {}
  BY <1>3, <1>5, ClassesAre, EmptyHolds
<1>7. Starts(g, c, Grown(g, c, CHUNKSIZE, TRUE).h)
  <2>1. c \in Classes
    BY ClassesAre
  <2> HIDE DEF c
  <2> QED
    BY <2>1, <1>3, <1>5, ChunkStarts
<1>8. g.ok = h.ok
  BY <1>1, <1>3
<1>9. Exp!extend_heap(g, CHUNKSIZE, TRUE) = Grown(g, c, CHUNKSIZE, TRUE)
  <2>1. CHUNKSIZE \in Nat /\ CHUNKSIZE >= 5
    BY BlocksAssumption
  <2> QED
    BY <2>1, <1>6, <1>8, ExpGrown
<1> HIDE DEF c
<1> QED
  BY <1>4, <1>7, <1>8, <1>9 DEF Starts, c

----------------------------------------------------------------------------
(* What the driver expects of an allocator                                 *)

\* The lists of the allocator under test.
LibClass == IF lib = "mm" THEN SegClass ELSE ExpClass

(* The heap is in order, and each payload of f has an allocated block.     *)
Fine(h, c, f) ==
  \E s : /\ Holds(h, c, s) /\ DOMAIN s = DOMAIN f
         /\ \A p \in DOMAIN f : f[p] \in Nat \ {0} /\ f[p] + 2 <= s[p]

\* The payload at q is in two heaps the same.
Same(h, h1, q, n) == \A k \in 1 .. n : h1.mem[q + k - 1] = h.mem[q + k - 1]

(* What the driver may expect of a request: it is refused, or the payload  *)
(* of n words at x.bp is apart from the others, which are what they were;  *)
(* the content of the payload it replaces has moved.                       *)
Given(h, c, f, x, old, n) ==
  \/ x.bp = NULL /\ x.h = h
  \/ /\ x.bp \in Nat /\ x.bp % 2 = 0 /\ x.bp >= 4 /\ x.bp + n + 2 <= x.h.brk /\ x.h.brk <= MAX_HEAP
     /\ x.bp \notin DOMAIN f
     /\ \A q \in DOMAIN f : q + f[q] + 2 <= x.bp \/ x.bp + n + 2 <= q
     /\ Fine(x.h, c, Hold(Drop(f, old), x.bp, n)) /\ x.h.ok = h.ok
     /\ \A q \in DOMAIN f : q # old => Same(h, x.h, q, f[q])
     /\ old \in DOMAIN f => \A k \in 1 .. n : k <= f[old] => x.h.mem[x.bp + k - 1] = h.mem[old + k - 1]

\* Payloads are even, apart and inside the heap.
LEMMA FineFacts ==
  ASSUME NEW h, NEW c, NEW f, Fine(h, c, f), NEW q \in DOMAIN f
  PROVE  /\ h \in HeapType /\ h.brk \in Nat /\ h.brk <= MAX_HEAP
         /\ q \in Nat /\ q >= 4 /\ q % 2 = 0
         /\ f[q] \in Nat /\ f[q] > 0 /\ q + f[q] + 2 <= h.brk
         /\ \A r \in DOMAIN f : r # q => q + f[q] + 2 <= r \/ r + f[r] + 2 <= q
<1>1. PICK s : /\ Holds(h, c, s) /\ DOMAIN s = DOMAIN f
               /\ \A p \in DOMAIN f : f[p] \in Nat \ {0} /\ f[p] + 2 <= s[p]
  BY DEF Fine
<1>2. \A p \in DOMAIN f : /\ h \in HeapType /\ h.brk \in Nat /\ h.brk <= MAX_HEAP
                          /\ p \in Nat /\ p >= 4 /\ p % 2 = 0
                          /\ s[p] \in Nat /\ p + s[p] <= h.brk
                          /\ \A r \in DOMAIN f : r # p => p + s[p] <= r \/ r + s[r] <= p
  BY <1>1, HoldsFacts
<1>3. ASSUME NEW r \in DOMAIN f, r # q PROVE q + f[q] + 2 <= r \/ r + f[r] + 2 <= q
  <2>1. q + s[q] <= r \/ r + s[r] <= q
    BY <1>2, <1>3
  <2>2. f[q] \in Nat /\ f[r] \in Nat /\ f[q] + 2 <= s[q] /\ f[r] + 2 <= s[r]
    BY <1>1
  <2>3. q \in Nat /\ r \in Nat /\ s[q] \in Nat /\ s[r] \in Nat
    BY <1>2
  <2> QED
    BY <2>1, <2>2, <2>3
<1>4. f[q] \in Nat /\ f[q] > 0 /\ q + f[q] + 2 <= h.brk
  <2>1. f[q] \in Nat /\ f[q] > 0 /\ f[q] + 2 <= s[q]
    BY <1>1
  <2>2. s[q] \in Nat /\ q \in Nat /\ q + s[q] <= h.brk /\ h.brk \in Nat
    BY <1>2
  <2> QED
    BY <2>1, <2>2
<1> QED
  BY <1>2, <1>3, <1>4

\* A payload in a block whose words stay is the same.
LEMMA SameIfKept ==
  ASSUME NEW h, NEW h1, NEW q \in Nat, NEW n \in Nat, NEW m \in Nat, m + 2 <= n, Kept(h, h1, q, n)
  PROVE  Same(h, h1, q, m)
<1>1. ASSUME NEW k \in 1 .. m PROVE h1.mem[q + k - 1] = h.mem[q + k - 1]
  <2>1. q + k - 1 \in q .. q + n - 3
    OBVIOUS
  <2> QED
    BY <2>1 DEF Kept
<1> QED
  BY <1>1 DEF Same

\* What a served request is to the driver.
LEMMA ServesGives ==
  ASSUME NEW h, NEW c, NEW f, NEW s, Holds(h, c, s), DOMAIN s = DOMAIN f,
         \A p \in DOMAIN f : f[p] \in Nat \ {0} /\ f[p] + 2 <= s[p],
         NEW n \in Nat \ {0}, NEW a \in Nat, n + 2 <= a, NEW x, Serves(h, c, s, x, a)
  PROVE  Given(h, c, f, x, NULL, n)
<1>1. CASE x.bp = NULL /\ x.h = h
  BY <1>1 DEF Given
<1>2. CASE x.bp # NULL /\ \E s1 : Holds(x.h, c, s1) /\ Gains(s, s1, x.bp, a) /\ KeptAll(h, x.h, s)
  <2>1. PICK s1 : Holds(x.h, c, s1) /\ Gains(s, s1, x.bp, a) /\ KeptAll(h, x.h, s)
    BY <1>2
  <2> DEFINE p == x.bp
             g == x.h
  <2>2. /\ p \notin DOMAIN f /\ DOMAIN s1 = DOMAIN f \cup {p} /\ p \in DOMAIN s1 /\ s1[p] >= a
        /\ \A q \in DOMAIN f : q \in DOMAIN s1 /\ q # p /\ s1[q] = s[q]
    BY <2>1 DEF Gains
  <2> HIDE DEF p, g
  <2>h. Holds(g, c, s1)
    BY <2>1 DEF g
  <2>3. /\ g.brk \in Nat /\ g.brk <= MAX_HEAP /\ p \in Nat /\ p >= 4 /\ p % 2 = 0
        /\ s1[p] \in Nat /\ p + s1[p] <= g.brk
        /\ \A r \in DOMAIN s1 : r # p => p + s1[p] <= r \/ r + s1[r] <= p
    BY <2>h, <2>2, HoldsFacts
  <2>4. n + 2 <= s1[p] /\ p + n + 2 <= g.brk
    BY <2>2, <2>3
  <2>5. ASSUME NEW q \in DOMAIN f
        PROVE  /\ q + f[q] + 2 <= p \/ p + n + 2 <= q
               /\ Same(h, g, q, f[q]) /\ f[q] \in Nat \ {0} /\ f[q] + 2 <= s1[q]
    <3>1. q \in Nat /\ s[q] \in Nat /\ f[q] \in Nat /\ f[q] # 0 /\ f[q] + 2 <= s[q] /\ s1[q] = s[q]
      BY <2>2, HoldsFacts
    <3>2. p + s1[p] <= q \/ q + s1[q] <= p
      BY <2>2, <2>3
    <3>3. q + f[q] + 2 <= p \/ p + n + 2 <= q
      BY <3>1, <3>2, <2>3, <2>4
    <3>4. Kept(h, g, q, s[q])
      BY <2>1 DEF KeptAll, g
    <3>5. Same(h, g, q, f[q])
      BY <3>1, <3>4, SameIfKept
    <3> QED
      BY <3>1, <3>3, <3>5
  <2> DEFINE f1 == Hold(Drop(f, NULL), p, n)
  <2>6. Fine(g, c, f1)
    <3>1. NULL \notin DOMAIN f
      <4>1. \A q \in DOMAIN f : q >= 4 /\ q \in Nat
        BY HoldsFacts
      <4> QED
        BY <4>1 DEF NULL
    <3>2. DOMAIN f1 = DOMAIN f \cup {p} /\ \A q \in DOMAIN f1 : f1[q] = IF q = p THEN n ELSE f[q]
      BY <3>1 DEF Hold, Drop
    <3> HIDE DEF f1
    <3>3. \A q \in DOMAIN f1 : f1[q] \in Nat \ {0} /\ f1[q] + 2 <= s1[q]
      BY <3>2, <2>4, <2>5
    <3>4. DOMAIN s1 = DOMAIN f1
      BY <3>2, <2>2
    <3> QED
      BY <3>3, <3>4, <2>h DEF Fine
  <2>7. NULL \notin DOMAIN f /\ g.ok = h.ok
    <3>1. \A q \in DOMAIN f : q >= 4 /\ q \in Nat
      BY HoldsFacts
    <3> QED
      BY <3>1, <2>1 DEF NULL, KeptAll, g
  <2>8. \A q \in DOMAIN f : q + f[q] + 2 <= p \/ p + n + 2 <= q
    BY <2>5
  <2>9. \A q \in DOMAIN f : Same(h, g, q, f[q])
    BY <2>5
  <2> HIDE DEF f1
  <2> QED
    BY <2>2, <2>3, <2>4, <2>6, <2>7, <2>8, <2>9 DEF Given, p, g, f1
<1> QED
  BY <1>1, <1>2 DEF Serves

\* What a moved block is to the driver.
LEMMA MovesGives ==
  ASSUME NEW h, NEW c, NEW f, NEW s, Holds(h, c, s), DOMAIN s = DOMAIN f,
         \A p \in DOMAIN f : f[p] \in Nat \ {0} /\ f[p] + 2 <= s[p], NEW old \in DOMAIN f,
         NEW n \in Nat \ {0}, NEW a \in Nat, n + 2 <= a, NEW x, Moves(h, c, s, x, old, n, a)
  PROVE  Given(h, c, f, x, old, n)
<1>1. CASE x.bp = NULL /\ x.h = h
  BY <1>1 DEF Given
<1>2. CASE x.bp # NULL /\ ~(x.bp = NULL /\ x.h = h)
  <2> DEFINE p == x.bp
             g == x.h
  <2>1. PICK s1 : /\ Holds(g, c, Minus(s1, old)) /\ Gains(s, s1, p, a)
                  /\ KeptAll(h, g, Minus(s, old)) /\ StandsApart(s, s1, p)
    BY <1>2 DEF Moves
  <2>m. \A i \in 0 .. n - 1 : i < s[old] - 2 => g.mem[p + i] = h.mem[old + i]
    BY <1>2 DEF Moves
  <2> HIDE DEF p, g
  <2> DEFINE t == Minus(s1, old)
  <2>2. /\ p \notin DOMAIN f /\ DOMAIN s1 = DOMAIN f \cup {p} /\ p \in DOMAIN s1 /\ s1[p] >= a /\ p # old
        /\ \A q \in DOMAIN f : q \in DOMAIN s1 /\ q # p /\ s1[q] = s[q]
    BY <2>1 DEF Gains
  <2>t. DOMAIN t = (DOMAIN f \cup {p}) \ {old} /\ \A q \in DOMAIN t : t[q] = s1[q]
    BY <2>2 DEF Minus
  <2>h. Holds(g, c, t)
    BY <2>1
  <2> HIDE DEF t
  <2>3. /\ g.brk \in Nat /\ g.brk <= MAX_HEAP /\ p \in Nat /\ p >= 4 /\ p % 2 = 0
        /\ s1[p] \in Nat /\ p + s1[p] <= g.brk
    <3>1. p \in DOMAIN t /\ t[p] = s1[p]
      BY <2>2, <2>t
    <3>2. /\ g.brk \in Nat /\ g.brk <= MAX_HEAP /\ p \in Nat /\ p >= 4 /\ p % 2 = 0
          /\ t[p] \in Nat /\ p + t[p] <= g.brk
      BY <3>1, <2>h, HoldsFacts
    <3> QED
      BY <3>1, <3>2
  <2>4. n + 2 <= s1[p] /\ p + n + 2 <= g.brk
    BY <2>2, <2>3
  <2>5. ASSUME NEW q \in DOMAIN f
        PROVE  /\ q + f[q] + 2 <= p \/ p + n + 2 <= q
               /\ q # old => Same(h, g, q, f[q])
               /\ f[q] \in Nat \ {0} /\ f[q] + 2 <= s1[q]
    <3>1. q \in Nat /\ s[q] \in Nat /\ f[q] \in Nat /\ f[q] # 0 /\ f[q] + 2 <= s[q] /\ s1[q] = s[q]
      BY <2>2, HoldsFacts
    <3>2. q + s[q] <= p \/ p + s1[p] <= q
      BY <2>1 DEF StandsApart
    <3>3. q + f[q] + 2 <= p \/ p + n + 2 <= q
      BY <3>1, <3>2, <2>3, <2>4
    <3>4. q # old => Kept(h, g, q, s[q])
      <4>1. q # old => q \in DOMAIN Minus(s, old) /\ Minus(s, old)[q] = s[q]
        BY DEF Minus
      <4> QED
        BY <4>1, <2>1 DEF KeptAll
    <3>5. q # old => Same(h, g, q, f[q])
      BY <3>1, <3>4, SameIfKept
    <3> QED
      BY <3>1, <3>3, <3>5
  <2> DEFINE f1 == Hold(Drop(f, old), p, n)
  <2>6. Fine(g, c, f1)
    <3>2. DOMAIN f1 = (DOMAIN f \ {old}) \cup {p} /\ \A q \in DOMAIN f1 : f1[q] = IF q = p THEN n ELSE f[q]
      BY DEF Hold, Drop
    <3> HIDE DEF f1
    <3>4. DOMAIN t = DOMAIN f1
      BY <3>2, <2>2, <2>t
    <3>3. \A q \in DOMAIN f1 : f1[q] \in Nat \ {0} /\ f1[q] + 2 <= t[q]
      BY <3>2, <3>4, <2>t, <2>4, <2>5
    <3> QED
      BY <3>3, <3>4, <2>h DEF Fine
  <2>7. g.ok = h.ok
    BY <2>1 DEF KeptAll
  <2>8. \A q \in DOMAIN f : q + f[q] + 2 <= p \/ p + n + 2 <= q
    BY <2>5
  <2>9. \A q \in DOMAIN f : q # old => Same(h, g, q, f[q])
    BY <2>5
  <2>10. ASSUME NEW k \in 1 .. n, k <= f[old] PROVE g.mem[p + k - 1] = h.mem[old + k - 1]
    <3>1. old \in Nat /\ s[old] \in Nat /\ f[old] \in Nat /\ f[old] + 2 <= s[old]
      BY HoldsFacts
    <3>2. k - 1 \in 0 .. n - 1 /\ k - 1 < s[old] - 2
      BY <3>1, <2>10
    <3>3. g.mem[p + (k - 1)] = h.mem[old + (k - 1)]
      BY <3>2, <2>m
    <3>4. p + (k - 1) = p + k - 1 /\ old + (k - 1) = old + k - 1
      BY <3>1, <2>3
    <3> QED
      BY <3>3, <3>4
  <2> HIDE DEF f1
  <2> QED
    BY <2>2, <2>3, <2>4, <2>6, <2>7, <2>8, <2>9, <2>10 DEF Given, p, g, f1
<1> QED
  BY <1>1, <1>2 DEF Moves

----------------------------------------------------------------------------
(* What it gets                                                            *)

\* The lists of the allocator under test are those of its file.
LEMMA LibClassIs ==
  LibClass \in Classes /\ (lib = "mm" => LibClass = SegClass) /\ (lib # "mm" => LibClass = ExpClass)
BY ClassesAre DEF LibClass

\* mm_malloc() of any of the allocators.
LEMMA MallocGives ==
  ASSUME Fine(heap, LibClass, live), heap.ok, NEW n \in Nat \ {0}, NEW granted \in BOOLEAN
  PROVE  Given(heap, LibClass, live, mm_malloc(n, granted), NULL, n)
<1>1. PICK s : /\ Holds(heap, LibClass, s) /\ DOMAIN s = DOMAIN live
               /\ \A p \in DOMAIN live : live[p] \in Nat \ {0} /\ live[p] + 2 <= s[p]
  BY DEF Fine
<1> DEFINE x == mm_malloc(n, granted)
<1>2. \E a \in Nat : n + 2 <= a /\ Serves(heap, LibClass, s, x, a)
  <2>1. CASE lib = "mm"
    <3> DEFINE a == Seg!Adjust(n)
    <3>1. a \in Nat /\ n + 2 <= a
      BY SegAdjusted DEF AdjustedTo
    <3>2. x = Seg!mm_malloc(heap, n, granted)
      BY <2>1 DEF mm_malloc
    <3>3. LibClass = SegClass
      BY <2>1, LibClassIs
    <3>4. Serves(heap, SegClass, s, Seg!mm_malloc(heap, n, granted), a)
      BY <3>3, <1>1, SegServes
    <3> HIDE DEF a, x
    <3> QED
      BY <3>1, <3>2, <3>3, <3>4
  <2>2. CASE lib # "mm"
    <3> DEFINE a == Exp!Adjust(n)
    <3>1. a \in Nat /\ n + 2 <= a
      BY ExpAdjusted DEF AdjustedTo
    <3>2. x = Exp!mm_malloc(heap, n, granted)
      BY <2>2 DEF mm_malloc
    <3>3. LibClass = ExpClass
      BY <2>2, LibClassIs
    <3>4. Serves(heap, ExpClass, s, Exp!mm_malloc(heap, n, granted), a)
      BY <3>3, <1>1, ExpServes
    <3> HIDE DEF a, x
    <3> QED
      BY <3>1, <3>2, <3>3, <3>4
  <2> QED
    BY <2>1, <2>2
<1> HIDE DEF x
<1>3. PICK a \in Nat : n + 2 <= a /\ Serves(heap, LibClass, s, x, a)
  BY <1>2
<1>4. Given(heap, LibClass, live, x, NULL, n)
  BY <1>1, <1>3, ServesGives
<1> QED
  BY <1>4 DEF x

\* mm_realloc() of any of the allocators.
LEMMA ReallocGives ==
  ASSUME Fine(heap, LibClass, live), heap.ok, NEW bp \in DOMAIN live, NEW n \in Nat \ {0},
         NEW granted \in BOOLEAN
  PROVE  Given(heap, LibClass, live, mm_realloc(bp, n, granted), bp, n)
<1>1. PICK s : /\ Holds(heap, LibClass, s) /\ DOMAIN s = DOMAIN live
               /\ \A p \in DOMAIN live : live[p] \in Nat \ {0} /\ live[p] + 2 <= s[p]
  BY DEF Fine
<1> DEFINE x == mm_realloc(bp, n, granted)
<1>2. \E a \in Nat : n + 2 <= a /\ Moves(heap, LibClass, s, x, bp, n, a)
  <2>1. CASE lib = "mm"
    <3> DEFINE a == Seg!Adjust(n)
    <3>1. a \in Nat /\ n + 2 <= a
      BY SegAdjusted DEF AdjustedTo
    <3>2. x = Seg!mm_realloc(heap, bp, n, granted)
      BY <2>1 DEF mm_realloc
    <3>3. LibClass = SegClass
      BY <2>1, LibClassIs
    <3>4. Moves(heap, SegClass, s, Seg!mm_realloc(heap, bp, n, granted), bp, n, a)
      BY <3>3, <1>1, SegMoves
    <3> HIDE DEF a, x
    <3> QED
      BY <3>1, <3>2, <3>3, <3>4
  <2>2. CASE lib # "mm"
    <3> DEFINE a == Exp!Adjust(n)
    <3>1. a \in Nat /\ n + 2 <= a
      BY ExpAdjusted DEF AdjustedTo
    <3>2. x = Exp!mm_realloc(heap, bp, n, granted)
      BY <2>2 DEF mm_realloc
    <3>3. LibClass = ExpClass
      BY <2>2, LibClassIs
    <3>4. Moves(heap, ExpClass, s, Exp!mm_realloc(heap, bp, n, granted), bp, n, a)
      BY <3>3, <1>1, ExpMoves
    <3> HIDE DEF a, x
    <3> QED
      BY <3>1, <3>2, <3>3, <3>4
  <2> QED
    BY <2>1, <2>2
<1> HIDE DEF x
<1>3. PICK a \in Nat : n + 2 <= a /\ Moves(heap, LibClass, s, x, bp, n, a)
  BY <1>2
<1>4. Given(heap, LibClass, live, x, bp, n)
  BY <1>1, <1>3, MovesGives
<1> QED
  BY <1>4 DEF x

(* After mm_free() the other payloads are what they were.                  *)
Frees(h, c, f, h1, bp) == /\ Fine(h1, c, Drop(f, bp)) /\ h1.ok = h.ok /\ h.brk <= h1.brk
                          /\ \A q \in DOMAIN f : q # bp => Same(h, h1, q, f[q])

\* mm_free() of any of the allocators.
LEMMA FreeTakes ==
  ASSUME Fine(heap, LibClass, live), heap.ok, NEW bp \in DOMAIN live
  PROVE  Frees(heap, LibClass, live, mm_free(bp), bp)
<1>1. PICK s : /\ Holds(heap, LibClass, s) /\ DOMAIN s = DOMAIN live
               /\ \A p \in DOMAIN live : live[p] \in Nat \ {0} /\ live[p] + 2 <= s[p]
  BY DEF Fine
<1> DEFINE c == LibClass
           h1 == mm_free(bp)
           t == Minus(s, bp)
<1>2. h1 = Released(heap, c, bp)
  <2>1. CASE lib = "mm"
    <3>1. c = SegClass
      BY <2>1, LibClassIs
    <3>2. Seg!mm_free(heap, bp) = Released(heap, SegClass, bp)
      BY <3>1, <1>1, SegFrees
    <3> HIDE DEF c
    <3> QED
      BY <3>1, <3>2, <2>1 DEF mm_free
  <2>2. CASE lib # "mm"
    <3>1. c = ExpClass
      BY <2>2, LibClassIs
    <3>2. Exp!mm_free(heap, bp) = Released(heap, ExpClass, bp)
      BY <3>1, <1>1, ExpFrees
    <3> HIDE DEF c
    <3> QED
      BY <3>1, <3>2, <2>2 DEF mm_free
  <2> QED
    BY <2>1, <2>2
<1>3. Holds(Released(heap, c, bp), c, t) /\ KeptAll(heap, Released(heap, c, bp), t)
  BY <1>1, LibClassIs, ReleasedHolds
<1> HIDE DEF h1, c
<1>4. Holds(h1, c, t) /\ KeptAll(heap, h1, t)
  BY <1>2, <1>3
<1>5. DOMAIN t = DOMAIN live \ {bp} /\ \A q \in DOMAIN t : t[q] = s[q]
  BY <1>1 DEF Minus
<1>6. DOMAIN Drop(live, bp) = DOMAIN live \ {bp} /\ \A q \in DOMAIN live \ {bp} : Drop(live, bp)[q] = live[q]
  BY DEF Drop
<1> HIDE DEF t
<1>7. Fine(h1, c, Drop(live, bp))
  <2> DEFINE f1 == Drop(live, bp)
  <2>1. DOMAIN t = DOMAIN f1 /\ \A q \in DOMAIN f1 : f1[q] \in Nat \ {0} /\ f1[q] + 2 <= t[q]
    BY <1>1, <1>5, <1>6
  <2> HIDE DEF f1
  <2>2. Fine(h1, c, f1)
    BY <2>1, <1>4 DEF Fine
  <2> QED
    BY <2>2 DEF f1
<1>8. ASSUME NEW q \in DOMAIN live, q # bp PROVE Same(heap, h1, q, live[q])
  <2>1. Kept(heap, h1, q, s[q])
    BY <1>4, <1>5, <1>8 DEF KeptAll
  <2>2. q \in Nat /\ s[q] \in Nat
    BY <1>1, HoldsFacts
  <2>3. live[q] \in Nat /\ live[q] + 2 <= s[q]
    BY <1>1
  <2> QED
    BY <2>1, <2>2, <2>3, SameIfKept
<1>9. h1.ok = heap.ok /\ heap.brk <= h1.brk
  BY <1>4 DEF KeptAll
<1> QED
  BY <1>7, <1>8, <1>9 DEF Frees, h1, c

(* What the user writes into a payload harms nothing else.                 *)
Wrote(h, h1, c, f, bp, data) ==
  /\ Fine(h1, c, f) /\ h1.ok = h.ok /\ h1.brk = h.brk
  /\ \A q \in DOMAIN f : q # bp => Same(h, h1, q, f[q])
  /\ \A k \in 1 .. f[bp] : h1.mem[bp + k - 1] = data[k]

\* The driver writes into a payload and nowhere else.
LEMMA FillIs ==
  ASSUME NEW h, NEW c \in Classes, NEW f, Fine(h, c, f), NEW bp \in DOMAIN f,
         NEW data, data \in [1 .. f[bp] -> Int], Len(data) = f[bp]
  PROVE  Wrote(h, Fill(h, bp, data), c, f, bp, data)
<1>1. PICK s : /\ Holds(h, c, s) /\ DOMAIN s = DOMAIN f
               /\ \A p \in DOMAIN f : f[p] \in Nat \ {0} /\ f[p] + 2 <= s[p]
  BY DEF Fine
<1>2. /\ h \in HeapType /\ h.brk \in Nat /\ h.brk <= MAX_HEAP
      /\ bp \in Nat /\ bp >= 4 /\ f[bp] \in Nat /\ f[bp] > 0 /\ bp + f[bp] + 2 <= h.brk
  BY FineFacts
<1> DEFINE n == f[bp]
           w == [a \in Addr |-> IF a \in bp .. bp + n - 1 THEN data[a - bp + 1] ELSE h.mem[a]]
           g == [h EXCEPT !.mem = w]
<1>3. h.mem \in [Addr -> Int]
  BY <1>2 DEF HeapType
<1>4. Fill(h, bp, data) = g
  BY <1>3 DEF Fill
<1>5. w \in [Addr -> Int]
  <2>1. ASSUME NEW a \in Addr, a \in bp .. bp + n - 1 PROVE data[a - bp + 1] \in Int
    <3>1. a - bp + 1 \in 1 .. n
      BY <1>2, <2>1
    <3> QED
      BY <3>1
  <2> QED
    BY <2>1, <1>3
<1>6. \A a \in Addr : w[a] = IF a \in bp .. bp + n - 1 THEN data[a - bp + 1] ELSE h.mem[a]
  OBVIOUS
<1> HIDE DEF w
<1>7. g \in HeapType /\ g.mem = w /\ g.brk = h.brk /\ g.fl = h.fl /\ g.ok = h.ok
  BY <1>2, <1>5 DEF HeapType
<1> HIDE DEF g
<1>8. WritesIn(h, g, bp, s[bp])
  <2>1. ASSUME NEW a \in Addr, g.mem[a] # h.mem[a] PROVE a \in bp .. bp + s[bp] - 3
    <3>1. a \in bp .. bp + n - 1
      BY <2>1, <1>6, <1>7
    <3>2. n + 2 <= s[bp] /\ s[bp] \in Nat
      BY <1>1, HoldsFacts
    <3> HIDE DEF n
    <3>3. n \in Nat
      BY <1>2 DEF n
    <3> QED
      BY <3>1, <3>2, <3>3, <1>2
  <2> QED
    BY <2>1, <1>7 DEF WritesIn
<1>9. Holds(g, c, s) /\ KeptAll(h, g, Minus(s, bp))
  BY <1>1, <1>8, WritesHold
<1>10. Fine(g, c, f)
  BY <1>1, <1>9 DEF Fine
<1>11. ASSUME NEW q \in DOMAIN f, q # bp PROVE Same(h, g, q, f[q])
  <2>1. q \in DOMAIN Minus(s, bp) /\ Minus(s, bp)[q] = s[q]
    BY <1>1, <1>11 DEF Minus
  <2>2. Kept(h, g, q, s[q])
    BY <2>1, <1>9 DEF KeptAll
  <2>3. q \in Nat /\ s[q] \in Nat
    BY <1>1, HoldsFacts
  <2>4. f[q] \in Nat /\ f[q] + 2 <= s[q]
    BY <1>1
  <2> QED
    BY <2>2, <2>3, <2>4, SameIfKept
<1>12. ASSUME NEW k \in 1 .. f[bp] PROVE g.mem[bp + k - 1] = data[k]
  <2> DEFINE a == bp + k - 1
  <2>1. a \in Addr /\ a \in bp .. bp + n - 1 /\ a - bp + 1 = k
    BY <1>2, BlocksAssumption DEF Addr
  <2> HIDE DEF a
  <2>2. g.mem[a] = data[k]
    BY <2>1, <1>6, <1>7
  <2> QED
    BY <2>2 DEF a
<1> QED
  BY <1>4, <1>7, <1>10, <1>11, <1>12 DEF Wrote

(* mm_init() leaves a heap without payloads.                               *)
LEMMA InitFine ==
  ASSUME NEW h \in HeapType, h.brk = 0, h.ok, lib # "mm" => OneList(h)
  PROVE  Fine(mm_init(h, TRUE).h, LibClass, <<>>) /\ mm_init(h, TRUE).h.ok = TRUE
<1> DEFINE g == mm_init(h, TRUE).h
<1>1. Starts(h, LibClass, g)
  <2>1. CASE lib = "mm"
    <3>1. LibClass = SegClass /\ g = Seg!mm_init(h, TRUE).h
      BY <2>1, LibClassIs DEF mm_init
    <3>2. Starts(h, SegClass, Seg!mm_init(h, TRUE).h)
      BY SegStarts
    <3> HIDE DEF g
    <3> QED
      BY <3>1, <3>2
  <2>2. CASE lib # "mm"
    <3>1. LibClass = ExpClass /\ g = Exp!mm_init(h, TRUE).h
      BY <2>2, LibClassIs DEF mm_init
    <3>2. Starts(h, ExpClass, Exp!mm_init(h, TRUE).h)
      BY <2>2, ExpStarts
    <3> HIDE DEF g
    <3> QED
      BY <3>1, <3>2
  <2> QED
    BY <2>1, <2>2
<1> HIDE DEF g
<1>2. PICK s : Holds(g, LibClass, s) /\ DOMAIN s = {} /\ g.ok = h.ok
  BY <1>1 DEF Starts
<1>3. DOMAIN <<>> = {}
  OBVIOUS
<1>4. h.ok = TRUE
  BY DEF HeapType
<1> QED
  BY <1>2, <1>3, <1>4 DEF Fine, g

(* The allocators with one list never use another.                         *)
LEMMA OnlyOneList ==
  ASSUME NEW h, NEW f, Fine(h, ExpClass, f)
  PROVE  OneList(h)
<1>1. PICK s : Holds(h, ExpClass, s)
  BY DEF Fine
<1>2. PICK B, sz, al : Sound(h, ExpClass, B, sz, al)
  BY <1>1 DEF Holds
<1>3. Rep(h, ExpClass, B, sz, al, Free(B, al))
  BY <1>2 DEF Sound
<1> DEFINE F == Free(B, al)
           cl == Class(ExpClass, sz)
<1>4. PICK pos : Linked(h.mem, h.fl, F, cl, pos)
  BY <1>3 DEF Rep, Chained
<1>5. \A b \in F : b \in B /\ sz[b] \in Nat
  <2>1. \A b \in F : b \in B
    BY DEF Free
  <2> QED
    BY <2>1, <1>3, RepFacts
<1>6. \A b \in F : cl[b] = 0
  BY <1>3, <1>5, ClassesAre DEF Class, Rep, Tiled
<1> HIDE DEF F, cl
<1>7. \A k \in Lists : h.fl[k] # 0 => h.fl[k] \in F /\ cl[h.fl[k]] = k
  BY <1>4 DEF Linked
<1> QED
  BY <1>6, <1>7 DEF OneList

----------------------------------------------------------------------------
(* Consistency and fits                                                    *)

\* The heap is in order and its payloads were asked for.
Sane(h, f) == /\ Fine(h, LibClass, f) /\ h.ok
              /\ \A q \in DOMAIN f : f[q] \in Requests

(* Both checkers find nothing in such a heap, and neither does the driver's *)
(* reader.                                                                 *)
LEMMA SaneConsistent ==
  ASSUME NEW f, Sane(heap, f)
  PROVE  HeapConsistent /\ DOMAIN f = Real(heap) \ FreeBlocks(heap)
<1>1. PICK s : Holds(heap, LibClass, s) /\ DOMAIN s = DOMAIN f
  BY DEF Sane, Fine
<1>2. InOrder(heap, LibClass, s)
  BY <1>1, LibClassIs, HoldsInOrder
<1> DEFINE c == LibClass
<1>3. ListsInOrder(heap, c)
  BY <1>2 DEF InOrder
<1>4. \A b \in Visited(heap) : checkblock(heap, b) /\ (b # 2 => SizeOf(heap, b) >= 6)
  BY <1>2 DEF InOrder
<1>5. \A b : Seg!checksize(heap, b) <=> checkblock(heap, b) /\ (b # 2 => SizeOf(heap, b) >= 6)
  BY SegChecks, SegWords DEF Seg!checksize, DSIZE
<1>6. \A b \in Visited(heap) : Seg!checksize(heap, b)
  BY <1>4, <1>5
<1>7. Real(heap) \subseteq Visited(heap) /\ FreeBlocks(heap) \subseteq Real(heap)
  BY <1>2 DEF InOrder
<1> HIDE DEF c
<1>8. \A k \in Lists : \A i \in DOMAIN FreeList(heap, k) :
        LET b == FreeList(heap, k)[i] IN
        /\ NEXT_FREE(heap, b) # 0 => PREV_FREE(heap, NEXT_FREE(heap, b)) = b
        /\ Seg!checksize(heap, b)
  <2> TAKE k \in Lists
  <2> TAKE i \in DOMAIN FreeList(heap, k)
  <2> DEFINE b == FreeList(heap, k)[i]
  <2>2. b \in FreeBlocks(heap) /\ (NEXT_FREE(heap, b) # 0 => PREV_FREE(heap, NEXT_FREE(heap, b)) = b)
    BY <1>3 DEF ListsInOrder
  <2> HIDE DEF b
  <2>3. Seg!checksize(heap, b)
    BY <2>2, <1>6, <1>7
  <2>4. (NEXT_FREE(heap, b) # 0 => PREV_FREE(heap, NEXT_FREE(heap, b)) = b) /\ Seg!checksize(heap, b)
    BY <2>2, <2>3
  <2> QED
    BY <2>4 DEF b
<1>9. Cardinality(Places(heap)) = Cardinality(FreeBlocks(heap))
  BY <1>3 DEF ListsInOrder
<1>10. Seg!check_free(heap, Cardinality(FreeBlocks(heap)))
  BY <1>8, <1>9, SegWords, SegWalks, SegChecks, ExpCardinality DEF Seg!check_free, NULL
<1>11. Seg!mm_checkheap(heap)
  <2>1. Seg!EndsInOrder(heap)
    BY <1>2, SegChecks DEF InOrder
  <2> QED
    BY <2>1, <1>6, <1>10, SegChecks, ExpCardinality DEF Seg!mm_checkheap
<1>12. ListsMatchHeap
  <2>1. ASSUME NEW k \in Lists, NEW i \in DOMAIN FreeList(heap, k)
        PROVE  /\ k = IF lib = "mm" THEN Seg!get_list(SizeOf(heap, FreeList(heap, k)[i])) ELSE 0
               /\ PREV_FREE(heap, FreeList(heap, k)[i]) = IF i = 1 THEN 0 ELSE FreeList(heap, k)[i - 1]
    <3> DEFINE b == FreeList(heap, k)[i]
    <3>1. /\ b \in FreeBlocks(heap) /\ c[SizeOf(heap, b)] = k
          /\ PREV_FREE(heap, b) = IF i = 1 THEN 0 ELSE FreeList(heap, k)[i - 1]
      BY <1>3 DEF ListsInOrder
    <3> HIDE DEF b
    <3>2. SizeOf(heap, b) \in Nat
      <4>1. PICK B, sz, al : Sound(heap, LibClass, B, sz, al)
        BY <1>1 DEF Holds
      <4>2. Rep(heap, LibClass, B, sz, al, Free(B, al)) /\ b \in B
        BY <3>1, <4>1, SoundBlocks DEF Sound, Free
      <4> QED
        BY <4>2, RepFacts
    <3>3. lib = "mm" => c[SizeOf(heap, b)] = Seg!get_list(SizeOf(heap, b))
      BY <3>2, ClassesAre, LibClassIs DEF c
    <3>4. lib # "mm" => c[SizeOf(heap, b)] = 0
      BY <3>2, ClassesAre, LibClassIs DEF c
    <3>5. k = IF lib = "mm" THEN Seg!get_list(SizeOf(heap, b)) ELSE 0
      BY <3>1, <3>3, <3>4
    <3> QED
      BY <3>1, <3>5 DEF b
  <2>2. UNION {Range(FreeList(heap, k)) : k \in Lists} = FreeBlocks(heap)
    BY <1>3 DEF ListsInOrder
  <2> QED
    BY <2>1, <2>2 DEF ListsMatchHeap, NULL
<1>13. /\ heap.ok /\ Last(Walk(heap)) = heap.brk /\ heap.mem[2] = DSIZE + 1
       /\ Real(heap) \ FreeBlocks(heap) = DOMAIN f
  BY <1>1, <1>2 DEF InOrder, Sane, DSIZE
<1> QED
  BY <1>6, <1>7, <1>11, <1>12, <1>13 DEF HeapConsistent

\* In such a heap find_fit() misses no block (mm.c:411-427).
LEMMA SaneFinds ==
  ASSUME NEW f, Sane(heap, f)
  PROVE  FitIsFound
<1>1. PICK s : Holds(heap, LibClass, s)
  BY DEF Sane, Fine
<1>2. ASSUME NEW n \in Requests \ {0}
      PROVE  LET a == Seg!Adjust(n)
                 fit == IF lib = "mm" THEN Seg!find_fit(heap, a) ELSE Exp!find_fit(heap, a)
             IN  fit = NULL => \A bp \in FreeBlocks(heap) : SizeOf(heap, bp) < a
  <2> DEFINE a == Seg!Adjust(n)
             fit == IF lib = "mm" THEN Seg!find_fit(heap, a) ELSE Exp!find_fit(heap, a)
  <2>1. a \in Nat
    <3>1. n \in Nat
      BY MDriverAssumption
    <3> QED
      BY <3>1, SegAdjusted DEF AdjustedTo
  <2> HIDE DEF a
  <2>2. Finds(heap, LibClass, s, a, fit)
    <3>1. CASE lib = "mm"
      <4>1. LibClass = SegClass /\ fit = Seg!find_fit(heap, a)
        BY <3>1, LibClassIs
      <4> HIDE DEF fit
      <4>2. Finds(heap, SegClass, s, a, Seg!find_fit(heap, a))
        BY <4>1, <1>1, <2>1, SegFinds
      <4> QED
        BY <4>1, <4>2
    <3>2. CASE lib # "mm"
      <4>1. LibClass = ExpClass /\ fit = Exp!find_fit(heap, a)
        BY <3>2, LibClassIs
      <4> HIDE DEF fit
      <4>2. Finds(heap, ExpClass, s, a, Exp!find_fit(heap, a))
        BY <4>1, <1>1, <2>1, ExpFinds
      <4> QED
        BY <4>1, <4>2
    <3> QED
      BY <3>1, <3>2
  <2> HIDE DEF fit
  <2>3. fit = NULL => \A bp \in FreeBlocks(heap) : SizeOf(heap, bp) < a
    BY <2>2 DEF Finds
  <2> QED
    BY <2>3 DEF a, fit
<1> QED
  BY <1>2 DEF FitIsFound

----------------------------------------------------------------------------
(* The correctness pass                                                    *)

\* The payloads hold what the driver wrote into them.
Written(h, f) == \A q \in DOMAIN f : \A k \in 1 .. f[q] : h.mem[q + k - 1] = Word(k)

Extents(f) == {Extent(p, f[p]) : p \in DOMAIN f}

\* What the correctness pass keeps: the data and the range list.
Passing(h, f, R) == Sane(h, f) /\ Written(h, f) /\ R = Extents(f)

\* Only the sizes of the payloads count.
LEMMA FineAgain ==
  ASSUME NEW h, NEW c, NEW f, NEW g, Fine(h, c, f), DOMAIN g = DOMAIN f, \A q \in DOMAIN f : g[q] = f[q]
  PROVE  Fine(h, c, g)
BY DEF Fine

\* Payloads are even, apart and inside the heap, and none is at NULL.
LEMMA SaneFacts ==
  ASSUME NEW h, NEW f, Sane(h, f)
  PROVE  /\ NULL \notin DOMAIN f
         /\ \A q \in DOMAIN f : /\ h.brk \in Nat /\ h.brk <= MAX_HEAP /\ h \in HeapType
                                /\ q \in Nat /\ q >= 4 /\ q % 2 = 0
                                /\ f[q] \in Nat /\ f[q] > 0 /\ q + f[q] + 2 <= h.brk
                                /\ \A r \in DOMAIN f : r # q => q + f[q] + 2 <= r \/ r + f[r] + 2 <= q
<1>1. \A q \in DOMAIN f : /\ h.brk \in Nat /\ h.brk <= MAX_HEAP /\ h \in HeapType
                          /\ q \in Nat /\ q >= 4 /\ q % 2 = 0
                          /\ f[q] \in Nat /\ f[q] > 0 /\ q + f[q] + 2 <= h.brk
                          /\ \A r \in DOMAIN f : r # q => q + f[q] + 2 <= r \/ r + f[r] + 2 <= q
  BY FineFacts DEF Sane
<1>2. NULL \notin DOMAIN f
  BY <1>1 DEF NULL
<1> QED
  BY <1>1, <1>2

\* NULL stands for no payload.
LEMMA DropNothing ==
  ASSUME NEW f, NULL \notin DOMAIN f
  PROVE  DOMAIN Drop(f, NULL) = DOMAIN f /\ \A q \in DOMAIN f : Drop(f, NULL)[q] = f[q]
BY DEF Drop

(* realloc of no block is malloc, and realloc to nothing is free.          *)
LEMMA ReallocIs ==
  ASSUME NEW granted \in BOOLEAN
  PROVE  /\ \A n \in Nat \ {0} : mm_realloc(NULL, n, granted) = mm_malloc(n, granted)
         /\ \A bp : mm_realloc(bp, 0, granted) = [h |-> mm_free(bp), bp |-> NULL]
         /\ mm_free(NULL) = heap
<1>1. ASSUME NEW n \in Nat \ {0} PROVE mm_realloc(NULL, n, granted) = mm_malloc(n, granted)
  BY SegWords, ExpWords DEF mm_realloc, mm_malloc, Seg!mm_realloc, Exp!mm_realloc, Seg!Moved, Exp!Moved
<1>2. ASSUME NEW bp PROVE mm_realloc(bp, 0, granted) = [h |-> mm_free(bp), bp |-> NULL]
  BY SegWords, ExpWords DEF mm_realloc, mm_free, Seg!mm_realloc, Exp!mm_realloc
<1>3. mm_free(NULL) = heap
  BY SegWords, ExpWords DEF mm_free, Seg!mm_free, Exp!mm_free
<1> QED
  BY <1>1, <1>2, <1>3

\* mm_realloc() of a block or of NULL.
LEMMA RequestGives ==
  ASSUME Sane(heap, live), NEW old \in DOMAIN live \cup {NULL}, NEW n \in Nat \ {0}, NEW granted \in BOOLEAN
  PROVE  Given(heap, LibClass, live, mm_realloc(old, n, granted), old, n)
<1>1. Fine(heap, LibClass, live) /\ heap.ok
  BY DEF Sane
<1>2. CASE old \in DOMAIN live
  BY <1>1, <1>2, ReallocGives
<1>3. CASE old = NULL
  <2>1. mm_realloc(NULL, n, granted) = mm_malloc(n, granted)
    BY ReallocIs
  <2>2. Given(heap, LibClass, live, mm_malloc(n, granted), NULL, n)
    BY <1>1, MallocGives
  <2> QED
    BY <2>1, <2>2, <1>3
<1> QED
  BY <1>2, <1>3

(* The driver's list without the old payload.                              *)
LEMMA RangesWithout ==
  ASSUME NEW h, NEW f, Sane(h, f), NEW old
  PROVE  remove_range(Extents(f), old) = Extents(Drop(f, old))
<1>1. \A p \in DOMAIN f : Extent(p, f[p]).lo = p
  BY DEF Extent
<1>2. DOMAIN Drop(f, old) = DOMAIN f \ {old} /\ \A q \in DOMAIN f \ {old} : Drop(f, old)[q] = f[q]
  BY DEF Drop
<1>3. ASSUME NEW r PROVE r \in remove_range(Extents(f), old) <=> r \in Extents(Drop(f, old))
  <2>1. r \in remove_range(Extents(f), old) <=> \E p \in DOMAIN f : r = Extent(p, f[p]) /\ p # old
    BY <1>1 DEF remove_range, Extents
  <2>2. r \in Extents(Drop(f, old)) <=> \E p \in DOMAIN f \ {old} : r = Extent(p, f[p])
    <3> DEFINE g == Drop(f, old)
    <3>1. r \in Extents(g) <=> \E p \in DOMAIN g : r = Extent(p, g[p])
      BY DEF Extents
    <3>2. DOMAIN g = DOMAIN f \ {old} /\ \A q \in DOMAIN g : g[q] = f[q]
      BY <1>2
    <3> HIDE DEF g
    <3>3. r \in Extents(g) <=> \E p \in DOMAIN f \ {old} : r = Extent(p, f[p])
      BY <3>1, <3>2
    <3> QED
      BY <3>3 DEF g
  <2> QED
    BY <2>1, <2>2
<1> QED
  BY <1>3

(* A new payload: it passes every check of add_range(), and with the       *)
(* driver's words in it all is as before.                                  *)
Adds(h, h1, f, f1, p, old, n, data) ==
  /\ Sane(h1, f1)
  /\ \A q \in DOMAIN f : q # old => Same(h, h1, q, f[q])
  /\ \A k \in 1 .. n : h1.mem[p + k - 1] = data[k]
  /\ DOMAIN f1 = (DOMAIN f \ {old}) \cup {p}
  /\ \A q \in DOMAIN f1 : f1[q] = IF q = p THEN n ELSE f[q]

\* The driver fills the payload it was given; the others stay.
LEMMA PayloadAdds ==
  ASSUME NEW h, NEW f, NEW x, NEW old \in DOMAIN f \cup {NULL}, NEW n \in Requests \ {0},
         Sane(h, f), Given(h, LibClass, f, x, old, n), x.bp # NULL,
         NEW data, data \in [1 .. n -> Int], Len(data) = n
  PROVE  Adds(h, Fill(x.h, x.bp, data), f, Hold(Drop(f, old), x.bp, n), x.bp, old, n, data)
<1> DEFINE p == x.bp
           g == x.h
           f1 == Hold(Drop(f, old), p, n)
           h1 == Fill(g, p, data)
<1>1. /\ p \notin DOMAIN f /\ Fine(g, LibClass, f1) /\ g.ok = h.ok
      /\ \A q \in DOMAIN f : q # old => Same(h, g, q, f[q])
  BY DEF Given
<1>2. DOMAIN f1 = (DOMAIN f \ {old}) \cup {p} /\ \A q \in DOMAIN f1 : f1[q] = IF q = p THEN n ELSE f[q]
  BY DEF Hold, Drop
<1> HIDE DEF f1, p, g
<1>3. Wrote(g, h1, LibClass, f1, p, data)
  <2>1. f1[p] = n /\ p \in DOMAIN f1
    BY <1>2
  <2> QED
    BY <2>1, <1>1, LibClassIs, FillIs
<1> HIDE DEF h1
<1>4. ASSUME NEW q \in DOMAIN f, q # old PROVE Same(h, h1, q, f[q])
  <2>1. q # p /\ q \in DOMAIN f1 /\ f1[q] = f[q]
    BY <1>1, <1>2, <1>4
  <2>2. Same(g, h1, q, f[q])
    BY <2>1, <1>3 DEF Wrote
  <2>3. Same(h, g, q, f[q])
    BY <1>1, <1>4
  <2> QED
    BY <2>2, <2>3 DEF Same
<1>5. Sane(h1, f1)
  <2>1. Fine(h1, LibClass, f1) /\ h1.ok
    BY <1>1, <1>3 DEF Wrote, Sane
  <2>2. \A q \in DOMAIN f1 : f1[q] \in Requests
    BY <1>2 DEF Sane
  <2> QED
    BY <2>1, <2>2 DEF Sane
<1>6. \A k \in 1 .. n : h1.mem[p + k - 1] = data[k]
  BY <1>2, <1>3 DEF Wrote
<1> QED
  BY <1>2, <1>4, <1>5, <1>6 DEF h1, f1, p, g, Adds

\* add_range() finds nothing wrong with what an allocator returns.
LEMMA RangeAccepted ==
  ASSUME NEW h, NEW f, NEW x, NEW old \in DOMAIN f \cup {NULL}, NEW n \in Requests \ {0},
         Sane(h, f), Given(h, LibClass, f, x, old, n), x.bp # NULL
  PROVE  RangeVerdict(Extents(Drop(f, old)), x.h.brk, x.bp, n) = "ok"
<1> DEFINE p == x.bp
           g == x.h
           R == Extents(Drop(f, old))
<1>1. /\ p \in Nat /\ p % 2 = 0 /\ p >= 4 /\ p + n + 2 <= g.brk
      /\ \A q \in DOMAIN f : q + f[q] + 2 <= p \/ p + n + 2 <= q
  BY DEF Given
<1>n. n \in Nat /\ n > 0
  BY MDriverAssumption
<1>2. g.brk \in Nat
  <2> DEFINE f1 == Hold(Drop(f, old), p, n)
  <2>1. Fine(g, LibClass, f1) /\ p \in DOMAIN f1
    BY DEF Given, Hold
  <2> HIDE DEF f1, p, g
  <2> QED
    BY <2>1, FineFacts
<1> HIDE DEF p, g
<1>3. p \in 0 .. g.brk - 1 /\ p + n - 1 \in 0 .. g.brk - 1
  BY <1>1, <1>2, <1>n
<1>4. ~Overlaps(R, p, p + n - 1)
  <2>1. ASSUME NEW r \in R PROVE p \notin r.lo .. r.hi /\ p + n - 1 \notin r.lo .. r.hi
    <3>1. PICK q \in DOMAIN f : r = Extent(q, f[q])
      BY DEF Extents, Drop
    <3>2. r.lo = q /\ r.hi = q + f[q] - 1
      BY <3>1 DEF Extent
    <3>3. q \in Nat /\ f[q] \in Nat
      BY SaneFacts
    <3>4. q + f[q] + 2 <= p \/ p + n + 2 <= q
      BY <1>1
    <3> QED
      BY <3>2, <3>3, <3>4, <1>1, <1>n
  <2> QED
    BY <2>1 DEF Overlaps
<1>5. RangeVerdict(R, g.brk, p, n) = "ok"
  BY <1>1, <1>3, <1>4 DEF RangeVerdict
<1> QED
  BY <1>5 DEF p, g

\* The data of a payload is as long as the payload.
LEMMA WordsAre ==
  ASSUME NEW n \in Nat, NEW w \in Int
  PROVE  /\ [k \in 1 .. n |-> w] \in [1 .. n -> Int] /\ Len([k \in 1 .. n |-> w]) = n
         /\ [k \in 1 .. n |-> Word(k)] \in [1 .. n -> Int] /\ Len([k \in 1 .. n |-> Word(k)]) = n
<1>1. [k \in 1 .. n |-> w] \in Seq(Int) /\ [k \in 1 .. n |-> Word(k)] \in Seq(Int)
  BY DEF Word
<1> QED
  BY <1>1 DEF Word

\* A payload recorded and filled keeps the range list and the data right.
LEMMA PassingAdds ==
  ASSUME NEW h, NEW f, NEW R, NEW x, NEW old \in DOMAIN f \cup {NULL}, NEW n \in Requests \ {0},
         Passing(h, f, R), Given(h, LibClass, f, x, old, n), x.bp # NULL
  PROVE  Passing(randomize_block(x.h, x.bp, n), Hold(Drop(f, old), x.bp, n),
                 remove_range(R, old) \cup {Extent(x.bp, n)})
<1> DEFINE data == [k \in 1 .. n |-> Word(k)]
           p == x.bp
           f1 == Hold(Drop(f, old), p, n)
           h1 == Fill(x.h, p, data)
           R1 == remove_range(R, old) \cup {Extent(p, n)}
<1>0. Sane(h, f) /\ Written(h, f) /\ R = Extents(f) /\ n \in Nat /\ 0 \in Int
  BY MDriverAssumption DEF Passing
<1>1. data \in [1 .. n -> Int] /\ Len(data) = n
  BY <1>0, WordsAre
<1>d. \A k \in 1 .. n : data[k] = Word(k)
  OBVIOUS
<1> HIDE DEF data
<1>b. Adds(h, h1, f, f1, p, old, n, data)
  BY <1>0, <1>1, PayloadAdds
<1> HIDE DEF h1, f1, p
<1>2. /\ Sane(h1, f1)
      /\ \A q \in DOMAIN f : q # old => Same(h, h1, q, f[q])
      /\ \A k \in 1 .. n : h1.mem[p + k - 1] = data[k]
      /\ DOMAIN f1 = (DOMAIN f \ {old}) \cup {p}
      /\ \A q \in DOMAIN f1 : f1[q] = IF q = p THEN n ELSE f[q]
  BY <1>b DEF Adds
<1>3. randomize_block(x.h, p, n) = h1
  BY DEF randomize_block, data, h1
<1>x. p \notin DOMAIN f
  BY DEF Given, p
<1>a. remove_range(R, old) = Extents(Drop(f, old))
  BY <1>0, RangesWithout
<1>4. Written(h1, f1)
  <2>1. ASSUME NEW q \in DOMAIN f1, NEW k \in 1 .. f1[q] PROVE h1.mem[q + k - 1] = Word(k)
    <3>1. CASE q = p
      BY <3>1, <1>2, <1>d
    <3>2. CASE q # p
      <4>1. q \in DOMAIN f /\ q # old /\ f1[q] = f[q]
        BY <3>2, <1>2
      <4>2. h1.mem[q + k - 1] = h.mem[q + k - 1]
        BY <4>1, <1>2 DEF Same
      <4>3. h.mem[q + k - 1] = Word(k)
        BY <4>1, <1>0 DEF Written
      <4> QED
        BY <4>2, <4>3
    <3> QED
      BY <3>1, <3>2
  <2> QED
    BY <2>1 DEF Written
<1>5. R1 = Extents(f1)
  <2>1. \A r : r \in R1 <=> r \in Extents(Drop(f, old)) \/ r = Extent(p, n)
    BY <1>a
  <2>2. \A r : r \in Extents(Drop(f, old)) <=> \E q \in DOMAIN f \ {old} : r = Extent(q, f[q])
    BY DEF Extents, Drop
  <2>3. \A r : r \in Extents(f1) <=> \E q \in DOMAIN f1 : r = Extent(q, f1[q])
    BY DEF Extents
  <2> HIDE DEF R1
  <2>4. ASSUME NEW r PROVE r \in R1 <=> r \in Extents(f1)
    <3>1. ASSUME NEW q \in DOMAIN f \ {old} PROVE q \in DOMAIN f1 /\ f1[q] = f[q]
      BY <1>2, <1>x
    <3>2. p \in DOMAIN f1 /\ f1[p] = n
      BY <1>2
    <3>3. ASSUME NEW q \in DOMAIN f1, q # p PROVE q \in DOMAIN f \ {old} /\ f1[q] = f[q]
      BY <1>2, <3>3
    <3> QED
      BY <2>1, <2>2, <2>3, <3>1, <3>2, <3>3
  <2> QED
    BY <2>4
<1> QED
  BY <1>2, <1>3, <1>4, <1>5 DEF Passing, f1, p

\* A payload freed keeps the range list and the data right.
LEMMA PassingFrees ==
  ASSUME NEW R, Passing(heap, live, R), NEW bp \in DOMAIN live \cup {NULL}
  PROVE  Passing(mm_free(bp), Drop(live, bp), remove_range(R, bp))
<1>0. Sane(heap, live) /\ Written(heap, live) /\ R = Extents(live)
  BY DEF Passing
<1> DEFINE f1 == Drop(live, bp)
           h1 == mm_free(bp)
<1>1. DOMAIN f1 = DOMAIN live \ {bp} /\ \A q \in DOMAIN f1 : f1[q] = live[q]
  BY DEF Drop
<1>2. remove_range(R, bp) = Extents(f1)
  BY <1>0, RangesWithout
<1>3. /\ Fine(h1, LibClass, f1) /\ h1.ok
      /\ \A q \in DOMAIN f1 : Same(heap, h1, q, live[q])
  <2>1. CASE bp \in DOMAIN live
    <3>1. Frees(heap, LibClass, live, h1, bp)
      BY <1>0, <2>1, FreeTakes DEF Sane
    <3> HIDE DEF h1
    <3> QED
      BY <3>1, <1>0, <1>1 DEF Frees, Sane
  <2>2. CASE bp \notin DOMAIN live
    <3>1. bp = NULL
      BY <2>2
    <3>2. h1 = heap
      <4>1. TRUE \in BOOLEAN
        OBVIOUS
      <4> QED
        BY <3>1, <4>1, ReallocIs
    <3>3. DOMAIN f1 = DOMAIN live
      BY <1>1, <2>2
    <3> HIDE DEF h1, f1
    <3>4. Fine(heap, LibClass, f1)
      BY <3>3, <1>0, <1>1, FineAgain DEF Sane
    <3> QED
      BY <3>2, <3>4, <1>0 DEF Sane, Same
  <2> QED
    BY <2>1, <2>2
<1> HIDE DEF h1, f1
<1>4. Sane(h1, f1)
  BY <1>0, <1>1, <1>3 DEF Sane
<1>5. Written(h1, f1)
  BY <1>0, <1>1, <1>3 DEF Written, Same
<1> QED
  BY <1>2, <1>4, <1>5 DEF Passing, f1, h1

\* A payload freed leaves the heap in order.
LEMMA SaneFrees ==
  ASSUME Sane(heap, live), NEW bp \in DOMAIN live \cup {NULL}
  PROVE  Sane(mm_free(bp), Drop(live, bp))
<1> DEFINE f1 == Drop(live, bp)
           h1 == mm_free(bp)
<1>1. DOMAIN f1 = DOMAIN live \ {bp} /\ \A q \in DOMAIN f1 : f1[q] = live[q]
  BY DEF Drop
<1>3. Fine(h1, LibClass, f1) /\ h1.ok
  <2>1. CASE bp \in DOMAIN live
    <3>1. Frees(heap, LibClass, live, h1, bp)
      BY <2>1, FreeTakes DEF Sane
    <3> HIDE DEF h1
    <3> QED
      BY <3>1, <1>1 DEF Frees, Sane
  <2>2. CASE bp \notin DOMAIN live
    <3>1. bp = NULL
      BY <2>2
    <3>2. h1 = heap
      <4>1. TRUE \in BOOLEAN
        OBVIOUS
      <4> QED
        BY <3>1, <4>1, ReallocIs
    <3>3. DOMAIN f1 = DOMAIN live
      BY <1>1, <2>2
    <3> HIDE DEF h1, f1
    <3>4. Fine(heap, LibClass, f1)
      BY <3>3, <1>1, FineAgain DEF Sane
    <3> QED
      BY <3>2, <3>4 DEF Sane
  <2> QED
    BY <2>1, <2>2
<1> HIDE DEF h1, f1
<1>4. Sane(h1, f1)
  BY <1>1, <1>3 DEF Sane
<1> QED
  BY <1>4 DEF f1, h1

(* check_index() finds the driver's words, before and after a move.        *)
LEMMA IndexChecked ==
  ASSUME NEW h, NEW f, Sane(h, f), Written(h, f), NEW old \in DOMAIN f \cup {NULL}
  PROVE  /\ check_index(h, old, IF old = NULL THEN 0 ELSE f[old]) = "ok"
         /\ \A x, n : /\ n \in Requests \ {0} /\ Given(h, LibClass, f, x, old, n) /\ x.bp # NULL
                      => check_index(x.h, x.bp, Smaller(n, IF old = NULL THEN 0 ELSE f[old])) = "ok"
<1> DEFINE m == IF old = NULL THEN 0 ELSE f[old]
<1>1. old # NULL => old \in DOMAIN f /\ m = f[old]
  OBVIOUS
<1>2. old = NULL => m = 0 /\ old \notin DOMAIN f
  BY SaneFacts
<1>3. m \in Nat
  BY SaneFacts
<1>4. \A k \in 1 .. m : h.mem[old + k - 1] = Word(k)
  <2>1. CASE old = NULL
    BY <2>1, <1>2
  <2>2. CASE old # NULL
    BY <2>2, <1>1 DEF Written
  <2> QED
    BY <2>1, <2>2
<1> HIDE DEF m
<1>5. check_index(h, old, m) = "ok"
  BY <1>4 DEF check_index
<1>6. ASSUME NEW x, NEW n \in Requests \ {0}, Given(h, LibClass, f, x, old, n), x.bp # NULL
      PROVE  check_index(x.h, x.bp, Smaller(n, m)) = "ok"
  <2>1. n \in Nat
    BY MDriverAssumption
  <2>2. Smaller(n, m) \in Nat /\ Smaller(n, m) <= n /\ Smaller(n, m) <= m
    BY <2>1, <1>3 DEF Smaller
  <2>3. ASSUME NEW k \in 1 .. Smaller(n, m) PROVE x.h.mem[x.bp + k - 1] = Word(k)
    <3>1. k \in 1 .. n /\ k \in 1 .. m
      BY <2>1, <2>2, <1>3
    <3>2. old # NULL
      BY <3>1, <1>2
    <3>3. old \in DOMAIN f /\ k <= f[old]
      BY <3>1, <3>2, <1>1, <1>3
    <3>4. x.h.mem[x.bp + k - 1] = h.mem[old + k - 1]
      BY <3>1, <3>3, <1>6 DEF Given
    <3> QED
      BY <3>1, <3>4, <1>4
  <2> QED
    BY <2>3 DEF check_index
<1> QED
  BY <1>5, <1>6 DEF m

----------------------------------------------------------------------------
(* The invariant of the driver                                             *)

OfInts(R) == \A r \in R : r.lo \in Int /\ r.hi \in Int

Verdicts == {"ok", "refused", "timeout"}

DriverInv ==
  /\ lib \in Libs
  /\ Sane(heap, live)
  /\ pass \in {"libc", "valid"} => Passing(heap, live, ranges)
  /\ OfInts(ranges)
  /\ verdict \in Verdicts

(* How a step changes the payloads: not at all, it drops them all or one,  *)
(* or one more, old or new, is where a request put it.                     *)
LiveMoves ==
  \/ live' = live \/ live' = <<>>
  \/ \E bp \in DOMAIN live \cup {NULL} : live' = Drop(live, bp)
  \/ \E old \in DOMAIN live \cup {NULL}, n \in Requests \ {0} : \E x :
       Given(heap, LibClass, live, x, old, n) /\ x.bp # NULL /\ live' = Hold(Drop(live, old), x.bp, n)

\* What the next state owes to the invariant.
Restored ==
  /\ LiveMoves
  /\ Sane(heap', live')
  /\ pass' \in {"libc", "valid"} => Passing(heap', live', ranges')
  /\ OfInts(ranges')
  /\ verdict' \in Verdicts

\* No payload changes.
LEMMA LiveStays ==
  ASSUME live' = live
  PROVE  LiveMoves
BY DEF LiveMoves

\* One payload goes.
LEMMA LiveDrops ==
  ASSUME NEW bp \in DOMAIN live \cup {NULL}, live' = Drop(live, bp)
  PROVE  LiveMoves
BY DEF LiveMoves

\* One payload comes, or moves.
LEMMA LiveHolds ==
  ASSUME NEW x, NEW old \in DOMAIN live \cup {NULL}, NEW n \in Requests \ {0},
         Given(heap, LibClass, live, x, old, n), x.bp # NULL, live' = Hold(Drop(live, old), x.bp, n)
  PROVE  LiveMoves
BY DEF LiveMoves

\* The allocator is not exchanged.
LEMMA ClassStays ==
  ASSUME lib' = lib
  PROVE  LibClass' = LibClass
BY DEF LibClass, SegClass, ExpClass, Seg!get_list, Seg!Lists

\* What a step owes to the invariant is the invariant.
LEMMA InvAgain ==
  ASSUME lib \in Libs, lib' = lib, Restored
  PROVE  DriverInv'
<1>1. LibClass' = LibClass
  BY ClassStays
<1>2. Sane(heap, live)'
  BY <1>1 DEF Restored, Sane
<1>3. pass' \in {"libc", "valid"} => Passing(heap, live, ranges)'
  BY <1>1 DEF Restored, Sane, Passing
<1> QED
  BY <1>2, <1>3 DEF Restored, DriverInv

\* The ranges of payloads are of integers.
LEMMA IntExtents ==
  ASSUME NEW h, NEW f, Sane(h, f)
  PROVE  OfInts(Extents(f))
<1>1. \A q \in DOMAIN f : q \in Nat /\ f[q] \in Nat
  BY SaneFacts
<1> QED
  BY <1>1 DEF OfInts, Extents, Extent

\* A granted request of eval_mm_valid().
LEMMA Recorded ==
  ASSUME DriverInv, pass = "valid", NEW x, NEW old \in DOMAIN live \cup {NULL}, NEW n \in Requests \ {0},
         Given(heap, LibClass, live, x, old, n), x.bp # NULL, Record(x, old, n, "ok")
  PROVE  Restored /\ heap' = randomize_block(x.h, x.bp, n) /\ live' = Hold(Drop(live, old), x.bp, n)
         /\ pass' = pass
<1>1. Passing(heap, live, ranges) /\ Sane(heap, live) /\ ranges = Extents(live) /\ verdict \in Verdicts
  BY DEF DriverInv, Passing
<1> DEFINE R == remove_range(ranges, old)
<1>2. R = Extents(Drop(live, old))
  BY <1>1, RangesWithout
<1>3. RangeVerdict(R, x.h.brk, x.bp, n) = "ok"
  BY <1>1, <1>2, RangeAccepted
<1>4. /\ heap' = randomize_block(x.h, x.bp, n)
      /\ ranges' = R \cup {Extent(x.bp, n)}
      /\ live' = Hold(Drop(live, old), x.bp, n)
      /\ Report("ok")
  BY <1>3 DEF Record
<1>5. pass' = pass /\ verdict' = verdict
  BY <1>4 DEF Report
<1>6. Passing(randomize_block(x.h, x.bp, n), Hold(Drop(live, old), x.bp, n), R \cup {Extent(x.bp, n)})
  BY <1>1, PassingAdds
<1> HIDE DEF R
<1>7. Passing(heap', live', ranges')
  BY <1>4, <1>6
<1>8. Sane(heap', live') /\ ranges' = Extents(live')
  BY <1>7 DEF Passing
<1>9. OfInts(Extents(live'))
  BY <1>8, IntExtents
<1>10. LiveMoves
  BY <1>4, LiveHolds
<1> QED
  BY <1>1, <1>4, <1>5, <1>7, <1>8, <1>9, <1>10 DEF Restored

\* A refused request changes nothing but the verdict.
LEMMA Refused ==
  ASSUME DriverInv, NEW x, NEW old, NEW n, Given(heap, LibClass, live, x, old, n), x.bp = NULL,
         heap' = x.h, live' = live, ranges' = ranges, pass' \notin {"libc", "valid"}, verdict' = "refused"
  PROVE  Restored /\ heap' = heap
<1>1. x.h = heap
  BY DEF Given, NULL
<1> QED
  BY <1>1, LiveStays DEF Restored, DriverInv, Verdicts

\* The requests of eval_mm_valid().
LEMMA ValidStep ==
  ASSUME DriverInv, Valid
  PROVE  Restored
<1>1. pass = "valid" /\ Passing(heap, live, ranges) /\ Sane(heap, live) /\ Written(heap, live) /\ ranges = Extents(live)
      /\ verdict \in Verdicts
  BY DEF Valid, DriverInv, Passing
<1>2. PICK granted \in BOOLEAN :
        \/ \E n \in Sizes \ {0} : ValidAlloc(mm_malloc(n, granted), n)
        \/ \E bp \in DOMAIN live \cup {NULL}, n \in Sizes :
             ValidRealloc(mm_realloc(bp, n, granted), bp, n)
        \/ \E bp \in DOMAIN live \cup {NULL} : ValidFree(bp)
  BY DEF Valid
<1>3. Sizes \subseteq Requests /\ Sizes \subseteq Nat
  BY MDriverAssumption DEF Sizes
<1>4. NULL \in DOMAIN live \cup {NULL} /\ NULL \notin DOMAIN live
  BY <1>1, SaneFacts
<1>5. ASSUME NEW n \in Sizes \ {0}, ValidAlloc(mm_malloc(n, granted), n) PROVE Restored
  <2> DEFINE x == mm_malloc(n, granted)
  <2>0. n \in Nat \ {0} /\ n \in Requests \ {0}
    BY <1>3
  <2>1. Given(heap, LibClass, live, x, NULL, n)
    BY <2>0, <1>1, MallocGives DEF Sane
  <2>2. ValidAlloc(x, n)
    BY <1>5
  <2> HIDE DEF x
  <2>3. CASE x.bp = NULL
    <3>1. heap' = x.h /\ Reject("refused") /\ live' = live /\ ranges' = ranges
      BY <2>2, <2>3 DEF ValidAlloc
    <3> QED
      BY <3>1, <2>1, <2>3, Refused DEF Reject
  <2>4. CASE x.bp # NULL
    <3>1. Record(x, NULL, n, "ok")
      BY <2>2, <2>4 DEF ValidAlloc
    <3> QED
      BY <3>1, <2>0, <2>1, <2>4, <1>1, <1>4, Recorded
  <2> QED
    BY <2>3, <2>4
<1>6. ASSUME NEW bp \in DOMAIN live \cup {NULL}, NEW n \in Sizes, ValidRealloc(mm_realloc(bp, n, granted), bp, n)
      PROVE  Restored
  <2> DEFINE x == mm_realloc(bp, n, granted)
             m == IF bp = NULL THEN 0 ELSE live[bp]
  <2>1. SizeAt(bp) = m
    BY DEF SizeAt
  <2>2. check_index(heap, bp, m) = "ok"
    BY <1>1, IndexChecked
  <2>3. CASE n = 0
    <3>1. x = [h |-> mm_free(bp), bp |-> NULL]
      BY <2>3, ReallocIs
    <3>2. /\ heap' = mm_free(bp) /\ ranges' = remove_range(ranges, bp) /\ live' = Drop(live, bp)
          /\ Report(check_index(heap, bp, SizeAt(bp)))
      BY <3>1, <2>3, <1>6 DEF ValidRealloc
    <3>3. Report("ok")
      BY <3>2, <2>1, <2>2
    <3>4. pass' = pass /\ verdict' = verdict
      BY <3>3 DEF Report
    <3>5. Passing(heap', live', ranges')
      BY <1>1, <3>2, PassingFrees
    <3>6. Sane(heap', live') /\ OfInts(ranges')
      BY <3>5, IntExtents DEF Passing
    <3>7. LiveMoves
      BY <3>2, LiveDrops
    <3> QED
      BY <3>4, <3>5, <3>6, <3>7, <1>1 DEF Restored
  <2>4. CASE n # 0
    <3>0. n \in Nat \ {0} /\ n \in Requests \ {0}
      BY <2>4, <1>3
    <3>1. Given(heap, LibClass, live, x, bp, n)
      BY <3>0, <1>1, RequestGives
    <3>2. ValidRealloc(x, bp, n)
      BY <1>6
    <3> HIDE DEF x, m
    <3>3. CASE x.bp = NULL
      <4>1. heap' = x.h /\ Reject("refused") /\ live' = live /\ ranges' = ranges
        BY <3>2, <3>3, <2>4 DEF ValidRealloc
      <4> QED
        BY <4>1, <3>1, <3>3, Refused DEF Reject
    <3>4. CASE x.bp # NULL
      <4>1. check_index(x.h, x.bp, Smaller(n, m)) = "ok"
        BY <3>0, <3>1, <3>4, <1>1, IndexChecked DEF m
      <4>2. Record(x, bp, n, "ok")
        BY <4>1, <2>1, <2>2, <2>4, <3>2, <3>4 DEF ValidRealloc
      <4> QED
        BY <4>2, <3>0, <3>1, <3>4, <1>1, Recorded
    <3> QED
      BY <3>3, <3>4
  <2> QED
    BY <2>3, <2>4
<1>7. ASSUME NEW bp \in DOMAIN live \cup {NULL}, ValidFree(bp) PROVE Restored
  <2> DEFINE m == IF bp = NULL THEN 0 ELSE live[bp]
  <2>1. SizeAt(bp) = m
    BY DEF SizeAt
  <2>2. check_index(heap, bp, m) = "ok"
    BY <1>1, IndexChecked
  <2>3. /\ heap' = mm_free(bp) /\ ranges' = remove_range(ranges, bp) /\ live' = Drop(live, bp)
        /\ Report(check_index(heap, bp, SizeAt(bp)))
    BY <1>7 DEF ValidFree
  <2>4. Report("ok")
    BY <2>1, <2>2, <2>3
  <2>5. pass' = pass /\ verdict' = verdict
    BY <2>4 DEF Report
  <2>6. Passing(heap', live', ranges')
    BY <1>1, <2>3, PassingFrees
  <2>7. Sane(heap', live') /\ OfInts(ranges')
    BY <2>6, IntExtents DEF Passing
  <2>8. LiveMoves
    BY <2>3, LiveDrops
  <2> QED
    BY <2>5, <2>6, <2>7, <2>8, <1>1 DEF Restored
<1> QED
  BY <1>2, <1>5, <1>6, <1>7

----------------------------------------------------------------------------
(* The other passes, and the theorems                                      *)

\* A granted request of eval_mm_util(), which writes nothing into it.
LEMMA UtilAdds ==
  ASSUME NEW x, NEW old \in DOMAIN live \cup {NULL}, NEW n \in Requests \ {0},
         Sane(heap, live), Given(heap, LibClass, live, x, old, n), x.bp # NULL
  PROVE  Sane(SizesOnly(x.h, x.bp, n), Hold(Drop(live, old), x.bp, n))
<1> DEFINE data == [k \in 1 .. n |-> Junk]
           h1 == Fill(x.h, x.bp, data)
           f1 == Hold(Drop(live, old), x.bp, n)
<1>1. data \in [1 .. n -> Int] /\ Len(data) = n
  <2>1. n \in Nat /\ Junk \in Int
    BY MDriverAssumption DEF Junk
  <2> QED
    BY <2>1, WordsAre
<1> HIDE DEF data
<1>2. Adds(heap, h1, live, f1, x.bp, old, n, data)
  BY <1>1, PayloadAdds
<1>3. SizesOnly(x.h, x.bp, n) = h1
  BY DEF SizesOnly, data
<1> HIDE DEF h1, f1
<1> QED
  BY <1>2, <1>3 DEF Adds, f1

\* The requests of eval_mm_util().
LEMMA UtilStep ==
  ASSUME DriverInv, Util
  PROVE  Restored
<1>1. pass = "util" /\ Sane(heap, live) /\ verdict \in Verdicts /\ ranges' = ranges /\ OfInts(ranges)
  BY DEF Util, DriverInv
<1>2. PICK granted \in BOOLEAN :
        \/ \E n \in Sizes \ {0} : UtilSized(mm_malloc(n, granted), NULL, n)
        \/ \E bp \in DOMAIN live \cup {NULL}, n \in Sizes :
              UtilSized(mm_realloc(bp, n, granted), bp, n)
        \/ \E bp \in DOMAIN live : UtilFree(bp)
  BY DEF Util
<1>3. Sizes \subseteq Requests /\ Sizes \subseteq Nat
  BY MDriverAssumption DEF Sizes
<1>4. ASSUME NEW x, NEW old \in DOMAIN live \cup {NULL}, NEW n \in Requests \ {0},
             Given(heap, LibClass, live, x, old, n), UtilSized(x, old, n)
      PROVE  Restored
  <2>1. n # 0
    OBVIOUS
  <2>2. CASE x.bp = NULL
    <3>1. heap' = x.h /\ Exits("refused") /\ live' = live
      BY <2>1, <2>2, <1>4 DEF UtilSized
    <3> QED
      BY <3>1, <1>1, <1>4, <2>2, Refused DEF Exits
  <2>3. CASE x.bp # NULL
    <3>1. /\ heap' = SizesOnly(x.h, x.bp, n) /\ live' = Hold(Drop(live, old), x.bp, n)
          /\ pass' = pass /\ verdict' = verdict
      BY <2>1, <2>3, <1>4 DEF UtilSized
    <3>2. Sane(SizesOnly(x.h, x.bp, n), Hold(Drop(live, old), x.bp, n))
      BY <1>1, <1>4, <2>3, UtilAdds
    <3>3. LiveMoves
      BY <3>1, <1>4, <2>3, LiveHolds
    <3> QED
      BY <3>1, <3>2, <3>3, <1>1 DEF Restored
  <2> QED
    BY <2>2, <2>3
<1>5. ASSUME NEW n \in Sizes \ {0}, UtilSized(mm_malloc(n, granted), NULL, n) PROVE Restored
  <2> DEFINE x == mm_malloc(n, granted)
  <2>0. n \in Nat \ {0} /\ n \in Requests \ {0}
    BY <1>3
  <2>1. Given(heap, LibClass, live, x, NULL, n)
    BY <2>0, <1>1, MallocGives DEF Sane
  <2>2. UtilSized(x, NULL, n)
    BY <1>5
  <2> HIDE DEF x
  <2> QED
    BY <2>0, <2>1, <2>2, <1>4
<1>6. ASSUME NEW bp \in DOMAIN live \cup {NULL}, NEW n \in Sizes, UtilSized(mm_realloc(bp, n, granted), bp, n)
      PROVE  Restored
  <2> DEFINE x == mm_realloc(bp, n, granted)
  <2>1. UtilSized(x, bp, n)
    BY <1>6
  <2>2. CASE n = 0
    <3>1. x = [h |-> mm_free(bp), bp |-> NULL]
      BY <2>2, ReallocIs
    <3>2. heap' = mm_free(bp) /\ live' = Drop(live, bp) /\ pass' = pass /\ verdict' = verdict
      BY <3>1, <2>1, <2>2 DEF UtilSized
    <3>3. Sane(mm_free(bp), Drop(live, bp))
      BY <1>1, SaneFrees
    <3>4. LiveMoves
      BY <3>2, LiveDrops
    <3> QED
      BY <3>2, <3>3, <3>4, <1>1 DEF Restored
  <2>3. CASE n # 0
    <3>0. n \in Nat \ {0} /\ n \in Requests \ {0}
      BY <2>3, <1>3
    <3>1. Given(heap, LibClass, live, x, bp, n)
      BY <3>0, <1>1, RequestGives
    <3> HIDE DEF x
    <3> QED
      BY <3>0, <3>1, <2>1, <1>4
  <2> QED
    BY <2>2, <2>3
<1>7. ASSUME NEW bp \in DOMAIN live, UtilFree(bp) PROVE Restored
  <2>1. heap' = mm_free(bp) /\ live' = Drop(live, bp) /\ pass' = pass /\ verdict' = verdict
    BY <1>7 DEF UtilFree
  <2>2. Sane(mm_free(bp), Drop(live, bp))
    BY <1>1, SaneFrees
  <2>3. LiveMoves
    BY <2>1, LiveDrops
  <2> QED
    BY <2>1, <2>2, <2>3, <1>1 DEF Restored
<1> QED
  BY <1>2, <1>5, <1>6, <1>7

\* An empty heap whose list heads are an allocator's.
LEMMA EmptySane ==
  ASSUME NEW h \in HeapType, h.brk = 0, h.ok, lib # "mm" => OneList(h)
  PROVE  /\ Passing(mm_init(h, TRUE).h, <<>>, {}) /\ Sane(mm_init(h, TRUE).h, <<>>)
<1> DEFINE g == mm_init(h, TRUE).h
<1>1. Fine(g, LibClass, <<>>) /\ g.ok = TRUE
  BY InitFine
<1>2. DOMAIN <<>> = {}
  OBVIOUS
<1> HIDE DEF g
<1>3. Sane(g, <<>>)
  BY <1>1, <1>2 DEF Sane
<1>4. Written(g, <<>>) /\ Extents(<<>>) = {}
  BY <1>2 DEF Written, Extents
<1> QED
  BY <1>3, <1>4 DEF Passing, g

\* mem_init(): an area of no words in use.
LEMMA AreaIs ==
  /\ mem_init \in HeapType /\ mem_init.brk = 0 /\ mem_init.ok /\ OneList(mem_init)
  /\ mem_init.fl = [k \in Lists |-> 0]
<1>1. [a \in 0 .. MAX_HEAP - 1 |-> Junk] \in [Addr -> Int]
  BY DEF Junk, Addr
<1>2. [k \in Lists |-> NULL] \in [Lists -> Int] /\ 0 \in 0 .. MAX_HEAP
  BY BlocksAssumption DEF NULL
<1> QED
  BY <1>1, <1>2 DEF mem_init, HeapType, OneList, NULL

\* A heap that is reset or new is in order and without payloads.
LEMMA FreshSane ==
  ASSUME DriverInv
  PROVE  /\ Passing(mm_init(mem_reset_brk(heap), TRUE).h, <<>>, {})
         /\ Passing(mm_init([mem_init EXCEPT !.fl = heap.fl], TRUE).h, <<>>, {})
<1>1. Fine(heap, LibClass, live) /\ heap.ok
  BY DEF DriverInv, Sane
<1>2. heap \in HeapType
  BY <1>1, HoldsType DEF Fine
<1>3. lib # "mm" => OneList(heap)
  BY <1>1, OnlyOneList, LibClassIs
<1> DEFINE w == [a \in Addr |-> Junk]
           g == [[heap EXCEPT !.brk = 0] EXCEPT !.mem = w]
           e == [mem_init EXCEPT !.fl = heap.fl]
<1>4. g \in HeapType /\ g.brk = 0 /\ g.ok = heap.ok /\ g.fl = heap.fl
  <2>1. w \in [Addr -> Int]
    BY DEF Junk
  <2>2. 0 \in 0 .. MAX_HEAP
    BY BlocksAssumption
  <2> HIDE DEF w
  <2> QED
    BY <2>1, <2>2, <1>2 DEF HeapType
<1>5. mem_reset_brk(heap) = g
  <2>1. heap.mem \in [Addr -> Int] /\ DOMAIN heap.mem = Addr
    BY <1>2 DEF HeapType
  <2> QED
    BY <2>1 DEF mem_reset_brk
<1>6. e \in HeapType /\ e.brk = 0 /\ e.ok /\ e.fl = heap.fl
  BY <1>2, AreaIs DEF HeapType
<1> HIDE DEF g, e
<1>7. lib # "mm" => OneList(g) /\ OneList(e)
  BY <1>3, <1>4, <1>6 DEF OneList
<1>8. Passing(mm_init(g, TRUE).h, <<>>, {})
  BY <1>1, <1>4, <1>7, EmptySane
<1>9. Passing(mm_init(e, TRUE).h, <<>>, {})
  BY <1>6, <1>7, EmptySane
<1> QED
  BY <1>5, <1>8, <1>9 DEF e

\* The heap is new, as Begin() and FreshArea leave it.
LEMMA NewHeap ==
  ASSUME DriverInv, verdict' \in Verdicts,
         \/ heap' = mm_init(mem_reset_brk(heap), TRUE).h
         \/ heap' = mm_init([mem_init EXCEPT !.fl = heap.fl], TRUE).h,
         live' = <<>>, ranges' = {}
  PROVE  Restored
<1>1. Passing(heap', live', ranges')
  BY FreshSane
<1>2. Sane(heap', live') /\ OfInts(ranges')
  BY <1>1 DEF Passing, OfInts
<1>3. LiveMoves
  BY DEF LiveMoves
<1> QED
  BY <1>1, <1>2, <1>3 DEF Restored

\* The invariant holds when the first trace begins.
THEOREM DriverStarts == Init => DriverInv
<1> SUFFICES ASSUME Init PROVE DriverInv
  OBVIOUS
<1>1. lib \in Libs /\ heap = mm_init(mem_init, TRUE).h /\ live = <<>> /\ ranges = {} /\ verdict = "ok"
  BY DEF Init
<1>2. Passing(mm_init(mem_init, TRUE).h, <<>>, {})
  BY AreaIs, EmptySane
<1> QED
  BY <1>1, <1>2 DEF DriverInv, Passing, OfInts, Verdicts

\* Every step does what the invariant asks of it, and keeps the allocator.
LEMMA DriverMoves ==
  ASSUME DriverInv, [Next]_vars
  PROVE  Restored /\ lib' = lib
<1>i. lib \in Libs /\ verdict \in Verdicts /\ Sane(heap, live) /\ OfInts(ranges)
  BY DEF DriverInv
<1>t. "timeout" \in Verdicts /\ "ok" \in Verdicts
  BY DEF Verdicts
\* Steps that leave the heap alone and start no pass.
<1>s. ASSUME heapvars' = heapvars, verdict' \in Verdicts, pass' \in {"libc", "valid"} => pass \in {"libc", "valid"}
      PROVE  Restored /\ lib' = lib
  BY <1>s, LiveStays DEF Restored, DriverInv, heapvars
<1>1. lib' = lib
  <2>3. Valid \/ Util => lib' = lib
    BY DEF Valid, Util
  <2>4. EndOfTrace \/ NextTrace \/ TestsEnd => lib' = lib
    BY DEF EndOfTrace, Begin, NextTrace, TestsEnd
  <2>5. \A v \in Times : Sample(v) => lib' = lib
    BY DEF Sample, heapvars
  <2>6. Measured \/ LibcRuns \/ Index \/ Timeout => lib' = lib
    BY DEF Measured, LibcRuns, Index, Timeout, heapvars
  <2>7. Done => lib' = lib
    BY DEF Done, vars, heapvars
  <2>1. CASE Next
    BY <2>1, <2>3, <2>4, <2>5, <2>6, <2>7 DEF Next
  <2>2. CASE UNCHANGED vars
    BY <2>2 DEF vars, heapvars
  <2> QED
    BY <2>1, <2>2
<1>2. Restored
  <2>1. CASE Valid
    BY <2>1, ValidStep
  <2>2. CASE Util
    BY <2>2, UtilStep
  <2>3. CASE EndOfTrace
    BY <2>3, <1>i, NewHeap DEF EndOfTrace, Begin
  <2>4. CASE \E v \in Times : Sample(v)
    BY <2>4, <1>s, <1>i DEF Sample
  <2>5. CASE Measured
    BY <2>5, <1>s, <1>i DEF Measured
  <2>6. CASE LibcRuns
    BY <2>6, <1>s, <1>i DEF LibcRuns
  <2>7. CASE NextTrace
    BY <2>7, <1>i, <1>t, NewHeap DEF NextTrace, FreshArea
  <2>8. CASE TestsEnd
    BY <2>8, <1>i, NewHeap DEF TestsEnd, FreshArea
  <2>9. CASE Index
    BY <2>9, <1>s, <1>i DEF Index
  <2>10. CASE Timeout
    BY <2>10, <1>s, <1>i, <1>t DEF Timeout
  <2>11. CASE Done \/ UNCHANGED vars
    BY <2>11, <1>s, <1>i DEF Done, vars
  <2> QED
    BY <2>1, <2>2, <2>3, <2>4, <2>5, <2>6, <2>7, <2>8, <2>9, <2>10, <2>11 DEF Next
<1> QED
  BY <1>1, <1>2

\* The invariant is inductive.
THEOREM DriverSteps == DriverInv /\ [Next]_vars => DriverInv'
<1> SUFFICES ASSUME DriverInv, [Next]_vars PROVE DriverInv'
  OBVIOUS
<1>1. lib \in Libs
  BY DEF DriverInv
<1> QED
  BY <1>1, DriverMoves, InvAgain

\* The invariant holds in every execution of the driver.
THEOREM DriverAlways == Spec => []DriverInv
  BY DriverStarts, DriverSteps, PTL DEF Spec

(* Whatever is asked of the three allocators, and whatever the system        *)
(* refuses them, their own checkers find nothing, the lists hold the free  *)
(* blocks, each once and on the list of its size, and no two free blocks   *)
(* are neighbours (mm.c:439-535, mm_exp.c:558-631).                        *)
THEOREM HeapIsConsistent == Spec => []HeapConsistent
<1>1. DriverInv => HeapConsistent
  BY SaneConsistent DEF DriverInv
<1> QED
  BY <1>1, DriverAlways, PTL

(* A request is refused, or the heap grown, only when no free block of any  *)
(* list is large enough: find_fit() misses none (mm.c:411-427).            *)
THEOREM FitsAreFound == Spec => []FitIsFound
<1>1. DriverInv => FitIsFound
  BY SaneFinds DEF DriverInv
<1> QED
  BY <1>1, DriverAlways, PTL

\* Two ends outside an old payload leave it beside the new one, or inside.
LEMMA EscapesAre ==
  ASSUME NEW R, OfInts(R), NEW lo \in Int, NEW n \in Nat \ {0}, NEW brk, RangeVerdict(R, brk, lo, n) = "ok"
  PROVE  \A r \in R : \/ lo + n - 1 < r.lo \/ lo > r.hi
                      \/ lo < r.lo /\ r.hi < lo + n - 1
<1>1. ~Overlaps(R, lo, lo + n - 1)
  BY DEF RangeVerdict
<1>2. ASSUME NEW r \in R
      PROVE  lo + n - 1 < r.lo \/ lo > r.hi \/ (lo < r.lo /\ r.hi < lo + n - 1)
  <2>1. r.lo \in Int /\ r.hi \in Int
    BY DEF OfInts
  <2>2. lo \notin r.lo .. r.hi /\ lo + n - 1 \notin r.lo .. r.hi
    BY <1>1 DEF Overlaps
  <2> QED
    BY <2>1, <2>2
<1> QED
  BY <1>2

(* The driver never finds fault with one of the three allocators but that   *)
(* it refuses: no payload is misaligned, outside, overlapping or garbled,  *)
(* and its range list holds just the payloads of the allocated blocks      *)
(* (mdriver.c:560-646, 682-707).                                           *)
THEOREM RangesAreKept == Spec => []RangesArePayloads
<1>1. DriverInv => RangesArePayloads
  <2> SUFFICES ASSUME DriverInv PROVE RangesArePayloads
    OBVIOUS
  <2>1. verdict \in {"ok", "refused", "timeout"}
    BY DEF DriverInv, Verdicts
  <2>2. DOMAIN live = Real(heap) \ FreeBlocks(heap)
    BY SaneConsistent DEF DriverInv
  <2>3. pass = "valid" => ranges = {Extent(bp, live[bp]) : bp \in DOMAIN live}
    BY DEF DriverInv, Passing, Extents
  <2>4. MissesOnlySwallowed
    <3>1. \A lo \in 0 .. MAX_HEAP - 1, n \in Requests \ {0} : lo \in Int /\ n \in Nat \ {0}
      BY BlocksAssumption, MDriverAssumption
    <3>2. OfInts(ranges)
      BY DEF DriverInv
    <3> QED
      BY <3>1, <3>2, EscapesAre DEF MissesOnlySwallowed
  <2> QED
    BY <2>1, <2>2, <2>3, <2>4 DEF RangesArePayloads
<1> QED
  BY <1>1, DriverAlways, PTL

----------------------------------------------------------------------------
(* The driver's payloads are objects of Allocator                          *)

\* The driver's words for the payloads f.
Pay(f) == [p \in DOMAIN f |-> [k \in 1 .. f[p] |-> Word(k)]]

\* The objects the driver stands for, as MDriver defines them.
Objects == [bp \in DOMAIN live |-> [k \in 1 .. live[bp] |-> IF pass # "valid" THEN Word(k)
                                                            ELSE heap.mem[bp + k - 1]]]

\* During the correctness pass the payloads hold the driver's words.
LEMMA ObjectsAre ==
  ASSUME DriverInv
  PROVE  Objects = Pay(live)
<1>1. pass = "valid" => Written(heap, live)
  BY DEF DriverInv, Passing
<1>2. ASSUME NEW q \in DOMAIN live
      PROVE  [k \in 1 .. live[q] |-> IF pass # "valid" THEN Word(k) ELSE heap.mem[q + k - 1]]
               = [k \in 1 .. live[q] |-> Word(k)]
  BY <1>1 DEF Written
<1> QED
  BY <1>2 DEF Objects, Pay

\* The driver's words for a payload.
LEMMA PayIs ==
  ASSUME NEW f
  PROVE  /\ DOMAIN Pay(f) = DOMAIN f
         /\ \A q \in DOMAIN f : Pay(f)[q] = [k \in 1 .. f[q] |-> Word(k)]
         /\ \A q \in DOMAIN f : f[q] \in Nat => Len(Pay(f)[q]) = f[q]
<1>1. DOMAIN Pay(f) = DOMAIN f /\ \A q \in DOMAIN f : Pay(f)[q] = [k \in 1 .. f[q] |-> Word(k)]
  BY DEF Pay
<1>2. \A n \in Nat : Len([k \in 1 .. n |-> Word(k)]) = n
  BY WordsAre
<1> QED
  BY <1>1, <1>2

\* A new payload, as the abstract allocator sees it.
Room(f, p, n) ==
  /\ p \in Nat /\ p % 2 = 0 /\ n \in Requests \ {0} /\ p + n <= MAX_HEAP
  /\ \A q \in DOMAIN f : q \in Nat /\ f[q] \in Nat /\ (q + f[q] <= p \/ p + n <= q)

\* Where a request is granted there is room among the payloads.
LEMMA Allots ==
  ASSUME DriverInv, NEW x, NEW old \in DOMAIN live \cup {NULL}, NEW n \in Requests \ {0},
         Given(heap, LibClass, live, x, old, n), x.bp # NULL
  PROVE  Room(live, x.bp, n)
<1> DEFINE p == x.bp
<1>1. n \in Nat /\ Sane(heap, live)
  BY MDriverAssumption DEF DriverInv
<1>2. /\ p \in Nat /\ p % 2 = 0 /\ p + n + 2 <= x.h.brk /\ x.h.brk <= MAX_HEAP
      /\ \A q \in DOMAIN live : q + live[q] + 2 <= p \/ p + n + 2 <= q
  BY DEF Given
<1>3. x.h.brk \in Nat
  <2> DEFINE f1 == Hold(Drop(live, old), p, n)
             g == x.h
  <2>1. Fine(g, LibClass, f1) /\ p \in DOMAIN f1
    BY DEF Given, Hold
  <2> HIDE DEF f1, p, g
  <2>2. g.brk \in Nat
    BY <2>1, FineFacts
  <2> QED
    BY <2>2 DEF g
<1> HIDE DEF p
<1>4. p + n <= MAX_HEAP
  BY <1>1, <1>2, <1>3, BlocksAssumption
<1>5. ASSUME NEW q \in DOMAIN live PROVE q \in Nat /\ live[q] \in Nat /\ (q + live[q] <= p \/ p + n <= q)
  <2>1. q \in Nat /\ live[q] \in Nat
    BY <1>1, SaneFacts
  <2>2. q + live[q] + 2 <= p \/ p + n + 2 <= q
    BY <1>2
  <2> QED
    BY <2>1, <2>2, <1>1, <1>2
<1> QED
  BY <1>2, <1>4, <1>5 DEF Room, p

\* Such a payload is what Allocator calls apart.
LEMMA PlacesApart ==
  ASSUME NEW f, NEW p, NEW n, Room(f, p, n)
  PROVE  /\ Promised!Span(p, n) \subseteq 0 .. MAX_HEAP - 1
         /\ \A q \in DOMAIN f : Promised!Span(p, n) \cap Promised!Span(q, Len(Pay(f)[q])) = {}
<1>1. /\ p \in Nat /\ n \in Nat /\ p + n <= MAX_HEAP
      /\ \A q \in DOMAIN f : q \in Nat /\ f[q] \in Nat /\ (q + f[q] <= p \/ p + n <= q)
  BY MDriverAssumption DEF Room
<1>2. p .. p + n - 1 \subseteq 0 .. MAX_HEAP - 1
  BY <1>1, BlocksAssumption
<1>3. ASSUME NEW q \in DOMAIN f PROVE (p .. p + n - 1) \cap (q .. q + f[q] - 1) = {}
  BY <1>1
<1>4. \A q \in DOMAIN f : Len(Pay(f)[q]) = f[q]
  BY <1>1, PayIs
<1> QED
  BY <1>2, <1>3, <1>4 DEF Promised!Span

\* The objects have the driver's words before and after a step.
Stands == Objects = Pay(live) /\ Objects' = Pay(live')

\* A payload granted to malloc is a New of Allocator.
LEMMA StepIsNew ==
  ASSUME DriverInv, Stands, NEW x, NEW n \in Requests \ {0},
         Given(heap, LibClass, live, x, NULL, n), x.bp # NULL, live' = Hold(Drop(live, NULL), x.bp, n)
  PROVE  Promised!Next
<1> DEFINE p == x.bp
           ws == [k \in 1 .. n |-> Word(k)]
<1>1. Room(live, p, n)
  BY Allots
<1>0. NULL \notin DOMAIN live
  BY SaneFacts DEF DriverInv
<1> HIDE DEF p
<1>2. DOMAIN live' = DOMAIN live \cup {p} /\ \A q \in DOMAIN live' : live'[q] = IF q = p THEN n ELSE live[q]
  BY <1>0 DEF Hold, Drop, p
<1>3. n \in Nat /\ p % 2 = 0
  BY <1>1, MDriverAssumption DEF Room
<1>4. /\ DOMAIN Objects' = DOMAIN live \cup {p} /\ Objects'[p] = ws /\ Len(Objects'[p]) = n
      /\ DOMAIN Objects = DOMAIN live
      /\ \A q \in DOMAIN live : Len(Objects[q]) = Len(Pay(live)[q])
  BY <1>2, <1>3, PayIs DEF Stands
<1>5. Objects' = Promised!Bind(Objects, p, ws)
  <2>1. ASSUME NEW q \in DOMAIN live' PROVE Pay(live')[q] = IF q = p THEN ws ELSE Pay(live)[q]
    <3>1. Pay(live')[q] = [k \in 1 .. live'[q] |-> Word(k)]
      BY PayIs
    <3>2. CASE q = p
      BY <3>1, <3>2, <1>2
    <3>3. CASE q # p
      <4>1. q \in DOMAIN live /\ live'[q] = live[q]
        BY <3>3, <1>2
      <4>2. Pay(live)[q] = [k \in 1 .. live[q] |-> Word(k)]
        BY <4>1, PayIs
      <4> QED
        BY <3>1, <3>3, <4>1, <4>2
    <3> QED
      BY <3>2, <3>3
  <2>2. Pay(live') = [q \in DOMAIN live' |-> IF q = p THEN ws ELSE Pay(live)[q]]
    BY <2>1 DEF Pay
  <2> QED
    BY <2>2, <1>2, <1>4 DEF Stands, Promised!Bind
<1>6. /\ Promised!Span(p, n) \subseteq 0 .. MAX_HEAP - 1
      /\ \A q \in DOMAIN live : Promised!Span(p, n) \cap Promised!Span(q, Len(Pay(live)[q])) = {}
  BY <1>1, PlacesApart
<1>7. Promised!Apart(p, n, DOMAIN Objects)
  BY <1>3, <1>4, <1>6 DEF Promised!Apart, Objects
<1> HIDE DEF ws
<1>8. Promised!New(p, Len(Objects'[p]))
  BY <1>4, <1>5, <1>7 DEF Promised!New, ws, Objects
<1> QED
  BY <1>4, <1>8 DEF Promised!Next, Objects

\* A payload granted to realloc is a Resize: its first words are the old ones.
LEMMA StepIsResize ==
  ASSUME DriverInv, Stands, NEW x, NEW old \in DOMAIN live, NEW n \in Requests \ {0},
         Given(heap, LibClass, live, x, old, n), x.bp # NULL, live' = Hold(Drop(live, old), x.bp, n)
  PROVE  Promised!Next
<1> DEFINE p == x.bp
           ws == [k \in 1 .. n |-> Word(k)]
           vs == [k \in 1 .. n |-> IF k <= Len(Objects[old]) THEN Objects[old][k] ELSE Word(k)]
<1>1. Room(live, p, n)
  BY Allots
<1>2. /\ DOMAIN live' = (DOMAIN live \ {old}) \cup {p}
      /\ \A q \in DOMAIN live' : live'[q] = IF q = p THEN n ELSE live[q]
  BY DEF Hold, Drop
<1> HIDE DEF p
<1>3. n \in Nat /\ p % 2 = 0 /\ live[old] \in Nat
  BY <1>1, MDriverAssumption DEF Room
<1>4. /\ DOMAIN Objects' = DOMAIN live' /\ p \in DOMAIN Objects' /\ Objects'[p] = ws /\ Len(Objects'[p]) = n
      /\ DOMAIN Objects = DOMAIN live
      /\ \A q \in DOMAIN live : Len(Objects[q]) = Len(Pay(live)[q])
  BY <1>2, <1>3, PayIs DEF Stands
<1>5. vs = ws
  <2>1. Len(Objects[old]) = live[old] /\ Objects[old] = [k \in 1 .. live[old] |-> Word(k)]
    BY <1>3, PayIs DEF Stands
  <2>2. \A k \in 1 .. n : (IF k <= Len(Objects[old]) THEN Objects[old][k] ELSE Word(k)) = Word(k)
    BY <1>3, <2>1
  <2> QED
    BY <2>2
<1> HIDE DEF ws, vs
<1>6. Objects' = Promised!Bind(Promised!Less(Objects, old), p, vs)
  <2>1. ASSUME NEW q \in DOMAIN live' PROVE Pay(live')[q] = IF q = p THEN vs ELSE Pay(live)[q]
    <3>1. Pay(live')[q] = [k \in 1 .. live'[q] |-> Word(k)]
      BY PayIs
    <3>2. CASE q = p
      BY <3>1, <3>2, <1>2, <1>5 DEF ws
    <3>3. CASE q # p
      <4>1. q \in DOMAIN live /\ live'[q] = live[q]
        BY <3>3, <1>2
      <4>2. Pay(live)[q] = [k \in 1 .. live[q] |-> Word(k)]
        BY <4>1, PayIs
      <4> QED
        BY <3>1, <3>3, <4>1, <4>2
    <3> QED
      BY <3>2, <3>3
  <2>2. Pay(live') = [q \in DOMAIN live' |-> IF q = p THEN vs ELSE Pay(live)[q]]
    BY <2>1 DEF Pay
  <2>3. Promised!Bind(Promised!Less(Objects, old), p, vs)
          = [q \in (DOMAIN live \ {old}) \cup {p} |-> IF q = p THEN vs ELSE Pay(live)[q]]
    BY <1>4 DEF Stands, Promised!Bind, Promised!Less
  <2> QED
    BY <2>2, <2>3, <1>2 DEF Stands
<1>7. /\ Promised!Span(p, n) \subseteq 0 .. MAX_HEAP - 1
      /\ \A q \in DOMAIN live : Promised!Span(p, n) \cap Promised!Span(q, Len(Pay(live)[q])) = {}
  BY <1>1, PlacesApart
<1>8. Promised!Apart(p, n, DOMAIN Objects)
  BY <1>3, <1>4, <1>7 DEF Promised!Apart, Objects
<1> HIDE DEF p
<1>9. old \in DOMAIN Objects /\ p \in DOMAIN Objects'
      /\ Len(Objects'[p]) \in Requests \ {0} /\ Promised!Apart(p, Len(Objects'[p]), DOMAIN Objects)
      /\ Objects' = Promised!Bind(Promised!Less(Objects, old), p,
            [k \in 1 .. Len(Objects'[p]) |-> IF k <= Len(Objects[old]) THEN Objects[old][k] ELSE Word(k)])
  BY <1>4, <1>6, <1>8 DEF vs
<1>10. \E u \in DOMAIN Objects, v \in DOMAIN Objects' :
         /\ Len(Objects'[v]) \in Requests \ {0} /\ Promised!Apart(v, Len(Objects'[v]), DOMAIN Objects)
         /\ Objects' = Promised!Bind(Promised!Less(Objects, u), v,
               [k \in 1 .. Len(Objects'[v]) |-> IF k <= Len(Objects[u]) THEN Objects[u][k] ELSE Word(k)])
  BY ONLY <1>9
<1> QED
  BY ONLY <1>10 DEF Promised!Next, Promised!Resize, Objects

\* A payload freed is a Free of Allocator.
LEMMA StepIsFree ==
  ASSUME Stands, NEW bp \in DOMAIN live, live' = Drop(live, bp)
  PROVE  Promised!Next
<1>1. DOMAIN live' = DOMAIN live \ {bp} /\ \A q \in DOMAIN live' : live'[q] = live[q]
  BY DEF Drop
<1>2. DOMAIN Objects = DOMAIN live
  BY PayIs DEF Stands
<1>3. Objects' = Promised!Less(Objects, bp)
  <2>1. Pay(live') = [q \in DOMAIN live \ {bp} |-> [k \in 1 .. live[q] |-> Word(k)]]
    BY <1>1 DEF Pay
  <2>2. Promised!Less(Objects, bp) = [q \in DOMAIN live \ {bp} |-> Pay(live)[q]]
    BY <1>2 DEF Stands, Promised!Less
  <2>3. \A q \in DOMAIN live \ {bp} : Pay(live)[q] = [k \in 1 .. live[q] |-> Word(k)]
    BY PayIs
  <2> QED
    BY <2>1, <2>2, <2>3 DEF Stands
<1>4. Promised!Free(bp)
  BY <1>3 DEF Promised!Free, Objects
<1> QED
  BY <1>2, <1>4 DEF Promised!Next, Objects

\* No payload, no object.
LEMMA NoPayload == Pay(<<>>) = <<>>
<1> DEFINE g == Pay(<<>>)
<1>1. g \in [1 .. 0 -> {}] /\ DOMAIN g = 1 .. 0
  <2>1. DOMAIN <<>> = {} /\ 1 .. 0 = {}
    OBVIOUS
  <2> QED
    BY <2>1 DEF Pay
<1> HIDE DEF g
<1>2. g \in Seq({}) /\ Len(g) = 0
  BY <1>1
<1>3. g = <<>>
  BY <1>2
<1> QED
  BY <1>3 DEF g

\* A new heap is a Reset of Allocator.
LEMMA StepIsReset ==
  ASSUME Stands, live' = <<>>
  PROVE  Promised!Next
<1>1. Objects' = <<>>
  BY NoPayload DEF Stands
<1> QED
  BY <1>1 DEF Promised!Next, Promised!Reset, Objects

(* A step of the driver is one of Allocator, or none.                      *)
LEMMA StepIsPromised ==
  ASSUME DriverInv, Stands, [Next]_vars
  PROVE  Promised!Next \/ Objects' = Objects
<1>1. LiveMoves
  BY DriverMoves DEF Restored
<1>2. NULL \notin DOMAIN live
  BY SaneFacts DEF DriverInv
<1>3. CASE live' = live
  BY <1>3 DEF Stands
<1>4. CASE live' = <<>>
  BY <1>4, StepIsReset
<1>5. ASSUME NEW bp \in DOMAIN live \cup {NULL}, live' = Drop(live, bp)
      PROVE  Promised!Next \/ Objects' = Objects
  <2>1. CASE bp \in DOMAIN live
    BY <2>1, <1>5, StepIsFree
  <2>2. CASE bp = NULL
    <3>1. DOMAIN live' = DOMAIN live /\ \A q \in DOMAIN live : live'[q] = live[q]
      BY <1>2, <1>5, <2>2 DEF Drop
    <3>2. Pay(live') = Pay(live)
      BY <3>1 DEF Pay
    <3> QED
      BY <3>2 DEF Stands
  <2> QED
    BY <2>1, <2>2
<1>6. ASSUME NEW old \in DOMAIN live \cup {NULL}, NEW n \in Requests \ {0}, NEW x,
             Given(heap, LibClass, live, x, old, n), x.bp # NULL, live' = Hold(Drop(live, old), x.bp, n)
      PROVE  Promised!Next
  <2>1. CASE old \in DOMAIN live
    BY <2>1, <1>6, StepIsResize
  <2>2. CASE old = NULL
    BY <2>2, <1>6, StepIsNew
  <2> QED
    BY <2>1, <2>2
<1> QED
  BY <1>1, <1>3, <1>4, <1>5, <1>6 DEF LiveMoves

\* The objects have the driver's words.
AsWritten == Objects = Pay(live)

(* Every execution of the driver is one that Allocator allows.             *)
THEOREM AllocatorsKeepPromise == Spec => KeepsPromise
<1>1. DriverInv => AsWritten
  BY ObjectsAre DEF AsWritten
<1>2. Init => Promised!Init
  <2> SUFFICES ASSUME Init PROVE Promised!Init
    OBVIOUS
  <2>1. DriverInv
    BY DriverStarts
  <2>2. live = <<>>
    BY DEF Init
  <2>3. Objects = <<>>
    BY <2>1, <2>2, ObjectsAre, NoPayload
  <2> QED
    BY <2>3 DEF Promised!Init, Objects
<1>3. DriverInv /\ AsWritten /\ AsWritten' /\ [Next]_vars => [Promised!Next]_Objects
  <2> SUFFICES ASSUME DriverInv, AsWritten, AsWritten', [Next]_vars PROVE [Promised!Next]_Objects
    OBVIOUS
  <2>1. Stands
    BY DEF AsWritten, Stands
  <2> QED
    BY <2>1, StepIsPromised
<1> QED
  BY <1>1, <1>2, <1>3, DriverAlways, PTL DEF Spec, KeepsPromise, Promised!Spec, Objects
=============================================================================
