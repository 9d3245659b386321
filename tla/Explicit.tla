------------------------------ MODULE Explicit ------------------------------
(***************************************************************************)
(* The allocator of src/malloclab/mm_exp.c: one explicit free list, LIFO,  *)
(* searched for a fit among its first candidates, with a consistency check *)
(* of the heap after nearly every step, which ends the program when it     *)
(* fails (h.ok).  mm_safe_copy.c is the same allocator with best fit among *)
(* the candidates and without the checks.                                  *)
(***************************************************************************)
EXTENDS Blocks

CONSTANTS Candidates,  \* blocks that fit find_fit() looks at: 20, or 10 in mm_safe_copy.c
          BestFit      \* TRUE for mm_safe_copy.c

(* mm_checkheap(__LINE__): exit(1) when a block is out of order. *)
mm_checkheap(h) ==
  IF BestFit THEN h
  ELSE [h EXCEPT !.ok = /\ @ /\ EndsInOrder(h)
                        /\ \A bp \in Visited(h) : checkblock(h, bp)]

free_list(h) == h.fl[0]
SET_LIST(h, bp) == [h EXCEPT !.fl[0] = bp]

add_node(h, bp) ==
  LET h1 == IF free_list(h) # NULL THEN SET_PREV(h, free_list(h), bp) ELSE h
  IN  SET_LIST(SET_PREV(SET_NEXT(h1, bp, free_list(h)), bp, NULL), bp)

delete_node(h, bp) ==
  LET prev_free == PREV_FREE(h, bp)
      next_free == NEXT_FREE(h, bp)
      h1 == IF next_free # NULL THEN SET_PREV(h, next_free, prev_free) ELSE h
  IN  IF prev_free # NULL THEN SET_NEXT(h1, prev_free, next_free) ELSE SET_LIST(h1, next_free)

----------------------------------------------------------------------------
(* The four cases of coalesce(): the block joins its free neighbours,     *)
(* goes to the list, and the heap is checked.                              *)
Joined(h, at, size) == [bp |-> at, h |-> mm_checkheap(add_node(Mark(h, at, size, 0), at))]

Alone(h, bp) == [bp |-> bp, h |-> mm_checkheap(add_node(h, bp))]
WithNext(h, bp, next) ==
  Joined(delete_node(h, next), bp, SizeOf(h, bp) + SizeOf(h, next))
WithPrev(h, bp, prev) ==
  Joined(delete_node(h, prev), prev, SizeOf(h, bp) + SizeOf(h, prev))
WithBoth(h, bp, prev, next) ==
  Joined(delete_node(delete_node(h, prev), next), prev,
         SizeOf(h, bp) + SizeOf(h, prev) + SizeOf(h, next))

coalesce(h, bp) ==
  LET prev == PREV_BLKP(h, bp)
      next == NEXT_BLKP(h, bp)
  IN  CASE Allocated(h, prev) /\ Allocated(h, next)   -> Alone(h, bp)
        [] Allocated(h, prev) /\ ~Allocated(h, next)  -> WithNext(h, bp, next)
        [] ~Allocated(h, prev) /\ Allocated(h, next)  -> WithPrev(h, bp, prev)
        [] OTHER                                      -> WithBoth(h, bp, prev, next)

Extended(new, size) == IF ~new.got THEN [h |-> new.h, bp |-> NULL]
                       ELSE coalesce(PUT(Mark(new.h, new.at, size, 0), new.at + size - 1, 1), new.at)
extend_heap(h, words, granted) == Extended(mem_sbrk(h, Even(words), granted), Even(words))

place(h, bp, asize) ==
  LET csize == SizeOf(h, bp)
      h1 == delete_node(h, bp)
  IN  IF csize - asize < 3 * DSIZE THEN Mark(h1, bp, csize, 1)
      ELSE add_node(Mark(Mark(h1, bp, asize, 1), bp + asize, csize - asize, 0), bp + asize)

----------------------------------------------------------------------------
(* mm_exp.c never lowers min_diff, so the last candidate wins. *)
LastCandidate(h, fits) == Max(fits)

(* mm_safe_copy.c: the least difference, the first of several. *)
BestCandidate(h, fits) ==
  LET size(i) == SizeOf(h, FreeList(h, 0)[i])
  IN  CHOOSE i \in fits : \A k \in fits : size(i) < size(k) \/ (size(i) = size(k) /\ i <= k)

(* The places of the first Candidates blocks that fit. *)
CandidatePlaces(h, asize) ==
  {i \in Fits(h, 0, asize) : Cardinality({k \in Fits(h, 0, asize) : k < i}) < Candidates}

find_fit(h, asize) ==
  LET fits == CandidatePlaces(h, asize)
  IN  IF fits = {} THEN NULL
      ELSE FreeList(h, 0)[IF BestFit THEN BestCandidate(h, fits) ELSE LastCandidate(h, fits)]

Adjust(n) == IF n <= DSIZE THEN 3 * DSIZE ELSE DSIZE * ((n + DSIZE + DSIZE - 1) \div DSIZE)

Found(h, fit, asize, granted) == IF fit # NULL THEN [h |-> h, bp |-> fit]
                                 ELSE extend_heap(h, Larger(asize, CHUNKSIZE), granted)
Placed(x, asize) == IF x.bp = NULL THEN x ELSE [h |-> place(x.h, x.bp, asize), bp |-> x.bp]

mm_malloc(h, n, granted) ==
  LET asize == Adjust(n)
  IN  IF n = 0 THEN [h |-> h, bp |-> NULL]
      ELSE Placed(Found(h, find_fit(h, asize), asize, granted), asize)

mm_free(h, bp) ==
  IF bp = NULL THEN h
  ELSE mm_checkheap(coalesce(Mark(h, bp, SizeOf(h, bp), 0), bp).h)

memcpy(h, to, from, n) ==
  [h EXCEPT !.mem = [a \in DOMAIN @ |-> IF a \in to .. to + n - 1 THEN @[from + a - to] ELSE @[a]]]

Moved(x, bp, n) ==
  IF bp = NULL \/ x.bp = NULL THEN x
  ELSE [h |-> mm_free(memcpy(x.h, x.bp, bp, Smaller(n, SizeOf(x.h, bp))), bp), bp |-> x.bp]

mm_realloc(h, bp, n, granted) == IF n = 0 THEN [h |-> mm_free(h, bp), bp |-> NULL]
                                 ELSE Moved(mm_malloc(h, n, granted), bp, n)

mm_init(h, granted) ==
  LET new == mem_sbrk(h, 4, granted)
      h1 == PUT(PUT(Mark(new.h, 2, DSIZE, 1), 3, 1), 0, 0)
  IN  IF ~new.got THEN [h |-> h, bp |-> NULL]
      ELSE extend_heap(SET_LIST(h1, NULL), CHUNKSIZE, granted)
=============================================================================
