-------------------------------- MODULE Heap --------------------------------
(***************************************************************************)
(* The allocator of src/malloclab/mm.c: boundary tags, segregated LIFO     *)
(* free lists threaded through the free blocks, first fit, and immediate   *)
(* coalescing, down to the words it reads and writes.  The routines are    *)
(* operators from a heap to a heap; those that return a pointer too give   *)
(* [h, bp].                                                                *)
(***************************************************************************)
EXTENDS Blocks

(* fl_i takes blocks of up to 2^(i+4) + 8 bytes, fl_10 the rest. *)
get_list(size) == CHOOSE i \in Lists :
                    /\ i = 10 \/ 4 * size <= 2^(i + 4) + 8
                    /\ \A k \in 0 .. i - 1 : 4 * size > 2^(k + 4) + 8

add_node(h, bp) ==
  LET k == get_list(SizeOf(h, bp))
      first == h.fl[k]
      linked == IF first # NULL THEN SET_PREV(h, first, bp) ELSE h
  IN  [SET_PREV(SET_NEXT(linked, bp, first), bp, NULL) EXCEPT !.fl[k] = bp]

delete_node(h, bp) ==
  LET prev == PREV_FREE(h, bp)
      next == NEXT_FREE(h, bp)
      back == IF next # NULL THEN SET_PREV(h, next, prev) ELSE h
  IN  IF prev = NULL THEN [back EXCEPT !.fl[get_list(SizeOf(h, bp))] = next]
                     ELSE SET_NEXT(back, prev, next)

OneList(asize) == {get_list(asize)}  \* mutant: next_list() is not called

(* The lists find_fit() goes through: next_list() leads to the last one. *)
Searched(asize) == get_list(asize) .. 10

(* First fit: the first list that has a block large enough, and in it the  *)
(* first such block.                                                       *)
find_fit(h, asize) ==
  LET K == {k \in Searched(asize) : Fits(h, k, asize) # {}}
  IN  IF K = {} THEN NULL ELSE FreeList(h, Min(K))[Min(Fits(h, Min(K), asize))]

----------------------------------------------------------------------------
NeverMerged(h, bp) == FALSE  \* mutant: only the next block is merged
PrevIsFree(h, bp) == ~Allocated(h, PREV_BLKP(h, bp))
NextIsFree(h, bp) == ~Allocated(h, NEXT_BLKP(h, bp))

(* A neighbour that is free leaves its list and adds its size. *)
Unlink(h, bp, free) == IF free THEN delete_node(h, bp) ELSE h
Gain(h, bp, free)   == IF free THEN SizeOf(h, bp) ELSE 0
Joined(h, at, size) == [h |-> add_node(Mark(h, at, size, 0), at), bp |-> at]

(* The four cases in one.  The previous block is found through its footer. *)
coalesce(h, bp) ==
  LET prev == PREV_BLKP(h, bp)
      next == NEXT_BLKP(h, bp)
  IN  Joined(Unlink(Unlink(h, prev, PrevIsFree(h, bp)), next, NextIsFree(h, bp)),
             IF PrevIsFree(h, bp) THEN prev ELSE bp,
             SizeOf(h, bp) + Gain(h, prev, PrevIsFree(h, bp)) + Gain(h, next, NextIsFree(h, bp)))

(* The new block takes over the word of the epilogue as its header. *)
extend_heap(h, words, granted) ==
  LET size == Even(words)
      new == mem_sbrk(h, size, granted)
      h1 == Mark(new.h, new.at, size, 0)
  IN  IF ~new.got THEN [h |-> h, bp |-> NULL]
      ELSE coalesce(PUT(h1, new.at + size - 1, 1), new.at)

Splits(rest) == rest >= 3 * DSIZE

(* The remainder becomes a block when it is at least 3 * DSIZE. *)
place(h, bp, asize) ==
  LET csize == SizeOf(h, bp)
      h1 == delete_node(h, bp)
      rest == bp + asize
  IN  IF Splits(csize - asize)
      THEN add_node(Mark(Mark(h1, bp, asize, 1), rest, csize - asize, 0), rest)
      ELSE Mark(h1, bp, csize, 1)

----------------------------------------------------------------------------
(* The interface.  A request of n words is 4n bytes.                       *)

(* mm_init() starts with empty free lists. *)
NoLists(h) == [k \in Lists |-> NULL]

(* The alignment word, prologue, epilogue, empty lists, the first chunk.   *)
mm_init(h, granted) ==
  LET new == mem_sbrk(h, 4, granted)
      h1 == PUT(PUT(Mark(new.h, 2, DSIZE, 1), 3, 1), 0, 0)
  IN  IF ~new.got THEN [h |-> h, bp |-> NULL]
      ELSE extend_heap([h1 EXCEPT !.fl = NoLists(h)], CHUNKSIZE, granted)

\* mutant: no room for the tags
Untagged(n) == IF n <= DSIZE THEN 3 * DSIZE ELSE Even(n)

(* asize: 3 * DSIZE at least, else the payload and its two tags, aligned. *)
Adjust(n) == IF n <= DSIZE THEN 3 * DSIZE ELSE Even(n + DSIZE)

\* A free block that fits, or the one the heap grows by.
Found(h, fit, asize, granted) == IF fit # NULL THEN [h |-> h, bp |-> fit]
                                 ELSE extend_heap(h, Larger(asize, CHUNKSIZE), granted)

Placed(x, asize) == IF x.bp = NULL THEN x ELSE [h |-> place(x.h, x.bp, asize), bp |-> x.bp]

mm_malloc(h, n, granted) ==
  LET asize == Adjust(n)
  IN  IF n = 0 THEN [h |-> h, bp |-> NULL]
      ELSE Placed(Found(h, find_fit(h, asize), asize, granted), asize)

mm_free(h, bp) == IF bp = NULL THEN h ELSE coalesce(Mark(h, bp, SizeOf(h, bp), 0), bp).h

memcpy(h, to, from, n) ==
  [h EXCEPT !.mem = [a \in DOMAIN @ |-> IF a \in to .. to + n - 1 THEN @[from + a - to]
                                                                ELSE @[a]]]

(* The content moves to the new block x, if there is one: min(size, block  *)
(* size) bytes, tags included.                                             *)
Moved(x, bp, n) ==
  IF bp = NULL \/ x.bp = NULL THEN x
  ELSE [h |-> mm_free(memcpy(x.h, x.bp, bp, Smaller(n, SizeOf(x.h, bp))), bp), bp |-> x.bp]

mm_realloc(h, bp, n, granted) == IF n = 0 THEN [h |-> mm_free(h, bp), bp |-> NULL]
                                 ELSE Moved(mm_malloc(h, n, granted), bp, n)

----------------------------------------------------------------------------
(* The checker                                                             *)

(* checkblock() also wants the minimum size. *)
checksize(h, bp) == checkblock(h, bp) /\ (bp # DSIZE => SizeOf(h, bp) >= 3 * DSIZE)

(* Links agree both ways, list nodes are blocks in order, and there are as *)
(* many of them as free blocks.                                            *)
check_free(h, heap_free) ==
  /\ \A k \in Lists : \A i \in DOMAIN FreeList(h, k) :
        LET bp == FreeList(h, k)[i] IN
        /\ NEXT_FREE(h, bp) # NULL => PREV_FREE(h, NEXT_FREE(h, bp)) = bp
        /\ checksize(h, bp)
  /\ heap_free = Cardinality(Places(h))

mm_checkheap(h) == /\ EndsInOrder(h)
                   /\ \A bp \in Visited(h) : checksize(h, bp)
                   /\ check_free(h, Cardinality(FreeBlocks(h)))
=============================================================================
