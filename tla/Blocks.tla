------------------------------- MODULE Blocks -------------------------------
(***************************************************************************)
(* The memory the allocators of src/malloclab work on: memlib.c's break,   *)
(* and the words, boundary tags and links that mm.c and the allocator kept *)
(* beside it (mm_exp.c) read and write through the same macros.            *)
(*                                                                         *)
(* A heap is a record: mem, an array of words (WSIZE bytes); brk, the      *)
(* first word not handed out yet; fl, the heads of the free lists; ok,     *)
(* FALSE once a consistency check of the allocator has ended the program.  *)
(* A block pointer bp is an even index; its header is the word before it,  *)
(* its footer the last word but one before the next block's payload.  A    *)
(* free block holds the link to the next free block in word bp and to the  *)
(* previous one in word bp + 2 (a link takes two words; the second is left *)
(* alone).  Sizes are in words.                                            *)
(***************************************************************************)
EXTENDS Integers, Sequences, FiniteSets, SequencesExt

CONSTANTS CHUNKSIZE,  \* words the heap grows by at least
          MAX_HEAP    \* words mem_sbrk() can give

\* The first chunk is a block of its own: it holds two links and two tags.
ASSUME BlocksAssumption == /\ CHUNKSIZE \in Nat /\ CHUNKSIZE >= 5
                           /\ MAX_HEAP \in Nat /\ MAX_HEAP >= 5 + CHUNKSIZE

NULL  == 0
DSIZE == 2
Lists == 0 .. 10
Even(n) == n + (n % 2)
Larger(a, b) == IF a > b THEN a ELSE b
Smaller(a, b) == IF a < b THEN a ELSE b

GET_SIZE(w)  == w - (w % 2)
GET_ALLOC(w) == w % 2
PUT(h, a, w) == [h EXCEPT !.mem[a] = w]

SizeOf(h, bp)    == GET_SIZE(h.mem[bp - 1])
Allocated(h, bp) == GET_ALLOC(h.mem[bp - 1]) = 1
NEXT_BLKP(h, bp) == bp + SizeOf(h, bp)
PREV_BLKP(h, bp) == bp - GET_SIZE(h.mem[bp - 2])
NEXT_FREE(h, bp) == h.mem[bp]
PREV_FREE(h, bp) == h.mem[bp + 2]
SET_NEXT(h, bp, p) == PUT(h, bp, p)
SET_PREV(h, bp, p) == PUT(h, bp + 2, p)

(* PUT(HDRP(bp), PACK(size, alloc)); PUT(FTRP(bp), PACK(size, alloc)) *)
Mark(h, bp, size, alloc) ==
  PUT(PUT(h, bp - 1, size + alloc), bp + size - DSIZE, size + alloc)

----------------------------------------------------------------------------
(* memlib.c *)

\* What a fresh or reused word holds: anything; no allocator may depend on it.
Junk == -99

(* mem_init(): the area is mapped and no word of it is handed out. *)
mem_init == [mem |-> [a \in 0 .. MAX_HEAP - 1 |-> Junk], brk |-> 0,
             fl |-> [k \in Lists |-> NULL], ok |-> TRUE]

(* mem_reset_brk(): the heap is empty again.  What it held stays there and *)
(* is Junk to the next user; the allocator's list heads stay as well.      *)
mem_reset_brk(h) == [h EXCEPT !.brk = 0, !.mem = [a \in DOMAIN @ |-> Junk]]

(* mem_sbrk() refuses to pass the end, and whenever sbrk() does (granted   *)
(* is FALSE).                                                              *)
mem_sbrk(h, size, granted) ==
  IF granted /\ h.brk + size <= MAX_HEAP
  THEN [got |-> TRUE, at |-> h.brk, h |-> [h EXCEPT !.brk = @ + size]]
  ELSE [got |-> FALSE, at |-> NULL, h |-> h]

----------------------------------------------------------------------------
(* The blocks, in the order of a walk from the prologue over the headers;  *)
(* the last one is the epilogue, of size 0, where the walk stays.  The     *)
(* bound on the walk is what fits in memory.                               *)
After(h, bp) == IF SizeOf(h, bp) <= 0 \/ NEXT_BLKP(h, bp) > h.brk THEN bp ELSE NEXT_BLKP(h, bp)

MaxBlocks == MAX_HEAP \div 6 + 3
Walk(h) == LET at[i \in 1 .. MaxBlocks] == IF i = 1 THEN DSIZE ELSE After(h, at[i - 1])
           IN  at

Blocks(h)     == Range(Walk(h))
Real(h)       == {bp \in Blocks(h) : bp # DSIZE /\ SizeOf(h, bp) > 0}
FreeBlocks(h) == {bp \in Real(h) : ~Allocated(h, bp)}

(* The blocks of free list k, from its head along the links: the node at   *)
(* each place the list has.                                                *)
Link(h, bp) == IF bp = NULL THEN NULL ELSE NEXT_FREE(h, bp)

Nodes(h, k) == LET node[i \in 1 .. MaxBlocks] == IF i = 1 THEN h.fl[k] ELSE Link(h, node[i - 1])
               IN  node

FreeList(h, k) == LET node == Nodes(h, k)
                  IN  [i \in {i \in 1 .. MaxBlocks : node[i] # NULL} |-> node[i]]

(* The places of all lists: pairs of a list and a place it has. *)
Places(h) == UNION {{k} \X DOMAIN FreeList(h, k) : k \in Lists}

(* The places of free list k with a block of asize words or more. *)
Fits(h, k, asize) == LET list == FreeList(h, k)
                     IN  {i \in DOMAIN list : asize <= SizeOf(h, list[i])}

(* checkblock() of mm_exp.c: aligned, header equal to footer, inside the   *)
(* heap, merged with a free neighbour.                                     *)
checkblock(h, bp) ==
  /\ bp % 2 = 0
  /\ h.mem[bp - 1] = h.mem[bp + SizeOf(h, bp) - DSIZE]
  /\ bp \in 0 .. h.brk - 1
  /\ SizeOf(h, NEXT_BLKP(h, bp)) > 0
       => Allocated(h, bp) \/ Allocated(h, NEXT_BLKP(h, bp))

(* What both checkers ask of the ends of the heap, and the blocks they     *)
(* visit between them, the prologue included.                              *)
EndsInOrder(h) ==
  /\ SizeOf(h, DSIZE) = DSIZE /\ Allocated(h, DSIZE)
  /\ LET e == Last(Walk(h)) IN SizeOf(h, e) = 0 /\ Allocated(h, e)

Visited(h) == {bp \in Blocks(h) : SizeOf(h, bp) > 0}
=============================================================================
