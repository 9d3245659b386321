----------------------------- MODULE ProxyCache -----------------------------
(***************************************************************************)
(* The response cache of the proxy (src/proxylab/cache.c): a linked list   *)
(* of blocks, the memory their buffers live in, and total_size.            *)
(*                                                                         *)
(* Blocks are only ever added, at the head, and reused in place.  So the   *)
(* list is the sequence of its blocks from the tail to the head: a pointer *)
(* to a block is its index, cache is Len(blocks), next is the index below, *)
(* and NULL is 0.  Sizes are in buffers of MAXLINE bytes, and a buffer's   *)
(* content is the piece <<uri, k>> of the response strcpy() put there: the *)
(* piece response_buf held, which is the last one (proxy.c:150-161).       *)
(* strcpy() (cache.c:43, 85) is modelled as an exact copy of the piece.    *)
(* Nothing ends response_buf with a zero, so that in the program the copy  *)
(* is exact only for text followed by one.                                 *)
(***************************************************************************)
EXTENDS Integers, Sequences, FiniteSets

CONSTANTS Uris,            \* URIs parse() accepts; the keys of the cache
          Bufs,            \* addresses malloc() may return for a buffer
          MAX_CACHE_SIZE,
          MAX_OBJECT_SIZE

ASSUME CacheAssumption == /\ MAX_CACHE_SIZE \in Nat
                          /\ MAX_OBJECT_SIZE \in 0 .. MAX_CACHE_SIZE
                          /\ IsFiniteSet(Bufs)

VARIABLES blocks,      \* the cache_blocks, tail of the list first
          total_size,
          mem          \* content of each buffer, NoData when it is free

cachevars == <<blocks, total_size, mem>>

NoData  == <<"free", 0>>
Junk    == <<"junk", 0>>  \* what a buffer nothing was read into holds
Content == (Uris \cup {"free", "junk"}) \X Nat
NULL    == 0

CacheInit == blocks = <<>> /\ total_size = 0 /\ mem = [b \in Bufs |-> NoData]

FreeBufs == {b \in Bufs : mem[b] = NoData}
\* Buffers the cache can reach.  An evicted block's buf dangles for a while.
LiveBufs == {blocks[i].buf : i \in DOMAIN blocks}

----------------------------------------------------------------------------
(* cache_inquiry: the block nearest the head with this key. *)
Matching(uri) == {i \in DOMAIN blocks : blocks[i].key = uri}

Found(uri) == IF Matching(uri) = {} THEN NULL
              ELSE CHOOSE i \in Matching(uri) : \A k \in Matching(uri) : k <= i

SetUcount(i, n) == blocks' = [blocks EXCEPT ![i].ucount = n]

(* cache_insert while total_size + size <= MAX_CACHE_SIZE. *)
Fits(size) == total_size + size <= MAX_CACHE_SIZE

new_block(uri, data, size) ==
  \E b \in FreeBufs :
     /\ blocks' = Append(blocks, [key |-> uri, buf |-> b, size |-> size, ucount |-> 0])
     /\ mem' = [mem EXCEPT ![b] = data]
     /\ total_size' = total_size + size

(* Otherwise: the block with the greatest ucount, nearest the head. *)
Victim == CHOOSE i \in DOMAIN blocks :
            \A k \in DOMAIN blocks : \/ blocks[k].ucount < blocks[i].ucount
                                     \/ blocks[k].ucount = blocks[i].ucount /\ k <= i

\* mutant: the size of the evicted block stays counted
FreeUncounted(i) == /\ mem' = [mem EXCEPT ![blocks[i].buf] = NoData]
                    /\ UNCHANGED <<total_size, blocks>>

FreeVictim(i) ==
  /\ mem' = [mem EXCEPT ![blocks[i].buf] = NoData]
  /\ total_size' = total_size - blocks[i].size
  /\ UNCHANGED blocks

RefillVictim(i, uri, data) ==
  \E b \in FreeBufs :
     /\ blocks' = [blocks EXCEPT ![i].buf = b, ![i].key = uri]
     /\ mem' = [mem EXCEPT ![b] = data]
     /\ UNCHANGED total_size

ResizeVictim(i, size) ==
  /\ blocks' = [blocks EXCEPT ![i].size = size, ![i].ucount = 0]
  /\ total_size' = total_size + size
  /\ UNCHANGED mem

----------------------------------------------------------------------------
(* The sizes of the blocks of a list, added up. *)
SumOfSizes(list) ==
  LET upTo[n \in 0 .. Len(list)] == IF n = 0 THEN 0 ELSE upTo[n - 1] + list[n].size
  IN  upTo[Len(list)]

SizeSum == SumOfSizes(blocks)
=============================================================================
