---------------------------- MODULE BlocksProofs ----------------------------
(***************************************************************************)
(* The heap of Blocks in order, and what the allocators' steps do to it:   *)
(* tiles from prologue to epilogue, tags that agree, free blocks on doubly *)
(* linked lists by a class of their size, no two of them neighbours        *)
(* (src/malloclab/mm.c, mm_exp.c).  Coalesced, Grown, Taken, Released,     *)
(* Served and MovedFrom are coalesce(), extend_heap(), place(), mm_free(), *)
(* mm_malloc() and mm_realloc() for any class; MDriverProofs shows that    *)
(* the operators of Heap and Explicit are these.                           *)
(***************************************************************************)
EXTENDS Blocks, FiniteSetTheorems, WellFoundedInduction, TLAPS

----------------------------------------------------------------------------
(* Blocks and their tags                                                   *)

Addr == 0 .. MAX_HEAP - 1
HeapType == [mem : [Addr -> Int], brk : 0 .. MAX_HEAP, fl : [Lists -> Int], ok : BOOLEAN]

(* The blocks B of sizes sz lie one after the other from the prologue to   *)
(* the epilogue at brk.                                                    *)
Tiled(B, sz, brk) ==
  /\ brk \in 4 .. MAX_HEAP
  /\ B \subseteq 2 .. brk /\ 2 \in B /\ brk \in B
  /\ sz \in [B -> Nat] /\ sz[2] = 2 /\ sz[brk] = 0
  /\ \A b \in B : b % 2 = 0 /\ sz[b] % 2 = 0
  /\ \A b \in B \ {2, brk} : sz[b] >= 6
  /\ \A b \in B \ {brk} : b + sz[b] \in B
  /\ \A b, d \in B : b < d => b + sz[b] <= d
  /\ \A d \in B \ {2} : \E b \in B \ {brk} : b + sz[b] = d

(* Header and footer of each block hold its size and whether it is taken.  *)
Tagged(mem, B, sz, al, brk) ==
  /\ al \in [B -> {0, 1}] /\ al[2] = 1 /\ al[brk] = 1
  /\ \A b \in B : mem[b - 1] = sz[b] + al[b]
  /\ \A b \in B \ {brk} : mem[b + sz[b] - 2] = sz[b] + al[b]

(* The blocks F are doubly linked, each at its place pos on list cl[b].    *)
Linked(mem, fl, F, cl, pos) ==
  /\ pos \in [F -> Nat \ {0}]
  /\ \A b \in F : mem[b] # 0 => /\ mem[b] \in F /\ cl[mem[b]] = cl[b]
                                /\ mem[mem[b] + 2] = b
                                /\ pos[mem[b]] = pos[b] + 1
  /\ \A b \in F : mem[b + 2] # 0 => /\ mem[b + 2] \in F /\ cl[mem[b + 2]] = cl[b]
                                    /\ mem[mem[b + 2]] = b
  /\ \A b \in F : mem[b + 2] = 0 <=> fl[cl[b]] = b
  /\ \A b \in F : mem[b + 2] = 0 <=> pos[b] = 1
  /\ \A k \in Lists : fl[k] # 0 => fl[k] \in F /\ cl[fl[k]] = k
  /\ \A b, d \in F : cl[b] = cl[d] /\ pos[b] = pos[d] => b = d

\* PUT(): one word changes.
LEMMA PutIs ==
  ASSUME NEW h \in HeapType, NEW a \in Addr, NEW w \in Int
  PROVE  /\ PUT(h, a, w) \in HeapType
         /\ PUT(h, a, w).mem = [h.mem EXCEPT ![a] = w]
         /\ PUT(h, a, w).brk = h.brk
         /\ PUT(h, a, w).fl = h.fl
         /\ PUT(h, a, w).ok = h.ok
  BY DEF PUT, HeapType

\* A header and a footer are written, and nothing else.
LEMMA MarkIs ==
  ASSUME NEW h \in HeapType, NEW b \in Int, NEW n \in Int, NEW a \in {0, 1},
         b - 1 \in Addr, b + n - 2 \in Addr
  PROVE  /\ Mark(h, b, n, a) \in HeapType
         /\ \A x \in Addr : Mark(h, b, n, a).mem[x] = IF x \in {b - 1, b + n - 2} THEN n + a ELSE h.mem[x]
         /\ Mark(h, b, n, a).brk = h.brk
         /\ Mark(h, b, n, a).fl = h.fl
         /\ Mark(h, b, n, a).ok = h.ok
<1> DEFINE h1 == PUT(h, b - 1, n + a)
<1>1. n + a \in Int
  OBVIOUS
<1>2. /\ h1 \in HeapType /\ h1.mem = [h.mem EXCEPT ![b - 1] = n + a]
      /\ h1.brk = h.brk /\ h1.fl = h.fl /\ h1.ok = h.ok
  BY <1>1, PutIs
<1> HIDE DEF h1
<1> DEFINE h2 == PUT(h1, b + n - 2, n + a)
<1>3. /\ h2 \in HeapType /\ h2.mem = [h1.mem EXCEPT ![b + n - 2] = n + a]
      /\ h2.brk = h1.brk /\ h2.fl = h1.fl /\ h2.ok = h1.ok
  BY <1>1, <1>2, PutIs
<1>4. h2 = Mark(h, b, n, a)
  BY DEF h1, h2, Mark, DSIZE
<1> HIDE DEF h2
<1>5. h.mem \in [Addr -> Int] /\ h1.mem \in [Addr -> Int]
  BY <1>2 DEF HeapType
<1>6. \A x \in Addr : h2.mem[x] = IF x \in {b - 1, b + n - 2} THEN n + a ELSE h.mem[x]
  BY <1>2, <1>3, <1>5
<1> QED
  BY <1>2, <1>3, <1>4, <1>6

\* GET_SIZE() and GET_ALLOC() read back what PACK() put together.
LEMMA PackedWord ==
  ASSUME NEW n \in Nat, n % 2 = 0, NEW a \in {0, 1}
  PROVE  GET_SIZE(n + a) = n /\ GET_ALLOC(n + a) = a
  BY DEF GET_SIZE, GET_ALLOC

----------------------------------------------------------------------------
(* Linked lists                                                            *)

(* The links of F: forward, backward, the ends, and the places. *)
LEMMA LinkedParts ==
  ASSUME NEW m, NEW fl, NEW F, NEW cl, NEW pos, Linked(m, fl, F, cl, pos), NEW d \in F
  PROVE  /\ pos[d] \in Nat \ {0}
         /\ m[d] # 0 => m[d] \in F /\ cl[m[d]] = cl[d] /\ m[m[d] + 2] = d /\ pos[m[d]] = pos[d] + 1
         /\ m[d + 2] # 0 => m[d + 2] \in F /\ cl[m[d + 2]] = cl[d] /\ m[m[d + 2]] = d
         /\ m[d + 2] = 0 <=> fl[cl[d]] = d
         /\ m[d + 2] = 0 <=> pos[d] = 1
  BY DEF Linked

\* The head of a list is one of its blocks.
LEMMA LinkedHeads ==
  ASSUME NEW m, NEW fl, NEW F, NEW cl, NEW pos, Linked(m, fl, F, cl, pos), NEW k \in Lists, fl[k] # 0
  PROVE  fl[k] \in F /\ cl[fl[k]] = k
  BY DEF Linked

\* A place on a list holds one block.
LEMMA LinkedPlaces ==
  ASSUME NEW m, NEW fl, NEW F, NEW cl, NEW pos, Linked(m, fl, F, cl, pos),
         NEW d \in F, NEW e \in F, cl[d] = cl[e], pos[d] = pos[e]
  PROVE  d = e
  BY DEF Linked

(* F is linked into lists; at which place each block is does not matter.   *)
Chained(m, fl, F, cl) == \E pos : Linked(m, fl, F, cl, pos)

(* The block b was put in front of its list.                               *)
Inserted(F, b, cl, m, fl, m1, fl1) ==
  /\ b # 0 /\ b \notin F /\ 0 \notin F
  /\ \A d \in F \cup {b} : cl[d] \in Lists
  /\ \A o \in Lists : fl1[o] = IF o = cl[b] THEN b ELSE fl[o]
  /\ m1[b] = fl[cl[b]] /\ m1[b + 2] = 0
  /\ \A d \in F : m1[d] = m[d] /\ m1[d + 2] = IF d = fl[cl[b]] THEN b ELSE m[d + 2]

(* The block b was taken out of its list.                                  *)
Removed(F, b, cl, m, fl, m1, fl1) ==
  /\ b \in F /\ 0 \notin F
  /\ \A d \in F : cl[d] \in Lists
  /\ \A o \in Lists : fl1[o] = IF o = cl[b] /\ m[b + 2] = 0 THEN m[b] ELSE fl[o]
  /\ \A d \in F \ {b} : m1[d] = IF d = m[b + 2] THEN m[b] ELSE m[d]
  /\ \A d \in F \ {b} : m1[d + 2] = IF d = m[b] THEN m[b + 2] ELSE m[d + 2]

\* A block put at the head of its list leaves all lists linked.
LEMMA ChainedFirst ==
  ASSUME NEW F, NEW b, NEW cl, NEW m, NEW fl, NEW m1, NEW fl1,
         Chained(m, fl, F, cl), Inserted(F, b, cl, m, fl, m1, fl1)
  PROVE  Chained(m1, fl1, F \cup {b}, cl)
<1> DEFINE k == cl[b]
<1>p. PICK pos : Linked(m, fl, F, cl, pos)
  BY DEF Chained
<1>0. b # 0 /\ b \notin F /\ 0 \notin F
  BY DEF Inserted
<1>a. cl[b] = k /\ k \in Lists /\ \A d \in F : cl[d] \in Lists
  BY DEF Inserted
<1>b. \A o \in Lists : fl1[o] = IF o = k THEN b ELSE fl[o]
  BY DEF Inserted
<1>c. m1[b] = fl[k] /\ m1[b + 2] = 0
  BY DEF Inserted
<1>d. \A d \in F : m1[d] = m[d] /\ m1[d + 2] = IF d = fl[k] THEN b ELSE m[d + 2]
  BY DEF Inserted
<1> HIDE DEF k
<1> USE <1>p, <1>0, <1>a, <1>b, <1>c, <1>d
<1> DEFINE q == [d \in F \cup {b} |-> IF d = b THEN 1 ELSE IF cl[d] = k THEN pos[d] + 1 ELSE pos[d]]
<1> DEFINE G == F \cup {b}
<1>1. /\ DOMAIN q = G /\ q = [d \in G |-> q[d]] /\ q[b] = 1
      /\ \A d \in F : q[d] = IF cl[d] = k THEN pos[d] + 1 ELSE pos[d]
  OBVIOUS
<1> HIDE DEF q
<1>2. q \in [G -> Nat \ {0}]
  <2>1. ASSUME NEW d \in F PROVE q[d] \in Nat \ {0}
    <3>1. pos[d] \in Nat \ {0}
      BY LinkedParts
    <3> QED
      BY <1>1, <3>1
  <2> QED
    BY <1>1, <2>1
<1>5. ASSUME NEW d \in G, m1[d] # 0
      PROVE  m1[d] \in G /\ cl[m1[d]] = cl[d] /\ m1[m1[d] + 2] = d /\ q[m1[d]] = q[d] + 1
  <2>1. CASE d = b
    <3>1. fl[k] \in F /\ cl[fl[k]] = k
      BY <2>1, <1>5, LinkedHeads
    <3>2. m[fl[k] + 2] = 0 /\ pos[fl[k]] = 1
      BY <3>1, LinkedParts
    <3> QED
      BY <2>1, <3>1, <3>2, <1>1
  <2>2. CASE d # b
    <3>1. d \in F /\ m1[d] = m[d] /\ pos[d] \in Nat \ {0}
      BY <2>2, LinkedParts
    <3>2. m[d] \in F /\ cl[m[d]] = cl[d] /\ m[m[d] + 2] = d /\ pos[m[d]] = pos[d] + 1
      BY <1>5, <3>1, LinkedParts
    <3>3. m[d] # fl[k]
      <4>1. SUFFICES ASSUME m[d] = fl[k] PROVE FALSE
        OBVIOUS
      <4>2. cl[fl[k]] = k
        BY <4>1, <3>1, <1>5, LinkedHeads
      <4>3. m[m[d] + 2] = 0
        BY <4>1, <4>2, <3>2, LinkedParts
      <4> QED
        BY <4>3, <3>2, <3>1
    <3>4. m1[m[d] + 2] = d
      BY <3>2, <3>3
    <3>5. q[m[d]] = q[d] + 1
      BY <3>1, <3>2, <1>1
    <3> QED
      BY <3>1, <3>2, <3>4, <3>5
  <2> QED
    BY <2>1, <2>2
<1>6. ASSUME NEW d \in G, m1[d + 2] # 0
      PROVE  m1[d + 2] \in G /\ cl[m1[d + 2]] = cl[d] /\ m1[m1[d + 2]] = d
  <2>1. d \in F
    BY <1>6
  <2>2. CASE d = fl[k]
    BY <2>1, <2>2, LinkedHeads
  <2>3. CASE d # fl[k]
    <3>1. m1[d + 2] = m[d + 2]
      BY <2>1, <2>3
    <3>2. m[d + 2] \in F /\ cl[m[d + 2]] = cl[d] /\ m[m[d + 2]] = d
      BY <2>1, <3>1, <1>6, LinkedParts
    <3> QED
      BY <3>1, <3>2
  <2> QED
    BY <2>2, <2>3
<1>7. ASSUME NEW d \in G
      PROVE  (m1[d + 2] = 0 <=> fl1[cl[d]] = d) /\ (m1[d + 2] = 0 <=> q[d] = 1)
  <2>1. CASE d = b
    BY <2>1, <1>1
  <2>2. CASE d # b /\ cl[d] = k
    <3>1. /\ d \in F /\ pos[d] \in Nat \ {0}
          /\ m[d + 2] = 0 <=> fl[cl[d]] = d
      BY <2>2, LinkedParts
    <3>2. m1[d + 2] # 0
      BY <2>2, <3>1
    <3>3. q[d] = pos[d] + 1 /\ fl1[cl[d]] = b
      BY <2>2, <3>1, <1>1
    <3>4. q[d] # 1
      BY <3>1, <3>3
    <3> QED
      BY <2>2, <3>2, <3>3, <3>4
  <2>3. CASE cl[d] # k
    <3>1. d \in F
      BY <2>3
    <3>2. /\ m[d + 2] = 0 <=> fl[cl[d]] = d
          /\ m[d + 2] = 0 <=> pos[d] = 1
      BY <3>1, LinkedParts
    <3>3. d # fl[k]
      <4>1. SUFFICES ASSUME d = fl[k] PROVE FALSE
        OBVIOUS
      <4>2. fl[k] # 0
        BY <4>1, <3>1
      <4> QED
        BY <4>1, <4>2, <2>3, LinkedHeads
    <3>4. m1[d + 2] = m[d + 2] /\ q[d] = pos[d] /\ fl1[cl[d]] = fl[cl[d]]
      BY <2>3, <3>1, <3>3, <1>1
    <3> QED
      BY <3>2, <3>4
  <2> QED
    BY <2>1, <2>2, <2>3
<1>8. ASSUME NEW o \in Lists, fl1[o] # 0 PROVE fl1[o] \in G /\ cl[fl1[o]] = o
  BY <1>8, LinkedHeads
<1>9. ASSUME NEW d \in G, NEW e \in G, cl[d] = cl[e], q[d] = q[e] PROVE d = e
  <2>1. \A x \in F : pos[x] \in Nat \ {0}
    BY LinkedParts
  <2>2. CASE d \in F /\ e \in F
    <3>1. pos[d] \in Nat \ {0} /\ pos[e] \in Nat \ {0}
      BY <2>1, <2>2
    <3>2. pos[d] = pos[e]
      BY <3>1, <2>2, <1>1, <1>9
    <3> QED
      BY <2>2, <3>2, <1>9, LinkedPlaces
  <2>3. ASSUME NEW x \in F, cl[x] = k PROVE q[x] # 1
    BY <2>1, <2>3, <1>1
  <2> QED
    BY <2>2, <2>3, <1>1, <1>9
<1> HIDE DEF G
<1> USE DEF G
<1> QED
  BY <1>2, <1>5, <1>6, <1>7, <1>8, <1>9 DEF Linked, Chained

\* A block taken out, from whatever place, leaves all lists linked.
LEMMA ChainedWithout ==
  ASSUME NEW F, NEW b, NEW cl, NEW m, NEW fl, NEW m1, NEW fl1,
         Chained(m, fl, F, cl), Removed(F, b, cl, m, fl, m1, fl1)
  PROVE  Chained(m1, fl1, F \ {b}, cl)
<1>q. PICK pos : Linked(m, fl, F, cl, pos)
  BY DEF Chained
<1>0. b \in F /\ 0 \notin F
  BY DEF Removed
<1>a. \A d \in F : cl[d] \in Lists
  BY DEF Removed
<1>b. \A o \in Lists : fl1[o] = IF o = cl[b] /\ m[b + 2] = 0 THEN m[b] ELSE fl[o]
  BY DEF Removed
<1>c. \A d \in F \ {b} : /\ m1[d] = IF d = m[b + 2] THEN m[b] ELSE m[d]
                         /\ m1[d + 2] = IF d = m[b] THEN m[b + 2] ELSE m[d + 2]
  BY DEF Removed
<1> USE <1>q, <1>0, <1>a, <1>b, <1>c
<1> DEFINE k == cl[b]
<1> DEFINE q == [d \in F \ {b} |-> IF cl[d] = k /\ pos[d] > pos[b] THEN pos[d] - 1 ELSE pos[d]]
<1> DEFINE G == F \ {b}
<1>1. DOMAIN q = G /\ q = [d \in G |-> q[d]]
  OBVIOUS
<1>2. ASSUME NEW d \in F PROVE pos[d] \in Nat \ {0}
  BY LinkedParts
<1>3. \A d \in G : q[d] = IF cl[d] = k /\ pos[d] > pos[b] THEN pos[d] - 1 ELSE pos[d]
  OBVIOUS
<1> HIDE DEF q
<1>4. q \in [G -> Nat \ {0}]
  <2>1. ASSUME NEW d \in G PROVE q[d] \in Nat \ {0}
    <3>1. pos[d] \in Nat \ {0} /\ pos[b] \in Nat \ {0}
      BY <1>2
    <3> QED
      BY <3>1, <1>3
  <2> QED
    BY <2>1, <1>1
<1>5. k \in Lists /\ \A o \in Lists : fl1[o] = IF o = k /\ m[b + 2] = 0 THEN m[b] ELSE fl[o]
  OBVIOUS
<1>6. ASSUME NEW d \in G, cl[d] = k PROVE pos[d] # pos[b]
  BY <1>6, LinkedPlaces
<1>n. m[b] # 0 => m[b] \in G /\ cl[m[b]] = k /\ m[m[b] + 2] = b /\ pos[m[b]] = pos[b] + 1
  <2>1. m[b] # 0 => m[b] \in F /\ cl[m[b]] = k /\ m[m[b] + 2] = b /\ pos[m[b]] = pos[b] + 1
    BY LinkedParts
  <2>2. pos[b] \in Nat
    BY <1>2
  <2> QED
    BY <2>1, <2>2
<1>p. m[b + 2] # 0 => m[b + 2] \in G /\ cl[m[b + 2]] = k /\ m[m[b + 2]] = b /\ pos[b] = pos[m[b + 2]] + 1
  <2>1. m[b + 2] # 0 => m[b + 2] \in F /\ cl[m[b + 2]] = k /\ m[m[b + 2]] = b
    BY LinkedParts
  <2>2. ASSUME m[b + 2] # 0 PROVE pos[b] = pos[m[b + 2]] + 1
    <3>1. m[b + 2] \in F /\ m[m[b + 2]] = b /\ b # 0
      BY <2>1, <2>2
    <3> QED
      BY <3>1, LinkedParts
  <2>3. pos[b] \in Nat
    BY <1>2
  <2> QED
    BY <2>1, <2>2, <2>3
<1>e. (m[b + 2] = 0 <=> fl[k] = b) /\ (m[b + 2] = 0 <=> pos[b] = 1)
  BY LinkedParts
<1> HIDE DEF k
<1>7. ASSUME NEW d \in G, m1[d] # 0
      PROVE  m1[d] \in G /\ cl[m1[d]] = cl[d] /\ m1[m1[d] + 2] = d /\ q[m1[d]] = q[d] + 1
  <2>1. CASE d = m[b + 2]
    <3>1. m1[d] = m[b] /\ m[b] # 0 /\ d # 0
      BY <2>1, <1>7
    <3>2. m[b] \in G /\ cl[m[b]] = k /\ pos[m[b]] = pos[b] + 1
      BY <3>1, <1>n
    <3>3. cl[d] = k /\ pos[b] = pos[d] + 1
      BY <2>1, <3>1, <1>p
    <3>4. pos[d] \in Nat /\ pos[b] \in Nat
      BY <1>2
    <3>5. m1[m[b] + 2] = m[b + 2]
      BY <3>2
    <3>6. q[m[b]] = pos[b] /\ q[d] = pos[d]
      BY <3>2, <3>3, <3>4, <1>3
    <3> QED
      BY <2>1, <3>1, <3>2, <3>3, <3>5, <3>6
  <2>2. CASE d # m[b + 2]
    <3>1. m1[d] = m[d] /\ m[d] # 0
      BY <2>2, <1>7
    <3>2. m[d] \in F /\ cl[m[d]] = cl[d] /\ m[m[d] + 2] = d /\ pos[m[d]] = pos[d] + 1
      BY <3>1, LinkedParts
    <3>3. m[d] # b
      BY <2>2, <3>2
    <3>4. m[d] # m[b]
      BY <3>1, <3>2, <1>n
    <3>5. m1[m[d] + 2] = d
      BY <3>2, <3>3, <3>4
    <3>6. pos[d] \in Nat /\ pos[b] \in Nat /\ pos[m[d]] \in Nat
      BY <3>2, <1>2
    <3>7. CASE cl[d] = k
      <4>1. pos[d] # pos[b] /\ pos[m[d]] # pos[b]
        BY <3>2, <3>3, <3>7, <1>6
      <4>2. q[m[d]] = q[d] + 1
        BY <4>1, <3>2, <3>3, <3>6, <3>7, <1>3
      <4> QED
        BY <4>2, <3>1, <3>2, <3>3, <3>5
    <3>8. CASE cl[d] # k
      <4>1. q[m[d]] = pos[m[d]] /\ q[d] = pos[d]
        BY <3>2, <3>3, <3>8, <1>3
      <4> QED
        BY <4>1, <3>1, <3>2, <3>3, <3>5
    <3> QED
      BY <3>7, <3>8
  <2> QED
    BY <2>1, <2>2
<1>8. ASSUME NEW d \in G, m1[d + 2] # 0
      PROVE  m1[d + 2] \in G /\ cl[m1[d + 2]] = cl[d] /\ m1[m1[d + 2]] = d
  <2>1. CASE d = m[b]
    <3>1. m1[d + 2] = m[b + 2] /\ m[b + 2] # 0 /\ m[b] # 0
      BY <2>1, <1>8
    <3>2. m[b + 2] \in G /\ cl[m[b + 2]] = k /\ cl[m[b]] = k
      BY <3>1, <1>n, <1>p
    <3>3. m1[m[b + 2]] = m[b]
      BY <3>2
    <3> QED
      BY <2>1, <3>1, <3>2, <3>3
  <2>2. CASE d # m[b]
    <3>1. m1[d + 2] = m[d + 2]
      BY <2>2
    <3>2. m[d + 2] \in F /\ cl[m[d + 2]] = cl[d] /\ m[m[d + 2]] = d
      BY <3>1, <1>8, LinkedParts
    <3>3. m[d + 2] # b
      BY <2>2, <3>2
    <3>4. m[d + 2] # m[b + 2]
      BY <3>1, <3>2, <1>8, <1>p
    <3>5. m1[m[d + 2]] = m[m[d + 2]]
      BY <3>2, <3>3, <3>4
    <3> QED
      BY <3>1, <3>2, <3>3, <3>5
  <2> QED
    BY <2>1, <2>2
<1>9. ASSUME NEW d \in G
      PROVE  (m1[d + 2] = 0 <=> fl1[cl[d]] = d) /\ (m1[d + 2] = 0 <=> q[d] = 1)
  <2>0. pos[d] \in Nat \ {0} /\ pos[b] \in Nat \ {0}
    BY <1>2
  <2>e. (m[d + 2] = 0 <=> fl[cl[d]] = d) /\ (m[d + 2] = 0 <=> pos[d] = 1) /\ cl[d] \in Lists
    BY LinkedParts
  <2>1. CASE d = m[b]
    <3>1. m1[d + 2] = m[b + 2] /\ cl[d] = k /\ m[d + 2] = b /\ pos[d] = pos[b] + 1
      BY <2>1, <1>n
    <3>2. fl[k] # d
      BY <3>1, <2>e
    <3>3. q[d] = pos[b]
      BY <3>1, <2>0, <1>3
    <3> QED
      BY <2>1, <3>1, <3>2, <3>3, <1>e, <1>5
  <2>2. CASE d # m[b]
    <3>1. m1[d + 2] = m[d + 2]
      BY <2>2
    <3>2. CASE cl[d] = k /\ m[b + 2] = 0
      <4>1. fl[k] = b /\ pos[b] = 1
        BY <3>2, <1>e
      <4>2. m[d + 2] # 0 /\ pos[d] # 1
        BY <3>2, <4>1, <2>e
      <4>3. fl1[cl[d]] = m[b]
        BY <3>2, <1>5
      <4>4. q[d] = pos[d] - 1
        BY <3>2, <4>1, <4>2, <2>0, <1>3
      <4>5. pos[d] # 2
        <5>1. SUFFICES ASSUME pos[d] = 2 PROVE FALSE
          OBVIOUS
        <5>2. m[d + 2] \in F /\ cl[m[d + 2]] = k /\ m[m[d + 2]] = d
          BY <4>2, <3>2, LinkedParts
        <5>3. pos[d] = pos[m[d + 2]] + 1 /\ pos[m[d + 2]] \in Nat
          <6>1. m[m[d + 2]] # 0
            BY <5>2
          <6> QED
            BY <5>2, <6>1, LinkedParts
        <5>4. pos[m[d + 2]] = pos[b]
          BY <5>1, <5>3, <4>1
        <5>5. m[d + 2] = b
          BY <5>2, <5>4, LinkedPlaces DEF k
        <5> QED
          BY <5>2, <5>5, <2>2
      <4> QED
        BY <3>1, <4>2, <4>3, <4>4, <4>5, <2>0, <2>2
    <3>3. CASE cl[d] = k /\ m[b + 2] # 0
      <4>1. fl1[cl[d]] = fl[k]
        BY <3>3, <1>5
      <4>2. pos[b] # 1
        BY <3>3, <1>e
      <4>3. pos[d] # pos[b]
        BY <3>3, <1>6
      <4>4. q[d] = 1 <=> pos[d] = 1
        BY <3>3, <4>2, <4>3, <2>0, <1>3
      <4> QED
        BY <3>1, <3>3, <4>1, <4>4, <2>e
    <3>4. CASE cl[d] # k
      <4>1. fl1[cl[d]] = fl[cl[d]] /\ q[d] = pos[d]
        BY <3>4, <2>e, <1>5, <1>3
      <4> QED
        BY <3>1, <4>1, <2>e
    <3> QED
      BY <3>2, <3>3, <3>4
  <2> QED
    BY <2>1, <2>2
<1>10. ASSUME NEW o \in Lists, fl1[o] # 0 PROVE fl1[o] \in G /\ cl[fl1[o]] = o
  <2>1. CASE o = k /\ m[b + 2] = 0
    BY <2>1, <1>10, <1>5, <1>n
  <2>2. CASE ~(o = k /\ m[b + 2] = 0)
    <3>1. fl1[o] = fl[o]
      BY <2>2, <1>5
    <3>2. fl[o] \in F /\ cl[fl[o]] = o
      BY <3>1, <1>10, LinkedHeads
    <3>3. fl[o] # b
      BY <3>2, <2>2, <1>e DEF k
    <3> QED
      BY <3>1, <3>2, <3>3
  <2> QED
    BY <2>1, <2>2
<1>11. ASSUME NEW d \in G, NEW e \in G, cl[d] = cl[e], q[d] = q[e] PROVE d = e
  <2>0. pos[d] \in Nat \ {0} /\ pos[e] \in Nat \ {0} /\ pos[b] \in Nat \ {0}
    BY <1>2
  <2>1. CASE cl[d] = k
    <3>1. pos[d] # pos[b] /\ pos[e] # pos[b]
      BY <2>1, <1>6, <1>11
    <3>2. pos[d] = pos[e]
      BY <3>1, <2>0, <2>1, <1>3, <1>11
    <3> QED
      BY <3>2, <1>11, LinkedPlaces
  <2>2. CASE cl[d] # k
    <3>1. pos[d] = pos[e]
      BY <2>2, <1>3, <1>11
    <3> QED
      BY <3>1, <1>11, LinkedPlaces
  <2> QED
    BY <2>1, <2>2
<1> QED
  BY <1>4, <1>7, <1>8, <1>9, <1>10, <1>11 DEF Linked, Chained

\* The lists stay linked when no link word and no class changes.
LEMMA ChainedSame ==
  ASSUME NEW F, NEW m, NEW m1, NEW fl, NEW fl1, NEW cl, NEW cl1, Chained(m, fl, F, cl),
         \A o \in Lists : fl1[o] = fl[o], \A d \in F : cl1[d] = cl[d] /\ cl[d] \in Lists,
         \A d \in F : m1[d] = m[d] /\ m1[d + 2] = m[d + 2]
  PROVE  Chained(m1, fl1, F, cl1)
<1>1. PICK pos : Linked(m, fl, F, cl, pos)
  BY DEF Chained
<1>2. pos \in [F -> Nat \ {0}]
  BY <1>1 DEF Linked
<1>3. ASSUME NEW d \in F
      PROVE  /\ m1[d] # 0 => m1[d] \in F /\ cl1[m1[d]] = cl1[d] /\ m1[m1[d] + 2] = d /\ pos[m1[d]] = pos[d] + 1
             /\ m1[d + 2] # 0 => m1[d + 2] \in F /\ cl1[m1[d + 2]] = cl1[d] /\ m1[m1[d + 2]] = d
             /\ m1[d + 2] = 0 <=> pos[d] = 1
  BY <1>1, LinkedParts
<1>4. ASSUME NEW d \in F PROVE m1[d + 2] = 0 <=> fl1[cl1[d]] = d
  BY <1>1, <1>4, LinkedParts
<1>5. ASSUME NEW k \in Lists, fl1[k] # 0 PROVE fl1[k] \in F /\ cl1[fl1[k]] = k
  BY <1>1, <1>5, LinkedHeads
<1>6. ASSUME NEW d \in F, NEW e \in F, cl1[d] = cl1[e], pos[d] = pos[e] PROVE d = e
  BY <1>1, <1>6, LinkedPlaces
<1> QED
  BY <1>1, <1>2, <1>3, <1>4, <1>5, <1>6 DEF Linked, Chained

----------------------------------------------------------------------------
(* The words of add_node() and delete_node()                               *)

Class(c, sz) == [b \in DOMAIN sz |-> c[sz[b]]]
Classes == [Nat -> Lists]

(* The heap h is tiled by B, and the free blocks F are on their lists.     *)
Rep(h, c, B, sz, al, F) ==
  /\ h \in HeapType
  /\ Tiled(B, sz, h.brk)
  /\ Tagged(h.mem, B, sz, al, h.brk)
  /\ F \subseteq {b \in B : al[b] = 0}
  /\ Chained(h.mem, h.fl, F, Class(c, sz))

Add(h, b, k) ==
  LET first == h.fl[k]
      linked == IF first # NULL THEN SET_PREV(h, first, b) ELSE h
  IN  [SET_PREV(SET_NEXT(linked, b, first), b, NULL) EXCEPT !.fl[k] = b]

Del(h, b, k) ==
  LET prev == PREV_FREE(h, b)
      next == NEXT_FREE(h, b)
      back == IF next # NULL THEN SET_PREV(h, next, prev) ELSE h
  IN  IF prev = NULL THEN [back EXCEPT !.fl[k] = next] ELSE SET_NEXT(back, prev, next)

\* The payload of a block at b of n words is the same in two heaps.
Kept(h, h1, b, n) == \A a \in b .. b + n - 3 : h1.mem[a] = h.mem[a]

\* One list head is assigned.
LEMMA SetHead ==
  ASSUME NEW h \in HeapType, NEW k \in Lists, NEW w \in Int
  PROVE  LET g == [h EXCEPT !.fl[k] = w] IN
         /\ g \in HeapType
         /\ g.mem = h.mem /\ g.brk = h.brk /\ g.ok = h.ok
         /\ \A o \in Lists : g.fl[o] = IF o = k THEN w ELSE h.fl[o]
  BY DEF HeapType

\* The words add_node() writes.
LEMMA AddIs ==
  ASSUME NEW h \in HeapType, NEW k \in Lists, NEW b \in Addr, b + 2 \in Addr,
         h.fl[k] # 0 => h.fl[k] + 2 \in Addr
  PROVE  /\ Add(h, b, k) \in HeapType
         /\ Add(h, b, k).brk = h.brk /\ Add(h, b, k).ok = h.ok
         /\ \A o \in Lists : Add(h, b, k).fl[o] = IF o = k THEN b ELSE h.fl[o]
         /\ \A x \in Addr : Add(h, b, k).mem[x] = IF x = b + 2 THEN 0
                                                  ELSE IF x = b THEN h.fl[k]
                                                  ELSE IF h.fl[k] # 0 /\ x = h.fl[k] + 2 THEN b
                                                  ELSE h.mem[x]
<1> DEFINE f == h.fl[k]
           h1 == IF f # 0 THEN PUT(h, f + 2, b) ELSE h
           h2 == PUT(h1, b, f)
           h3 == PUT(h2, b + 2, 0)
<1>1. f \in Int /\ b \in Int /\ 0 \in Int
  BY DEF HeapType, Addr
<1>2. /\ h1 \in HeapType /\ h1.brk = h.brk /\ h1.ok = h.ok /\ h1.fl = h.fl
      /\ \A x \in Addr : h1.mem[x] = IF f # 0 /\ x = f + 2 THEN b ELSE h.mem[x]
  <2>1. CASE f = 0
    BY <2>1
  <2>2. CASE f # 0
    <3>1. /\ h1 \in HeapType /\ h1.brk = h.brk /\ h1.ok = h.ok /\ h1.fl = h.fl
          /\ h1.mem = [h.mem EXCEPT ![f + 2] = b]
      BY <2>2, <1>1, PutIs
    <3>2. h.mem \in [Addr -> Int]
      BY DEF HeapType
    <3> QED
      BY <3>1, <3>2, <2>2
  <2> QED
    BY <2>1, <2>2
<1> HIDE DEF h1
<1>3. /\ h2 \in HeapType /\ h2.brk = h.brk /\ h2.ok = h.ok /\ h2.fl = h.fl
      /\ h2.mem = [h1.mem EXCEPT ![b] = f]
  BY <1>1, <1>2, PutIs
<1> HIDE DEF h2
<1>4. /\ h3 \in HeapType /\ h3.brk = h.brk /\ h3.ok = h.ok /\ h3.fl = h.fl
      /\ h3.mem = [h2.mem EXCEPT ![b + 2] = 0]
  BY <1>1, <1>3, PutIs
<1> HIDE DEF h3
<1>5. h1.mem \in [Addr -> Int] /\ h2.mem \in [Addr -> Int]
  BY <1>2, <1>3 DEF HeapType
<1>6. \A x \in Addr : h3.mem[x] = IF x = b + 2 THEN 0 ELSE IF x = b THEN f ELSE h1.mem[x]
  BY <1>3, <1>4, <1>5
<1> DEFINE g == [h3 EXCEPT !.fl[k] = b]
<1>7. /\ g \in HeapType
      /\ g.mem = h3.mem /\ g.brk = h3.brk /\ g.ok = h3.ok
      /\ \A o \in Lists : g.fl[o] = IF o = k THEN b ELSE h3.fl[o]
  BY <1>1, <1>4, SetHead
<1>8. g = Add(h, b, k)
  BY DEF g, h1, h2, h3, f, Add, SET_PREV, SET_NEXT, NULL
<1> HIDE DEF g
<1> QED
  BY <1>2, <1>4, <1>6, <1>7, <1>8

\* The words delete_node() writes.
LEMMA DelIs ==
  ASSUME NEW h \in HeapType, NEW k \in Lists, NEW b \in Addr, b + 2 \in Addr,
         h.mem[b] # 0 => h.mem[b] + 2 \in Addr, h.mem[b + 2] # 0 => h.mem[b + 2] \in Addr
  PROVE  /\ Del(h, b, k) \in HeapType
         /\ Del(h, b, k).brk = h.brk /\ Del(h, b, k).ok = h.ok
         /\ \A o \in Lists : Del(h, b, k).fl[o] = IF o = k /\ h.mem[b + 2] = 0 THEN h.mem[b] ELSE h.fl[o]
         /\ \A x \in Addr : Del(h, b, k).mem[x] = IF h.mem[b + 2] # 0 /\ x = h.mem[b + 2] THEN h.mem[b]
                                                  ELSE IF h.mem[b] # 0 /\ x = h.mem[b] + 2 THEN h.mem[b + 2]
                                                  ELSE h.mem[x]
<1> DEFINE n == h.mem[b]
           p == h.mem[b + 2]
           h1 == IF n # 0 THEN PUT(h, n + 2, p) ELSE h
<1>1. n \in Int /\ p \in Int /\ 0 \in Int /\ h.mem \in [Addr -> Int]
  BY DEF HeapType
<1>2. /\ h1 \in HeapType /\ h1.brk = h.brk /\ h1.ok = h.ok /\ h1.fl = h.fl
      /\ \A x \in Addr : h1.mem[x] = IF n # 0 /\ x = n + 2 THEN p ELSE h.mem[x]
  <2>1. CASE n = 0
    BY <2>1
  <2>2. CASE n # 0
    <3>1. /\ h1 \in HeapType /\ h1.brk = h.brk /\ h1.ok = h.ok /\ h1.fl = h.fl
          /\ h1.mem = [h.mem EXCEPT ![n + 2] = p]
      BY <2>2, <1>1, PutIs
    <3> QED
      BY <3>1, <1>1, <2>2
  <2> QED
    BY <2>1, <2>2
<1>3. Del(h, b, k) = IF p = 0 THEN [h1 EXCEPT !.fl[k] = n] ELSE PUT(h1, p, n)
  BY DEF Del, SET_PREV, SET_NEXT, NULL, PREV_FREE, NEXT_FREE
<1> HIDE DEF h1
<1>4. CASE p = 0
  <2> DEFINE g == [h1 EXCEPT !.fl[k] = n]
  <2>1. /\ g \in HeapType
        /\ g.mem = h1.mem /\ g.brk = h1.brk /\ g.ok = h1.ok
        /\ \A o \in Lists : g.fl[o] = IF o = k THEN n ELSE h1.fl[o]
    BY <1>1, <1>2, SetHead
  <2>2. g = Del(h, b, k)
    BY <1>3, <1>4
  <2> HIDE DEF g
  <2> QED
    BY <1>2, <1>4, <2>1, <2>2
<1>5. CASE p # 0
  <2> DEFINE g == PUT(h1, p, n)
  <2>1. /\ g \in HeapType /\ g.brk = h1.brk /\ g.ok = h1.ok /\ g.fl = h1.fl
        /\ g.mem = [h1.mem EXCEPT ![p] = n]
    BY <1>1, <1>2, <1>5, PutIs
  <2>2. g = Del(h, b, k)
    BY <1>3, <1>5
  <2>3. h1.mem \in [Addr -> Int]
    BY <1>2 DEF HeapType
  <2> HIDE DEF g
  <2>4. \A x \in Addr : g.mem[x] = IF x = p THEN n ELSE h1.mem[x]
    BY <2>1, <2>3
  <2>5. \A x \in Addr : g.mem[x] = IF p # 0 /\ x = p THEN n
                                   ELSE IF n # 0 /\ x = n + 2 THEN p ELSE h.mem[x]
    BY <2>4, <1>2, <1>5
  <2> QED
    BY <1>2, <1>5, <2>1, <2>2, <2>5
<1> QED
  BY <1>4, <1>5

----------------------------------------------------------------------------
(* The heap in order                                                       *)

Payload(sz, b) == b .. b + sz[b] - 3

\* A block lies between prologue and epilogue and has room for its words.
LEMMA BlockBounds ==
  ASSUME NEW B, NEW sz, NEW brk, Tiled(B, sz, brk), NEW b \in B
  PROVE  /\ brk \in Nat /\ brk >= 4 /\ brk <= MAX_HEAP
         /\ b \in Nat /\ 2 <= b /\ b <= brk
         /\ sz[b] \in Nat
         /\ b # brk => b + sz[b] \in B /\ sz[b] >= 2 /\ b + sz[b] <= brk
         /\ b \notin {2, brk} => sz[b] >= 6 /\ b >= 4
<1>1. /\ brk \in 4 .. MAX_HEAP /\ B \subseteq 2 .. brk /\ sz \in [B -> Nat] /\ sz[2] = 2
      /\ \A d \in B \ {2, brk} : sz[d] >= 6
      /\ \A d \in B \ {brk} : d + sz[d] \in B
      /\ \A d \in B : d % 2 = 0
  BY DEF Tiled
<1>2. b \in 2 .. brk /\ brk \in Nat /\ brk >= 4 /\ brk <= MAX_HEAP /\ sz[b] \in Nat
  BY <1>1, BlocksAssumption
<1>3. ASSUME b # brk PROVE b + sz[b] \in B /\ sz[b] >= 2 /\ b + sz[b] <= brk
  BY <1>1, <1>2, <1>3
<1>4. ASSUME b \notin {2, brk} PROVE sz[b] >= 6 /\ b >= 4
  BY <1>1, <1>2, <1>4
<1> QED
  BY <1>2, <1>3, <1>4

\* Two blocks do not overlap.
LEMMA BlocksApart ==
  ASSUME NEW B, NEW sz, NEW brk, Tiled(B, sz, brk), NEW b \in B, NEW d \in B, b # d
  PROVE  b + sz[b] <= d \/ d + sz[d] <= b
<1>1. \A x, y \in B : x < y => x + sz[x] <= y
  BY DEF Tiled
<1>2. b \in Nat /\ d \in Nat
  BY BlockBounds
<1> QED
  BY <1>1, <1>2

\* A payload word is no header, no footer and in no other payload.
LEMMA PayloadApart ==
  ASSUME NEW B, NEW sz, NEW brk, Tiled(B, sz, brk), NEW d \in B \ {brk}, NEW x \in Payload(sz, d)
  PROVE  /\ x \in Addr
         /\ \A b \in B : /\ x # b - 1
                         /\ b # brk => x # b + sz[b] - 2
                         /\ b # brk /\ b # d => x \notin Payload(sz, b)
<1>1. /\ d \in Nat /\ 2 <= d /\ brk \in Nat /\ brk <= MAX_HEAP /\ sz[d] \in Nat /\ d + sz[d] <= brk
      /\ sz[d] >= 2
  BY BlockBounds
<1>2. x \in Int /\ d <= x /\ x <= d + sz[d] - 3
  BY <1>1 DEF Payload
<1>3. x \in Addr
  BY <1>1, <1>2, BlocksAssumption DEF Addr
<1>4. ASSUME NEW b \in B
      PROVE  /\ x # b - 1
             /\ b # brk => x # b + sz[b] - 2
             /\ b # brk /\ b # d => x \notin Payload(sz, b)
  <2>1. b \in Nat /\ sz[b] \in Nat /\ (b # brk => sz[b] >= 2)
    BY BlockBounds
  <2>2. CASE b = d
    BY <2>1, <2>2, <1>1, <1>2
  <2>3. CASE b # d
    <3>1. b + sz[b] <= d \/ d + sz[d] <= b
      BY <2>3, BlocksApart
    <3> QED
      BY <2>1, <3>1, <1>1, <1>2 DEF Payload
  <2> QED
    BY <2>2, <2>3
<1> QED
  BY <1>3, <1>4

\* Two links fit into the payload of a block.
LEMMA LinkWords ==
  ASSUME NEW B, NEW sz, NEW brk, Tiled(B, sz, brk), NEW d \in B, d \notin {2, brk}
  PROVE  d \in Payload(sz, d) /\ d + 2 \in Payload(sz, d)
BY BlockBounds DEF Payload

\* What the macros of the allocators read at a block of a heap in order.
LEMMA RepFacts ==
  ASSUME NEW h, NEW c, NEW B, NEW sz, NEW al, NEW F, Rep(h, c, B, sz, al, F), NEW b \in B
  PROVE  /\ h \in HeapType /\ Tiled(B, sz, h.brk) /\ Tagged(h.mem, B, sz, al, h.brk)
         /\ sz[b] \in Nat /\ sz[b] % 2 = 0 /\ al[b] \in {0, 1}
         /\ h.mem[b - 1] = sz[b] + al[b]
         /\ b # h.brk => h.mem[b + sz[b] - 2] = sz[b] + al[b]
         /\ b \in F => al[b] = 0 /\ b \notin {2, h.brk}
         /\ al[b] = 0 => b \notin {2, h.brk}
         /\ SizeOf(h, b) = sz[b]
         /\ Allocated(h, b) <=> al[b] = 1
         /\ b # h.brk => NEXT_BLKP(h, b) = b + sz[b]
<1>1. /\ h \in HeapType /\ Tiled(B, sz, h.brk) /\ Tagged(h.mem, B, sz, al, h.brk)
      /\ F \subseteq {d \in B : al[d] = 0}
  BY DEF Rep
<1>2. sz[b] \in Nat /\ sz[b] % 2 = 0
  BY <1>1 DEF Tiled
<1>3. al[b] \in {0, 1} /\ al[2] = 1 /\ al[h.brk] = 1
  BY <1>1 DEF Tagged
<1>4. h.mem[b - 1] = sz[b] + al[b] /\ (b # h.brk => h.mem[b + sz[b] - 2] = sz[b] + al[b])
  BY <1>1 DEF Tagged
<1>5. GET_SIZE(sz[b] + al[b]) = sz[b] /\ GET_ALLOC(sz[b] + al[b]) = al[b]
  BY <1>2, <1>3, PackedWord
<1>6. SizeOf(h, b) = sz[b] /\ (Allocated(h, b) <=> al[b] = 1) /\ (b # h.brk => NEXT_BLKP(h, b) = b + sz[b])
  BY <1>3, <1>4, <1>5 DEF SizeOf, Allocated, NEXT_BLKP
<1>7. (b \in F => al[b] = 0 /\ b \notin {2, h.brk}) /\ (al[b] = 0 => b \notin {2, h.brk})
  BY <1>1, <1>3
<1> QED
  BY <1>1, <1>2, <1>3, <1>4, <1>6, <1>7

\* PREV_BLKP() finds the block before, by its footer.
LEMMA PrevIs ==
  ASSUME NEW h, NEW c, NEW B, NEW sz, NEW al, NEW F, Rep(h, c, B, sz, al, F),
         NEW p \in B \ {h.brk}
  PROVE  PREV_BLKP(h, p + sz[p]) = p
<1>1. sz[p] \in Nat /\ sz[p] % 2 = 0 /\ al[p] \in {0, 1} /\ h.mem[p + sz[p] - 2] = sz[p] + al[p]
  BY RepFacts
<1>2. GET_SIZE(sz[p] + al[p]) = sz[p]
  BY <1>1, PackedWord
<1>3. Tiled(B, sz, h.brk)
  BY RepFacts
<1>4. p \in Nat
  BY <1>3, BlockBounds
<1> QED
  BY <1>1, <1>2, <1>4 DEF PREV_BLKP

\* Each block but the prologue has one before it.
LEMMA HasPrev ==
  ASSUME NEW B, NEW sz, NEW brk, Tiled(B, sz, brk), NEW b \in B \ {2}
  PROVE  \E p \in B \ {brk} : p + sz[p] = b
BY DEF Tiled

\* A class maps every block to a list.
LEMMA ClassOf ==
  ASSUME NEW c \in Classes, NEW B, NEW sz, NEW brk, Tiled(B, sz, brk)
  PROVE  \A b \in B : Class(c, sz)[b] = c[sz[b]] /\ Class(c, sz)[b] \in Lists
<1>1. sz \in [B -> Nat] /\ c \in [Nat -> Lists]
  BY DEF Tiled, Classes
<1> QED
  BY <1>1 DEF Class

\* Tags do not change when only payloads do.
LEMMA TagsKept ==
  ASSUME NEW m, NEW m1, NEW B, NEW sz, NEW al, NEW brk, Tiled(B, sz, brk), Tagged(m, B, sz, al, brk),
         \A x \in Addr : m1[x] # m[x] => \E d \in B \ {brk} : x \in Payload(sz, d)
  PROVE  Tagged(m1, B, sz, al, brk)
<1>1. ASSUME NEW b \in B PROVE m1[b - 1] = m[b - 1] /\ (b # brk => m1[b + sz[b] - 2] = m[b + sz[b] - 2])
  <2>1. /\ b \in Nat /\ 2 <= b /\ b <= brk /\ brk \in Nat /\ brk <= MAX_HEAP /\ sz[b] \in Nat
        /\ b # brk => b + sz[b] <= brk /\ sz[b] >= 2
    BY BlockBounds
  <2>2. b - 1 \in Addr /\ (b # brk => b + sz[b] - 2 \in Addr)
    BY <2>1, BlocksAssumption DEF Addr
  <2>3. \A d \in B \ {brk} : b - 1 \notin Payload(sz, d) /\ (b # brk => b + sz[b] - 2 \notin Payload(sz, d))
    BY PayloadApart
  <2> QED
    BY <2>2, <2>3
<1>2. /\ al \in [B -> {0, 1}] /\ al[2] = 1 /\ al[brk] = 1
      /\ \A b \in B : m[b - 1] = sz[b] + al[b]
      /\ \A b \in B \ {brk} : m[b + sz[b] - 2] = sz[b] + al[b]
  BY DEF Tagged
<1>3. \A b \in B : m1[b - 1] = sz[b] + al[b]
  BY <1>1, <1>2
<1>4. \A b \in B \ {brk} : m1[b + sz[b] - 2] = sz[b] + al[b]
  BY <1>1, <1>2
<1> QED
  BY <1>2, <1>3, <1>4 DEF Tagged

\* add_node() of a free block keeps the heap in order, and the payloads.
LEMMA AddRep ==
  ASSUME NEW h, NEW c \in Classes, NEW B, NEW sz, NEW al, NEW F, Rep(h, c, B, sz, al, F),
         NEW b \in B, al[b] = 0, b \notin F
  PROVE  LET h1 == Add(h, b, c[sz[b]]) IN
         /\ Rep(h1, c, B, sz, al, F \cup {b})
         /\ h1.brk = h.brk /\ h1.ok = h.ok
         /\ \A q \in B : al[q] = 1 /\ q # h.brk => Kept(h, h1, q, sz[q])
<1> DEFINE k == c[sz[b]]
           f == h.fl[k]
           h1 == Add(h, b, k)
           cl == Class(c, sz)
<1>0. b \notin {2, h.brk}
  BY RepFacts
<1>1. /\ h \in HeapType /\ Tiled(B, sz, h.brk) /\ Tagged(h.mem, B, sz, al, h.brk) /\ b \notin {2, h.brk}
      /\ F \subseteq {d \in B : al[d] = 0}
  BY <1>0 DEF Rep
<1>2. k = cl[b] /\ \A d \in B : cl[d] \in Lists
  BY <1>1, ClassOf
<1>3. Chained(h.mem, h.fl, F, cl)
  BY DEF Rep
<1> HIDE DEF k, cl
<1>4. k \in Lists
  BY <1>2
<1>5. \A d \in F \cup {b} : d \in B /\ al[d] = 0 /\ d \notin {2, h.brk}
  BY <1>1, RepFacts
<1>6. \A d \in F \cup {b} : /\ d \in Payload(sz, d) /\ d + 2 \in Payload(sz, d)
                            /\ d \in Addr /\ d + 2 \in Addr
  <2>1. ASSUME NEW d \in F \cup {b} PROVE d \in Payload(sz, d) /\ d + 2 \in Payload(sz, d)
    BY <1>1, <1>5, LinkWords
  <2> QED
    BY <2>1, <1>1, <1>5, PayloadApart
<1>7. f # 0 => f \in F /\ cl[f] = k
  BY <1>3, <1>4, LinkedHeads DEF Chained
<1>8. /\ h1 \in HeapType
      /\ h1.brk = h.brk /\ h1.ok = h.ok
      /\ \A o \in Lists : h1.fl[o] = IF o = k THEN b ELSE h.fl[o]
      /\ \A x \in Addr : h1.mem[x] = IF x = b + 2 THEN 0
                                     ELSE IF x = b THEN f
                                     ELSE IF f # 0 /\ x = f + 2 THEN b
                                     ELSE h.mem[x]
  BY <1>1, <1>4, <1>6, <1>7, AddIs
<1> HIDE DEF h1
<1>9. \A x \in Addr : h1.mem[x] # h.mem[x] => \E d \in F \cup {b} : x \in Payload(sz, d)
  BY <1>6, <1>7, <1>8
<1>10. Tagged(h1.mem, B, sz, al, h1.brk)
  <2>1. \A x \in Addr : h1.mem[x] # h.mem[x] => \E d \in B \ {h.brk} : x \in Payload(sz, d)
    BY <1>5, <1>9
  <2> HIDE DEF f
  <2> QED
    BY <2>1, <1>1, <1>8, TagsKept
<1>11. Chained(h1.mem, h1.fl, F \cup {b}, cl)
  <2>1. ASSUME NEW d \in F, NEW e \in F \cup {b}, d # e PROVE d # e + 2
    <3>1. d \in Payload(sz, d) /\ e + 2 \in Payload(sz, e)
      BY <1>6
    <3>2. d \notin Payload(sz, e)
      BY <3>1, <1>1, <1>5, <2>1, PayloadApart
    <3> QED
      BY <3>1, <3>2
  <2>2. ASSUME NEW d \in F, NEW e \in F \cup {b}, d # e PROVE d + 2 # e
    <3>1. d + 2 \in Payload(sz, d) /\ e \in Payload(sz, e)
      BY <1>6
    <3>2. d + 2 \notin Payload(sz, e)
      BY <3>1, <1>1, <1>5, <2>2, PayloadApart
    <3> QED
      BY <3>1, <3>2
  <2>3. \A d \in F \cup {b} : d \in Int
    BY <1>6 DEF Addr
  <2>4. ASSUME NEW d \in F PROVE h1.mem[d] = h.mem[d] /\ h1.mem[d + 2] = IF d = f THEN b ELSE h.mem[d + 2]
    <3>1. d # b /\ d # b + 2 /\ d + 2 # b /\ d + 2 # b + 2
      BY <2>1, <2>2, <2>3
    <3>2. f # 0 => d # f + 2 /\ (d + 2 = f + 2 <=> d = f)
      BY <2>1, <2>3, <1>7
    <3>3. f = 0 => d # f
      BY <1>1, <2>3, <1>5, BlockBounds
    <3> QED
      BY <3>1, <3>2, <3>3, <1>6, <1>8
  <2>5. h1.mem[b] = f /\ h1.mem[b + 2] = 0
    BY <1>6, <1>8, <2>3
  <2>6. b # 0 /\ 0 \notin F
    BY <1>1, <1>5, BlockBounds
  <2>7. \A d \in F \cup {b} : cl[d] \in Lists
    BY <1>2, <1>5
  <2>8. \A o \in Lists : h1.fl[o] = IF o = cl[b] THEN b ELSE h.fl[o]
    BY <1>2, <1>8
  <2>9. h1.mem[b] = h.fl[cl[b]] /\ \A d \in F : h1.mem[d + 2] = IF d = h.fl[cl[b]] THEN b ELSE h.mem[d + 2]
    BY <1>2, <2>4, <2>5
  <2>10. Inserted(F, b, cl, h.mem, h.fl, h1.mem, h1.fl)
    BY <2>4, <2>5, <2>6, <2>7, <2>8, <2>9 DEF Inserted
  <2> QED
    BY <2>10, <1>3, ChainedFirst
<1>12. Rep(h1, c, B, sz, al, F \cup {b})
  BY <1>1, <1>5, <1>8, <1>10, <1>11 DEF Rep, cl
<1>13. ASSUME NEW q \in B, al[q] = 1, q # h.brk PROVE Kept(h, h1, q, sz[q])
  <2>1. ASSUME NEW x \in q .. q + sz[q] - 3 PROVE h1.mem[x] = h.mem[x]
    <3>1. x \in Payload(sz, q)
      BY DEF Payload
    <3>2. x \in Addr /\ \A d \in F \cup {b} : x \notin Payload(sz, d)
      BY <3>1, <1>1, <1>5, <1>13, PayloadApart
    <3> QED
      BY <3>2, <1>9
  <2> QED
    BY <2>1 DEF Kept
<1> QED
  BY <1>8, <1>12, <1>13 DEF h1, k

\* delete_node() of a listed block keeps the heap in order, and the payloads.
LEMMA DelRep ==
  ASSUME NEW h, NEW c \in Classes, NEW B, NEW sz, NEW al, NEW F, Rep(h, c, B, sz, al, F),
         NEW b \in F
  PROVE  LET h1 == Del(h, b, c[sz[b]]) IN
         /\ Rep(h1, c, B, sz, al, F \ {b})
         /\ h1.brk = h.brk /\ h1.ok = h.ok
         /\ \A q \in B : al[q] = 1 /\ q # h.brk => Kept(h, h1, q, sz[q])
<1> DEFINE k == c[sz[b]]
           n == h.mem[b]
           p == h.mem[b + 2]
           h1 == Del(h, b, k)
           cl == Class(c, sz)
<1>1. /\ h \in HeapType /\ Tiled(B, sz, h.brk) /\ Tagged(h.mem, B, sz, al, h.brk)
      /\ F \subseteq {d \in B : al[d] = 0} /\ b \in B
  BY DEF Rep
<1>2. k = cl[b] /\ \A d \in B : cl[d] \in Lists
  BY <1>1, ClassOf
<1>3. Chained(h.mem, h.fl, F, cl)
  BY DEF Rep
<1> HIDE DEF k, cl
<1>4. k \in Lists
  BY <1>1, <1>2
<1>5. \A d \in F : d \in B /\ al[d] = 0 /\ d \notin {2, h.brk}
  BY <1>1, RepFacts
<1>6. \A d \in F : /\ d \in Payload(sz, d) /\ d + 2 \in Payload(sz, d)
                   /\ d \in Addr /\ d + 2 \in Addr
  <2>1. ASSUME NEW d \in F PROVE d \in Payload(sz, d) /\ d + 2 \in Payload(sz, d)
    BY <1>1, <1>5, LinkWords
  <2> QED
    BY <2>1, <1>1, <1>5, PayloadApart
<1>7. (n # 0 => n \in F) /\ (p # 0 => p \in F)
  BY <1>3, LinkedParts DEF Chained
<1>8. /\ h1 \in HeapType
      /\ h1.brk = h.brk /\ h1.ok = h.ok
      /\ \A o \in Lists : h1.fl[o] = IF o = k /\ p = 0 THEN n ELSE h.fl[o]
      /\ \A x \in Addr : h1.mem[x] = IF p # 0 /\ x = p THEN n
                                     ELSE IF n # 0 /\ x = n + 2 THEN p
                                     ELSE h.mem[x]
  BY <1>1, <1>4, <1>6, <1>7, DelIs
<1> HIDE DEF h1
<1>9. \A x \in Addr : h1.mem[x] # h.mem[x] => \E d \in F : x \in Payload(sz, d)
  BY <1>6, <1>7, <1>8
<1>10. Tagged(h1.mem, B, sz, al, h1.brk)
  <2>1. \A x \in Addr : h1.mem[x] # h.mem[x] => \E d \in B \ {h.brk} : x \in Payload(sz, d)
    BY <1>5, <1>9
  <2> QED
    BY <2>1, <1>1, <1>8, TagsKept
<1>11. Chained(h1.mem, h1.fl, F \ {b}, cl)
  <2>1. ASSUME NEW d \in F, NEW e \in F, d # e PROVE d # e + 2 /\ d + 2 # e
    <3>1. d \in Payload(sz, d) /\ e + 2 \in Payload(sz, e) /\ d + 2 \in Payload(sz, d) /\ e \in Payload(sz, e)
      BY <1>6
    <3>2. d \notin Payload(sz, e) /\ d + 2 \notin Payload(sz, e)
      BY <3>1, <1>1, <1>5, <2>1, PayloadApart
    <3> QED
      BY <3>1, <3>2
  <2>3. \A d \in F : d \in Int /\ d # 0
    BY <1>1, <1>5, BlockBounds
  <2>4. ASSUME NEW d \in F \ {b}
        PROVE  /\ h1.mem[d] = IF d = p THEN n ELSE h.mem[d]
               /\ h1.mem[d + 2] = IF d = n THEN p ELSE h.mem[d + 2]
    <3>1. n # 0 => d # n + 2 /\ (d + 2 = n + 2 <=> d = n)
      BY <2>1, <2>3, <1>7
    <3>2. p # 0 => d + 2 # p
      BY <2>1, <2>3, <1>7
    <3>3. d # 0 /\ d \in Addr /\ d + 2 \in Addr
      BY <2>3, <1>6
    <3> QED
      BY <3>1, <3>2, <3>3, <1>8
  <2>5. 0 \notin F
    BY <2>3
  <2>6. \A d \in F : cl[d] \in Lists
    BY <1>2, <1>5
  <2>7. \A o \in Lists : h1.fl[o] = IF o = cl[b] /\ h.mem[b + 2] = 0 THEN h.mem[b] ELSE h.fl[o]
    BY <1>2, <1>8
  <2>8. Removed(F, b, cl, h.mem, h.fl, h1.mem, h1.fl)
    BY <2>4, <2>5, <2>6, <2>7 DEF Removed
  <2> QED
    BY <2>8, <1>3, ChainedWithout
<1>12. Rep(h1, c, B, sz, al, F \ {b})
  BY <1>1, <1>5, <1>8, <1>10, <1>11 DEF Rep, cl
<1>13. ASSUME NEW q \in B, al[q] = 1, q # h.brk PROVE Kept(h, h1, q, sz[q])
  <2>1. ASSUME NEW x \in q .. q + sz[q] - 3 PROVE h1.mem[x] = h.mem[x]
    <3>1. x \in Payload(sz, q)
      BY DEF Payload
    <3>2. x \in Addr /\ \A d \in F : x \notin Payload(sz, d)
      BY <3>1, <1>1, <1>5, <1>13, PayloadApart
    <3> QED
      BY <3>2, <1>9
  <2> QED
    BY <2>1 DEF Kept
<1> QED
  BY <1>8, <1>12, <1>13 DEF h1, k

----------------------------------------------------------------------------
\* The blocks left when those from at to at + n become one of n words.
Whole(B, at, n)        == {b \in B : b <= at \/ b >= at + n}
WholeOf(B, f, at, n, v) == [b \in Whole(B, at, n) |-> IF b = at THEN v ELSE f[b]]

\* Neighbours joined to one block still tile the heap.
LEMMA WholeTiled ==
  ASSUME NEW B, NEW sz, NEW brk, Tiled(B, sz, brk), NEW at \in B, at \notin {2, brk},
         NEW n \in Nat \ {0}, at + n \in B
  PROVE  Tiled(Whole(B, at, n), WholeOf(B, sz, at, n, n), brk) /\ n >= 6 /\ n % 2 = 0
<1> DEFINE C == Whole(B, at, n)
           s == WholeOf(B, sz, at, n, n)
<1>1. /\ at \in Nat /\ brk \in Nat /\ at >= 4 /\ sz[at] >= 6 /\ sz[at] \in Nat /\ at + n <= brk
      /\ at % 2 = 0 /\ (at + n) % 2 = 0 /\ at < brk
  BY BlockBounds DEF Tiled
<1>2. at + sz[at] <= at + n
  <2>1. sz[at + n] \in Nat
    BY BlockBounds
  <2>2. at + n # at
    BY <1>1
  <2>3. at + sz[at] <= at + n \/ at + n + sz[at + n] <= at
    BY <2>2, BlocksApart
  <2> QED
    BY <2>1, <2>3, <1>1
<1>3. n >= 6 /\ n % 2 = 0
  BY <1>1, <1>2
<1>4. /\ C \subseteq B /\ at \in C /\ at + n \in C /\ 2 \in C /\ brk \in C
      /\ brk \in 4 .. MAX_HEAP /\ B \subseteq 2 .. brk
  BY <1>1 DEF Whole, Tiled
<1>5. \A b \in C : s[b] = IF b = at THEN n ELSE sz[b]
  BY DEF WholeOf
<1>6. s \in [C -> Nat] /\ s[2] = 2 /\ s[brk] = 0
  <2>1. \A b \in C : sz[b] \in Nat
    BY <1>4 DEF Tiled
  <2>2. sz[2] = 2 /\ sz[brk] = 0
    BY DEF Tiled
  <2> QED
    BY <2>1, <2>2, <1>4, <1>5, <1>1 DEF WholeOf
<1>7. \A b \in C : b \in Nat /\ sz[b] \in Nat /\ (b <= at \/ b >= at + n) /\ b <= brk
  BY <1>4, BlockBounds DEF Whole
<1> HIDE DEF C, s
<1>8. ASSUME NEW b \in C PROVE b % 2 = 0 /\ s[b] % 2 = 0
  BY <1>3, <1>4, <1>5 DEF Tiled
<1>9. ASSUME NEW b \in C \ {2, brk} PROVE s[b] >= 6
  BY <1>3, <1>4, <1>5 DEF Tiled
<1>10. ASSUME NEW b \in C \ {brk} PROVE b + s[b] \in C
  <2>1. CASE b = at
    BY <2>1, <1>4, <1>5
  <2>2. CASE b # at
    <3>1. b + sz[b] \in B
      BY <1>4 DEF Tiled
    <3>2. b < at => b + sz[b] <= at
      BY <1>4 DEF Tiled
    <3>3. b + sz[b] <= at \/ b + sz[b] >= at + n
      BY <3>2, <2>2, <1>1, <1>7
    <3> QED
      BY <2>2, <3>1, <3>3, <1>5 DEF C, Whole
  <2> QED
    BY <2>1, <2>2
<1>11. ASSUME NEW b \in C, NEW d \in C, b < d PROVE b + s[b] <= d
  <2>1. CASE b = at
    BY <2>1, <1>1, <1>4, <1>5, <1>7, <1>11
  <2>2. CASE b # at
    BY <2>2, <1>4, <1>5, <1>11 DEF Tiled
  <2> QED
    BY <2>1, <2>2
<1>12. ASSUME NEW d \in C \ {2} PROVE \E b \in C \ {brk} : b + s[b] = d
  <2>1. CASE d = at + n
    BY <2>1, <1>1, <1>4, <1>5
  <2>2. CASE d # at + n
    <3>1. PICK b \in B \ {brk} : b + sz[b] = d
      <4>1. d \in B \ {2}
        BY <1>4
      <4> QED
        BY <4>1, HasPrev
    <3>2. b \in Nat /\ sz[b] \in Nat /\ sz[b] >= 2
      BY <3>1, BlockBounds
    <3>3. CASE d <= at
      <4>1. b \in C /\ b # at
        BY <3>1, <3>2, <3>3, <1>1 DEF C, Whole
      <4> QED
        BY <4>1, <3>1, <1>5
    <3>4. CASE d > at + n
      <4>1. b >= at + n
        <5>1. SUFFICES ASSUME b < at + n PROVE FALSE
          BY <3>2, <1>1
        <5>2. b + sz[b] <= at + n
          BY <5>1, <3>1 DEF Tiled
        <5> QED
          BY <5>2, <3>1, <3>2, <3>4, <1>1
      <4>2. b \in C /\ b # at
        BY <3>1, <3>2, <4>1, <1>1 DEF C, Whole
      <4> QED
        BY <4>2, <3>1, <1>5
    <3> QED
      BY <3>3, <3>4, <2>2, <1>1, <1>7
  <2> QED
    BY <2>1, <2>2
<1> QED
  BY <1>3, <1>4, <1>6, <1>8, <1>9, <1>10, <1>11, <1>12 DEF Tiled, C, s

\* A payload outside the region is away from the two tags that are written.
LEMMA WholeApart ==
  ASSUME NEW B, NEW sz, NEW brk, Tiled(B, sz, brk), NEW at \in B, at \notin {2, brk},
         NEW n \in Nat \ {0}, at + n \in B,
         NEW d \in B \ {brk}, d < at \/ d >= at + n, NEW x \in Payload(sz, d)
  PROVE  x \in Addr /\ x \notin {at - 1, at + n - 2}
<1>1. /\ at \in Nat /\ n \in Nat /\ d \in Nat /\ sz[d] \in Nat /\ at + n <= brk
  BY BlockBounds
<1>2. x \in Addr /\ x # at - 1
  BY PayloadApart
<1>3. x \in Int /\ d <= x /\ x <= d + sz[d] - 3
  BY <1>1 DEF Payload
<1>4. CASE d < at
  <2>1. d + sz[d] <= at
    BY <1>4 DEF Tiled
  <2> QED
    BY <2>1, <1>1, <1>2, <1>3
<1>5. CASE d >= at + n
  BY <1>5, <1>1, <1>2, <1>3
<1> QED
  BY <1>4, <1>5

\* New tags around joined blocks make them one (coalesce, place).
LEMMA MarkRep ==
  ASSUME NEW h, NEW c \in Classes, NEW B, NEW sz, NEW al, NEW F, Rep(h, c, B, sz, al, F),
         NEW at \in B, at \notin {2, h.brk}, NEW n \in Nat \ {0}, at + n \in B, NEW a \in {0, 1},
         \A d \in F : d < at \/ d >= at + n
  PROVE  LET h1 == Mark(h, at, n, a) IN
         /\ Rep(h1, c, Whole(B, at, n), WholeOf(B, sz, at, n, n), WholeOf(B, al, at, n, a), F)
         /\ h1.brk = h.brk /\ h1.ok = h.ok
         /\ \A q \in B : q # h.brk /\ (q < at \/ q >= at + n) => Kept(h, h1, q, sz[q])
<1> DEFINE h1 == Mark(h, at, n, a)
           C == Whole(B, at, n)
           s == WholeOf(B, sz, at, n, n)
           l == WholeOf(B, al, at, n, a)
<1>1. /\ h \in HeapType /\ Tiled(B, sz, h.brk) /\ Tagged(h.mem, B, sz, al, h.brk)
      /\ F \subseteq {d \in B : al[d] = 0} /\ Chained(h.mem, h.fl, F, Class(c, sz))
  BY DEF Rep
<1>2. Tiled(C, s, h.brk) /\ n >= 6 /\ n % 2 = 0
  BY <1>1, WholeTiled
<1>3. at \in Nat /\ at >= 4 /\ at + n <= h.brk /\ h.brk \in Nat /\ h.brk <= MAX_HEAP
  BY <1>1, BlockBounds
<1>4. at - 1 \in Addr /\ at + n - 2 \in Addr
  BY <1>2, <1>3, BlocksAssumption DEF Addr
<1>5. /\ h1 \in HeapType
      /\ \A x \in Addr : h1.mem[x] = IF x \in {at - 1, at + n - 2} THEN n + a ELSE h.mem[x]
      /\ h1.brk = h.brk /\ h1.fl = h.fl /\ h1.ok = h.ok
  BY <1>1, <1>3, <1>4, MarkIs
<1>6. ASSUME NEW d \in B, d # h.brk, d < at \/ d >= at + n, NEW x \in Payload(sz, d)
      PROVE  h1.mem[x] = h.mem[x]
  BY <1>1, <1>5, <1>6, WholeApart
<1>7. /\ \A b \in C : s[b] = IF b = at THEN n ELSE sz[b]
      /\ \A b \in C : l[b] = IF b = at THEN a ELSE al[b]
      /\ C \subseteq B /\ at \in C /\ DOMAIN l = C
      /\ \A b \in C : b = at \/ b < at \/ b >= at + n
  <2>1. \A b \in B : b \in Nat
    BY <1>1, BlockBounds
  <2> QED
    BY <1>3, <2>1 DEF WholeOf, Whole
<1>l. l = [b \in C |-> l[b]]
  BY DEF WholeOf
<1> HIDE DEF h1, C, s, l
<1>8. Tagged(h1.mem, C, s, l, h1.brk)
  <2>1. /\ al \in [B -> {0, 1}] /\ al[2] = 1 /\ al[h.brk] = 1
        /\ \A b \in B : h.mem[b - 1] = sz[b] + al[b]
        /\ \A b \in B \ {h.brk} : h.mem[b + sz[b] - 2] = sz[b] + al[b]
    BY <1>1 DEF Tagged
  <2>2. l \in [C -> {0, 1}]
    <3>1. \A b \in C : l[b] \in {0, 1}
      BY <2>1, <1>7
    <3> QED
      BY <3>1, <1>l
  <2>3. l[2] = 1 /\ l[h.brk] = 1
    <3>1. 2 \in C /\ h.brk \in C
      BY <1>2 DEF Tiled
    <3> QED
      BY <3>1, <2>1, <1>7
  <2>4. ASSUME NEW b \in C PROVE h1.mem[b - 1] = s[b] + l[b]
    <3>0. b \in Nat /\ b >= 2 /\ b <= h.brk
      BY <1>1, <1>7, BlockBounds
    <3>1. b - 1 \in Addr
      BY <3>0, <1>3, BlocksAssumption DEF Addr
    <3>2. CASE b = at
      BY <3>2, <1>4, <1>5, <1>7
    <3>3. CASE b # at
      <4>1. b - 1 # at - 1 /\ b - 1 # at + n - 2
        BY <3>0, <3>3, <1>2, <1>3, <1>7
      <4> QED
        BY <4>1, <3>1, <3>3, <1>5, <1>7, <2>1
    <3> QED
      BY <3>2, <3>3
  <2>5. ASSUME NEW b \in C \ {h.brk} PROVE h1.mem[b + s[b] - 2] = s[b] + l[b]
    <3>1. CASE b = at
      BY <3>1, <1>4, <1>5, <1>7
    <3>2. CASE b # at
      <4>1. s[b] = sz[b] /\ l[b] = al[b]
        BY <3>2, <1>7
      <4>2. /\ b \in Nat /\ b >= 2 /\ sz[b] \in Nat /\ sz[b] >= 2 /\ b + sz[b] <= h.brk
        BY <1>1, <1>7, BlockBounds
      <4>3. b < at => b + sz[b] <= at
        BY <1>1, <1>7 DEF Tiled
      <4>4. b + sz[b] - 2 # at - 1 /\ b + sz[b] - 2 # at + n - 2
        <5>1. CASE b < at
          BY <5>1, <4>2, <4>3, <1>2, <1>3
        <5>2. CASE b >= at + n
          <6>1. sz[b] % 2 = 0 /\ b % 2 = 0
            BY <1>1, <1>7 DEF Tiled
          <6>2. sz[b] > 0
            BY <4>2
          <6> QED
            BY <5>2, <4>2, <6>2, <1>3
        <5> QED
          BY <5>1, <5>2, <3>2, <1>7
      <4>5. b + sz[b] - 2 \in Addr
        BY <4>2, <1>3, BlocksAssumption DEF Addr
      <4> QED
        BY <4>1, <4>4, <4>5, <1>5, <1>7, <2>1
    <3> QED
      BY <3>1, <3>2
  <2> QED
    BY <2>2, <2>3, <2>4, <2>5, <1>5 DEF Tagged
<1>9. \A d \in F : d \in B /\ d \notin {2, h.brk} /\ (d < at \/ d >= at + n) /\ d # at
  <2>1. \A d \in F : d \in B /\ d \notin {2, h.brk}
    BY <1>1, RepFacts
  <2> QED
    BY <2>1, <1>3
<1>10. \A d \in F : d \in C /\ l[d] = al[d] /\ s[d] = sz[d]
  <2>1. \A d \in F : d \in C
    <3>1. \A d \in F : d \in B /\ d \in Nat /\ (d <= at \/ d >= at + n)
      <4>1. ASSUME NEW d \in F PROVE d \in B /\ d \in Nat /\ (d <= at \/ d >= at + n)
        <5>1. d \in B /\ (d < at \/ d >= at + n)
          BY <1>9
        <5>2. d \in Nat
          BY <5>1, <1>1, BlockBounds
        <5> QED
          BY <5>1, <5>2, <1>3
      <4> QED
        BY <4>1
    <3> QED
      BY <3>1, Zenon DEF C, Whole
  <2> QED
    BY <2>1, <1>7, <1>9
<1>11. Chained(h1.mem, h1.fl, F, Class(c, s))
  <2>1. ASSUME NEW d \in F PROVE h1.mem[d] = h.mem[d] /\ h1.mem[d + 2] = h.mem[d + 2]
    <3>1. d \in Payload(sz, d) /\ d + 2 \in Payload(sz, d)
      BY <1>1, <1>9, LinkWords
    <3> QED
      BY <3>1, <1>6, <1>9
  <2>2. \A d \in F : Class(c, s)[d] = Class(c, sz)[d] /\ Class(c, sz)[d] \in Lists
    <3>1. \A d \in F : Class(c, sz)[d] = c[sz[d]] /\ Class(c, sz)[d] \in Lists
      BY <1>1, <1>9, ClassOf
    <3>2. \A d \in F : Class(c, s)[d] = c[s[d]]
      BY <1>2, <1>10, ClassOf
    <3> QED
      BY <3>1, <3>2, <1>10
  <2> QED
    BY <2>1, <2>2, <1>1, <1>5, ChainedSame
<1>12. F \subseteq {d \in C : l[d] = 0}
  BY <1>1, <1>10
<1>13. Rep(h1, c, C, s, l, F)
  BY <1>2, <1>5, <1>8, <1>11, <1>12 DEF Rep
<1>14. ASSUME NEW q \in B, q # h.brk, q < at \/ q >= at + n PROVE Kept(h, h1, q, sz[q])
  BY <1>6, <1>14 DEF Kept, Payload
<1> QED
  BY <1>5, <1>13, <1>14 DEF h1, C, s, l

----------------------------------------------------------------------------
(* Splitting a block                                                       *)

\* The value v for the new block e, u for the block b, the others as before.
With(B, f, b, u, e, v) == [d \in B \cup {e} |-> IF d = b THEN u ELSE IF d = e THEN v ELSE f[d]]

\* The halves of a split block still tile the heap.
LEMMA SplitTiled ==
  ASSUME NEW B, NEW sz, NEW brk, Tiled(B, sz, brk), NEW b \in B, b \notin {2, brk},
         NEW x \in Nat, NEW y \in Nat, x + y = sz[b], x >= 6, y >= 6, x % 2 = 0
  PROVE  Tiled(B \cup {b + x}, With(B, sz, b, x, b + x, y), brk) /\ b + x \notin B
<1> DEFINE e == b + x
           C == B \cup {e}
           s == With(B, sz, b, x, e, y)
<1>1. /\ b \in Nat /\ brk \in Nat /\ b >= 4 /\ sz[b] \in Nat /\ b + sz[b] <= brk /\ b + sz[b] \in B
      /\ b % 2 = 0 /\ sz[b] % 2 = 0
  BY BlockBounds DEF Tiled
<1>2. e \in Nat /\ e > b /\ e + y = b + sz[b] /\ e < brk /\ e >= 2 /\ e % 2 = 0 /\ y % 2 = 0 /\ e > 4
  BY <1>1
<1>3. \A d \in B : /\ d \in Nat /\ sz[d] \in Nat /\ d >= 2 /\ d <= brk
                   /\ d # b => d + sz[d] <= b \/ b + sz[b] <= d
  BY BlockBounds, BlocksApart
<1>4. e \notin B
  <2>1. SUFFICES ASSUME e \in B PROVE FALSE
    OBVIOUS
  <2>2. e + sz[e] <= b \/ b + sz[b] <= e
    BY <2>1, <1>2, <1>3
  <2>3. sz[e] \in Nat
    BY <2>1, <1>3
  <2> QED
    BY <2>2, <2>3, <1>1, <1>2
<1>5. \A d \in C : s[d] = IF d = b THEN x ELSE IF d = e THEN y ELSE sz[d]
  BY DEF With
<1>6. s \in [C -> Nat]
  BY <1>3 DEF With
<1> HIDE DEF e, s
<1>7. C \subseteq 2 .. brk /\ 2 \in C /\ brk \in C /\ s[2] = 2 /\ s[brk] = 0
  <2>1. 2 \in B /\ brk \in B /\ sz[2] = 2 /\ sz[brk] = 0
    BY DEF Tiled
  <2> QED
    BY <2>1, <1>1, <1>2, <1>3, <1>5
<1>8. ASSUME NEW d \in C PROVE d % 2 = 0 /\ s[d] % 2 = 0
  BY <1>2, <1>5 DEF Tiled
<1>9. ASSUME NEW d \in C \ {2, brk} PROVE s[d] >= 6
  BY <1>5 DEF Tiled
<1>10. ASSUME NEW d \in C \ {brk} PROVE d + s[d] \in C
  <2>1. CASE d = b
    BY <2>1, <1>5 DEF e
  <2>2. CASE d = e
    BY <2>2, <1>1, <1>2, <1>4, <1>5
  <2>3. CASE d \in B /\ d # b
    <3>1. d # e
      BY <2>3, <1>4
    <3>2. d + sz[d] \in B
      BY <2>3, BlockBounds
    <3> QED
      BY <2>3, <3>1, <3>2, <1>5
  <2> QED
    BY <2>1, <2>2, <2>3
<1>11. ASSUME NEW d \in C, NEW f \in C, d < f PROVE d + s[d] <= f
  <2>1. CASE d \in B /\ f \in B
    <3>1. d + sz[d] <= f
      BY <2>1, <1>11 DEF Tiled
    <3>2. d # e
      BY <2>1, <1>4
    <3> QED
      BY <2>1, <3>1, <3>2, <1>1, <1>3, <1>5
  <2>2. CASE d = e
    <3>1. f \in B /\ f # b
      BY <2>2, <1>11, <1>2
    <3>2. f + sz[f] <= b \/ b + sz[b] <= f
      BY <3>1, <1>3
    <3> QED
      BY <2>2, <3>1, <3>2, <1>1, <1>2, <1>3, <1>4, <1>5, <1>11
  <2>3. CASE f = e /\ d # e
    <3>1. d \in B
      BY <2>3
    <3>2. CASE d = b
      BY <3>2, <2>3, <1>1, <1>5 DEF e
    <3>3. CASE d # b
      <4>1. d + sz[d] <= b \/ b + sz[b] <= d
        BY <3>1, <3>3, <1>3
      <4>2. d + sz[d] <= b
        BY <4>1, <2>3, <3>1, <1>1, <1>2, <1>3, <1>11
      <4> QED
        BY <4>2, <3>3, <2>3, <3>1, <1>1, <1>2, <1>3, <1>5
    <3> QED
      BY <3>2, <3>3
  <2> QED
    BY <2>1, <2>2, <2>3
<1>12. ASSUME NEW d \in C \ {2} PROVE \E f \in C \ {brk} : f + s[f] = d
  <2>1. CASE d = e
    BY <2>1, <1>5 DEF e
  <2>2. CASE d \in B
    <3>1. PICK f \in B \ {brk} : f + sz[f] = d
      BY <2>2, HasPrev
    <3>2. CASE f = b
      BY <3>1, <3>2, <1>1, <1>2, <1>4, <1>5
    <3>3. CASE f # b
      <4>1. s[f] = sz[f]
        BY <3>3, <1>4, <1>5
      <4> QED
        BY <4>1, <3>1
    <3> QED
      BY <3>2, <3>3
  <2> QED
    BY <2>1, <2>2
<1>13. brk \in 4 .. MAX_HEAP
  BY DEF Tiled
<1> QED
  BY <1>4, <1>6, <1>7, <1>8, <1>9, <1>10, <1>11, <1>12, <1>13 DEF Tiled, s, e

Halves(sz, b, x, y) == x \in Nat /\ y \in Nat /\ x + y = sz[b] /\ x >= 6 /\ y >= 6 /\ x % 2 = 0
SplitInto(h, h1, b, x, u, e, y, v) ==
  u \in {0, 1} /\ v \in {0, 1} /\ e = b + x /\ h1 = Mark(Mark(h, b, x, u), e, y, v)

\* place() splits a block: two tagged halves in its stead.
LEMMA SplitRep ==
  ASSUME NEW h, NEW c \in Classes, NEW B, NEW sz, NEW al, NEW F, Rep(h, c, B, sz, al, F),
         NEW b \in B, b \notin {2, h.brk}, b \notin F,
         NEW x, NEW y, Halves(sz, b, x, y),
         NEW u, NEW v, NEW e, NEW h1, SplitInto(h, h1, b, x, u, e, y, v)
  PROVE  /\ Rep(h1, c, B \cup {e}, With(B, sz, b, x, e, y), With(B, al, b, u, e, v), F)
         /\ h1.brk = h.brk /\ h1.ok = h.ok
         /\ \A q \in B : q # h.brk /\ q # b => Kept(h, h1, q, sz[q])
<1> DEFINE g == Mark(h, b, x, u)
           C == B \cup {e}
           s == With(B, sz, b, x, e, y)
           l == With(B, al, b, u, e, v)
<1>h. x \in Nat /\ y \in Nat /\ x + y = sz[b] /\ x >= 6 /\ y >= 6 /\ x % 2 = 0
  BY DEF Halves
<1>s. u \in {0, 1} /\ v \in {0, 1} /\ e = b + x /\ h1 = Mark(Mark(h, b, x, u), e, y, v)
  BY DEF SplitInto
<1> USE <1>h, <1>s
<1>1. /\ h \in HeapType /\ Tiled(B, sz, h.brk) /\ Tagged(h.mem, B, sz, al, h.brk)
      /\ F \subseteq {d \in B : al[d] = 0} /\ Chained(h.mem, h.fl, F, Class(c, sz))
  BY DEF Rep
<1>2. Tiled(C, s, h.brk) /\ e \notin B
  <2>1. Tiled(B \cup {b + x}, With(B, sz, b, x, b + x, y), h.brk) /\ b + x \notin B
    BY <1>1, SplitTiled
  <2> QED
    BY <2>1
<1>3. b \in Nat /\ b >= 4 /\ b + sz[b] <= h.brk /\ h.brk \in Nat /\ h.brk <= MAX_HEAP /\ sz[b] \in Nat
  BY <1>1, BlockBounds
<1>4. b - 1 \in Addr /\ b + x - 2 \in Addr /\ e - 1 \in Addr /\ e + y - 2 \in Addr
  BY <1>3, BlocksAssumption DEF Addr
<1>5. /\ g \in HeapType
      /\ \A a \in Addr : g.mem[a] = IF a \in {b - 1, b + x - 2} THEN x + u ELSE h.mem[a]
      /\ g.brk = h.brk /\ g.fl = h.fl /\ g.ok = h.ok
  BY <1>1, <1>3, <1>4, MarkIs

<1> HIDE DEF g
<1>6. /\ h1 \in HeapType
      /\ \A a \in Addr : h1.mem[a] = IF a \in {e - 1, e + y - 2} THEN y + v ELSE g.mem[a]
      /\ h1.brk = h.brk /\ h1.fl = h.fl /\ h1.ok = h.ok
  <2>1. h1 = Mark(g, e, y, v) /\ e \in Int
    BY <1>3 DEF g
  <2> QED
    BY <2>1, <1>3, <1>4, <1>5, MarkIs
<1>7. \A a \in Addr : h1.mem[a] = IF a = b + x - 1 \/ a = b + sz[b] - 2 THEN y + v
                                  ELSE IF a = b - 1 \/ a = b + x - 2 THEN x + u ELSE h.mem[a]
  BY <1>3, <1>5, <1>6
<1>8. ASSUME NEW d \in B \ {h.brk}, d # b, NEW a \in Payload(sz, d) PROVE h1.mem[a] = h.mem[a]
  <2>1. d \in Nat /\ sz[d] \in Nat /\ (d + sz[d] <= b \/ b + sz[b] <= d)
    BY <1>1, <1>8, BlockBounds, BlocksApart
  <2>2. a \in Addr /\ a \in Int /\ d <= a /\ a <= d + sz[d] - 3
    <3>1. a \in Int /\ d <= a /\ a <= d + sz[d] - 3
      BY <2>1 DEF Payload
    <3> QED
      BY <3>1, <1>1, <1>8, PayloadApart
  <2> QED
    BY <2>1, <2>2, <1>3, <1>7
<1>9. /\ \A d \in C : s[d] = IF d = b THEN x ELSE IF d = e THEN y ELSE sz[d]
      /\ \A d \in C : l[d] = IF d = b THEN u ELSE IF d = e THEN v ELSE al[d]
      /\ l = [d \in C |-> l[d]]
  BY DEF With
<1> HIDE DEF s, l
<1>t. /\ al \in [B -> {0, 1}] /\ al[2] = 1 /\ al[h.brk] = 1
      /\ \A d \in B : h.mem[d - 1] = sz[d] + al[d]
      /\ \A d \in B \ {h.brk} : h.mem[d + sz[d] - 2] = sz[d] + al[d]
  BY <1>1 DEF Tagged
<1>10. Tagged(h1.mem, C, s, l, h1.brk)
  <2>2. l \in [C -> {0, 1}]
    <3>1. \A d \in C : l[d] \in {0, 1}
      BY <1>t, <1>9
    <3> QED
      BY <3>1, <1>9
  <2>3. l[2] = 1 /\ l[h.brk] = 1
    <3>1. 2 \in B /\ h.brk \in B
      BY <1>1 DEF Tiled
    <3>2. 2 # b /\ h.brk # b /\ 2 # e /\ h.brk # e
      BY <3>1, <1>2
    <3> QED
      BY <3>1, <3>2, <1>t, <1>9
  <2>4. h1.mem[b - 1] = x + u /\ h1.mem[b + x - 2] = x + u
    BY <1>3, <1>4, <1>7
  <2>5. h1.mem[e - 1] = y + v /\ h1.mem[e + y - 2] = y + v
    BY <1>3, <1>4, <1>7
  <2>6. ASSUME NEW d \in B, d # b
        PROVE  /\ h1.mem[d - 1] = sz[d] + al[d]
               /\ d # h.brk => h1.mem[d + sz[d] - 2] = sz[d] + al[d]
    <3>1. /\ d \in Nat /\ sz[d] \in Nat /\ d >= 2 /\ d <= h.brk
          /\ d + sz[d] <= b \/ b + sz[b] <= d
          /\ d # h.brk => sz[d] >= 2 /\ d + sz[d] <= h.brk
      BY <1>1, <2>6, BlockBounds, BlocksApart
    <3>2. d - 1 \in Addr /\ (d # h.brk => d + sz[d] - 2 \in Addr)
      BY <3>1, <1>3, BlocksAssumption DEF Addr
    <3>3. h1.mem[d - 1] = h.mem[d - 1]
      BY <3>1, <3>2, <1>3, <1>7, <2>6
    <3>4. d # h.brk => h1.mem[d + sz[d] - 2] = h.mem[d + sz[d] - 2]
      BY <3>1, <3>2, <1>3, <1>7
    <3> QED
      BY <3>3, <3>4, <1>t
  <2>7. \A d \in C : h1.mem[d - 1] = s[d] + l[d]
    BY <2>4, <2>5, <2>6, <1>2, <1>9
  <2>8. \A d \in C \ {h.brk} : h1.mem[d + s[d] - 2] = s[d] + l[d]
    <3>1. ASSUME NEW d \in C \ {h.brk} PROVE h1.mem[d + s[d] - 2] = s[d] + l[d]
      <4>1. CASE d = b
        BY <4>1, <2>4, <1>9
      <4>2. CASE d = e
        BY <4>2, <2>5, <1>2, <1>9
      <4>3. CASE d \in B /\ d # b
        <5>1. s[d] = sz[d] /\ l[d] = al[d]
          BY <4>3, <1>2, <1>9
        <5> QED
          BY <5>1, <4>3, <2>6
      <4> QED
        BY <4>1, <4>2, <4>3
    <3> QED
      BY <3>1
  <2> QED
    BY <2>2, <2>3, <2>7, <2>8, <1>6 DEF Tagged
<1>11. \A d \in F : d \in B /\ d \notin {2, h.brk} /\ d # b /\ d # e
  <2>1. \A d \in F : d \in B /\ d \notin {2, h.brk}
    BY <1>1, RepFacts
  <2> QED
    BY <2>1, <1>2
<1>12. \A d \in F : d \in C /\ l[d] = al[d] /\ s[d] = sz[d]
  BY <1>9, <1>11
<1>13. Chained(h1.mem, h1.fl, F, Class(c, s))
  <2>1. ASSUME NEW d \in F PROVE h1.mem[d] = h.mem[d] /\ h1.mem[d + 2] = h.mem[d + 2]
    <3>1. d \in Payload(sz, d) /\ d + 2 \in Payload(sz, d)
      BY <1>1, <1>11, LinkWords
    <3> QED
      BY <3>1, <1>8, <1>11
  <2>2. \A d \in F : Class(c, s)[d] = Class(c, sz)[d] /\ Class(c, sz)[d] \in Lists
    <3>1. \A d \in F : Class(c, sz)[d] = c[sz[d]] /\ Class(c, sz)[d] \in Lists
      BY <1>1, <1>11, ClassOf
    <3>2. \A d \in F : Class(c, s)[d] = c[s[d]]
      BY <1>2, <1>12, ClassOf
    <3> QED
      BY <3>1, <3>2, <1>12
  <2> QED
    BY <2>1, <2>2, <1>1, <1>6, ChainedSame
<1>14. F \subseteq {d \in C : l[d] = 0}
  BY <1>1, <1>12
<1>15. Rep(h1, c, C, s, l, F)
  BY <1>2, <1>6, <1>10, <1>13, <1>14 DEF Rep
<1>16. ASSUME NEW q \in B, q # h.brk, q # b PROVE Kept(h, h1, q, sz[q])
  BY <1>8, <1>16 DEF Kept, Payload
<1> QED
  BY <1>6, <1>15, <1>16 DEF C, s, l

----------------------------------------------------------------------------
(* Growing the heap                                                        *)

\* The old epilogue as a block and a new epilogue behind it tile the larger heap.
LEMMA ExtendTiled ==
  ASSUME NEW B, NEW sz, NEW brk, Tiled(B, sz, brk), NEW n \in Nat, n >= 6, n % 2 = 0, brk + n <= MAX_HEAP
  PROVE  Tiled(B \cup {brk + n}, With(B, sz, brk, n, brk + n, 0), brk + n) /\ brk + n \notin B
<1> DEFINE e == brk + n
           C == B \cup {e}
           s == With(B, sz, brk, n, e, 0)
<1>1. /\ brk \in B /\ 2 \in B /\ brk \in Nat /\ brk >= 4 /\ brk % 2 = 0 /\ e \in Nat /\ e > brk
      /\ e % 2 = 0 /\ e \in 4 .. MAX_HEAP /\ sz[2] = 2
  <2>1. brk \in B /\ 2 \in B /\ brk % 2 = 0 /\ sz[2] = 2
    BY DEF Tiled
  <2>2. brk \in Nat /\ brk >= 4
    BY <2>1, BlockBounds
  <2> QED
    BY <2>1, <2>2, BlocksAssumption
<1>2. \A d \in B : d \in Nat /\ sz[d] \in Nat /\ d >= 2 /\ d <= brk /\ (d # brk => d + sz[d] <= brk)
  BY BlockBounds
<1>3. e \notin B
  BY <1>1, <1>2
<1>4. \A d \in C : s[d] = IF d = brk THEN n ELSE IF d = e THEN 0 ELSE sz[d]
  BY DEF With
<1>5. s \in [C -> Nat]
  BY <1>2 DEF With
<1> HIDE DEF e, s
<1>6. C \subseteq 2 .. e /\ 2 \in C /\ e \in C /\ s[2] = 2 /\ s[e] = 0
  BY <1>1, <1>2, <1>4
<1>7. ASSUME NEW d \in C PROVE d % 2 = 0 /\ s[d] % 2 = 0
  BY <1>1, <1>4 DEF Tiled
<1>8. ASSUME NEW d \in C \ {2, e} PROVE s[d] >= 6
  BY <1>1, <1>4 DEF Tiled
<1>9. ASSUME NEW d \in C \ {e} PROVE d + s[d] \in C
  <2>1. CASE d = brk
    BY <2>1, <1>4 DEF e
  <2>2. CASE d # brk
    <3>1. d \in B /\ d + sz[d] \in B
      BY <2>2, <1>9, BlockBounds
    <3> QED
      BY <3>1, <2>2, <1>4, <1>9
  <2> QED
    BY <2>1, <2>2
<1>10. ASSUME NEW d \in C, NEW f \in C, d < f PROVE d + s[d] <= f
  <2>1. CASE d \in B /\ f \in B
    <3>1. d + sz[d] <= f
      BY <2>1, <1>10 DEF Tiled
    <3>2. d # e /\ d # brk
      BY <2>1, <1>2, <1>3, <1>10, <1>1
    <3> QED
      BY <2>1, <3>1, <3>2, <1>4
  <2>2. CASE d = e
    BY <2>2, <1>1, <1>2, <1>10
  <2>3. CASE f = e /\ d # e
    BY <2>3, <1>1, <1>2, <1>4 DEF e
  <2> QED
    BY <2>1, <2>2, <2>3
<1>11. ASSUME NEW d \in C \ {2} PROVE \E f \in C \ {e} : f + s[f] = d
  <2>1. CASE d = e
    BY <2>1, <1>1, <1>4 DEF e
  <2>2. CASE d # e
    <3>1. PICK f \in B \ {brk} : f + sz[f] = d
      <4>1. d \in B \ {2}
        BY <2>2
      <4> QED
        BY <4>1, HasPrev
    <3>2. s[f] = sz[f] /\ f \in C \ {e}
      BY <3>1, <1>3, <1>4
    <3> QED
      BY <3>1, <3>2
  <2> QED
    BY <2>1, <2>2
<1> QED
  BY <1>1, <1>3, <1>5, <1>6, <1>7, <1>8, <1>9, <1>10, <1>11 DEF Tiled, s, e

(* The area of h has grown by n words, to g, and the old epilogue, the new *)
(* one at e and the footer between them are written.                       *)
GrowsBy(h, g, h1, n, e) ==
  /\ n \in Nat /\ n >= 6 /\ n % 2 = 0 /\ e = h.brk + n
  /\ g \in HeapType /\ g.mem = h.mem /\ g.fl = h.fl /\ g.ok = h.ok /\ g.brk = h.brk + n
  /\ h1 = PUT(Mark(g, h.brk, n, 0), h.brk + n - 1, 1)

\* The heap h with a free block of n words at its end, not yet listed.
Extended(h, h1, c, B, sz, al, F, n, e) ==
  /\ Rep(h1, c, B \cup {e}, With(B, sz, h.brk, n, e, 0), With(B, al, h.brk, 0, e, 1), F)
  /\ e \notin B
  /\ h1.brk = e /\ h1.ok = h.ok
  /\ \A q \in B : q # h.brk => Kept(h, h1, q, sz[q])

\* extend_heap() turns the epilogue into the header of a free block.
LEMMA ExtendRep ==
  ASSUME NEW h, NEW c \in Classes, NEW B, NEW sz, NEW al, NEW F, Rep(h, c, B, sz, al, F),
         NEW g, NEW h1, NEW n, NEW e, GrowsBy(h, g, h1, n, e)
  PROVE  Extended(h, h1, c, B, sz, al, F, n, e)
<1> SUFFICES ASSUME n \in Nat, n >= 6, n % 2 = 0, e = h.brk + n,
            g \in HeapType, g.mem = h.mem, g.fl = h.fl, g.ok = h.ok, g.brk = h.brk + n,
            h1 = PUT(Mark(g, h.brk, n, 0), h.brk + n - 1, 1)
    PROVE   /\ Rep(h1, c, B \cup {e}, With(B, sz, h.brk, n, e, 0), With(B, al, h.brk, 0, e, 1), F)
            /\ e \notin B
            /\ h1.brk = e /\ h1.ok = h.ok
            /\ \A q \in B : q # h.brk => Kept(h, h1, q, sz[q])
  BY DEF GrowsBy, Extended
<1> DEFINE b == h.brk
           g1 == Mark(g, b, n, 0)
           C == B \cup {e}
           s == With(B, sz, b, n, e, 0)
           l == With(B, al, b, 0, e, 1)
<1>1. /\ h \in HeapType /\ Tiled(B, sz, b) /\ Tagged(h.mem, B, sz, al, b)
      /\ F \subseteq {d \in B : al[d] = 0} /\ Chained(h.mem, h.fl, F, Class(c, sz))
  BY DEF Rep
<1>2. e <= MAX_HEAP /\ b \in B
  <2>1. g.brk \in 0 .. MAX_HEAP
    BY DEF HeapType
  <2>2. b \in B
    BY <1>1 DEF Tiled
  <2> QED
    BY <2>1, <2>2, BlocksAssumption
<1>0. e = b + n
  OBVIOUS
<1>3. b \in Nat /\ b >= 4 /\ b <= MAX_HEAP /\ e \in Nat /\ b # 2
  <2>1. b \in Nat /\ b >= 4 /\ b <= MAX_HEAP
    BY <1>1, <1>2, BlockBounds
  <2> HIDE DEF b
  <2> QED
    BY <2>1, <1>0
<1>4. Tiled(C, s, e) /\ e \notin B
  <2>1. Tiled(B \cup {b + n}, With(B, sz, b, n, b + n, 0), b + n) /\ b + n \notin B
    BY <1>1, <1>2, ExtendTiled
  <2> QED
    BY <2>1
<1>5. b - 1 \in Addr /\ b + n - 2 \in Addr /\ e - 1 \in Addr
  BY <1>2, <1>3, BlocksAssumption DEF Addr
<1>6. /\ g1 \in HeapType
      /\ \A a \in Addr : g1.mem[a] = IF a \in {b - 1, b + n - 2} THEN n + 0 ELSE g.mem[a]
      /\ g1.brk = g.brk /\ g1.fl = g.fl /\ g1.ok = g.ok
  BY <1>3, <1>5, MarkIs
<1> HIDE DEF g1
<1>7. /\ h1 \in HeapType /\ h1.brk = e /\ h1.fl = h.fl /\ h1.ok = h.ok
      /\ h1.mem = [g1.mem EXCEPT ![e - 1] = 1]
  <2>1. h1 = PUT(g1, e - 1, 1)
    <3>1. e - 1 = h.brk + n - 1
      BY <1>3
    <3> QED
      BY <3>1 DEF g1
  <2> QED
    BY <2>1, <1>5, <1>6, PutIs
<1>8. \A a \in Addr : h1.mem[a] = IF a = b + n - 1 THEN 1
                                  ELSE IF a = b - 1 \/ a = b + n - 2 THEN n ELSE h.mem[a]
  <2>1. g1.mem \in [Addr -> Int]
    BY <1>6 DEF HeapType
  <2>2. \A a \in Addr : h1.mem[a] = IF a = e - 1 THEN 1 ELSE g1.mem[a]
    BY ONLY <2>1, <1>7
  <2>3. \A a \in Addr : g1.mem[a] = IF a \in {b - 1, b + n - 2} THEN n ELSE h.mem[a]
    BY <1>6
  <2>4. e - 1 = b + n - 1
    BY <1>3
  <2> QED
    BY ONLY <2>2, <2>3, <2>4
<1> HIDE DEF b
<1>9. ASSUME NEW d \in B \ {b}, NEW a \in Payload(sz, d) PROVE h1.mem[a] = h.mem[a]
  <2>1. d \in Nat /\ sz[d] \in Nat /\ d + sz[d] <= b
    BY <1>1, BlockBounds
  <2>2. a \in Addr /\ a \in Int /\ a <= d + sz[d] - 3
    <3>1. a \in Int /\ a <= d + sz[d] - 3
      BY <2>1 DEF Payload
    <3> QED
      BY <3>1, <1>1, PayloadApart
  <2> QED
    BY <2>1, <2>2, <1>3, <1>8
<1>10. /\ \A d \in C : s[d] = IF d = b THEN n ELSE IF d = e THEN 0 ELSE sz[d]
       /\ \A d \in C : l[d] = IF d = b THEN 0 ELSE IF d = e THEN 1 ELSE al[d]
       /\ l = [d \in C |-> l[d]]
  BY DEF With
<1> HIDE DEF s, l
<1>t. /\ al \in [B -> {0, 1}] /\ al[2] = 1 /\ al[b] = 1
      /\ \A d \in B : h.mem[d - 1] = sz[d] + al[d]
      /\ \A d \in B \ {b} : h.mem[d + sz[d] - 2] = sz[d] + al[d]
  BY <1>1 DEF Tagged
<1>11. Tagged(h1.mem, C, s, l, h1.brk)
  <2>2. l \in [C -> {0, 1}]
    <3>1. \A d \in C : l[d] \in {0, 1}
      BY <1>t, <1>10
    <3> QED
      BY <3>1, <1>10
  <2>3. l[2] = 1 /\ l[e] = 1
    <3>1. 2 \in B /\ 2 # b /\ 2 # e /\ b # e
      BY <1>1, <1>2, <1>3, <1>4 DEF Tiled
    <3> QED
      BY <3>1, <1>t, <1>10
  <2>4. h1.mem[b - 1] = n + 0 /\ h1.mem[b + n - 2] = n + 0
    <3>1. b - 1 # b + n - 1 /\ b + n - 2 # b + n - 1
      BY <1>3
    <3> QED
      BY <3>1, <1>5, <1>8
  <2>5. h1.mem[e - 1] = 0 + 1
    <3>1. e - 1 = b + n - 1
      BY <1>0, <1>3
    <3> QED
      BY <3>1, <1>5, <1>8
  <2>6. ASSUME NEW d \in B, d # b
        PROVE  /\ h1.mem[d - 1] = sz[d] + al[d]
               /\ h1.mem[d + sz[d] - 2] = sz[d] + al[d]
    <3>1. /\ d \in Nat /\ sz[d] \in Nat /\ d >= 2 /\ d <= b /\ sz[d] >= 2 /\ d + sz[d] <= b
      <4>1. Tiled(B, sz, b)
        BY <1>1
      <4> QED
        BY ONLY <4>1, <2>6, d \in B, BlockBounds
    <3>2. d - 1 \in Addr /\ d + sz[d] - 2 \in Addr
      BY <3>1, <1>3, BlocksAssumption DEF Addr
    <3>3. h1.mem[d - 1] = h.mem[d - 1] /\ h1.mem[d + sz[d] - 2] = h.mem[d + sz[d] - 2]
      BY <3>1, <3>2, <1>3, <1>8, <2>6
    <3> QED
      BY <3>3, <1>t, <2>6
  <2>7. \A d \in C : h1.mem[d - 1] = s[d] + l[d]
    BY <2>4, <2>5, <2>6, <1>4, <1>10
  <2>8. \A d \in C \ {e} : h1.mem[d + s[d] - 2] = s[d] + l[d]
    BY <2>4, <2>6, <1>4, <1>10
  <2> QED
    BY <2>2, <2>3, <2>7, <2>8, <1>7 DEF Tagged
<1>12. \A d \in F : d \in B /\ d \notin {2, b, e}
  <2>1. \A d \in F : d \in B /\ d \notin {2, b}
    BY <1>1, RepFacts DEF b
  <2> QED
    BY <2>1, <1>4
<1>13. \A d \in F : d \in C /\ l[d] = al[d] /\ s[d] = sz[d]
  BY <1>10, <1>12
<1>14. Chained(h1.mem, h1.fl, F, Class(c, s))
  <2>1. ASSUME NEW d \in F PROVE h1.mem[d] = h.mem[d] /\ h1.mem[d + 2] = h.mem[d + 2]
    <3>1. d \in Payload(sz, d) /\ d + 2 \in Payload(sz, d)
      BY <1>1, <1>12, LinkWords
    <3> QED
      BY <3>1, <1>9, <1>12
  <2>2. \A d \in F : Class(c, s)[d] = Class(c, sz)[d] /\ Class(c, sz)[d] \in Lists
    <3>1. \A d \in F : Class(c, sz)[d] = c[sz[d]] /\ Class(c, sz)[d] \in Lists
      BY <1>1, <1>12, ClassOf
    <3>2. \A d \in F : Class(c, s)[d] = c[s[d]]
      BY <1>4, <1>13, ClassOf
    <3> QED
      BY <3>1, <3>2, <1>13
  <2>3. \A o \in Lists : h1.fl[o] = h.fl[o]
    BY <1>7
  <2> HIDE DEF C
  <2> QED
    BY ONLY <2>1, <2>2, <2>3, <1>1, ChainedSame
<1>15. F \subseteq {d \in C : l[d] = 0}
  BY <1>1, <1>13
<1>16. Rep(h1, c, C, s, l, F)
  BY <1>4, <1>7, <1>11, <1>14, <1>15 DEF Rep
<1>17. ASSUME NEW q \in B, q # b PROVE Kept(h, h1, q, sz[q])
  BY <1>9, <1>17 DEF Kept, Payload
<1> QED
  BY <1>4, <1>7, <1>16, <1>17 DEF C, s, l, b

\* Writing into the payloads of blocks that are on no list changes nothing else.
LEMMA PayloadRep ==
  ASSUME NEW h, NEW c \in Classes, NEW B, NEW sz, NEW al, NEW F, Rep(h, c, B, sz, al, F),
         NEW b \in B, b # h.brk, b \notin F,
         NEW h1 \in HeapType, h1.brk = h.brk, h1.fl = h.fl,
         \A x \in Addr : h1.mem[x] # h.mem[x] => x \in Payload(sz, b)
  PROVE  /\ Rep(h1, c, B, sz, al, F)
         /\ \A q \in B : q # h.brk /\ q # b => Kept(h, h1, q, sz[q])
<1>1. /\ h \in HeapType /\ Tiled(B, sz, h.brk) /\ Tagged(h.mem, B, sz, al, h.brk)
      /\ F \subseteq {d \in B : al[d] = 0} /\ Chained(h.mem, h.fl, F, Class(c, sz))
  BY DEF Rep
<1>2. \A x \in Addr : h1.mem[x] # h.mem[x] => \E d \in B \ {h.brk} : x \in Payload(sz, d)
  OBVIOUS
<1>3. Tagged(h1.mem, B, sz, al, h1.brk)
  BY <1>1, <1>2, TagsKept
<1>4. ASSUME NEW d \in B, d # h.brk, d # b, NEW x \in Payload(sz, d) PROVE h1.mem[x] = h.mem[x]
  <2>1. x \in Addr /\ x \notin Payload(sz, b)
    BY <1>1, <1>4, PayloadApart
  <2> QED
    BY <2>1
<1>5. \A d \in F : d \in B /\ d \notin {2, h.brk} /\ d # b
  BY <1>1, RepFacts
<1>6. Chained(h1.mem, h1.fl, F, Class(c, sz))
  <2>1. ASSUME NEW d \in F PROVE h1.mem[d] = h.mem[d] /\ h1.mem[d + 2] = h.mem[d + 2]
    <3>1. d \in Payload(sz, d) /\ d + 2 \in Payload(sz, d)
      BY <1>1, <1>5, LinkWords
    <3> QED
      BY <3>1, <1>4, <1>5
  <2>2. \A d \in F : Class(c, sz)[d] \in Lists
    BY <1>1, <1>5, ClassOf
  <2> QED
    BY <2>1, <2>2, <1>1, ChainedSame
<1>7. Rep(h1, c, B, sz, al, F)
  BY <1>1, <1>3, <1>6 DEF Rep
<1>8. ASSUME NEW q \in B, q # h.brk, q # b PROVE Kept(h, h1, q, sz[q])
  BY <1>4, <1>8 DEF Kept, Payload
<1> QED
  BY <1>7, <1>8

----------------------------------------------------------------------------
(* Merging free neighbours                                                 *)

Free(B, al) == {b \in B : al[b] = 0}
Held(B, al, brk) == {b \in B \ {2, brk} : al[b] = 1}

(* All free blocks are on their lists, and no two of them are neighbours.  *)
Sound(h, c, B, sz, al) ==
  /\ Rep(h, c, B, sz, al, Free(B, al))
  /\ \A b \in Free(B, al) : al[b + sz[b]] = 1

(* As Sound, but the free block bp is on no list, whatever its neighbours. *)
Freed(h, c, B, sz, al, bp) ==
  /\ bp \in Free(B, al)
  /\ Rep(h, c, B, sz, al, Free(B, al) \ {bp})
  /\ \A b \in Free(B, al) \ {bp} : al[b + sz[b]] = 1 \/ b + sz[b] = bp

Unlinked(h, c, bp, free) == IF free THEN Del(h, bp, c[SizeOf(h, bp)]) ELSE h

Coalesced(h, c, bp) ==
  LET prev == PREV_BLKP(h, bp)
      next == NEXT_BLKP(h, bp)
      before == ~Allocated(h, prev)
      behind == ~Allocated(h, next)
      at == IF before THEN prev ELSE bp
      size == SizeOf(h, bp) + (IF before THEN SizeOf(h, prev) ELSE 0)
                            + (IF behind THEN SizeOf(h, next) ELSE 0)
  IN  [h |-> Add(Mark(Unlinked(Unlinked(h, c, prev, before), c, next, behind), at, size, 0), at, c[size]),
       bp |-> at]

(* The sizes by which coalesce() finds the lists are those of its blocks,  *)
(* and the tags of the block it is given are in place.                     *)
Meets(h, c, bp) ==
  LET prev == PREV_BLKP(h, bp)
      next == NEXT_BLKP(h, bp)
      before == ~Allocated(h, prev)
      behind == ~Allocated(h, next)
      at == IF before THEN prev ELSE bp
      size == SizeOf(h, bp) + (IF before THEN SizeOf(h, prev) ELSE 0)
                            + (IF behind THEN SizeOf(h, next) ELSE 0)
      h1 == Unlinked(h, c, prev, before)
  IN  /\ Mark(h, bp, SizeOf(h, bp), 0) = h
      /\ SizeOf(h, bp) \in Nat /\ SizeOf(h, prev) \in Nat /\ SizeOf(h, next) \in Nat
      /\ SizeOf(h1, next) \in Nat
      /\ size \in Nat
      /\ SizeOf(Mark(Unlinked(h1, c, next, behind), at, size, 0), at) = size

\* A payload kept twice is kept.
LEMMA KeptTrans ==
  ASSUME NEW h, NEW h1, NEW h2, NEW q, NEW n, Kept(h, h1, q, n), Kept(h1, h2, q, n)
  PROVE  Kept(h, h2, q, n)
BY DEF Kept

\* A payload is kept when nothing happens.
LEMMA KeptSelf ==
  ASSUME NEW h, NEW q, NEW n
  PROVE  Kept(h, h, q, n)
BY DEF Kept

\* Unlinking a neighbour that is free, or not, keeps the heap in order.
LEMMA UnlinkRep ==
  ASSUME NEW h, NEW c \in Classes, NEW B, NEW sz, NEW al, NEW F, Rep(h, c, B, sz, al, F),
         NEW b \in B, NEW free \in BOOLEAN, free => b \in F,
         NEW h1, h1 = Unlinked(h, c, b, free), NEW F1, F1 = IF free THEN F \ {b} ELSE F
  PROVE  /\ Rep(h1, c, B, sz, al, F1)
         /\ h1.brk = h.brk /\ h1.ok = h.ok
         /\ \A q \in B : al[q] = 1 /\ q # h.brk => Kept(h, h1, q, sz[q])
<1>1. CASE free
  <2>1. SizeOf(h, b) = sz[b] /\ b \in F
    BY <1>1, RepFacts
  <2> DEFINE g == Del(h, b, c[sz[b]])
  <2>2. h1 = g
    BY <1>1, <2>1 DEF Unlinked
  <2>3. /\ Rep(g, c, B, sz, al, F \ {b})
        /\ g.brk = h.brk /\ g.ok = h.ok
        /\ \A q \in B : al[q] = 1 /\ q # h.brk => Kept(h, g, q, sz[q])
    BY <2>1, DelRep
  <2>4. F1 = F \ {b}
    BY <1>1
  <2> HIDE DEF g
  <2> QED
    BY <2>2, <2>3, <2>4
<1>2. CASE ~free
  <2>1. h1 = h /\ F1 = F
    BY <1>2 DEF Unlinked
  <2>2. \A q \in B : Kept(h, h, q, sz[q])
    BY KeptSelf
  <2> QED
    BY <2>1, <2>2
<1> QED
  BY <1>1, <1>2

\* No block starts inside another.
LEMMA Between ==
  ASSUME NEW B, NEW sz, NEW brk, Tiled(B, sz, brk), NEW b \in B, NEW d \in B, b <= d, d < b + sz[b]
  PROVE  d = b
<1>1. b \in Nat /\ d \in Nat /\ sz[b] \in Nat /\ sz[d] \in Nat
  BY BlockBounds
<1>2. b # d => b + sz[b] <= d \/ d + sz[d] <= b
  BY BlocksApart
<1> QED
  BY <1>1, <1>2

(* coalesce(): in each of its four cases the block is merged, listed once   *)
(* and in order, and no allocated payload changes.                         *)
LEMMA CoalescedSound ==
  ASSUME NEW h, NEW c \in Classes, NEW B, NEW sz, NEW al, NEW bp, Freed(h, c, B, sz, al, bp)
  PROVE  LET x == Coalesced(h, c, bp) IN
         /\ Meets(h, c, bp)
         /\ \E B1, s1, l1 :
              /\ Sound(x.h, c, B1, s1, l1)
              /\ x.h.brk = h.brk /\ x.h.ok = h.ok
              /\ Held(B1, l1, h.brk) = Held(B, al, h.brk)
              /\ \A q \in Held(B, al, h.brk) : s1[q] = sz[q] /\ Kept(h, x.h, q, sz[q])
              /\ x.bp \in Free(B1, l1) /\ s1[x.bp] >= sz[bp]
<1> DEFINE F == Free(B, al)
           E == F \ {bp}
<1>1. /\ bp \in B /\ al[bp] = 0 /\ Rep(h, c, B, sz, al, E)
      /\ \A b \in E : al[b + sz[b]] = 1 \/ b + sz[b] = bp
      /\ \A b \in B : b \in F <=> al[b] = 0
  <2>1. bp \in F /\ Rep(h, c, B, sz, al, E) /\ \A b \in E : al[b + sz[b]] = 1 \/ b + sz[b] = bp
    BY DEF Freed
  <2>2. \A b : b \in F <=> b \in B /\ al[b] = 0
    BY DEF Free
  <2> QED
    BY <2>1, <2>2
<1>2. /\ Tiled(B, sz, h.brk) /\ bp \notin {2, h.brk}
      /\ bp \in Nat /\ sz[bp] \in Nat /\ sz[bp] >= 6 /\ bp + sz[bp] \in B
      /\ SizeOf(h, bp) = sz[bp] /\ NEXT_BLKP(h, bp) = bp + sz[bp]
  <2>1. Tiled(B, sz, h.brk) /\ bp \notin {2, h.brk} /\ SizeOf(h, bp) = sz[bp] /\ NEXT_BLKP(h, bp) = bp + sz[bp]
    BY <1>1, RepFacts
  <2> QED
    BY <2>1, <1>1, BlockBounds
<1>3. PICK p \in B \ {h.brk} : p + sz[p] = bp
  <2>1. Tiled(B, sz, h.brk) /\ bp \in B \ {2}
    BY <1>1, <1>2
  <2> HIDE DEF F, E
  <2> QED
    BY <2>1, HasPrev
<1> DEFINE n == bp + sz[bp]
           pf == al[p] = 0
           nf == al[n] = 0
           at == IF pf THEN p ELSE bp
           size == sz[bp] + (IF pf THEN sz[p] ELSE 0) + (IF nf THEN sz[n] ELSE 0)
           h1 == Unlinked(h, c, p, pf)
           h2 == Unlinked(h1, c, n, nf)
           h3 == Mark(h2, at, size, 0)
           h4 == Add(h3, at, c[size])
<1>4. /\ PREV_BLKP(h, bp) = p /\ SizeOf(h, p) = sz[p] /\ SizeOf(h, n) = sz[n]
      /\ (~Allocated(h, p) <=> pf) /\ (~Allocated(h, n) <=> nf)
      /\ al[p] \in {0, 1} /\ al[n] \in {0, 1}
      /\ pf => p \notin {2, h.brk}
      /\ nf => n \notin {2, h.brk}
  <2>1. PREV_BLKP(h, bp) = p
    BY <1>1, <1>3, PrevIs
  <2>2. /\ SizeOf(h, p) = sz[p] /\ (Allocated(h, p) <=> al[p] = 1) /\ al[p] \in {0, 1}
        /\ pf => p \notin {2, h.brk}
    BY <1>1, <1>3, RepFacts
  <2>3. /\ SizeOf(h, n) = sz[n] /\ (Allocated(h, n) <=> al[n] = 1) /\ al[n] \in {0, 1}
        /\ nf => n \notin {2, h.brk}
    BY <1>1, <1>2, RepFacts
  <2> QED
    BY <2>1, <2>2, <2>3
<1>5. Coalesced(h, c, bp) = [h |-> h4, bp |-> at]
  <2>1. (~Allocated(h, p)) = pf /\ (~Allocated(h, n)) = nf
    BY <1>4 DEF Allocated
  <2> HIDE DEF pf, nf
  <2> QED
    BY <2>1, <1>2, <1>4 DEF Coalesced
<1>6. /\ p \in Nat /\ sz[p] \in Nat /\ p < bp /\ p # n /\ n \in Nat /\ sz[n] \in Nat /\ n > bp
      /\ n # h.brk => sz[n] >= 2 /\ n + sz[n] \in B
  <2>1. p \in Nat /\ sz[p] \in Nat /\ sz[p] >= 2
    BY <1>2, <1>3, BlockBounds
  <2>2. n \in Nat /\ sz[n] \in Nat /\ (n # h.brk => sz[n] >= 2 /\ n + sz[n] \in B)
    BY <1>2, BlockBounds
  <2> QED
    BY <2>1, <2>2, <1>2, <1>3
<1> DEFINE E1 == IF pf THEN E \ {p} ELSE E
           E2 == IF nf THEN E1 \ {n} ELSE E1
<1>t. Mark(h, bp, sz[bp], 0) = h
  <2>1. /\ h \in HeapType /\ Tiled(B, sz, h.brk)
        /\ h.mem[bp - 1] = sz[bp] + 0 /\ h.mem[bp + sz[bp] - 2] = sz[bp] + 0
    BY <1>1, <1>2, RepFacts
  <2>2. ASSUME NEW a \in Int, h.mem[a] = sz[bp] + 0 PROVE PUT(h, a, sz[bp] + 0) = h
    <3>1. [h.mem EXCEPT ![a] = sz[bp] + 0] = h.mem
      BY <2>1, <2>2 DEF HeapType
    <3>2. h = [h EXCEPT !.mem = h.mem]
      BY <2>1 DEF HeapType
    <3> QED
      BY <3>1, <3>2 DEF PUT
  <2>3. PUT(h, bp - 1, sz[bp] + 0) = h /\ PUT(h, bp + sz[bp] - 2, sz[bp] + 0) = h
    BY <2>1, <2>2, <1>2
  <2> QED
    BY <2>3 DEF Mark, DSIZE
<1>m. SizeOf(h1, n) \in Nat /\ SizeOf(h3, at) = size /\ size \in Nat => Meets(h, c, bp)
  <2>1. (~Allocated(h, p)) = pf /\ (~Allocated(h, n)) = nf
    BY <1>4 DEF Allocated
  <2>2. sz[p] \in Nat /\ sz[n] \in Nat
    BY <1>2, <1>3, BlockBounds
  <2> HIDE DEF pf, nf
  <2> QED
    BY <2>1, <2>2, <1>2, <1>4, <1>t DEF Meets
<1> HIDE DEF h1, h2, h3, h4
<1>7. /\ Rep(h1, c, B, sz, al, E1) /\ h1.brk = h.brk /\ h1.ok = h.ok
      /\ \A q \in B : al[q] = 1 /\ q # h.brk => Kept(h, h1, q, sz[q])
  <2>1. pf \in BOOLEAN /\ (pf => p \in E)
    BY <1>1, <1>3, <1>6
  <2>2. Rep(h, c, B, sz, al, E) /\ p \in B
    BY <1>1, <1>3
  <2> HIDE DEF pf, E
  <2>3. h1 = Unlinked(h, c, p, pf) /\ E1 = IF pf THEN E \ {p} ELSE E
    BY DEF h1, E1
  <2> HIDE DEF E1
  <2> QED
    BY <2>1, <2>2, <2>3, UnlinkRep
<1>8. /\ Rep(h2, c, B, sz, al, E2) /\ h2.brk = h.brk /\ h2.ok = h.ok
      /\ \A q \in B : al[q] = 1 /\ q # h.brk => Kept(h1, h2, q, sz[q])
  <2>1. nf \in BOOLEAN /\ (nf => n \in E1)
    BY <1>1, <1>2, <1>6
  <2>2. Rep(h1, c, B, sz, al, E1) /\ n \in B /\ h1.brk = h.brk /\ h1.ok = h.ok
    BY <1>7, <1>2
  <2> HIDE DEF E1, nf, n
  <2>4. h2 = Unlinked(h1, c, n, nf) /\ E2 = IF nf THEN E1 \ {n} ELSE E1
    BY DEF h2, E2
  <2> HIDE DEF E2
  <2> QED
    BY <2>1, <2>2, <2>4, UnlinkRep
<1>9. \A d \in E2 : d \in B /\ al[d] = 0 /\ d # bp /\ (pf => d # p) /\ (nf => d # n)
  BY DEF Free
<1>10. /\ at \in B /\ at \notin {2, h.brk} /\ at \in Nat /\ at <= bp
       /\ size \in Nat \ {0} /\ size >= sz[bp]
       /\ at + size = IF nf THEN n + sz[n] ELSE n
       /\ at + size \in B
  BY <1>1, <1>2, <1>3, <1>4, <1>6
<1>11. ASSUME NEW d \in B, at <= d, d < at + size
       PROVE  d = bp \/ (pf /\ d = p) \/ (nf /\ d = n)
  <2>0. d \in Nat
    BY <1>2, BlockBounds
  <2>1. CASE d < bp
    <3>1. pf /\ p <= d /\ d < p + sz[p]
      BY <2>0, <2>1, <1>2, <1>3, <1>11
    <3>2. d = p
      BY <3>1, <1>2, <1>3, Between
    <3> QED
      BY <3>1, <3>2
  <2>2. CASE bp <= d /\ d < bp + sz[bp]
    BY <2>2, <1>1, <1>2, Between
  <2>3. CASE bp + sz[bp] <= d
    <3>1. nf /\ n <= d /\ d < n + sz[n]
      BY <2>0, <2>3, <1>2, <1>6, <1>10, <1>11
    <3>2. d = n
      BY <3>1, <1>2, Between
    <3> QED
      BY <3>1, <3>2
  <2> QED
    BY <2>0, <2>1, <2>2, <2>3, <1>2
<1>12. \A d \in E2 : d < at \/ d >= at + size
  <2>1. ASSUME NEW d \in E2 PROVE d < at \/ d >= at + size
    <3>1. d \in B /\ d \in Nat
      BY <1>2, <1>9, BlockBounds
    <3>2. ~(at <= d /\ d < at + size)
      BY <3>1, <1>9, <1>11
    <3> QED
      BY <3>1, <3>2, <1>10
  <2> QED
    BY <2>1
<1> DEFINE C == Whole(B, at, size)
           s == WholeOf(B, sz, at, size, size)
           l == WholeOf(B, al, at, size, 0)
<1>13. /\ Rep(h3, c, C, s, l, E2) /\ h3.brk = h.brk /\ h3.ok = h.ok
       /\ \A q \in B : q # h.brk /\ (q < at \/ q >= at + size) => Kept(h2, h3, q, sz[q])
  <2> HIDE DEF at, size, E2
  <2> QED
    BY <1>8, <1>10, <1>12, MarkRep DEF h3
<1>14. /\ at \in C /\ \A b \in C : /\ b \in B /\ (b <= at \/ b >= at + size)
                                   /\ s[b] = IF b = at THEN size ELSE sz[b]
                                   /\ l[b] = IF b = at THEN 0 ELSE al[b]
       /\ \A b \in B : b <= at \/ b >= at + size => b \in C
  BY <1>10 DEF Whole, WholeOf
<1> HIDE DEF at, size, E2, C, s, l
<1>15. /\ Rep(h4, c, C, s, l, E2 \cup {at}) /\ h4.brk = h.brk /\ h4.ok = h.ok
       /\ \A q \in C : l[q] = 1 /\ q # h.brk => Kept(h3, h4, q, s[q])
  <2>1. at \notin E2
    BY <1>10, <1>12
  <2>2. s[at] = size /\ l[at] = 0
    BY <1>14
  <2> QED
    BY <2>1, <2>2, <1>13, <1>14, AddRep DEF h4
<1>16. E2 \cup {at} = Free(C, l)
  <2>1. ASSUME NEW d \in E2 PROVE d \in C /\ l[d] = 0
    <3>1. d \in B /\ al[d] = 0
      BY <1>9
    <3>2. d \in Nat /\ (d <= at \/ d >= at + size)
      BY <3>1, <1>2, <1>10, <1>12, BlockBounds
    <3> QED
      BY <3>1, <3>2, <1>14
  <2>2. ASSUME NEW d \in C, l[d] = 0, d # at PROVE d \in E2
    <3>1. d \in B /\ al[d] = 0 /\ d \in Nat /\ (d <= at \/ d >= at + size)
      BY <2>2, <1>2, <1>14, BlockBounds
    <3>2. d # bp
      <4>1. SUFFICES ASSUME d = bp PROVE FALSE
        OBVIOUS
      <4>2. bp < at + size
        BY <1>2, <1>6, <1>10
      <4> QED
        BY <4>1, <4>2, <3>1, <2>2, <1>10
    <3>3. pf => d # p
      BY <2>2 DEF at
    <3>4. nf => d # n
      <4>1. SUFFICES ASSUME nf, d = n PROVE FALSE
        OBVIOUS
      <4>2. n < at + size /\ n > at
        BY <4>1, <1>2, <1>4, <1>6, <1>10
      <4> QED
        BY <4>1, <4>2, <3>1, <1>10
    <3> QED
      BY <3>1, <3>2, <3>3, <3>4 DEF E2, Free
  <2> QED
    BY <2>1, <2>2, <1>14 DEF Free
<1>17. ASSUME NEW b \in Free(C, l) PROVE l[b + s[b]] = 1
  <2>1. b \in C /\ l[b] = 0 /\ b \in B /\ b \in Nat /\ b # h.brk /\ Tiled(C, s, h.brk)
    <3>1. b \in C /\ l[b] = 0 /\ b \in B
      BY <1>14 DEF Free
    <3>2. b # h.brk /\ Tiled(C, s, h.brk)
      BY <3>1, <1>13, RepFacts
    <3> QED
      BY <3>1, <3>2, <1>2, BlockBounds
  <2>2. CASE b = at
    <3>1. b + s[b] = at + size /\ at + size # at /\ at + size \in C
      BY <2>2, <1>10, <1>14
    <3>2. al[at + size] = 1
      <4>1. CASE nf
        <5>1. n \in E /\ at + size = n + sz[n]
          BY <4>1, <1>1, <1>2, <1>6, <1>10
        <5>2. n + sz[n] # bp
          BY <1>6, <1>2
        <5> QED
          BY <5>1, <5>2, <1>1
      <4>2. CASE ~nf
        BY <4>2, <1>4, <1>10
      <4> QED
        BY <4>1, <4>2
    <3> QED
      BY <3>1, <3>2, <1>14
  <2>3. CASE b # at
    <3>1. s[b] = sz[b] /\ al[b] = 0 /\ b \in E
      <4>1. b \in E2
        BY <2>3, <1>16
      <4> QED
        BY <4>1, <2>1, <2>3, <1>14 DEF E2
    <3>2. b + sz[b] \in C
      BY <2>1, <3>1, BlockBounds
    <3>3. b + sz[b] # bp
      <4>1. SUFFICES ASSUME b + sz[b] = bp PROVE FALSE
        OBVIOUS
      <4>2. b = p
        <5>1. b # p => b + sz[b] <= p \/ p + sz[p] <= b
          BY <2>1, <1>2, <1>3, BlocksApart
        <5>2. sz[b] \in Nat /\ sz[b] >= 2
          BY <2>1, <1>2, BlockBounds
        <5> QED
          BY <5>1, <5>2, <4>1, <1>3, <1>6, <2>1
      <4> QED
        BY <4>2, <3>1, <2>3 DEF at
    <3>4. al[b + sz[b]] = 1
      BY <3>1, <3>3, <1>1
    <3>5. b + sz[b] # at
      BY <3>3, <3>4 DEF at
    <3> QED
      BY <3>1, <3>2, <3>4, <3>5, <1>14
  <2> QED
    BY <2>2, <2>3
<1>18. Sound(h4, c, C, s, l)
  BY <1>15, <1>16, <1>17 DEF Sound
<1>19. ASSUME NEW q \in B, al[q] = 1 PROVE q \in Nat /\ (q < at \/ q >= at + size)
  <2>1. q \in Nat
    BY <1>2, BlockBounds
  <2>2. ~(at <= q /\ q < at + size)
    BY <1>1, <1>11, <1>19
  <2> QED
    BY <2>1, <2>2, <1>10
<1>20. Held(C, l, h.brk) = Held(B, al, h.brk)
  <2>1. ASSUME NEW q \in Held(C, l, h.brk) PROVE q \in Held(B, al, h.brk)
    BY <1>14 DEF Held
  <2>2. ASSUME NEW q \in Held(B, al, h.brk) PROVE q \in Held(C, l, h.brk)
    <3>1. q \in B /\ al[q] = 1 /\ q \notin {2, h.brk}
      BY DEF Held
    <3>2. q \in C /\ q # at
      BY <3>1, <1>10, <1>14, <1>19
    <3> QED
      BY <3>1, <3>2, <1>14 DEF Held
  <2> QED
    BY <2>1, <2>2
<1>21. ASSUME NEW q \in Held(B, al, h.brk) PROVE s[q] = sz[q] /\ Kept(h, h4, q, sz[q])
  <2>1. q \in B /\ al[q] = 1 /\ q # h.brk
    BY DEF Held
  <2>2. q \in C /\ l[q] = 1
    BY <1>20 DEF Held
  <2>3. q # at /\ s[q] = sz[q] /\ (q < at \/ q >= at + size)
    BY <2>1, <2>2, <1>14, <1>19
  <2>4. Kept(h, h1, q, sz[q]) /\ Kept(h1, h2, q, sz[q]) /\ Kept(h2, h3, q, sz[q]) /\ Kept(h3, h4, q, sz[q])
    BY <2>1, <2>2, <2>3, <1>7, <1>8, <1>13, <1>15
  <2> QED
    BY <2>3, <2>4, KeptTrans
<1>22. at \in Free(C, l) /\ s[at] >= sz[bp]
  BY <1>10, <1>14 DEF Free
<1>23. Meets(h, c, bp)
  <2>1. SizeOf(h1, n) \in Nat
    <3>1. Rep(h1, c, B, sz, al, E1) /\ n \in B
      BY <1>2, <1>7
    <3>2. SizeOf(h1, n) = sz[n] /\ sz[n] \in Nat
      <4> HIDE DEF n, E1
      <4> QED
        BY <3>1, RepFacts
    <3> QED
      BY <3>2
  <2>2. SizeOf(h3, at) = size
    <3>1. SizeOf(h3, at) = s[at]
      BY <1>13, <1>14, RepFacts
    <3> QED
      BY <3>1, <1>14
  <2> QED
    BY <2>1, <2>2, <1>10, <1>m
<1> QED
  BY <1>5, <1>15, <1>18, <1>20, <1>21, <1>22, <1>23

----------------------------------------------------------------------------
(* Payloads held and kept                                                  *)

HeldSizes(B, sz, al, brk) == [q \in Held(B, al, brk) |-> sz[q]]

(* The heap is in order, and the allocated blocks have the sizes s.        *)
Holds(h, c, s) == \E B, sz, al : Sound(h, c, B, sz, al) /\ s = HeldSizes(B, sz, al, h.brk)

(* ... and there is a free block of n words or more at bp.                 *)
Offers(h, c, s, bp, n) ==
  \E B, sz, al : /\ Sound(h, c, B, sz, al) /\ s = HeldSizes(B, sz, al, h.brk)
                 /\ bp \in Free(B, al) /\ sz[bp] >= n

(* The payloads of the blocks of sizes s are what they were.               *)
KeptAll(h, h1, s) == /\ h1.ok = h.ok /\ h.brk <= h1.brk
                     /\ \A q \in DOMAIN s : Kept(h, h1, q, s[q])

Grown(h, c, words, granted) ==
  LET size == Even(words)
      new == mem_sbrk(h, size, granted)
      h1 == Mark(new.h, new.at, size, 0)
  IN  IF ~new.got THEN [h |-> h, bp |-> NULL]
      ELSE Coalesced(PUT(h1, new.at + size - 1, 1), c, new.at)

\* Payloads kept twice are kept.
LEMMA KeptAllTrans ==
  ASSUME NEW h \in HeapType, NEW h1 \in HeapType, NEW h2 \in HeapType, NEW s, KeptAll(h, h1, s), KeptAll(h1, h2, s)
  PROVE  KeptAll(h, h2, s)
<1>1. h.brk \in Nat /\ h1.brk \in Nat /\ h2.brk \in Nat
  BY DEF HeapType
<1> QED
  BY <1>1, KeptTrans DEF KeptAll

\* All payloads are kept when nothing happens.
LEMMA KeptAllSelf ==
  ASSUME NEW h \in HeapType, NEW s
  PROVE  KeptAll(h, h, s)
<1>1. h.brk \in Nat
  BY DEF HeapType
<1> QED
  BY <1>1, KeptSelf DEF KeptAll

\* A heap that holds payloads is well typed.
LEMMA HoldsType ==
  ASSUME NEW h, NEW c, NEW s, Holds(h, c, s)
  PROVE  h \in HeapType
BY DEF Holds, Sound, Rep

\* A heap that offers a block is in order.
LEMMA OffersHolds ==
  ASSUME NEW h, NEW c, NEW s, NEW bp, NEW n, Offers(h, c, s, bp, n)
  PROVE  Holds(h, c, s)
BY DEF Holds, Offers

\* coalesce() as its callers see it: a free block at least as large.
LEMMA CoalescedHolds ==
  ASSUME NEW h, NEW c \in Classes, NEW B, NEW sz, NEW al, NEW bp, Freed(h, c, B, sz, al, bp),
         NEW n \in Nat, sz[bp] >= n
  PROVE  LET x == Coalesced(h, c, bp)
             s == HeldSizes(B, sz, al, h.brk) IN
         /\ Meets(h, c, bp)
         /\ Offers(x.h, c, s, x.bp, n)
         /\ KeptAll(h, x.h, s)
<1> DEFINE x == Coalesced(h, c, bp)
           s == HeldSizes(B, sz, al, h.brk)
<1>1. PICK B1, s1, l1 :
            /\ Sound(x.h, c, B1, s1, l1)
            /\ x.h.brk = h.brk /\ x.h.ok = h.ok
            /\ Held(B1, l1, h.brk) = Held(B, al, h.brk)
            /\ \A q \in Held(B, al, h.brk) : s1[q] = sz[q] /\ Kept(h, x.h, q, sz[q])
            /\ x.bp \in Free(B1, l1) /\ s1[x.bp] >= sz[bp]
  BY CoalescedSound
<1>2. s1[x.bp] \in Nat /\ sz[bp] \in Nat /\ h.brk \in Nat
  <2>1. Rep(x.h, c, B1, s1, l1, Free(B1, l1)) /\ x.bp \in B1
    BY <1>1 DEF Sound, Free
  <2>2. Rep(h, c, B, sz, al, Free(B, al) \ {bp}) /\ bp \in B
    BY DEF Freed, Free
  <2>3. h.brk \in Nat
    BY <2>2 DEF Rep, HeapType
  <2> HIDE DEF x
  <2>4. s1[x.bp] \in Nat
    BY <2>1, RepFacts
  <2>5. sz[bp] \in Nat
    BY <2>2, RepFacts
  <2> QED
    BY <2>3, <2>4, <2>5
<1> HIDE DEF x
<1>3. s1[x.bp] >= n
  BY <1>1, <1>2
<1>4. s = HeldSizes(B1, s1, l1, x.h.brk)
  BY <1>1 DEF HeldSizes
<1>5. \A q \in DOMAIN s : q \in Held(B, al, h.brk) /\ s[q] = sz[q]
  BY DEF HeldSizes
<1> HIDE DEF s
<1>6. Offers(x.h, c, s, x.bp, n)
  BY <1>1, <1>3, <1>4 DEF Offers
<1>7. KeptAll(h, x.h, s)
  BY <1>1, <1>2, <1>5 DEF KeptAll
<1>8. Meets(h, c, bp)
  BY CoalescedSound
<1> QED
  BY <1>6, <1>7, <1>8 DEF x, s

\* Rounding up to an even number of words.
LEMMA EvenIs ==
  ASSUME NEW n \in Nat
  PROVE  Even(n) \in Nat /\ Even(n) % 2 = 0 /\ n <= Even(n) /\ Even(n) <= n + 1 /\ (n >= 5 => Even(n) >= 6)
BY DEF Even

\* mem_sbrk() gives the words above brk, or nothing.
LEMMA SbrkIs ==
  ASSUME NEW h \in HeapType, NEW n \in Nat, NEW granted \in BOOLEAN
  PROVE  LET new == mem_sbrk(h, n, granted) IN
         /\ new.got <=> granted /\ h.brk + n <= MAX_HEAP
         /\ new.got => /\ new.at = h.brk /\ new.h \in HeapType
                       /\ new.h.mem = h.mem /\ new.h.fl = h.fl /\ new.h.ok = h.ok
                       /\ new.h.brk = h.brk + n
<1>1. h.brk \in Nat /\ MAX_HEAP \in Nat
  BY BlocksAssumption DEF HeapType
<1>2. CASE granted /\ h.brk + n <= MAX_HEAP
  <2> DEFINE g == [h EXCEPT !.brk = h.brk + n]
  <2>1. g \in HeapType /\ g.mem = h.mem /\ g.fl = h.fl /\ g.ok = h.ok /\ g.brk = h.brk + n
    BY <1>1, <1>2 DEF HeapType
  <2>2. mem_sbrk(h, n, granted) = [got |-> TRUE, at |-> h.brk, h |-> g]
    BY <1>2 DEF mem_sbrk
  <2> DEFINE r == mem_sbrk(h, n, granted)
  <2>3. r.got = TRUE /\ r.at = h.brk /\ r.h = g
    BY <2>2
  <2> HIDE DEF g, r
  <2>4. /\ r.got <=> granted /\ h.brk + n <= MAX_HEAP
        /\ r.got => /\ r.at = h.brk /\ r.h \in HeapType
                    /\ r.h.mem = h.mem /\ r.h.fl = h.fl /\ r.h.ok = h.ok
                    /\ r.h.brk = h.brk + n
    BY <2>1, <2>3, <1>2
  <2> QED
    BY <2>4 DEF r
<1>3. CASE ~(granted /\ h.brk + n <= MAX_HEAP)
  BY <1>3 DEF mem_sbrk
<1> QED
  BY <1>2, <1>3

\* extend_heap() finds the lists by the sizes of its blocks.
GrownMeets(h, c, words, granted) ==
  LET size == Even(words)
      new == mem_sbrk(h, size, granted)
  IN  new.got => Meets(PUT(Mark(new.h, new.at, size, 0), new.at + size - 1, 1), c, new.at)

(* extend_heap(): the heap stays as it is, or offers a block that large.   *)
LEMMA GrownHolds ==
  ASSUME NEW h, NEW c \in Classes, NEW s, Holds(h, c, s), NEW words \in Nat, words >= 5,
         NEW granted \in BOOLEAN
  PROVE  LET x == Grown(h, c, words, granted) IN
         /\ GrownMeets(h, c, words, granted)
         /\ ~(granted /\ h.brk + Even(words) <= MAX_HEAP) => x = [h |-> h, bp |-> NULL]
         /\ granted /\ h.brk + Even(words) <= MAX_HEAP => /\ Offers(x.h, c, s, x.bp, words)
                                                          /\ KeptAll(h, x.h, s)
<1> DEFINE size == Even(words)
           new == mem_sbrk(h, size, granted)
           x == Grown(h, c, words, granted)
<1>1. size \in Nat /\ size % 2 = 0 /\ words <= size /\ size >= 6
  BY EvenIs
<1> HIDE DEF size
<1>2. h \in HeapType
  BY HoldsType
<1>3. /\ new.got <=> granted /\ h.brk + size <= MAX_HEAP
      /\ new.got => /\ new.at = h.brk /\ new.h \in HeapType
                    /\ new.h.mem = h.mem /\ new.h.fl = h.fl /\ new.h.ok = h.ok
                    /\ new.h.brk = h.brk + size
  BY <1>1, <1>2, SbrkIs
<1> HIDE DEF new
<1>4. CASE ~new.got
  BY <1>3, <1>4 DEF Grown, GrownMeets, new, size
<1>5. CASE new.got
  <2> DEFINE g == new.h
             h1 == PUT(Mark(g, h.brk, size, 0), h.brk + size - 1, 1)
  <2>1. x = Coalesced(h1, c, h.brk)
    BY <1>3, <1>5 DEF Grown, new, size
  <2>2. PICK B, sz, al : Sound(h, c, B, sz, al) /\ s = HeldSizes(B, sz, al, h.brk)
    BY DEF Holds
  <2> DEFINE e == h.brk + size
             C == B \cup {e}
             z == With(B, sz, h.brk, size, e, 0)
             a == With(B, al, h.brk, 0, e, 1)
             F == Free(B, al)
  <2>3. Rep(h, c, B, sz, al, F) /\ \A b \in F : al[b + sz[b]] = 1
    BY <2>2 DEF Sound
  <2>4. /\ Rep(h1, c, C, z, a, F)
        /\ e \notin B
        /\ h1.brk = e /\ h1.ok = h.ok
        /\ \A q \in B : q # h.brk => Kept(h, h1, q, sz[q])
    <3>1. /\ g \in HeapType /\ g.mem = h.mem /\ g.fl = h.fl /\ g.ok = h.ok /\ g.brk = h.brk + size
          /\ Rep(h, c, B, sz, al, F)
      BY <2>3, <1>3, <1>5
    <3>2. e = h.brk + size /\ h1 = PUT(Mark(g, h.brk, size, 0), h.brk + size - 1, 1)
      OBVIOUS
    <3> HIDE DEF g, F, e, h1, C, z, a
    <3>4. GrowsBy(h, g, h1, size, e)
      BY ONLY <3>1, <3>2, <1>1 DEF GrowsBy
    <3>5. Extended(h, h1, c, B, sz, al, F, size, e)
      BY <3>1, <3>4, ExtendRep
    <3>3. Rep(h1, c, B \cup {e}, With(B, sz, h.brk, size, e, 0), With(B, al, h.brk, 0, e, 1), F) /\ e \notin B
          /\ h1.brk = e /\ h1.ok = h.ok
          /\ \A q \in B : q # h.brk => Kept(h, h1, q, sz[q])
      BY <3>5 DEF Extended
    <3> QED
      BY <3>3 DEF C, z, a
  <2>5. /\ h.brk \in B /\ h.brk # 2 /\ h.brk \in Nat /\ Tiled(B, sz, h.brk)
        /\ \A b \in B : b \in F <=> al[b] = 0
        /\ \A b \in F : b \in B /\ b # h.brk /\ b # 2
        /\ al[h.brk] = 1
    <3>1. Tiled(B, sz, h.brk) /\ Tagged(h.mem, B, sz, al, h.brk)
      BY <2>3 DEF Rep
    <3>2. h.brk \in B /\ h.brk # 2 /\ h.brk \in Nat /\ al[h.brk] = 1 /\ al[2] = 1
      <4>1. h.brk \in B
        BY <3>1 DEF Tiled
      <4>2. al[h.brk] = 1 /\ al[2] = 1
        BY <3>1 DEF Tagged
      <4>3. h.brk \in Nat /\ h.brk >= 4
        BY <3>1, <4>1, BlockBounds
      <4> QED
        BY <4>1, <4>2, <4>3
    <3>3. \A b : b \in F <=> b \in B /\ al[b] = 0
      BY DEF Free
    <3> HIDE DEF F
    <3> QED
      BY <3>1, <3>2, <3>3
  <2>6. /\ h.brk \in C /\ e \in C /\ e # h.brk /\ z[h.brk] = size /\ a[h.brk] = 0
        /\ a[e] = 1 /\ z[e] = 0
        /\ \A b \in B : b # h.brk => z[b] = sz[b] /\ a[b] = al[b]
    BY <2>4, <2>5, <1>1 DEF With
  <2>7. Free(C, a) = F \cup {h.brk}
    <3> HIDE DEF a, F
    <3>1. \A b \in C : a[b] = 0 <=> b \in F \cup {h.brk}
      BY <2>4, <2>5, <2>6
    <3> QED
      BY <3>1, <2>5 DEF Free
  <2>8. Freed(h1, c, C, z, a, h.brk)
    <3>1. Free(C, a) \ {h.brk} = F
      BY <2>5, <2>7
    <3>2. ASSUME NEW b \in F PROVE a[b + z[b]] = 1 \/ b + z[b] = h.brk
      <4>1. z[b] = sz[b] /\ al[b + sz[b]] = 1 /\ b + sz[b] \in B
        BY <2>3, <2>5, <2>6, BlockBounds
      <4> HIDE DEF z, a
      <4> QED
        BY <4>1, <2>6
    <3> HIDE DEF F, a, z, C, e, h1
    <3> QED
      BY <3>1, <3>2, <2>4, <2>7 DEF Freed
  <2>9. HeldSizes(C, z, a, e) = s
    <3>1. Held(C, a, e) = Held(B, al, h.brk)
      <4>1. ASSUME NEW q \in Held(C, a, e) PROVE q \in Held(B, al, h.brk)
        <5>1. q \in C /\ a[q] = 1 /\ q # 2 /\ q # e
          BY DEF Held
        <5> HIDE DEF a, e
        <5> QED
          BY <5>1, <2>6 DEF Held
      <4>2. ASSUME NEW q \in Held(B, al, h.brk) PROVE q \in Held(C, a, e)
        <5>1. q \in B /\ al[q] = 1 /\ q # 2 /\ q # h.brk
          BY DEF Held
        <5>2. q # e /\ q \in C /\ a[q] = 1
          BY <5>1, <2>4, <2>6
        <5> HIDE DEF a, e, C
        <5> QED
          BY <5>1, <5>2 DEF Held
      <4> QED
        BY <4>1, <4>2
    <3>2. \A q \in Held(B, al, h.brk) : z[q] = sz[q]
      BY <2>6 DEF Held
    <3> HIDE DEF z, a, e, C
    <3> QED
      BY <3>1, <3>2, <2>2 DEF HeldSizes
  <2>10. Meets(h1, c, h.brk) /\ Offers(x.h, c, s, x.bp, words) /\ KeptAll(h1, x.h, s)
    <3>1. z[h.brk] >= words
      BY <1>1, <2>6
    <3>2. HeldSizes(C, z, a, h1.brk) = s
      BY <2>4, <2>9
    <3> HIDE DEF z, a, e, C, h1, x
    <3> QED
      BY <3>1, <3>2, <2>1, <2>8, CoalescedHolds
  <2>11. KeptAll(h, h1, s)
    <3>1. \A q \in DOMAIN s : q \in B /\ q # h.brk /\ s[q] = sz[q]
      BY <2>2 DEF HeldSizes, Held
    <3>2. h.brk <= h1.brk
      BY <2>4, <2>5, <1>1
    <3> HIDE DEF h1
    <3> QED
      BY <3>1, <3>2, <2>4 DEF KeptAll
  <2>12. h1 \in HeapType /\ x.h \in HeapType
    <3>1. Holds(x.h, c, s)
      BY <2>10, OffersHolds
    <3> QED
      BY <3>1, <2>4, HoldsType DEF Rep
  <2>13. KeptAll(h, x.h, s)
    <3> HIDE DEF h1, x
    <3> QED
      BY <2>10, <2>11, <2>12, <1>2, KeptAllTrans
  <2>14. GrownMeets(h, c, words, granted)
    BY <2>10, <1>3, <1>5 DEF GrownMeets, size, new
  <2> QED
    BY <2>10, <2>13, <2>14, <1>3, <1>5 DEF size
<1> QED
  BY <1>4, <1>5

----------------------------------------------------------------------------
(* Placing a block                                                         *)

Taken(h, c, bp, asize) ==
  LET csize == SizeOf(h, bp)
      h1 == Del(h, bp, c[csize])
  IN  IF csize - asize >= 6
      THEN Add(Mark(Mark(h1, bp, asize, 1), bp + asize, csize - asize, 0), bp + asize, c[csize - asize])
      ELSE Mark(h1, bp, csize, 1)

\* place() finds the lists by the sizes of its blocks.
TakenMeets(h, c, bp, asize) ==
  LET csize == SizeOf(h, bp)
      h1 == Del(h, bp, c[csize])
  IN  /\ csize \in Nat
      /\ csize - asize >= 6
           => SizeOf(Mark(Mark(h1, bp, asize, 1), bp + asize, csize - asize, 0), bp + asize) = csize - asize

(* s1 is s with one more block, at bp, of n words or more.                 *)
Gains(s, s1, bp, n) == /\ bp \notin DOMAIN s /\ DOMAIN s1 = DOMAIN s \cup {bp}
                       /\ s1[bp] >= n
                       /\ \A q \in DOMAIN s : s1[q] = s[q]

\* A block changes its tag only.
LEMMA RemarkRep ==
  ASSUME NEW h, NEW c \in Classes, NEW B, NEW sz, NEW al, NEW F, Rep(h, c, B, sz, al, F),
         NEW b \in B, b \notin {2, h.brk}, b \notin F, NEW a \in {0, 1},
         NEW h1, h1 = Mark(h, b, sz[b], a),
         NEW l, l = [d \in B |-> IF d = b THEN a ELSE al[d]]
  PROVE  /\ Rep(h1, c, B, sz, l, F)
         /\ h1.brk = h.brk /\ h1.ok = h.ok
         /\ \A q \in B : q # h.brk /\ q # b => Kept(h, h1, q, sz[q])
<1>1. /\ Tiled(B, sz, h.brk) /\ h.brk \in B
      /\ \A d \in F : d \in B
  BY DEF Rep, Tiled
<1>2. b \in Nat /\ sz[b] \in Nat \ {0} /\ b + sz[b] \in B
  BY <1>1, BlockBounds
<1>3. ASSUME NEW d \in B PROVE d <= b \/ d >= b + sz[b]
  <2>1. d \in Nat /\ sz[d] \in Nat
    BY <1>1, BlockBounds
  <2>2. d # b => b + sz[b] <= d \/ d + sz[d] <= b
    BY <1>1, BlocksApart
  <2> QED
    BY <2>1, <2>2, <1>2
<1>4. \A d \in F : d < b \/ d >= b + sz[b]
  <2>1. ASSUME NEW d \in F PROVE d < b \/ d >= b + sz[b]
    <3>1. d \in Nat
      BY <1>1, BlockBounds
    <3> QED
      BY <3>1, <1>1, <1>2, <1>3
  <2> QED
    BY <2>1
<1>5. Whole(B, b, sz[b]) = B
  BY <1>3 DEF Whole
<1>6. WholeOf(B, sz, b, sz[b], sz[b]) = sz
  <2>1. sz = [d \in B |-> sz[d]]
    BY <1>1 DEF Tiled
  <2> QED
    BY <2>1, <1>5 DEF WholeOf
<1>7. WholeOf(B, al, b, sz[b], a) = l
  BY <1>5 DEF WholeOf
<1>8. /\ Rep(h1, c, Whole(B, b, sz[b]), WholeOf(B, sz, b, sz[b], sz[b]), WholeOf(B, al, b, sz[b], a), F)
      /\ h1.brk = h.brk /\ h1.ok = h.ok
      /\ \A q \in B : q # h.brk /\ (q < b \/ q >= b + sz[b]) => Kept(h, h1, q, sz[q])
  BY <1>2, <1>4, MarkRep
<1>9. ASSUME NEW q \in B, q # h.brk, q # b PROVE Kept(h, h1, q, sz[q])
  <2>1. q \in Nat
    BY <1>1, BlockBounds
  <2> QED
    BY <2>1, <1>2, <1>3, <1>8, <1>9
<1> QED
  BY <1>5, <1>6, <1>7, <1>8, <1>9

(* place(): the free block is allocated, and what is left of it is free.   *)
LEMMA TakenHolds ==
  ASSUME NEW h, NEW c \in Classes, NEW s, NEW bp, NEW n \in Nat, n >= 6, n % 2 = 0, Offers(h, c, s, bp, n)
  PROVE  LET h1 == Taken(h, c, bp, n) IN
         /\ TakenMeets(h, c, bp, n)
         /\ \E s1 : Holds(h1, c, s1) /\ Gains(s, s1, bp, n) /\ KeptAll(h, h1, s)
<1>1. PICK B, sz, al : /\ Sound(h, c, B, sz, al) /\ s = HeldSizes(B, sz, al, h.brk)
                       /\ bp \in Free(B, al) /\ sz[bp] >= n
  BY DEF Offers
<1> DEFINE F == Free(B, al)
           h0 == Del(h, bp, c[sz[bp]])
           E == F \ {bp}
           h1 == Taken(h, c, bp, n)
<1>2. /\ Rep(h, c, B, sz, al, F) /\ bp \in F /\ bp \in B /\ al[bp] = 0
      /\ \A b \in F : al[b + sz[b]] = 1
      /\ \A b \in B : b \in F <=> al[b] = 0
      /\ \A b \in F : b \in B
  BY <1>1 DEF Sound, Free
<1>3. /\ Tiled(B, sz, h.brk) /\ SizeOf(h, bp) = sz[bp] /\ bp \notin {2, h.brk} /\ sz[bp] \in Nat
      /\ sz[bp] % 2 = 0 /\ h.brk \in Nat /\ bp \in Nat /\ al \in [B -> {0, 1}]
  <2>1. /\ Tiled(B, sz, h.brk) /\ SizeOf(h, bp) = sz[bp] /\ bp \notin {2, h.brk} /\ sz[bp] \in Nat
        /\ sz[bp] % 2 = 0 /\ Tagged(h.mem, B, sz, al, h.brk)
    BY <1>2, RepFacts
  <2>2. h.brk \in Nat /\ bp \in Nat
    BY <2>1, <1>2, BlockBounds
  <2> QED
    BY <2>1, <2>2 DEF Tagged
<1>4. /\ Rep(h0, c, B, sz, al, E)
      /\ h0.brk = h.brk /\ h0.ok = h.ok
      /\ \A q \in B : al[q] = 1 /\ q # h.brk => Kept(h, h0, q, sz[q])
  <2> HIDE DEF F
  <2> QED
    BY <1>2, DelRep
<1>5. \A q \in DOMAIN s : q \in B /\ q \notin {2, h.brk} /\ al[q] = 1 /\ s[q] = sz[q] /\ q # bp
  BY <1>1, <1>2 DEF HeldSizes, Held
<1>6. DOMAIN s = Held(B, al, h.brk)
  BY <1>1 DEF HeldSizes
<1> DEFINE y == sz[bp] - n
<1>7. CASE y >= 6
  <2> DEFINE e == bp + n
             h2 == Mark(Mark(h0, bp, n, 1), e, y, 0)
             C == B \cup {e}
             z == With(B, sz, bp, n, e, y)
             a == With(B, al, bp, 1, e, 0)
             h3 == Add(h2, e, c[y])
             s1 == HeldSizes(C, z, a, h.brk)
  <2>1. h1 = h3
    BY <1>3, <1>7 DEF Taken
  <2>2. y \in Nat /\ n + y = sz[bp]
    BY <1>1, <1>3, <1>7
  <2>3. e \notin B
    BY <1>2, <1>3, <1>7, <2>2, SplitTiled
  <2> HIDE DEF y, F, E, h0
  <2>4. /\ Rep(h2, c, C, z, a, E)
        /\ h2.brk = h.brk /\ h2.ok = h.ok
        /\ \A q \in B : q # h.brk /\ q # bp => Kept(h0, h2, q, sz[q])
    <3>1. bp \notin E /\ bp \notin {2, h0.brk} /\ 1 \in {0, 1} /\ 0 \in {0, 1}
      BY <1>3, <1>4 DEF E
    <3>2. SplitInto(h0, h2, bp, n, 1, e, y, 0)
      BY DEF SplitInto
    <3>3. Halves(sz, bp, n, y)
      BY <2>2, <1>7 DEF Halves
    <3> HIDE DEF e, h2
    <3>4. /\ Rep(h2, c, B \cup {e}, With(B, sz, bp, n, e, y), With(B, al, bp, 1, e, 0), E)
          /\ h2.brk = h0.brk /\ h2.ok = h0.ok
          /\ \A q \in B : q # h0.brk /\ q # bp => Kept(h0, h2, q, sz[q])
      BY <3>1, <3>2, <3>3, <1>2, <1>4, SplitRep
    <3> QED
      BY <3>4, <1>4
  <2>5. /\ e \in C /\ z[e] = y /\ a[e] = 0 /\ bp \in C /\ z[bp] = n /\ a[bp] = 1 /\ e # bp
        /\ \A d \in B : d # bp => z[d] = sz[d] /\ a[d] = al[d]
    BY <2>3, <1>2 DEF With
  <2>6. e \notin E
    BY <2>3, <1>2 DEF E
  <2> HIDE DEF z, a, C, h2, e
  <2>7. /\ Rep(h3, c, C, z, a, E \cup {e})
        /\ h3.brk = h.brk /\ h3.ok = h.ok
        /\ \A q \in C : a[q] = 1 /\ q # h.brk => Kept(h2, h3, q, z[q])
    <3> DEFINE g == Add(h2, e, c[z[e]])
    <3>1. Rep(h2, c, C, z, a, E) /\ e \in C /\ a[e] = 0 /\ e \notin E
      BY <2>4, <2>5, <2>6
    <3>2. /\ Rep(g, c, C, z, a, E \cup {e})
          /\ g.brk = h2.brk /\ g.ok = h2.ok
          /\ \A q \in C : a[q] = 1 /\ q # h2.brk => Kept(h2, g, q, z[q])
      BY ONLY <3>1, c \in Classes, AddRep
    <3>3. h3 = g
      BY <2>5
    <3> HIDE DEF h3, g
    <3> QED
      BY <3>2, <3>3, <2>4
  <2>8. \A d : d \in C <=> d \in B \/ d = e
    BY DEF C
  <2>9. Free(C, a) = E \cup {e}
    <3>1. \A d \in C : a[d] = 0 <=> d \in E \cup {e}
      BY <2>3, <2>5, <2>8, <1>2 DEF E
    <3>2. \A d \in E \cup {e} : d \in C
      BY <2>8, <1>2 DEF E
    <3> QED
      BY <3>1, <3>2 DEF Free
  <2>10. ASSUME NEW b \in Free(C, a) PROVE a[b + z[b]] = 1
    <3>1. CASE b = e
      <4>1. b + z[b] = bp + sz[bp] /\ bp + sz[bp] # bp
        BY <3>1, <2>2, <2>5, <1>3, <1>7 DEF e
      <4>2. bp + sz[bp] \in B /\ al[bp + sz[bp]] = 1
        BY <1>2, <1>3, BlockBounds
      <4> QED
        BY <4>1, <4>2, <2>5
    <3>2. CASE b # e
      <4>1. b \in E /\ b \in F /\ b # bp /\ b \in B
        BY <3>2, <2>9, <1>2 DEF E
      <4>2. z[b] = sz[b] /\ al[b + sz[b]] = 1 /\ b # h.brk
        BY <4>1, <2>5, <1>2, RepFacts
      <4>3. b + sz[b] \in B
        BY <4>1, <4>2, <1>3, BlockBounds
      <4> QED
        BY <4>2, <4>3, <2>5, <1>2
    <3> QED
      BY <3>1, <3>2
  <2>11. Sound(h3, c, C, z, a)
    BY <2>7, <2>9, <2>10 DEF Sound
  <2>12. Holds(h3, c, s1)
    BY <2>7, <2>11 DEF Holds
  <2>13. /\ DOMAIN s1 = Held(C, a, h.brk) /\ \A q \in Held(C, a, h.brk) : s1[q] = z[q]
    BY DEF HeldSizes
  <2>14. Held(C, a, h.brk) = Held(B, al, h.brk) \cup {bp}
    <3>1. ASSUME NEW q \in Held(C, a, h.brk) PROVE q \in Held(B, al, h.brk) \cup {bp}
      BY <2>5, <2>8 DEF Held
    <3>2. ASSUME NEW q \in Held(B, al, h.brk) PROVE q \in Held(C, a, h.brk)
      <4>1. q \in B /\ q # bp /\ al[q] = 1 /\ q \notin {2, h.brk}
        BY <1>2 DEF Held
      <4> QED
        BY <4>1, <2>5, <2>8 DEF Held
    <3>3. bp \in Held(C, a, h.brk)
      BY <2>5, <2>8, <1>3 DEF Held
    <3> QED
      BY <3>1, <3>2, <3>3
  <2>15. Gains(s, s1, bp, n)
    <3>1. bp \in DOMAIN s1 /\ s1[bp] = n
      BY <2>5, <2>13, <2>14
    <3>2. \A q \in DOMAIN s : s1[q] = s[q]
      BY <2>5, <2>13, <2>14, <1>5, <1>6
    <3> HIDE DEF s1
    <3> QED
      BY <3>1, <3>2, <2>13, <2>14, <1>5, <1>6 DEF Gains
  <2>16. KeptAll(h, h3, s)
    <3>1. ASSUME NEW q \in DOMAIN s PROVE Kept(h, h3, q, s[q])
      <4>1. q \in B /\ q # h.brk /\ q # bp /\ al[q] = 1 /\ s[q] = sz[q] /\ q \in C /\ a[q] = 1 /\ z[q] = sz[q]
        BY <1>5, <2>5, <2>8
      <4>2. Kept(h, h0, q, sz[q]) /\ Kept(h0, h2, q, sz[q]) /\ Kept(h2, h3, q, sz[q])
        BY <4>1, <1>4, <2>4, <2>7
      <4> HIDE DEF h3
      <4> QED
        BY <4>1, <4>2, KeptTrans
    <3> QED
      BY <3>1, <2>7, <1>3 DEF KeptAll
  <2>17. TakenMeets(h, c, bp, n)
    <3>1. SizeOf(h2, e) = z[e] /\ z[e] = y
      BY <2>4, <2>5, RepFacts
    <3> HIDE DEF z
    <3> QED
      BY <3>1, <1>3, <1>7 DEF TakenMeets, h2, h0, y, e
  <2> HIDE DEF s1, h3
  <2> QED
    BY <2>1, <2>12, <2>15, <2>16, <2>17
<1>8. CASE ~(y >= 6)
  <2> DEFINE h2 == Mark(h0, bp, sz[bp], 1)
             a == [d \in B |-> IF d = bp THEN 1 ELSE al[d]]
             s1 == HeldSizes(B, sz, a, h.brk)
  <2>1. h1 = h2
    BY <1>3, <1>8 DEF Taken
  <2>2. \A d \in B : a[d] = IF d = bp THEN 1 ELSE al[d]
    OBVIOUS
  <2>3. /\ Rep(h2, c, B, sz, a, E)
        /\ h2.brk = h.brk /\ h2.ok = h.ok
        /\ \A q \in B : q # h.brk /\ q # bp => Kept(h0, h2, q, sz[q])
    <3>1. bp \notin E /\ bp \notin {2, h0.brk} /\ 1 \in {0, 1}
      BY <1>3, <1>4
    <3>2. a = [d \in B |-> IF d = bp THEN 1 ELSE al[d]]
      OBVIOUS
    <3> HIDE DEF E, h0, a
    <3> QED
      BY <3>1, <3>2, <1>2, <1>4, RemarkRep
  <2> HIDE DEF a, h2, F
  <2>4. Free(B, a) = E
    <3>1. \A d \in B : a[d] = 0 <=> d \in E
      BY <2>2, <1>2
    <3> QED
      BY <3>1, <1>2 DEF Free
  <2>5. ASSUME NEW b \in E PROVE a[b + sz[b]] = 1
    <3>1. b \in F /\ b # bp /\ b \in B
      BY <1>2
    <3>2. al[b + sz[b]] = 1 /\ b # h.brk
      BY <3>1, <1>2, RepFacts
    <3>3. b + sz[b] \in B
      BY <3>1, <3>2, <1>3, BlockBounds
    <3> QED
      BY <3>2, <3>3, <2>2
  <2>6. Sound(h2, c, B, sz, a)
    <3> HIDE DEF E
    <3> QED
      BY <2>3, <2>4, <2>5 DEF Sound
  <2>7. Holds(h2, c, s1)
    BY <2>3, <2>6 DEF Holds
  <2>8. /\ DOMAIN s1 = Held(B, a, h.brk) /\ \A q \in Held(B, a, h.brk) : s1[q] = sz[q]
    BY DEF HeldSizes
  <2>9. Held(B, a, h.brk) = Held(B, al, h.brk) \cup {bp}
    BY <2>2, <1>2, <1>3 DEF Held
  <2>10. Gains(s, s1, bp, n)
    <3> HIDE DEF s1
    <3> QED
      BY <2>8, <2>9, <1>1, <1>5, <1>6 DEF Gains
  <2>11. KeptAll(h, h2, s)
    <3>1. ASSUME NEW q \in DOMAIN s PROVE Kept(h, h2, q, s[q])
      <4>1. q \in B /\ q # h.brk /\ q # bp /\ al[q] = 1 /\ s[q] = sz[q]
        BY <1>5
      <4>2. Kept(h, h0, q, sz[q]) /\ Kept(h0, h2, q, sz[q])
        BY <4>1, <1>4, <2>3
      <4> QED
        BY <4>1, <4>2, KeptTrans
    <3> QED
      BY <3>1, <2>3, <1>3 DEF KeptAll
  <2>12. TakenMeets(h, c, bp, n)
    BY <1>3, <1>8 DEF TakenMeets, y
  <2> HIDE DEF s1
  <2> QED
    BY <2>1, <2>7, <2>10, <2>11, <2>12
<1> QED
  BY <1>7, <1>8

----------------------------------------------------------------------------
(* Freeing a block                                                         *)

Released(h, c, bp) == Coalesced(Mark(h, bp, SizeOf(h, bp), 0), c, bp).h
Minus(s, bp) == [q \in DOMAIN s \ {bp} |-> s[q]]

(* What the sizes s say of the heap. *)
LEMMA HoldsFacts ==
  ASSUME NEW h, NEW c, NEW s, Holds(h, c, s), NEW q \in DOMAIN s
  PROVE  /\ h \in HeapType /\ h.brk \in Nat /\ h.brk <= MAX_HEAP
         /\ q \in Nat /\ q >= 4 /\ q % 2 = 0 /\ q < h.brk
         /\ s[q] \in Nat /\ s[q] >= 6 /\ q + s[q] <= h.brk
         /\ SizeOf(h, q) = s[q]
         /\ \A r \in DOMAIN s : r # q => q + s[q] <= r \/ r + s[r] <= q
         /\ \A a \in q .. q + s[q] - 3 : a \in Addr
<1>1. PICK B, sz, al : Sound(h, c, B, sz, al) /\ s = HeldSizes(B, sz, al, h.brk)
  BY DEF Holds
<1>2. Rep(h, c, B, sz, al, Free(B, al))
  BY <1>1 DEF Sound
<1>3. \A r \in DOMAIN s : r \in B /\ r \notin {2, h.brk} /\ s[r] = sz[r]
  BY <1>1 DEF HeldSizes, Held
<1>4. h \in HeapType /\ Tiled(B, sz, h.brk) /\ SizeOf(h, q) = sz[q] /\ q % 2 = 0
  <2>1. h \in HeapType /\ Tiled(B, sz, h.brk) /\ SizeOf(h, q) = sz[q]
    BY <1>2, <1>3, RepFacts
  <2> QED
    BY <2>1, <1>3 DEF Tiled
<1>5. /\ h.brk \in Nat /\ h.brk <= MAX_HEAP /\ q \in Nat /\ q >= 4 /\ q <= h.brk
      /\ sz[q] \in Nat /\ sz[q] >= 6 /\ q + sz[q] <= h.brk
  BY <1>3, <1>4, BlockBounds
<1>6. ASSUME NEW r \in DOMAIN s, r # q PROVE q + s[q] <= r \/ r + s[r] <= q
  BY <1>3, <1>4, <1>6, BlocksApart
<1>7. ASSUME NEW a \in q .. q + s[q] - 3 PROVE a \in Addr
  BY <1>3, <1>5, BlocksAssumption DEF Addr
<1> QED
  BY <1>3, <1>4, <1>5, <1>6, <1>7

(* mm_free(): the block is free again, the others stay. *)
LEMMA ReleasedHolds ==
  ASSUME NEW h, NEW c \in Classes, NEW s, Holds(h, c, s), NEW bp \in DOMAIN s
  PROVE  /\ Holds(Released(h, c, bp), c, Minus(s, bp))
         /\ KeptAll(h, Released(h, c, bp), Minus(s, bp))
         /\ Meets(Mark(h, bp, SizeOf(h, bp), 0), c, bp)
<1>1. PICK B, sz, al : Sound(h, c, B, sz, al) /\ s = HeldSizes(B, sz, al, h.brk)
  BY DEF Holds
<1> DEFINE F == Free(B, al)
           h1 == Mark(h, bp, sz[bp], 0)
           l == [d \in B |-> IF d = bp THEN 0 ELSE al[d]]
           x == Coalesced(h1, c, bp)
           t == Minus(s, bp)
<1>2. /\ Rep(h, c, B, sz, al, F)
      /\ \A b \in F : al[b + sz[b]] = 1
      /\ \A b : b \in F <=> b \in B /\ al[b] = 0
  BY <1>1 DEF Sound, Free
<1>3. \A r \in DOMAIN s : r \in B /\ r \notin {2, h.brk} /\ s[r] = sz[r] /\ al[r] = 1
  BY <1>1 DEF HeldSizes, Held
<1>4. SizeOf(h, bp) = sz[bp] /\ Tiled(B, sz, h.brk) /\ bp \notin F /\ bp \in B /\ h \in HeapType /\ h.brk \in Nat
  <2>1. SizeOf(h, bp) = sz[bp] /\ Tiled(B, sz, h.brk) /\ h \in HeapType
    BY <1>2, <1>3, RepFacts
  <2>2. h.brk \in Nat
    BY <2>1 DEF HeapType
  <2> QED
    BY <2>1, <2>2, <1>2, <1>3
<1>5. Released(h, c, bp) = x.h
  BY <1>4 DEF Released
<1>6. \A d \in B : l[d] = IF d = bp THEN 0 ELSE al[d]
  OBVIOUS
<1>7. /\ Rep(h1, c, B, sz, l, F)
      /\ h1.brk = h.brk /\ h1.ok = h.ok
      /\ \A q \in B : q # h.brk /\ q # bp => Kept(h, h1, q, sz[q])
  <2>1. l = [d \in B |-> IF d = bp THEN 0 ELSE al[d]]
    OBVIOUS
  <2> HIDE DEF l, F
  <2> QED
    BY <2>1, <1>2, <1>3, <1>4, RemarkRep
<1> HIDE DEF h1, l, F
<1>8. Free(B, l) \ {bp} = F /\ bp \in Free(B, l)
  <2>1. \A d : d \in Free(B, l) <=> d \in B /\ l[d] = 0
    BY DEF Free
  <2> QED
    BY <2>1, <1>2, <1>4, <1>6
<1>9. Freed(h1, c, B, sz, l, bp)
  <2>1. ASSUME NEW b \in F PROVE l[b + sz[b]] = 1 \/ b + sz[b] = bp
    <3>1. b + sz[b] \in B /\ al[b + sz[b]] = 1
      <4>1. b \in B /\ b # h.brk
        BY <1>2, RepFacts
      <4> QED
        BY <4>1, <1>2, <1>4, BlockBounds
    <3> QED
      BY <3>1, <1>6
  <2> QED
    BY <2>1, <1>7, <1>8 DEF Freed
<1>10. t = HeldSizes(B, sz, l, h1.brk)
  <2>1. Held(B, l, h.brk) = Held(B, al, h.brk) \ {bp}
    BY <1>6, <1>4 DEF Held
  <2>2. \A q \in DOMAIN t : t[q] = sz[q]
    BY <1>3 DEF Minus
  <2>3. DOMAIN t = Held(B, l, h.brk) /\ t = [q \in DOMAIN t |-> t[q]]
    BY <2>1, <1>1 DEF Minus, HeldSizes
  <2> HIDE DEF t
  <2> QED
    BY <2>2, <2>3, <1>7 DEF HeldSizes
<1>11. Meets(h1, c, bp) /\ Offers(x.h, c, t, x.bp, 0) /\ KeptAll(h1, x.h, t)
  <2>1. sz[bp] \in Nat /\ sz[bp] >= 0
    BY <1>4, BlockBounds
  <2> HIDE DEF t, x
  <2>2. Meets(h1, c, bp) /\ Offers(x.h, c, HeldSizes(B, sz, l, h1.brk), x.bp, 0) /\ KeptAll(h1, x.h, HeldSizes(B, sz, l, h1.brk))
    BY <2>1, <1>9, CoalescedHolds DEF x
  <2> QED
    BY <2>2, <1>10
<1>12. KeptAll(h, h1, t)
  <2>1. \A q \in DOMAIN t : q \in DOMAIN s /\ q # bp /\ t[q] = s[q]
    BY DEF Minus
  <2> HIDE DEF t
  <2> QED
    BY <2>1, <1>3, <1>4, <1>7 DEF KeptAll
<1>13. Holds(x.h, c, t) /\ h1 \in HeapType /\ x.h \in HeapType
  <2> HIDE DEF t, x
  <2>1. Holds(x.h, c, t)
    BY <1>11, OffersHolds
  <2>2. h1 \in HeapType
    BY <1>7 DEF Rep
  <2> QED
    BY <2>1, <2>2, HoldsType
<1>14. KeptAll(h, x.h, t)
  <2> HIDE DEF t, x
  <2> QED
    BY <1>4, <1>11, <1>12, <1>13, KeptAllTrans
<1>15. Meets(Mark(h, bp, SizeOf(h, bp), 0), c, bp)
  BY <1>4, <1>11 DEF h1
<1> QED
  BY <1>5, <1>13, <1>14, <1>15

(* Only the payload of the block bp is written. *)
WritesIn(h, h1, bp, n) ==
  /\ h1 \in HeapType /\ h1.brk = h.brk /\ h1.fl = h.fl /\ h1.ok = h.ok
  /\ \A a \in Addr : h1.mem[a] # h.mem[a] => a \in bp .. bp + n - 3

\* Writing inside a payload keeps the heap in order.
LEMMA WritesHold ==
  ASSUME NEW h, NEW c \in Classes, NEW s, Holds(h, c, s), NEW bp \in DOMAIN s,
         NEW h1, WritesIn(h, h1, bp, s[bp])
  PROVE  Holds(h1, c, s) /\ KeptAll(h, h1, Minus(s, bp))
<1>1. PICK B, sz, al : Sound(h, c, B, sz, al) /\ s = HeldSizes(B, sz, al, h.brk)
  BY DEF Holds
<1> DEFINE F == Free(B, al)
<1>2. /\ Rep(h, c, B, sz, al, F)
      /\ \A b \in F : al[b + sz[b]] = 1
      /\ \A b : b \in F <=> b \in B /\ al[b] = 0
  BY <1>1 DEF Sound, Free
<1>3. \A r \in DOMAIN s : r \in B /\ r \notin {2, h.brk} /\ s[r] = sz[r] /\ al[r] = 1
  BY <1>1 DEF HeldSizes, Held
<1>4. /\ h1 \in HeapType /\ h1.brk = h.brk /\ h1.fl = h.fl /\ h1.ok = h.ok
      /\ \A a \in Addr : h1.mem[a] # h.mem[a] => a \in Payload(sz, bp)
  BY <1>3 DEF WritesIn, Payload
<1>5. /\ Rep(h1, c, B, sz, al, F)
      /\ \A q \in B : q # h.brk /\ q # bp => Kept(h, h1, q, sz[q])
  <2> HIDE DEF F
  <2> QED
    BY <1>2, <1>3, <1>4, PayloadRep
<1>6. Sound(h1, c, B, sz, al)
  BY <1>2, <1>5 DEF Sound
<1>7. Holds(h1, c, s)
  BY <1>1, <1>4, <1>6 DEF Holds
<1>8. \A q \in DOMAIN Minus(s, bp) : q \in DOMAIN s /\ q # bp /\ Minus(s, bp)[q] = s[q]
  BY DEF Minus
<1>9. h.brk <= h1.brk
  BY <1>2, <1>4 DEF Rep, HeapType
<1> QED
  BY <1>3, <1>4, <1>5, <1>7, <1>8, <1>9 DEF KeptAll

(* mm_init() writes the prologue and the epilogue, and empties the lists. *)
LEMMA EmptyHolds ==
  ASSUME NEW h \in HeapType, NEW c \in Classes, h.brk = 4,
         h.mem[1] = 3, h.mem[2] = 3, h.mem[3] = 1, \A k \in Lists : h.fl[k] = 0
  PROVE  \E s : Holds(h, c, s) /\ DOMAIN s = {}
<1> DEFINE B == {2, 4}
           sz == [b \in B |-> IF b = 2 THEN 2 ELSE 0]
           al == [b \in B |-> 1]
<1>1. Tiled(B, sz, 4)
  <2>1. 4 \in 4 .. MAX_HEAP /\ B \subseteq 2 .. 4
    BY BlocksAssumption
  <2> QED
    BY <2>1 DEF Tiled
<1>2. Tagged(h.mem, B, sz, al, 4)
  BY DEF Tagged
<1>3. Free(B, al) = {}
  BY DEF Free
<1>4. Chained(h.mem, h.fl, {}, Class(c, sz))
  <2> DEFINE pos == [b \in {} |-> 1]
  <2>1. pos \in [{} -> Nat \ {0}]
    OBVIOUS
  <2> HIDE DEF pos
  <2>2. Linked(h.mem, h.fl, {}, Class(c, sz), pos)
    BY <2>1 DEF Linked
  <2> QED
    BY <2>2 DEF Chained
<1> HIDE DEF sz, al, B
<1>5. Rep(h, c, B, sz, al, {})
  BY <1>1, <1>2, <1>4 DEF Rep
<1>6. Sound(h, c, B, sz, al)
  BY <1>3, <1>5 DEF Sound
<1>7. Held(B, al, 4) = {}
  BY DEF Held, B
<1>8. DOMAIN HeldSizes(B, sz, al, 4) = {}
  BY <1>7 DEF HeldSizes
<1> QED
  BY <1>6, <1>8 DEF Holds

----------------------------------------------------------------------------
(* Requests                                                                *)

Served(h, c, fit, asize, granted) ==
  LET x == IF fit # NULL THEN [h |-> h, bp |-> fit]
           ELSE Grown(h, c, Larger(asize, CHUNKSIZE), granted)
  IN  IF x.bp = NULL THEN x ELSE [h |-> Taken(x.h, c, x.bp, asize), bp |-> x.bp]

Copied(h, to, from, n) ==
  [h EXCEPT !.mem = [a \in DOMAIN @ |-> IF a \in to .. to + n - 1 THEN @[from + a - to] ELSE @[a]]]

MovedFrom(x, c, bp, n) ==
  IF bp = NULL \/ x.bp = NULL THEN x
  ELSE [h |-> Released(Copied(x.h, x.bp, bp, Smaller(n, SizeOf(x.h, bp))), c, bp), bp |-> x.bp]

\* An offered block is not NULL.
LEMMA OffersFacts ==
  ASSUME NEW h, NEW c, NEW s, NEW bp, NEW n, Offers(h, c, s, bp, n)
  PROVE  bp \in Nat /\ bp >= 4
<1>1. PICK B, sz, al : Sound(h, c, B, sz, al) /\ bp \in Free(B, al)
  BY DEF Offers
<1>2. Rep(h, c, B, sz, al, Free(B, al)) /\ bp \in Free(B, al) /\ bp \in B
  BY <1>1 DEF Sound, Free
<1>3. Tiled(B, sz, h.brk) /\ bp \notin {2, h.brk}
  BY <1>2, RepFacts
<1> QED
  BY <1>2, <1>3, BlockBounds

\* A block that can hold n words can hold fewer.
LEMMA OffersLess ==
  ASSUME NEW h, NEW c, NEW s, NEW bp, NEW n \in Nat, NEW m \in Nat, m <= n, Offers(h, c, s, bp, n)
  PROVE  Offers(h, c, s, bp, m)
<1>1. PICK B, sz, al : /\ Sound(h, c, B, sz, al) /\ s = HeldSizes(B, sz, al, h.brk)
                       /\ bp \in Free(B, al) /\ sz[bp] >= n
  BY DEF Offers
<1>2. Rep(h, c, B, sz, al, Free(B, al)) /\ bp \in B
  BY <1>1 DEF Sound, Free
<1>3. sz[bp] \in Nat
  BY <1>2, RepFacts
<1>4. sz[bp] >= m
  BY <1>1, <1>3
<1> QED
  BY <1>1, <1>4 DEF Offers

(* What mm_malloc() promises: nothing changes, or the block x.bp of n      *)
(* words is new and the others are as they were.                           *)
Serves(h, c, s, x, n) ==
  \/ x.bp = NULL /\ x.h = h
  \/ /\ x.bp # NULL
     /\ \E s1 : Holds(x.h, c, s1) /\ Gains(s, s1, x.bp, n) /\ KeptAll(h, x.h, s)

(* mm_malloc() from its fit on: found or grown, placed, and all other       *)
(* payloads kept; or refused and nothing changed.                          *)
LEMMA ServedHolds ==
  ASSUME NEW h, NEW c \in Classes, NEW s, Holds(h, c, s), NEW n \in Nat, n >= 6, n % 2 = 0,
         NEW fit, fit # NULL => Offers(h, c, s, fit, n), NEW granted \in BOOLEAN
  PROVE  Serves(h, c, s, Served(h, c, fit, n, granted), n)
<1> DEFINE w == Larger(n, CHUNKSIZE)
           y == IF fit # NULL THEN [h |-> h, bp |-> fit] ELSE Grown(h, c, w, granted)
           z == [h |-> Taken(y.h, c, y.bp, n), bp |-> y.bp]
<1>0. h \in HeapType
  BY HoldsType
<1>1. w \in Nat /\ w >= 5 /\ n <= w
  BY BlocksAssumption DEF Larger
<1> HIDE DEF w
<1>2. \/ y.bp = NULL /\ y.h = h
      \/ y.bp # NULL /\ Offers(y.h, c, s, y.bp, n) /\ KeptAll(h, y.h, s)
  <2>1. CASE fit # NULL
    <3>1. y.h = h /\ y.bp = fit
      BY <2>1
    <3>2. KeptAll(h, h, s)
      BY <1>0, KeptAllSelf
    <3> HIDE DEF y
    <3> QED
      BY <3>1, <3>2, <2>1
  <2>2. CASE fit = NULL
    <3> DEFINE g == Grown(h, c, w, granted)
    <3>1. y = g
      BY <2>2
    <3>2. /\ ~(granted /\ h.brk + Even(w) <= MAX_HEAP) => g = [h |-> h, bp |-> NULL]
          /\ granted /\ h.brk + Even(w) <= MAX_HEAP => Offers(g.h, c, s, g.bp, w) /\ KeptAll(h, g.h, s)
      BY <1>1, GrownHolds
    <3> HIDE DEF g, y
    <3>3. CASE g = [h |-> h, bp |-> NULL]
      BY <3>1, <3>3
    <3>4. CASE Offers(g.h, c, s, g.bp, w) /\ KeptAll(h, g.h, s)
      <4>1. g.bp # NULL
        BY <3>4, OffersFacts DEF NULL
      <4>2. Offers(g.h, c, s, g.bp, n)
        BY <3>4, <1>1, OffersLess
      <4> QED
        BY <4>1, <4>2, <3>1, <3>4
    <3> QED
      BY <3>2, <3>3, <3>4
  <2> QED
    BY <2>1, <2>2
<1>3. Served(h, c, fit, n, granted) = IF y.bp = NULL THEN y ELSE z
  BY DEF Served, w
<1> HIDE DEF y
<1>4. CASE y.bp = NULL
  <2>1. Served(h, c, fit, n, granted) = y /\ y.h = h
    BY <1>2, <1>3, <1>4
  <2> QED
    BY <2>1, <1>4 DEF Serves
<1>5. CASE y.bp # NULL
  <2> DEFINE t == Taken(y.h, c, y.bp, n)
  <2>1. Served(h, c, fit, n, granted) = z /\ z.h = t /\ z.bp = y.bp
    BY <1>3, <1>5
  <2>2. PICK s1 : Holds(t, c, s1) /\ Gains(s, s1, y.bp, n) /\ KeptAll(y.h, t, s)
    BY <1>2, <1>5, TakenHolds
  <2> HIDE DEF t, z
  <2>3. KeptAll(h, t, s)
    <3>1. t \in HeapType /\ y.h \in HeapType
      BY <2>2, <1>2, <1>5, HoldsType, OffersHolds
    <3> QED
      BY <3>1, <2>2, <1>0, <1>2, <1>5, KeptAllTrans
  <2> QED
    BY <2>1, <2>2, <2>3, <1>5 DEF Serves
<1> QED
  BY <1>4, <1>5

CopyInto(h, h1, to, from, m) ==
  /\ to \in Nat /\ from \in Nat /\ m \in Nat /\ to + m <= MAX_HEAP /\ from + m <= MAX_HEAP
  /\ h1 = Copied(h, to, from, m)

\* memcpy() of a payload: the words it writes.
LEMMA CopiedIs ==
  ASSUME NEW h \in HeapType, NEW h1, NEW to, NEW from, NEW m, CopyInto(h, h1, to, from, m)
  PROVE  /\ h1 \in HeapType /\ h1.brk = h.brk /\ h1.fl = h.fl /\ h1.ok = h.ok
         /\ \A a \in Addr : h1.mem[a] = IF to <= a /\ a < to + m THEN h.mem[from + a - to] ELSE h.mem[a]
<1> DEFINE f == [a \in Addr |-> IF a \in to .. to + m - 1 THEN h.mem[from + a - to] ELSE h.mem[a]]
           g == [h EXCEPT !.mem = f]
<1>0. /\ to \in Nat /\ from \in Nat /\ m \in Nat /\ to + m <= MAX_HEAP /\ from + m <= MAX_HEAP
      /\ h1 = Copied(h, to, from, m)
  BY DEF CopyInto
<1> USE <1>0
<1>1. h.mem \in [Addr -> Int]
  BY DEF HeapType
<1>2. Copied(h, to, from, m) = g
  BY <1>1 DEF Copied
<1>3. ASSUME NEW a \in Addr PROVE f[a] = (IF to <= a /\ a < to + m THEN h.mem[from + a - to] ELSE h.mem[a]) /\ f[a] \in Int
  <2>1. a \in Int
    BY BlocksAssumption DEF Addr
  <2>2. a \in to .. to + m - 1 <=> to <= a /\ a < to + m
    BY <2>1
  <2>3. to <= a /\ a < to + m => from + a - to \in Addr
    BY <2>1, BlocksAssumption DEF Addr
  <2> QED
    BY <2>2, <2>3, <1>1
<1>4. f \in [Addr -> Int]
  BY <1>3
<1> HIDE DEF f
<1>5. g \in HeapType /\ g.mem = f /\ g.brk = h.brk /\ g.fl = h.fl /\ g.ok = h.ok
  BY <1>4 DEF HeapType
<1> HIDE DEF g
<1> QED
  BY <1>2, <1>3, <1>5

\* The new block touches none of the old ones, the one that moved included.
StandsApart(s, s1, bp) == \A q \in DOMAIN s : q + s[q] <= bp \/ bp + s1[bp] <= q

(* What mm_realloc() promises: as mm_malloc(), but the block bp is gone    *)
(* and its first words are the new block's.                                *)
Moves(h, c, s, x, bp, n, asize) ==
  \/ x.bp = NULL /\ x.h = h
  \/ /\ x.bp # NULL
     /\ \E s1 : /\ Holds(x.h, c, Minus(s1, bp)) /\ Gains(s, s1, x.bp, asize)
                /\ KeptAll(h, x.h, Minus(s, bp)) /\ StandsApart(s, s1, x.bp)
     /\ \A i \in 0 .. n - 1 : i < s[bp] - 2 => x.h.mem[x.bp + i] = h.mem[bp + i]

\* mm_realloc() frees the old block in a heap that is in order.
MovesFrom(x, c, bp, n) ==
  x.bp # NULL => \E t : /\ Holds(Copied(x.h, x.bp, bp, Smaller(n, SizeOf(x.h, bp))), c, t)
                        /\ bp \in DOMAIN t

\* mm_realloc(): a new block, the old content in it, the old block free.
LEMMA MovedHolds ==
  ASSUME NEW h, NEW c \in Classes, NEW s, Holds(h, c, s), NEW bp \in DOMAIN s, NEW n \in Nat,
         NEW asize \in Nat, n + 2 <= asize, NEW x, Serves(h, c, s, x, asize)
  PROVE  Moves(h, c, s, MovedFrom(x, c, bp, n), bp, n, asize) /\ MovesFrom(x, c, bp, n)
<1> DEFINE y == MovedFrom(x, c, bp, n)
<1>0. bp \in Nat /\ bp # NULL /\ h \in HeapType /\ s[bp] \in Nat /\ s[bp] >= 6
  BY HoldsFacts DEF NULL
<1>1. CASE x.bp = NULL
  <2>1. y = x /\ x.h = h
    BY <1>1 DEF MovedFrom, Serves
  <2> QED
    BY <2>1, <1>1 DEF Moves, MovesFrom
<1>2. CASE x.bp # NULL
  <2>1. PICK s1 : Holds(x.h, c, s1) /\ Gains(s, s1, x.bp, asize) /\ KeptAll(h, x.h, s)
    BY <1>2 DEF Serves
  <2>2. /\ x.bp \in DOMAIN s1 /\ bp \in DOMAIN s1 /\ x.bp # bp /\ s1[bp] = s[bp] /\ s1[x.bp] >= asize
        /\ \A q \in DOMAIN s : q \in DOMAIN s1 /\ q # x.bp /\ s1[q] = s[q]
    BY <2>1 DEF Gains
  <2> DEFINE m == Smaller(n, SizeOf(x.h, bp))
             g == Copied(x.h, x.bp, bp, m)
             r == Released(g, c, bp)
  <2>3. /\ SizeOf(x.h, bp) = s[bp] /\ bp + s[bp] <= x.h.brk /\ x.h \in HeapType /\ x.h.brk \in Nat /\ x.h.brk <= MAX_HEAP
        /\ x.bp \in Nat /\ s1[x.bp] \in Nat /\ x.bp + s1[x.bp] <= x.h.brk
        /\ bp + s[bp] <= x.bp \/ x.bp + s1[x.bp] <= bp
    <3>1. SizeOf(x.h, bp) = s[bp] /\ bp + s[bp] <= x.h.brk /\ x.h \in HeapType /\ x.h.brk \in Nat /\ x.h.brk <= MAX_HEAP
      BY <2>1, <2>2, HoldsFacts
    <3>2. /\ x.bp \in Nat /\ s1[x.bp] \in Nat /\ x.bp + s1[x.bp] <= x.h.brk
      BY <2>1, <2>2, HoldsFacts
    <3>3. bp + s1[bp] <= x.bp \/ x.bp + s1[x.bp] <= bp
      BY <2>1, <2>2, HoldsFacts
    <3> QED
      BY <3>1, <3>2, <3>3, <2>2
  <2>4. m \in Nat /\ m <= n /\ m <= s[bp] /\ (m = n \/ m = s[bp])
    BY <2>3, <1>0 DEF Smaller
  <2>5. y.h = r /\ y.bp = x.bp
    BY <1>0, <1>2 DEF MovedFrom
  <2> HIDE DEF m
  <2>6. /\ g \in HeapType /\ g.brk = x.h.brk /\ g.fl = x.h.fl /\ g.ok = x.h.ok
        /\ \A a \in Addr : g.mem[a] = IF x.bp <= a /\ a < x.bp + m THEN x.h.mem[bp + a - x.bp] ELSE x.h.mem[a]
    <3>1. x.bp + m <= MAX_HEAP /\ bp + m <= MAX_HEAP
      BY <2>2, <2>3, <2>4, <1>0, BlocksAssumption
    <3>2. CopyInto(x.h, g, x.bp, bp, m)
      BY <3>1, <2>3, <2>4, <1>0 DEF CopyInto
    <3> HIDE DEF g
    <3> QED
      BY <3>2, <2>3, CopiedIs
  <2> HIDE DEF g, y
  <2>7. WritesIn(x.h, g, x.bp, s1[x.bp])
    <3>1. ASSUME NEW a \in Addr, g.mem[a] # x.h.mem[a] PROVE a \in x.bp .. x.bp + s1[x.bp] - 3
      <4>1. x.bp <= a /\ a < x.bp + m /\ a \in Int
        BY <3>1, <2>6, BlocksAssumption DEF Addr
      <4> QED
        BY <4>1, <2>2, <2>3, <2>4
    <3> QED
      BY <3>1, <2>6 DEF WritesIn
  <2>8. Holds(g, c, s1) /\ KeptAll(x.h, g, Minus(s1, x.bp))
    BY <2>1, <2>2, <2>7, WritesHold
  <2>9. Holds(r, c, Minus(s1, bp)) /\ KeptAll(g, r, Minus(s1, bp))
    BY <2>2, <2>8, ReleasedHolds
  <2> HIDE DEF r
  <2>10. r \in HeapType
    BY <2>9, HoldsType
  <2>t. h.brk \in Nat /\ x.h.brk \in Nat /\ g.brk \in Nat /\ r.brk \in Nat
    BY <1>0, <2>3, <2>6, <2>10 DEF HeapType
  <2>11. KeptAll(h, r, Minus(s, bp))
    <3>1. ASSUME NEW q \in DOMAIN s, q # bp PROVE Kept(h, r, q, s[q])
      <4>1. Kept(h, x.h, q, s[q])
        BY <2>1 DEF KeptAll
      <4>2. q \in DOMAIN Minus(s1, x.bp) /\ Minus(s1, x.bp)[q] = s[q] /\ q \in DOMAIN Minus(s1, bp) /\ Minus(s1, bp)[q] = s[q]
        BY <2>2, <3>1 DEF Minus
      <4>3. Kept(x.h, g, q, s[q]) /\ Kept(g, r, q, s[q])
        BY <4>2, <2>8, <2>9 DEF KeptAll
      <4> QED
        BY <4>1, <4>3, KeptTrans
    <3>2. \A q \in DOMAIN Minus(s, bp) : q \in DOMAIN s /\ q # bp /\ Minus(s, bp)[q] = s[q]
      BY DEF Minus
    <3>3. r.ok = h.ok /\ h.brk <= r.brk
      BY <2>1, <2>8, <2>9, <2>t DEF KeptAll
    <3> QED
      BY <3>1, <3>2, <3>3 DEF KeptAll
  <2>12. ASSUME NEW i \in 0 .. n - 1, i < s[bp] - 2 PROVE r.mem[x.bp + i] = h.mem[bp + i]
    <3>1. i \in Nat /\ i < n /\ i < m
      BY <2>4, <2>12, <1>0
    <3>2. x.bp + i \in Addr /\ x.bp + i \in x.bp .. x.bp + s1[x.bp] - 3 /\ bp + i \in bp .. bp + s[bp] - 3
      BY <3>1, <2>2, <2>3, <2>4, <2>12, <1>0, BlocksAssumption DEF Addr
    <3>3. g.mem[x.bp + i] = x.h.mem[bp + i]
      <4>1. x.bp <= x.bp + i /\ x.bp + i < x.bp + m /\ bp + (x.bp + i) - x.bp = bp + i
        BY <3>1, <2>3, <2>4, <1>0
      <4> QED
        BY <4>1, <3>2, <2>6
    <3>4. x.h.mem[bp + i] = h.mem[bp + i]
      BY <3>2, <2>1 DEF KeptAll, Kept
    <3>5. r.mem[x.bp + i] = g.mem[x.bp + i]
      <4>1. x.bp \in DOMAIN Minus(s1, bp) /\ Minus(s1, bp)[x.bp] = s1[x.bp]
        BY <2>2 DEF Minus
      <4>2. Kept(g, r, x.bp, s1[x.bp])
        BY <4>1, <2>9 DEF KeptAll
      <4> QED
        BY <4>2, <3>2 DEF Kept
    <3> QED
      BY <3>3, <3>4, <3>5
  <2>13. y.bp # NULL
    BY <2>5, <1>2
  <2>14. Holds(y.h, c, Minus(s1, bp)) /\ Gains(s, s1, y.bp, asize) /\ KeptAll(h, y.h, Minus(s, bp))
    BY <2>1, <2>5, <2>9, <2>11
  <2>15. \A i \in 0 .. n - 1 : i < s[bp] - 2 => y.h.mem[y.bp + i] = h.mem[bp + i]
    BY <2>5, <2>12
  <2>a. StandsApart(s, s1, y.bp)
    <3>1. ASSUME NEW q \in DOMAIN s PROVE q + s[q] <= x.bp \/ x.bp + s1[x.bp] <= q
      <4>1. q \in DOMAIN s1 /\ q # x.bp /\ s1[q] = s[q]
        BY <2>2
      <4>2. x.bp + s1[x.bp] <= q \/ q + s1[q] <= x.bp
        BY <4>1, <2>1, <2>2, HoldsFacts
      <4> QED
        BY <4>1, <4>2
    <3> QED
      BY <3>1, <2>5 DEF StandsApart
  <2>16. Moves(h, c, s, y, bp, n, asize)
    BY <2>13, <2>14, <2>15, <2>a DEF Moves
  <2>17. MovesFrom(x, c, bp, n)
    BY <2>2, <2>8 DEF MovesFrom, g, m
  <2> QED
    BY <2>16, <2>17 DEF y
<1> QED
  BY <1>1, <1>2

----------------------------------------------------------------------------
(* Walks over the heap and along the lists                                 *)

\* A set of naturals has a least element.
LEMMA LeastOf ==
  ASSUME NEW S, S \subseteq Nat, S # {}
  PROVE  \E x \in S : \A y \in S : x <= y
<1>1. PICK x \in S : \A y \in S : ~ (<<y, x>> \in OpToRel(<, Nat))
  BY NatLessThanWellFounded, WFMin
<1>2. \A y \in S : x <= y
  <2>1. SUFFICES ASSUME NEW y \in S PROVE x <= y
    OBVIOUS
  <2>2. x \in Nat /\ y \in Nat /\ ~ (y < x)
    BY <1>1 DEF OpToRel
  <2> QED
    BY <2>2
<1> QED
  BY <1>2

(* g starts at a and goes on by f. *)
Iterates(g, n, S, a, f) == /\ g \in [1 .. n -> S]
                           /\ \A i \in 1 .. n : g[i] = IF i = 1 THEN a ELSE f[g[i - 1]]

\* Iterating a function from a start.
LEMMA Iterate ==
  ASSUME NEW n \in Nat, NEW S, NEW a \in S, NEW f \in [S -> S]
  PROVE  \E g : Iterates(g, n, S, a, f)
<1> DEFINE D == {k \in Nat : ~ \E g : Iterates(g, k, S, a, f)}
<1>1. SUFFICES ASSUME D # {} PROVE FALSE
  OBVIOUS
<1>2. PICK k \in D : \A j \in D : k <= j
  <2>1. D \subseteq Nat
    OBVIOUS
  <2> HIDE DEF D
  <2> QED
    BY <1>1, <2>1, LeastOf
<1>3. k # 0
  <2>1. Iterates([i \in 1 .. 0 |-> a], 0, S, a, f)
    BY DEF Iterates
  <2> QED
    BY <2>1, <1>2
<1>4. k \in Nat /\ k - 1 \in Nat /\ k - 1 \notin D
  <2>1. k \in Nat /\ k - 1 \in Nat /\ ~(k <= k - 1)
    BY <1>2, <1>3
  <2> QED
    BY <2>1, <1>2
<1>5. PICK g : Iterates(g, k - 1, S, a, f)
  BY <1>4
<1> DEFINE h == [i \in 1 .. k |-> IF i = k THEN IF k = 1 THEN a ELSE f[g[k - 1]] ELSE g[i]]
<1>6. ASSUME NEW i \in 1 .. k PROVE h[i] \in S /\ h[i] = IF i = 1 THEN a ELSE f[h[i - 1]]
  <2>1. \A j \in 1 .. k - 1 : g[j] \in S /\ g[j] = IF j = 1 THEN a ELSE f[g[j - 1]]
    BY <1>5 DEF Iterates
  <2>2. CASE i = k
    <3>1. CASE k = 1
      BY <2>2, <3>1
    <3>2. CASE k # 1
      <4>1. k - 1 \in 1 .. k - 1 /\ k - 1 \in 1 .. k /\ k - 1 # k
        BY <1>4, <3>2
      <4> QED
        BY <2>1, <2>2, <3>2, <4>1
    <3> QED
      BY <3>1, <3>2
  <2>3. CASE i # k
    <3>1. i \in 1 .. k - 1 /\ (i # 1 => i - 1 \in 1 .. k - 1 /\ i - 1 \in 1 .. k /\ i - 1 # k)
      BY <1>4, <2>3
    <3> QED
      BY <2>1, <2>3, <3>1
  <2> QED
    BY <2>2, <2>3
<1>7. Iterates(h, k, S, a, f)
  <2>1. h \in [1 .. k -> S]
    BY <1>6
  <2> HIDE DEF h
  <2> QED
    BY <2>1, <1>6 DEF Iterates
<1> QED
  BY <1>2, <1>7

\* The bound of the walks is no less than the blocks a heap can have.
LEMMA MaxBlocksIs == /\ MaxBlocks \in Nat /\ MaxBlocks >= 3 /\ MaxBlocks <= MAX_HEAP
                     /\ 6 * MaxBlocks >= MAX_HEAP + 13
                     /\ MAX_HEAP \div 6 \in Nat /\ MaxBlocks = MAX_HEAP \div 6 + 3
<1>1. MAX_HEAP \in Nat /\ MAX_HEAP >= 10
  BY BlocksAssumption
<1> QED
  BY <1>1 DEF MaxBlocks

(* In a heap in order, After() steps through the blocks. *)
LEMMA AfterIs ==
  ASSUME NEW h, NEW c, NEW B, NEW sz, NEW al, NEW F, Rep(h, c, B, sz, al, F), NEW b \in B
  PROVE  After(h, b) = (IF b = h.brk THEN b ELSE b + sz[b]) /\ After(h, b) \in B
<1>1. Tiled(B, sz, h.brk) /\ SizeOf(h, b) = sz[b] /\ (b # h.brk => NEXT_BLKP(h, b) = b + sz[b])
  BY RepFacts
<1>2. /\ h.brk \in Nat /\ b \in Nat /\ sz[b] \in Nat
      /\ b # h.brk => b + sz[b] \in B /\ sz[b] >= 2 /\ b + sz[b] <= h.brk
      /\ b = h.brk => sz[b] = 0
  <2>1. b = h.brk => sz[b] = 0
    BY <1>1 DEF Tiled
  <2> QED
    BY <2>1, <1>1, BlockBounds
<1>3. CASE b = h.brk
  BY <1>1, <1>2, <1>3 DEF After
<1>4. CASE b # h.brk
  BY <1>1, <1>2, <1>4 DEF After
<1> QED
  BY <1>3, <1>4

\* The walk goes from block to next block.
LEMMA WalkSteps ==
  ASSUME NEW h, NEW c, NEW B, NEW sz, NEW al, NEW F, Rep(h, c, B, sz, al, F)
  PROVE  /\ Walk(h) \in [1 .. MaxBlocks -> B]
         /\ \A i \in 1 .. MaxBlocks : Walk(h)[i] = IF i = 1 THEN 2 ELSE After(h, Walk(h)[i - 1])
<1> DEFINE f == [b \in B |-> After(h, b)]
           N == MaxBlocks
           Is(g) == g = [i \in 1 .. N |-> IF i = 1 THEN DSIZE ELSE After(h, g[i - 1])]
           w == CHOOSE g : Is(g)
<1>1. f \in [B -> B]
  BY AfterIs
<1>2. 2 \in B
  BY DEF Rep, Tiled
<1>3. N \in Nat
  BY MaxBlocksIs
<1>4. PICK g : Iterates(g, N, B, 2, f)
  <2> HIDE DEF f, N
  <2> QED
    BY <1>1, <1>2, <1>3, Iterate
<1>5. ASSUME NEW i \in 1 .. N PROVE g[i] \in B /\ g[i] = IF i = 1 THEN 2 ELSE After(h, g[i - 1])
  <2>1. g[i] \in B /\ g[i] = IF i = 1 THEN 2 ELSE f[g[i - 1]]
    BY <1>4 DEF Iterates
  <2>2. i # 1 => g[i - 1] \in B
    <3>1. i # 1 => i - 1 \in 1 .. N
      BY <1>3
    <3> QED
      BY <3>1, <1>4 DEF Iterates
  <2> QED
    BY <2>1, <2>2
<1>6. Is(g)
  <2>1. g = [i \in 1 .. N |-> g[i]]
    BY <1>4 DEF Iterates
  <2> QED
    BY <2>1, <1>5 DEF DSIZE
<1>7. Is(w)
  BY <1>6
<1>8. Walk(h) = w
  BY DEF Walk
<1> HIDE DEF w, N, f
<1>9. \A i \in 1 .. N : w[i] = IF i = 1 THEN 2 ELSE After(h, w[i - 1])
  BY <1>7 DEF DSIZE
<1>10. \A i \in 1 .. N : w[i] \in B
  <2> DEFINE D == {i \in 1 .. N : w[i] \notin B}
  <2>1. SUFFICES ASSUME D # {} PROVE FALSE
    OBVIOUS
  <2>2. PICK i \in D : \A j \in D : i <= j
    <3>1. D \subseteq Nat
      BY <1>3
    <3> HIDE DEF D
    <3> QED
      BY <2>1, <3>1, LeastOf
  <2>3. i # 1
    BY <1>2, <1>9, <2>2
  <2>4. i \in 1 .. N /\ i - 1 \in 1 .. N /\ i - 1 \notin D
    <3>1. i \in 1 .. N /\ i - 1 \in 1 .. N /\ ~(i <= i - 1)
      BY <1>3, <2>2, <2>3
    <3> QED
      BY <3>1, <2>2
  <2>5. w[i - 1] \in B /\ w[i] = After(h, w[i - 1])
    BY <1>9, <2>3, <2>4
  <2> QED
    BY <2>2, <2>5, AfterIs
<1>11. w = [i \in 1 .. N |-> w[i]]
  BY <1>7
<1>12. w \in [1 .. N -> B]
  BY <1>10, <1>11
<1> QED
  BY <1>8, <1>9, <1>12 DEF N

(* The walk moves on by six words at least, and ends at the epilogue. *)
LEMMA WalkGrows ==
  ASSUME NEW h, NEW c, NEW B, NEW sz, NEW al, NEW F, Rep(h, c, B, sz, al, F), NEW i \in 1 .. MaxBlocks
  PROVE  Walk(h)[i] = h.brk \/ Walk(h)[i] >= 6 * i - 8
<1> DEFINE w == Walk(h)
           N == MaxBlocks
           D == {j \in 1 .. N : ~(w[j] = h.brk \/ w[j] >= 6 * j - 8)}
<1>1. SUFFICES ASSUME D # {} PROVE FALSE
  OBVIOUS
<1>2. N \in Nat
  BY MaxBlocksIs
<1>3. /\ w \in [1 .. N -> B]
      /\ \A j \in 1 .. N : w[j] = IF j = 1 THEN 2 ELSE After(h, w[j - 1])
  BY WalkSteps
<1> HIDE DEF w, N
<1>4. PICK j \in D : \A k \in D : j <= k
  <2>1. D \subseteq Nat
    BY <1>2
  <2> HIDE DEF D
  <2> QED
    BY <1>1, <2>1, LeastOf
<1>5. j \in 1 .. N /\ j # 1 /\ j # 2
  <2>1. j \in 1 .. N
    BY <1>4
  <2>2. j # 1
    BY <1>3, <1>4
  <2>3. ASSUME j = 2 PROVE FALSE
    <3>1. 1 \in 1 .. N /\ w[1] = 2 /\ w[2] = After(h, 2) /\ 2 \in B
      BY <1>2, <1>3, <1>4, <2>3
    <3>2. sz[2] = 2 /\ h.brk # 2
      <4>1. Tiled(B, sz, h.brk)
        BY DEF Rep
      <4>2. h.brk >= 4 /\ h.brk \in Nat
        BY <4>1, <3>1, BlockBounds
      <4> QED
        BY <4>1, <4>2 DEF Tiled
    <3>3. After(h, 2) = 4
      BY <3>1, <3>2, AfterIs
    <3> QED
      BY <1>4, <2>3, <3>1, <3>3
  <2> QED
    BY <2>1, <2>2, <2>3
<1>6. j - 1 \in 1 .. N /\ j \in Nat /\ j >= 3 /\ j - 1 \notin D
  <2>1. j - 1 \in 1 .. N /\ j \in Nat /\ j >= 3 /\ ~(j <= j - 1)
    BY <1>2, <1>5
  <2> QED
    BY <2>1, <1>4
<1>7. w[j - 1] \in B /\ w[j] = After(h, w[j - 1]) /\ (w[j - 1] = h.brk \/ w[j - 1] >= 6 * (j - 1) - 8)
  <2>1. w[j - 1] = h.brk \/ w[j - 1] >= 6 * (j - 1) - 8
    BY <1>6
  <2> QED
    BY <2>1, <1>3, <1>5, <1>6
<1>8. CASE w[j - 1] = h.brk
  BY <1>4, <1>7, <1>8, AfterIs
<1>9. CASE w[j - 1] # h.brk
  <2>1. Tiled(B, sz, h.brk)
    BY DEF Rep
  <2>b. \A b \in B : b \in Nat
    BY <2>1, BlockBounds
  <2>2. w[j - 1] \in Nat
    BY <2>b, <1>7
  <2>3. w[j - 1] # 2
    BY <2>2, <1>6, <1>7, <1>9
  <2>4. sz[w[j - 1]] \in Nat /\ sz[w[j - 1]] >= 6
    BY <2>1, <2>3, <1>7, <1>9, BlockBounds
  <2>5. w[j] = w[j - 1] + sz[w[j - 1]]
    BY <1>7, <1>9, AfterIs
  <2>6. w[j] >= 6 * j - 8
    BY <2>2, <2>4, <2>5, <1>6, <1>7, <1>9
  <2> QED
    BY <2>6, <1>4
<1> QED
  BY <1>8, <1>9

\* The walk over the headers visits all blocks and ends at the epilogue.
LEMMA WalkIs ==
  ASSUME NEW h, NEW c, NEW B, NEW sz, NEW al, NEW F, Rep(h, c, B, sz, al, F)
  PROVE  Blocks(h) = B /\ Last(Walk(h)) = h.brk
<1> DEFINE w == Walk(h)
           N == MaxBlocks
<1>1. /\ N \in Nat /\ N >= 3 /\ 6 * N >= MAX_HEAP + 13 /\ MAX_HEAP \in Nat
  BY MaxBlocksIs, BlocksAssumption
<1>2. /\ w \in [1 .. N -> B]
      /\ \A j \in 1 .. N : w[j] = IF j = 1 THEN 2 ELSE After(h, w[j - 1])
      /\ \A j \in 1 .. N : w[j] = h.brk \/ w[j] >= 6 * j - 8
  BY WalkSteps, WalkGrows
<1>3. Tiled(B, sz, h.brk)
  BY DEF Rep
<1>b. \A b \in B : b \in Nat /\ h.brk \in Nat /\ b <= h.brk /\ h.brk <= MAX_HEAP
  BY <1>3, BlockBounds
<1>0. Walk(h) = w /\ MaxBlocks = N
  OBVIOUS
<1> HIDE DEF w, N
<1>4. w[N] = h.brk
  <2>1. N \in 1 .. N /\ w[N] \in B
    BY <1>1, <1>2
  <2>2. w[N] \in Nat /\ w[N] <= h.brk /\ h.brk <= MAX_HEAP /\ h.brk \in Nat
    BY <2>1, <1>b
  <2> QED
    BY <2>1, <2>2, <1>1, <1>2
<1>5. Last(w) = w[N]
  <2>1. w \in Seq(B) /\ Len(w) = N
    BY <1>1, <1>2
  <2> QED
    BY <2>1 DEF Last
<1>6. ASSUME NEW b \in B PROVE \E i \in 1 .. N : w[i] = b
  <2> DEFINE D == {d \in B : ~ \E i \in 1 .. N : w[i] = d}
  <2>1. SUFFICES ASSUME D # {} PROVE FALSE
    OBVIOUS
  <2>2. PICK d \in D : \A e \in D : d <= e
    <3>1. D \subseteq Nat
      BY <1>b
    <3> HIDE DEF D
    <3> QED
      BY <2>1, <3>1, LeastOf
  <2>3. d \in B /\ d # 2
    <3>1. 1 \in 1 .. N /\ w[1] = 2
      BY <1>1, <1>2
    <3> QED
      BY <3>1, <2>2
  <2>4. PICK p \in B \ {h.brk} : p + sz[p] = d
    BY <2>3, <1>3, HasPrev
  <2>5. p \in Nat /\ sz[p] \in Nat /\ sz[p] >= 2 /\ p < d /\ p < h.brk /\ h.brk <= MAX_HEAP /\ h.brk \in Nat
    BY <2>4, <1>3, <1>b, BlockBounds
  <2>6. PICK i \in 1 .. N : w[i] = p
    <3>1. p \notin D
      <4>1. d \in Nat /\ ~(d <= p)
        BY <2>3, <2>5, <1>b
      <4> QED
        BY <4>1, <2>2
    <3> QED
      BY <3>1, <2>4
  <2>7. p >= 6 * i - 8
    BY <1>2, <2>4, <2>6
  <2>8. i + 1 \in 1 .. N
    BY <2>5, <2>7, <1>1
  <2>9. w[i + 1] = After(h, p)
    <3>1. i + 1 # 1 /\ (i + 1) - 1 = i
      BY <1>1
    <3> QED
      BY <3>1, <2>6, <2>8, <1>2
  <2>10. w[i + 1] = d
    BY <2>4, <2>9, AfterIs
  <2> QED
    BY <2>2, <2>8, <2>10
<1>7. Range(w) = B
  BY <1>2, <1>6 DEF Range
<1> QED
  BY <1>0, <1>4, <1>5, <1>7 DEF Blocks

(* Below each place on a list there is a block at every place. *)
LEMMA PlacesFilled ==
  ASSUME NEW m, NEW fl, NEW F, NEW cl, NEW pos, Linked(m, fl, F, cl, pos), NEW b \in F,
         0 \notin F, NEW i \in 1 .. pos[b]
  PROVE  \E d \in F : cl[d] = cl[b] /\ pos[d] = i
<1> DEFINE At(j) == \E d \in F : cl[d] = cl[b] /\ pos[d] = j
           D == {n \in 0 .. pos[b] - 1 : ~At(pos[b] - n)}
<1>1. pos[b] \in Nat /\ pos[b] >= 1
  BY LinkedParts
<1>2. SUFFICES ASSUME D # {} PROVE FALSE
  <2>1. pos[b] - i \in 0 .. pos[b] - 1 /\ pos[b] - (pos[b] - i) = i
    BY <1>1
  <2> QED
    BY <2>1
<1>3. PICK n \in D : \A k \in D : n <= k
  <2>1. D \subseteq Nat
    BY <1>1
  <2> HIDE DEF D
  <2> QED
    BY <1>2, <2>1, LeastOf
<1>4. n # 0
  <2>1. At(pos[b])
    OBVIOUS
  <2>2. pos[b] - 0 = pos[b]
    BY <1>1
  <2> QED
    BY <2>1, <2>2, <1>3
<1>5. n - 1 \in 0 .. pos[b] - 1 /\ n \in Nat /\ n < pos[b] /\ ~(n <= n - 1)
  BY <1>1, <1>3, <1>4
<1>6. At(pos[b] - (n - 1))
  BY <1>3, <1>5
<1>7. PICK d \in F : cl[d] = cl[b] /\ pos[d] = pos[b] - (n - 1)
  BY <1>6
<1>8. pos[d] # 1
  BY <1>1, <1>5, <1>7
<1> DEFINE e == m[d + 2]
<1>9. e \in F /\ cl[e] = cl[d] /\ m[e] = d /\ d # 0 /\ pos[d] \in Nat
  <2>1. e # 0
    BY <1>8, LinkedParts
  <2>2. e \in F /\ cl[e] = cl[d] /\ m[e] = d /\ pos[d] \in Nat
    BY <2>1, LinkedParts
  <2>3. d # 0
    OBVIOUS
  <2> QED
    BY <2>2, <2>3
<1> HIDE DEF e
<1>10. pos[d] = pos[e] + 1 /\ pos[e] \in Nat
  BY <1>9, LinkedParts
<1>11. pos[e] = pos[b] - n
  BY <1>1, <1>5, <1>7, <1>10
<1>12. At(pos[b] - n)
  BY <1>7, <1>9, <1>11
<1> QED
  BY <1>3, <1>12

(* A block takes six words at least: memory bounds the places. *)
LEMMA PlaceBound ==
  ASSUME NEW h, NEW c, NEW B, NEW sz, NEW al, NEW F, Rep(h, c, B, sz, al, F),
         NEW cl, NEW pos, Linked(h.mem, h.fl, F, cl, pos), NEW b \in F
  PROVE  pos[b] \in 1 .. MaxBlocks
<1> DEFINE p == pos[b]
           Q == MAX_HEAP \div 6
           at(i) == CHOOSE d \in F : cl[d] = cl[b] /\ pos[d] = i
           f == [i \in 1 .. p |-> at(i) \div 6]
<1>1. /\ Q \in Nat /\ MaxBlocks = Q + 3 /\ MAX_HEAP \in Nat
  BY MaxBlocksIs, BlocksAssumption
<1>2. p \in Nat /\ p >= 1
  BY LinkedParts
<1>4. ASSUME NEW d \in F PROVE d \in B /\ d \in Nat /\ d >= 4 /\ d <= MAX_HEAP /\ sz[d] \in Nat /\ sz[d] >= 6
  <2>1. d \in B /\ Tiled(B, sz, h.brk)
    BY DEF Rep
  <2>2. d \notin {2, h.brk}
    BY <2>1, RepFacts
  <2>3. /\ h.brk \in Nat /\ h.brk <= MAX_HEAP /\ d \in Nat /\ d <= h.brk
        /\ sz[d] \in Nat /\ sz[d] >= 6 /\ d >= 4
    BY <2>1, <2>2, BlockBounds
  <2> QED
    BY <2>1, <2>3, <1>1
<1>z. 0 \notin F
  BY <1>4
<1>3. ASSUME NEW i \in 1 .. p PROVE at(i) \in F /\ pos[at(i)] = i
  <2>1. \E d \in F : cl[d] = cl[b] /\ pos[d] = i
    BY <1>z, PlacesFilled
  <2> QED
    BY <2>1
<1>5. ASSUME NEW d \in F PROVE d \div 6 \in 0 .. Q
  BY <1>1, <1>4
<1>6. ASSUME NEW d \in F, NEW e \in F, d \div 6 = e \div 6 PROVE d = e
  <2>1. Tiled(B, sz, h.brk)
    BY DEF Rep
  <2>t. d \in B /\ e \in B
    BY <1>4
  <2>2. d # e => d + sz[d] <= e \/ e + sz[e] <= d
    BY <2>1, <2>t, BlocksApart
  <2>3. /\ d \in Nat /\ sz[d] \in Nat /\ sz[d] >= 6 /\ e \in Nat /\ sz[e] \in Nat /\ sz[e] >= 6
    BY <1>4
  <2>4. \A x \in Nat : x \div 6 \in Nat /\ 6 * (x \div 6) <= x /\ x < 6 * (x \div 6) + 6
    OBVIOUS
  <2> DEFINE u == d \div 6
  <2>5. u \in Nat /\ 6 * u <= d /\ d < 6 * u + 6 /\ 6 * u <= e /\ e < 6 * u + 6
    BY <2>3, <2>4, <1>6
  <2> HIDE DEF u
  <2> QED
    BY <2>2, <2>3, <2>5
<1>7. f \in Injection(1 .. p, 0 .. Q)
  <2>1. ASSUME NEW i \in 1 .. p PROVE f[i] \in 0 .. Q
    <3>1. at(i) \in F
      BY <1>3
    <3> HIDE DEF at
    <3> QED
      BY <3>1, <1>5
  <2>2. ASSUME NEW i \in 1 .. p, NEW j \in 1 .. p, f[i] = f[j] PROVE i = j
    <3>1. at(i) \in F /\ pos[at(i)] = i /\ at(j) \in F /\ pos[at(j)] = j
      BY <1>3
    <3> HIDE DEF at
    <3>2. at(i) = at(j)
      BY <3>1, <2>2, <1>6
    <3> QED
      BY <3>1, <3>2
  <2>3. f \in [1 .. p -> 0 .. Q]
    BY <2>1
  <2> HIDE DEF f
  <2> QED
    BY <2>2, <2>3 DEF Injection, IsInjective
<1> HIDE DEF f, p, Q
<1>8. Cardinality(1 .. p) <= Cardinality(0 .. Q)
  <2>1. IsFiniteSet(0 .. Q)
    BY <1>1, FS_Interval
  <2> QED
    BY <2>1, <1>7, FS_Injection
<1>9. Cardinality(1 .. p) = p /\ Cardinality(0 .. Q) = Q + 1
  <2>1. Cardinality(1 .. p) = IF 1 > p THEN 0 ELSE p - 1 + 1
    BY <1>2, FS_Interval
  <2>2. Cardinality(0 .. Q) = IF 0 > Q THEN 0 ELSE Q - 0 + 1
    BY <1>1, FS_Interval
  <2> QED
    BY <2>1, <2>2, <1>1, <1>2
<1> QED
  BY <1>1, <1>2, <1>8, <1>9 DEF p

\* A list is followed link by link.
LEMMA NodeSteps ==
  ASSUME NEW h, NEW c \in Classes, NEW B, NEW sz, NEW al, NEW F, Rep(h, c, B, sz, al, F), NEW k \in Lists
  PROVE  /\ Nodes(h, k) \in [1 .. MaxBlocks -> F \cup {0}]
         /\ \A i \in 1 .. MaxBlocks : Nodes(h, k)[i] = IF i = 1 THEN h.fl[k] ELSE Link(h, Nodes(h, k)[i - 1])
<1> DEFINE S == F \cup {0}
           f == [b \in S |-> Link(h, b)]
           N == MaxBlocks
           Is(g) == g = [i \in 1 .. N |-> IF i = 1 THEN h.fl[k] ELSE Link(h, g[i - 1])]
           w == CHOOSE g : Is(g)
<1>0. PICK pos : Linked(h.mem, h.fl, F, Class(c, sz), pos)
  BY DEF Rep, Chained
<1>1. \A b \in S : Link(h, b) \in S
  <2>1. ASSUME NEW b \in F PROVE h.mem[b] \in S
    BY <1>0, LinkedParts
  <2> QED
    BY <2>1 DEF Link, NEXT_FREE, NULL
<1>2. h.fl[k] \in S
  BY <1>0, LinkedHeads
<1>3. N \in Nat
  BY MaxBlocksIs
<1>4. PICK g : Iterates(g, N, S, h.fl[k], f)
  <2>1. f \in [S -> S]
    BY <1>1
  <2> HIDE DEF f, N, S
  <2> QED
    BY <1>2, <1>3, <2>1, Iterate
<1>5. ASSUME NEW i \in 1 .. N PROVE g[i] \in S /\ g[i] = IF i = 1 THEN h.fl[k] ELSE Link(h, g[i - 1])
  <2>1. g[i] \in S /\ g[i] = IF i = 1 THEN h.fl[k] ELSE f[g[i - 1]]
    BY <1>4 DEF Iterates
  <2>2. i # 1 => g[i - 1] \in S
    <3>1. i # 1 => i - 1 \in 1 .. N
      BY <1>3
    <3> QED
      BY <3>1, <1>4 DEF Iterates
  <2> HIDE DEF S
  <2> QED
    BY <2>1, <2>2
<1>6. Is(g)
  <2>1. g = [i \in 1 .. N |-> g[i]]
    BY <1>4 DEF Iterates
  <2> QED
    BY <2>1, <1>5
<1>7. Is(w)
  BY <1>6
<1>8. Nodes(h, k) = w
  BY DEF Nodes
<1> HIDE DEF w, N, f, S
<1>9. \A i \in 1 .. N : w[i] = IF i = 1 THEN h.fl[k] ELSE Link(h, w[i - 1])
  BY <1>7
<1>10. \A i \in 1 .. N : w[i] \in S
  <2> DEFINE D == {i \in 1 .. N : w[i] \notin S}
  <2>1. SUFFICES ASSUME D # {} PROVE FALSE
    OBVIOUS
  <2>2. PICK i \in D : \A j \in D : i <= j
    <3>1. D \subseteq Nat
      BY <1>3
    <3> HIDE DEF D
    <3> QED
      BY <2>1, <3>1, LeastOf
  <2>3. i # 1
    BY <1>2, <1>9, <2>2
  <2>4. i \in 1 .. N /\ i - 1 \in 1 .. N /\ i - 1 \notin D
    <3>1. i \in 1 .. N /\ i - 1 \in 1 .. N /\ ~(i <= i - 1)
      BY <1>3, <2>2, <2>3
    <3> QED
      BY <3>1, <2>2
  <2>5. w[i - 1] \in S /\ w[i] = Link(h, w[i - 1])
    BY <1>9, <2>3, <2>4
  <2> QED
    BY <2>2, <2>5, <1>1
<1>11. w = [i \in 1 .. N |-> w[i]]
  BY <1>7
<1>12. w \in [1 .. N -> S]
  BY <1>10, <1>11
<1> QED
  BY <1>8, <1>9, <1>12 DEF N, S

\* The block reached after i links is the one at place i.
LEMMA NodesAt ==
  ASSUME NEW h, NEW c \in Classes, NEW B, NEW sz, NEW al, NEW F, Rep(h, c, B, sz, al, F),
         NEW pos, Linked(h.mem, h.fl, F, Class(c, sz), pos), NEW k \in Lists, NEW i \in 1 .. MaxBlocks,
         Nodes(h, k)[i] # 0
  PROVE  Nodes(h, k)[i] \in F /\ Class(c, sz)[Nodes(h, k)[i]] = k /\ pos[Nodes(h, k)[i]] = i
<1> DEFINE w == Nodes(h, k)
           N == MaxBlocks
           cl == Class(c, sz)
           D == {j \in 1 .. N : w[j] # 0 /\ ~(w[j] \in F /\ cl[w[j]] = k /\ pos[w[j]] = j)}
<1>1. SUFFICES ASSUME D # {} PROVE FALSE
  OBVIOUS
<1>2. N \in Nat
  BY MaxBlocksIs
<1>3. \A j \in 1 .. N : w[j] = IF j = 1 THEN h.fl[k] ELSE Link(h, w[j - 1])
  BY NodeSteps
<1>l. Linked(h.mem, h.fl, F, cl, pos)
  OBVIOUS
<1> HIDE DEF w, N, cl
<1>4. PICK j \in D : \A n \in D : j <= n
  <2>1. D \subseteq Nat
    BY <1>2
  <2> HIDE DEF D
  <2> QED
    BY <1>1, <2>1, LeastOf
<1>5. j # 1
  <2>1. SUFFICES ASSUME j = 1 PROVE FALSE
    OBVIOUS
  <2> DEFINE d == h.fl[k]
  <2>2. w[1] = d /\ d # 0
    BY <1>3, <1>4, <2>1
  <2>3. d \in F /\ cl[d] = k
    BY <1>l, <2>2, LinkedHeads
  <2> HIDE DEF d
  <2>4. pos[d] = 1
    <3>1. h.fl[cl[d]] = d
      BY <2>3 DEF d
    <3> QED
      BY <3>1, <1>l, <2>3, LinkedParts
  <2> QED
    BY <1>4, <2>1, <2>2, <2>3, <2>4
<1>6. j \in 1 .. N /\ j \in Nat /\ j - 1 \in 1 .. N /\ j - 1 \notin D
  <2>1. j \in 1 .. N /\ j \in Nat /\ j - 1 \in 1 .. N /\ ~(j <= j - 1)
    BY <1>2, <1>4, <1>5
  <2> QED
    BY <2>1, <1>4
<1> DEFINE e == w[j - 1]
<1>7. w[j] = Link(h, e) /\ w[j] # 0
  BY <1>3, <1>4, <1>5, <1>6
<1>8. e # 0 /\ w[j] = h.mem[e]
  BY <1>7 DEF Link, NULL, NEXT_FREE
<1>9. e \in F /\ cl[e] = k /\ pos[e] = j - 1
  BY <1>6, <1>8
<1> HIDE DEF e
<1>10. w[j] \in F /\ cl[w[j]] = k /\ pos[w[j]] = pos[e] + 1
  BY <1>7, <1>8, <1>9, <1>l, LinkedParts
<1>11. pos[w[j]] = j
  BY <1>6, <1>9, <1>10
<1> QED
  BY <1>4, <1>10, <1>11

\* Each block of a list is reached at its place.
LEMMA BlocksAreNodes ==
  ASSUME NEW h, NEW c \in Classes, NEW B, NEW sz, NEW al, NEW F, Rep(h, c, B, sz, al, F),
         NEW pos, Linked(h.mem, h.fl, F, Class(c, sz), pos), NEW k \in Lists, NEW b \in F,
         Class(c, sz)[b] = k
  PROVE  Nodes(h, k)[pos[b]] = b
<1> DEFINE w == Nodes(h, k)
           N == MaxBlocks
           cl == Class(c, sz)
           D == {p \in 1 .. N : \E d \in F : cl[d] = k /\ pos[d] = p /\ w[p] # d}
<1>1. SUFFICES ASSUME D # {} PROVE FALSE
  <2>1. pos[b] \in 1 .. N
    BY PlaceBound
  <2> QED
    BY <2>1
<1>2. N \in Nat
  BY MaxBlocksIs
<1>3. \A j \in 1 .. N : w[j] = IF j = 1 THEN h.fl[k] ELSE Link(h, w[j - 1])
  BY NodeSteps
<1>l. Linked(h.mem, h.fl, F, cl, pos)
  OBVIOUS
<1>z. 0 \notin F
  <2>1. ASSUME NEW d \in F PROVE d # 0
    <3>1. d \in B /\ Tiled(B, sz, h.brk)
      BY DEF Rep
    <3>2. d >= 2 /\ d \in Nat
      BY <3>1, BlockBounds
    <3> QED
      BY <3>2
  <2> QED
    BY <2>1
<1> HIDE DEF w, N, cl
<1>4. PICK p \in D : \A n \in D : p <= n
  <2>1. D \subseteq Nat
    BY <1>2
  <2> HIDE DEF D
  <2> QED
    BY <1>1, <2>1, LeastOf
<1>5. PICK d \in F : cl[d] = k /\ pos[d] = p /\ w[p] # d
  BY <1>4
<1>6. p # 1
  <2>1. SUFFICES ASSUME p = 1 PROVE FALSE
    OBVIOUS
  <2>2. h.fl[cl[d]] = d
    BY <2>1, <1>5, <1>l, LinkedParts
  <2>3. w[1] = d
    BY <2>1, <2>2, <1>3, <1>4, <1>5
  <2> QED
    BY <2>1, <2>3, <1>5
<1>7. p \in 1 .. N /\ p \in Nat /\ p - 1 \in 1 .. N /\ p - 1 \notin D
  <2>1. p \in 1 .. N /\ p \in Nat /\ p - 1 \in 1 .. N /\ ~(p <= p - 1)
    BY <1>2, <1>4, <1>6
  <2> QED
    BY <2>1, <1>4
<1> DEFINE e == h.mem[d + 2]
<1>8. e \in F /\ cl[e] = cl[d] /\ h.mem[e] = d
  <2>1. h.mem[d + 2] # 0
    BY <1>5, <1>6, <1>l, LinkedParts
  <2> QED
    BY <2>1, <1>l, LinkedParts
<1> HIDE DEF e
<1>9. pos[d] = pos[e] + 1 /\ pos[e] \in Nat /\ d # 0 /\ e # 0
  BY <1>8, <1>z, <1>l, LinkedParts
<1>10. pos[e] = p - 1
  BY <1>5, <1>7, <1>9
<1>11. w[p - 1] = e
  BY <1>5, <1>7, <1>8, <1>10
<1>12. w[p] = Link(h, e)
  BY <1>3, <1>6, <1>7, <1>11
<1>13. Link(h, e) = d
  BY <1>8, <1>9 DEF Link, NULL, NEXT_FREE
<1> QED
  BY <1>5, <1>12, <1>13

(* Each of the blocks F is on one list, once, at its place pos. *)
OnLists(h, c, sz, F, pos) ==
  /\ pos \in [F -> 1 .. MaxBlocks]
  /\ \A k \in Lists :
        /\ DOMAIN FreeList(h, k) \subseteq 1 .. MaxBlocks
        /\ \A i \in DOMAIN FreeList(h, k) :
              /\ FreeList(h, k)[i] \in F
              /\ c[sz[FreeList(h, k)[i]]] = k
              /\ pos[FreeList(h, k)[i]] = i
              /\ PREV_FREE(h, FreeList(h, k)[i]) = IF i = 1 THEN 0 ELSE FreeList(h, k)[i - 1]
              /\ NEXT_FREE(h, FreeList(h, k)[i]) # 0 => PREV_FREE(h, NEXT_FREE(h, FreeList(h, k)[i])) = FreeList(h, k)[i]
  /\ \A b \in F : /\ c[sz[b]] \in Lists
                  /\ pos[b] \in DOMAIN FreeList(h, c[sz[b]])
                  /\ FreeList(h, c[sz[b]])[pos[b]] = b

\* The lists as the code follows them are the lists of the representation.
LEMMA FreeListsAre ==
  ASSUME NEW h, NEW c \in Classes, NEW B, NEW sz, NEW al, NEW F, Rep(h, c, B, sz, al, F)
  PROVE  \E pos : OnLists(h, c, sz, F, pos)
<1>1. PICK pos : Linked(h.mem, h.fl, F, Class(c, sz), pos)
  BY DEF Rep, Chained
<1> DEFINE cl == Class(c, sz)
<1>2. ASSUME NEW b \in F PROVE pos[b] \in 1 .. MaxBlocks /\ b # 0 /\ cl[b] = c[sz[b]] /\ cl[b] \in Lists
  <2>1. b \in B /\ Tiled(B, sz, h.brk)
    BY DEF Rep
  <2>2. b \in Nat /\ b >= 2
    BY <2>1, BlockBounds
  <2>3. cl[b] = c[sz[b]] /\ cl[b] \in Lists
    BY <2>1, ClassOf
  <2>4. pos[b] \in 1 .. MaxBlocks
    BY <1>1, PlaceBound
  <2> QED
    BY <2>2, <2>3, <2>4
<1>3. pos \in [F -> 1 .. MaxBlocks]
  <2>1. pos = [b \in F |-> pos[b]]
    BY <1>1 DEF Linked
  <2> QED
    BY <2>1, <1>2
<1>4. ASSUME NEW k \in Lists
      PROVE  /\ DOMAIN FreeList(h, k) = {i \in 1 .. MaxBlocks : Nodes(h, k)[i] # 0}
             /\ \A i \in DOMAIN FreeList(h, k) : FreeList(h, k)[i] = Nodes(h, k)[i]
  BY DEF FreeList, NULL
<1>5. ASSUME NEW b \in F PROVE pos[b] \in DOMAIN FreeList(h, c[sz[b]]) /\ FreeList(h, c[sz[b]])[pos[b]] = b
  <2>1. Nodes(h, c[sz[b]])[pos[b]] = b
    BY <1>1, <1>2, BlocksAreNodes
  <2> QED
    BY <2>1, <1>2, <1>4
<1>l. Linked(h.mem, h.fl, F, cl, pos)
  BY <1>1
<1> HIDE DEF cl
<1>6. ASSUME NEW k \in Lists, NEW i \in DOMAIN FreeList(h, k)
      PROVE  LET d == FreeList(h, k)[i] IN
             /\ d \in F /\ c[sz[d]] = k /\ pos[d] = i
             /\ PREV_FREE(h, d) = IF i = 1 THEN 0 ELSE FreeList(h, k)[i - 1]
             /\ NEXT_FREE(h, d) # 0 => PREV_FREE(h, NEXT_FREE(h, d)) = d
  <2> DEFINE d == FreeList(h, k)[i]
  <2>1. i \in 1 .. MaxBlocks /\ d = Nodes(h, k)[i] /\ Nodes(h, k)[i] # 0
    BY <1>4
  <2>2. d \in F /\ cl[d] = k /\ pos[d] = i
    BY <2>1, <1>1, NodesAt DEF cl
  <2> HIDE DEF d
  <2>3. PREV_FREE(h, d) = (IF i = 1 THEN 0 ELSE FreeList(h, k)[i - 1])
    <3>1. CASE i = 1
      <4>1. h.mem[d + 2] = 0
        BY <2>2, <3>1, <1>l, LinkedParts
      <4> QED
        BY <4>1, <3>1 DEF PREV_FREE
    <3>2. CASE i # 1
      <4> DEFINE e == h.mem[d + 2]
      <4>1. e # 0 /\ e \in F /\ cl[e] = cl[d] /\ h.mem[e] = d
        BY <2>2, <3>2, <1>l, LinkedParts
      <4> HIDE DEF e
      <4>2. pos[d] = pos[e] + 1 /\ pos[e] \in Nat
        BY <4>1, <2>2, <1>l, <1>2, LinkedParts
      <4>3. pos[e] = i - 1 /\ c[sz[e]] = k
        BY <4>1, <4>2, <2>1, <2>2, <1>2
      <4>4. FreeList(h, k)[i - 1] = e
        BY <4>1, <4>3, <1>5
      <4> QED
        BY <4>4, <3>2 DEF PREV_FREE, e
    <3> QED
      BY <3>1, <3>2
  <2>5. h.mem[d] # 0 => h.mem[h.mem[d] + 2] = d
    BY <2>2, <1>l, LinkedParts
  <2>7. NEXT_FREE(h, d) # 0 => PREV_FREE(h, NEXT_FREE(h, d)) = d
    BY <2>5 DEF PREV_FREE, NEXT_FREE
  <2> QED
    BY <2>2, <2>3, <2>7, <1>2 DEF d
<1>7. ASSUME NEW k \in Lists PROVE DOMAIN FreeList(h, k) \subseteq 1 .. MaxBlocks
  BY <1>4
<1>8. OnLists(h, c, sz, F, pos)
  BY <1>2, <1>3, <1>5, <1>6, <1>7 DEF OnLists
<1> QED
  BY <1>8

----------------------------------------------------------------------------
(* Consistency                                                             *)

(* The blocks that the checkers visit are those of the heap.               *)
LEMMA SoundBlocks ==
  ASSUME NEW h, NEW c, NEW B, NEW sz, NEW al, Sound(h, c, B, sz, al)
  PROVE  /\ Real(h) = B \ {2, h.brk}
         /\ FreeBlocks(h) = Free(B, al)
         /\ Visited(h) = B \ {h.brk}
         /\ Real(h) \ FreeBlocks(h) = Held(B, al, h.brk)
         /\ EndsInOrder(h)
         /\ h.mem[2] = 3
<1> DEFINE F == Free(B, al)
<1>1. Rep(h, c, B, sz, al, F)
  BY DEF Sound
<1>2. Blocks(h) = B /\ Last(Walk(h)) = h.brk
  BY <1>1, WalkIs
<1>3. Tiled(B, sz, h.brk) /\ Tagged(h.mem, B, sz, al, h.brk)
  BY <1>1 DEF Rep
<1>4. 2 \in B /\ h.brk \in B /\ sz[2] = 2 /\ sz[h.brk] = 0 /\ 2 # h.brk
  BY <1>3 DEF Tiled
<1>5. al[2] = 1 /\ al[h.brk] = 1
  BY <1>3 DEF Tagged
<1>6. \A b \in B : /\ SizeOf(h, b) = sz[b] /\ (Allocated(h, b) <=> al[b] = 1) /\ al[b] \in {0, 1}
                   /\ (b # h.brk => h.mem[b + sz[b] - 2] = sz[b] + al[b])
                   /\ (al[b] = 0 => b \notin {2, h.brk})
  BY <1>1, RepFacts
<1>7. \A b \in B : sz[b] \in Nat /\ (b # h.brk => sz[b] >= 2)
  BY <1>3, BlockBounds
<1> HIDE DEF F
<1>8. Real(h) = B \ {2, h.brk}
  BY <1>2, <1>4, <1>6, <1>7 DEF Real, DSIZE
<1>9. FreeBlocks(h) = Free(B, al)
  BY <1>8, <1>6 DEF FreeBlocks, Free
<1>10. Visited(h) = B \ {h.brk}
  BY <1>2, <1>4, <1>6, <1>7 DEF Visited
<1>11. Real(h) \ FreeBlocks(h) = Held(B, al, h.brk)
  BY <1>8, <1>9, <1>6 DEF Free, Held
<1>12. EndsInOrder(h)
  BY <1>2, <1>4, <1>5, <1>6 DEF EndsInOrder, DSIZE
<1>13. h.mem[2] = 3
  <2>1. h.mem[2 + sz[2] - 2] = sz[2] + al[2]
    BY <1>4, <1>6
  <2> QED
    BY <2>1, <1>4, <1>5
<1> QED
  BY <1>8, <1>9, <1>10, <1>11, <1>12, <1>13

(* checkblock() finds no fault with any of them.                           *)
LEMMA SoundChecked ==
  ASSUME NEW h, NEW c, NEW B, NEW sz, NEW al, Sound(h, c, B, sz, al), NEW b \in B \ {h.brk}
  PROVE  checkblock(h, b) /\ (b # 2 => SizeOf(h, b) >= 6)
<1> DEFINE F == Free(B, al)
<1>1. Rep(h, c, B, sz, al, F) /\ \A d \in F : al[d + sz[d]] = 1
  BY DEF Sound
<1>3. Tiled(B, sz, h.brk)
  BY <1>1 DEF Rep
<1>4. /\ SizeOf(h, b) = sz[b] /\ (Allocated(h, b) <=> al[b] = 1) /\ al[b] \in {0, 1}
      /\ h.mem[b - 1] = sz[b] + al[b] /\ h.mem[b + sz[b] - 2] = sz[b] + al[b]
      /\ NEXT_BLKP(h, b) = b + sz[b]
  BY <1>1, RepFacts
<1>5. b \in Nat /\ b <= h.brk /\ h.brk \in Nat /\ b + sz[b] \in B /\ (b # 2 => sz[b] >= 6)
  BY <1>3, BlockBounds
<1>6. b % 2 = 0
  BY <1>3 DEF Tiled
<1>7. Allocated(h, b + sz[b]) <=> al[b + sz[b]] = 1
  BY <1>1, <1>5, RepFacts
<1>8. Allocated(h, b) \/ Allocated(h, b + sz[b])
  <2>1. CASE al[b] = 1
    BY <2>1, <1>4
  <2>2. CASE al[b] = 0
    <3>1. b \in F
      BY <2>2 DEF Free
    <3> HIDE DEF F
    <3> QED
      BY <3>1, <1>1, <1>7
  <2> QED
    BY <2>1, <2>2, <1>4
<1>9. b \in 0 .. h.brk - 1
  BY <1>5
<1>10. h.mem[b - 1] = h.mem[b + SizeOf(h, b) - 2]
  BY <1>4
<1>11. checkblock(h, b)
  BY <1>4, <1>6, <1>8, <1>9, <1>10 DEF checkblock, DSIZE
<1> QED
  BY <1>4, <1>5, <1>11

(* What the checks of the allocators and the driver's own ask of the lists.*)
ListsInOrder(h, c) ==
  /\ UNION {Range(FreeList(h, k)) : k \in Lists} = FreeBlocks(h)
  /\ \A k \in Lists : \A i \in DOMAIN FreeList(h, k) :
        /\ FreeList(h, k)[i] \in FreeBlocks(h)
        /\ c[SizeOf(h, FreeList(h, k)[i])] = k
        /\ PREV_FREE(h, FreeList(h, k)[i]) = IF i = 1 THEN 0 ELSE FreeList(h, k)[i - 1]
        /\ NEXT_FREE(h, FreeList(h, k)[i]) # 0
             => PREV_FREE(h, NEXT_FREE(h, FreeList(h, k)[i])) = FreeList(h, k)[i]
  /\ \A b \in FreeBlocks(h) : /\ c[SizeOf(h, b)] \in Lists
                              /\ \E i \in DOMAIN FreeList(h, c[SizeOf(h, b)]) :
                                    FreeList(h, c[SizeOf(h, b)])[i] = b
  /\ Cardinality(Places(h))
       = Cardinality(FreeBlocks(h))

\* There are finitely many free blocks.
LEMMA FreeFinite ==
  ASSUME NEW h, NEW c, NEW B, NEW sz, NEW al, Sound(h, c, B, sz, al)
  PROVE  IsFiniteSet(Free(B, al))
<1>1. Tiled(B, sz, h.brk) /\ h.brk \in Nat
  BY DEF Sound, Rep, Tiled
<1>2. Free(B, al) \subseteq 2 .. h.brk
  BY <1>1 DEF Free, Tiled
<1>3. IsFiniteSet(2 .. h.brk)
  BY <1>1, FS_Interval
<1> QED
  BY <1>2, <1>3, FS_Subset

(* There are as many places on the lists as blocks on them.                *)
LEMMA PlacesCounted ==
  ASSUME NEW h, NEW c, NEW sz, NEW F, NEW pos, OnLists(h, c, sz, F, pos), IsFiniteSet(F)
  PROVE  Cardinality(Places(h)) = Cardinality(F)
<1> DEFINE S == Places(h)
           f == [b \in F |-> <<c[sz[b]], pos[b]>>]
<1>1. \A k \in Lists : \A i \in DOMAIN FreeList(h, k) : <<k, i>> \in S
  BY DEF Places
<1>2. \A t \in S : \E k \in Lists : \E i \in DOMAIN FreeList(h, k) : t = <<k, i>>
  BY DEF Places
<1> HIDE DEF S
<1>4. \A b \in F : f[b] \in S
  <2>1. \A b \in F : /\ c[sz[b]] \in Lists /\ pos[b] \in DOMAIN FreeList(h, c[sz[b]])
    BY DEF OnLists
  <2> QED
    BY <2>1, <1>1
<1>5. \A b, d \in F : f[b] = f[d] => b = d
  <2>1. SUFFICES ASSUME NEW b \in F, NEW d \in F, f[b] = f[d] PROVE b = d
    OBVIOUS
  <2>2. c[sz[b]] = c[sz[d]] /\ pos[b] = pos[d]
    BY <2>1
  <2>3. FreeList(h, c[sz[b]])[pos[b]] = b /\ FreeList(h, c[sz[d]])[pos[d]] = d
    BY DEF OnLists
  <2> QED
    BY <2>2, <2>3
<1>6. \A t \in S : \E b \in F : f[b] = t
  <2>1. SUFFICES ASSUME NEW t \in S PROVE \E b \in F : f[b] = t
    OBVIOUS
  <2>2. PICK k \in Lists : \E i \in DOMAIN FreeList(h, k) : t = <<k, i>>
    BY <1>2
  <2>4. PICK i \in DOMAIN FreeList(h, k) : t = <<k, i>>
    BY <2>2
  <2>3. /\ FreeList(h, k)[i] \in F /\ c[sz[FreeList(h, k)[i]]] = k /\ pos[FreeList(h, k)[i]] = i
    BY <2>2 DEF OnLists
  <2> QED
    BY <2>4, <2>3
<1>7. f \in Bijection(F, S)
  <2>1. f \in [F -> S]
    BY <1>4
  <2> HIDE DEF f
  <2>2. f \in Injection(F, S)
    BY <2>1, <1>5 DEF Injection, IsInjective
  <2>3. f \in Surjection(F, S)
    BY <2>1, <1>6 DEF Surjection
  <2> QED
    BY <2>2, <2>3 DEF Bijection
<1>8. ExistsBijection(F, S)
  BY <1>7 DEF ExistsBijection
<1>9. Cardinality(F) = Cardinality(S)
  <2> HIDE DEF f
  <2> QED
    BY <1>8, FS_Bijection
<1> QED
  BY <1>9 DEF S

\* Following the lists finds each free block once (mm.c:467-502).
LEMMA SoundLists ==
  ASSUME NEW h, NEW c \in Classes, NEW B, NEW sz, NEW al, Sound(h, c, B, sz, al)
  PROVE  ListsInOrder(h, c)
<1> DEFINE F == Free(B, al)
<1>1. Rep(h, c, B, sz, al, F)
  BY DEF Sound
<1>2. PICK pos : OnLists(h, c, sz, F, pos)
  BY <1>1, FreeListsAre
<1>3. FreeBlocks(h) = F /\ IsFiniteSet(F)
  BY SoundBlocks, FreeFinite
<1>4. \A b \in F : SizeOf(h, b) = sz[b]
  <2>1. \A b \in F : b \in B
    BY DEF Free
  <2> QED
    BY <2>1, <1>1, RepFacts
<1> HIDE DEF F
<1>5. \A k \in Lists : \A i \in DOMAIN FreeList(h, k) :
        /\ FreeList(h, k)[i] \in F
        /\ c[sz[FreeList(h, k)[i]]] = k
        /\ PREV_FREE(h, FreeList(h, k)[i]) = IF i = 1 THEN 0 ELSE FreeList(h, k)[i - 1]
        /\ NEXT_FREE(h, FreeList(h, k)[i]) # 0
             => PREV_FREE(h, NEXT_FREE(h, FreeList(h, k)[i])) = FreeList(h, k)[i]
  BY <1>2 DEF OnLists
<1>6. \A b \in F : /\ c[sz[b]] \in Lists
                   /\ \E i \in DOMAIN FreeList(h, c[sz[b]]) : FreeList(h, c[sz[b]])[i] = b
  BY <1>2 DEF OnLists
<1>7. UNION {Range(FreeList(h, k)) : k \in Lists} = F
  <2>1. \A k \in Lists : \A i \in DOMAIN FreeList(h, k) : FreeList(h, k)[i] \in F
    BY <1>5
  <2>2. \A b \in F : \E k \in Lists : b \in Range(FreeList(h, k))
    BY <1>6 DEF Range
  <2>3. \A k \in Lists : \A b \in Range(FreeList(h, k)) : b \in F
    BY <2>1 DEF Range
  <2> QED
    BY <2>2, <2>3
<1>8. Cardinality(Places(h)) = Cardinality(F)
  BY <1>2, <1>3, PlacesCounted
<1>9. \A k \in Lists : \A i \in DOMAIN FreeList(h, k) : SizeOf(h, FreeList(h, k)[i]) = sz[FreeList(h, k)[i]]
  BY <1>4, <1>5
<1>10. \A k \in Lists : \A i \in DOMAIN FreeList(h, k) :
        /\ FreeList(h, k)[i] \in FreeBlocks(h)
        /\ c[SizeOf(h, FreeList(h, k)[i])] = k
        /\ PREV_FREE(h, FreeList(h, k)[i]) = IF i = 1 THEN 0 ELSE FreeList(h, k)[i - 1]
        /\ NEXT_FREE(h, FreeList(h, k)[i]) # 0
             => PREV_FREE(h, NEXT_FREE(h, FreeList(h, k)[i])) = FreeList(h, k)[i]
  BY <1>3, <1>5, <1>9
<1>11. \A b \in FreeBlocks(h) : /\ c[SizeOf(h, b)] \in Lists
                              /\ \E i \in DOMAIN FreeList(h, c[SizeOf(h, b)]) :
                                    FreeList(h, c[SizeOf(h, b)])[i] = b
  BY <1>3, <1>4, <1>6
<1> QED
  BY <1>3, <1>7, <1>8, <1>10, <1>11 DEF ListsInOrder

(* What any of the checks asks of a heap that holds the payloads s.        *)
InOrder(h, c, s) ==
  /\ Last(Walk(h)) = h.brk /\ h.mem[2] = 3 /\ EndsInOrder(h)
  /\ \A b \in Visited(h) : checkblock(h, b) /\ (b # 2 => SizeOf(h, b) >= 6)
  /\ Real(h) \subseteq Visited(h) /\ FreeBlocks(h) \subseteq Real(h)
  /\ Real(h) \ FreeBlocks(h) = DOMAIN s
  /\ ListsInOrder(h, c)

\* What the consistency checks look at is as it should be (mm.c:439-535).
LEMMA HoldsInOrder ==
  ASSUME NEW h, NEW c \in Classes, NEW s, Holds(h, c, s)
  PROVE  InOrder(h, c, s)
<1>1. PICK B, sz, al : Sound(h, c, B, sz, al) /\ s = HeldSizes(B, sz, al, h.brk)
  BY DEF Holds
<1>2. DOMAIN s = Held(B, al, h.brk)
  BY <1>1 DEF HeldSizes
<1>3. /\ Real(h) = B \ {2, h.brk} /\ Visited(h) = B \ {h.brk} /\ EndsInOrder(h) /\ h.mem[2] = 3
      /\ Real(h) \ FreeBlocks(h) = Held(B, al, h.brk)
  BY <1>1, SoundBlocks
<1>4. Last(Walk(h)) = h.brk
  <2>1. Rep(h, c, B, sz, al, Free(B, al))
    BY <1>1 DEF Sound
  <2> QED
    BY <2>1, WalkIs
<1>5. \A b \in B \ {h.brk} : checkblock(h, b) /\ (b # 2 => SizeOf(h, b) >= 6)
  BY <1>1, SoundChecked
<1>6. ListsInOrder(h, c)
  BY <1>1, SoundLists
<1>7. FreeBlocks(h) \subseteq Real(h)
  BY DEF FreeBlocks
<1> QED
  BY <1>2, <1>3, <1>4, <1>5, <1>6, <1>7 DEF InOrder

----------------------------------------------------------------------------
(* Fits                                                                    *)

\* Min is what first fit takes.
LEMMA LeastPlace ==
  ASSUME NEW S, S \subseteq Nat, S # {}
  PROVE  Min(S) \in S /\ \A x \in S : Min(S) <= x
<1>1. \E x \in S : \A y \in S : x <= y
  BY LeastOf
<1> QED
  BY <1>1 DEF Min

\* Max is one of them.
LEMMA GreatestPlace ==
  ASSUME NEW n \in Nat, NEW S, S \subseteq 1 .. n, S # {}
  PROVE  Max(S) \in S
<1> DEFINE T == {m \in Nat : \E x \in S : m = n - x}
<1>1. T \subseteq Nat /\ T # {}
  <2>1. PICK x \in S : TRUE
    OBVIOUS
  <2>2. n - x \in Nat
    BY <2>1
  <2> QED
    BY <2>2
<1>2. PICK m \in T : \A k \in T : m <= k
  <2> HIDE DEF T
  <2> QED
    BY <1>1, LeastOf
<1>3. PICK x \in S : m = n - x
  BY <1>2
<1>4. ASSUME NEW y \in S PROVE x >= y
  <2>1. n - y \in T /\ x \in Int /\ y \in Int
    OBVIOUS
  <2>2. m <= n - y
    BY <2>1, <1>2
  <2> QED
    BY <2>1, <2>2, <1>3
<1> QED
  BY <1>3, <1>4 DEF Max

(* A place of a free list that fits holds a free block that large.         *)
LEMMA FitOffers ==
  ASSUME NEW h, NEW c \in Classes, NEW s, Holds(h, c, s), NEW k \in Lists, NEW n \in Nat
  PROVE  /\ Fits(h, k, n) \subseteq 1 .. MaxBlocks
         /\ \A i \in Fits(h, k, n) : Offers(h, c, s, FreeList(h, k)[i], n)
         /\ \A i \in Fits(h, k, n) : SizeOf(h, FreeList(h, k)[i]) \in Nat
<1>1. PICK B, sz, al : Sound(h, c, B, sz, al) /\ s = HeldSizes(B, sz, al, h.brk)
  BY DEF Holds
<1>2. Rep(h, c, B, sz, al, Free(B, al))
  BY <1>1 DEF Sound
<1>3. PICK pos : OnLists(h, c, sz, Free(B, al), pos)
  BY <1>2, FreeListsAre
<1>4. /\ DOMAIN FreeList(h, k) \subseteq 1 .. MaxBlocks
      /\ \A i \in DOMAIN FreeList(h, k) : FreeList(h, k)[i] \in Free(B, al)
  BY <1>3 DEF OnLists
<1>5. \A b \in Free(B, al) : SizeOf(h, b) = sz[b] /\ sz[b] \in Nat
  <2>1. \A b \in Free(B, al) : b \in B
    BY DEF Free
  <2> QED
    BY <2>1, <1>2, RepFacts
<1>6. \A i \in Fits(h, k, n) : i \in DOMAIN FreeList(h, k) /\ n <= SizeOf(h, FreeList(h, k)[i])
  BY DEF Fits
<1>7. ASSUME NEW i \in Fits(h, k, n)
      PROVE  Offers(h, c, s, FreeList(h, k)[i], n) /\ SizeOf(h, FreeList(h, k)[i]) \in Nat
  <2> DEFINE d == FreeList(h, k)[i]
  <2>1. d \in Free(B, al) /\ sz[d] \in Nat /\ SizeOf(h, d) = sz[d] /\ n <= sz[d]
    BY <1>4, <1>5, <1>6
  <2> HIDE DEF d
  <2>2. Offers(h, c, s, d, n)
    BY <2>1, <1>1 DEF Offers
  <2> QED
    BY <2>1, <2>2 DEF d
<1> QED
  BY <1>4, <1>6, <1>7

(* Every free block that is large enough is at such a place of its list.   *)
LEMMA FitsFound ==
  ASSUME NEW h, NEW c \in Classes, NEW s, Holds(h, c, s), NEW n \in Nat,
         NEW b \in FreeBlocks(h), n <= SizeOf(h, b)
  PROVE  c[SizeOf(h, b)] \in Lists /\ Fits(h, c[SizeOf(h, b)], n) # {} /\ SizeOf(h, b) \in Nat
<1>1. ListsInOrder(h, c)
  BY HoldsInOrder DEF InOrder
<1>2. c[SizeOf(h, b)] \in Lists /\ \E i \in DOMAIN FreeList(h, c[SizeOf(h, b)]) :
                                    FreeList(h, c[SizeOf(h, b)])[i] = b
  BY <1>1 DEF ListsInOrder
<1>3. Fits(h, c[SizeOf(h, b)], n) # {}
  BY <1>2 DEF Fits
<1>4. SizeOf(h, b) \in Nat
  <2>1. PICK B, sz, al : Sound(h, c, B, sz, al)
    BY DEF Holds
  <2>2. Rep(h, c, B, sz, al, Free(B, al)) /\ b \in B
    BY <2>1, SoundBlocks DEF Sound, Free
  <2> QED
    BY <2>2, RepFacts
<1> QED
  BY <1>2, <1>3, <1>4
=============================================================================
