----------------------------- MODULE CSimProofs -----------------------------
(***************************************************************************)
(* Proofs about CSim: for every geometry and every trace the use counters  *)
(* order each set, no tag is held twice, and the simulator implements      *)
(* LruCache.                                                               *)
(***************************************************************************)
EXTENDS CSim, FiniteSetTheorems, SequenceTheorems, WellFoundedInduction, TLAPS

IsLine(l) == DOMAIN l = {"valid", "tag", "ucount"} /\ l.valid \in {0, 1} /\ l.ucount \in Nat

(* A set as hit_or_miss() and the eviction loop need it: no two valid      *)
(* lines share a counter or a tag.  That counters are natural numbers      *)
(* matters: a line that was not used is at least 1 after Aged.  Nothing is *)
(* asked of the tags.                                                      *)
GoodSet(ways) ==
  /\ ways = [i \in Ways |-> ways[i]]
  /\ \A i \in Ways : IsLine(ways[i])
  /\ \A i, k \in Ways : ways[i].valid = 1 /\ ways[k].valid = 1 /\ i # k =>
        ways[i].ucount # ways[k].ucount /\ ways[i].tag # ways[k].tag

GoodCache(c) == c = [x \in Sets |-> c[x]] /\ \A x \in Sets : GoodSet(c[x])

IInv == GoodCache(cache)

(* Aging keeps a set good and leaves no counter at 0. *)
LEMMA AgedGood ==
  ASSUME NEW ways, GoodSet(ways)
  PROVE  GoodSet(Aged(ways)) /\ \A i \in Ways : Aged(ways)[i].ucount > 0
<1>1. ways = [i \in Ways |-> ways[i]] /\ \A i \in Ways : IsLine(ways[i])
  BY DEF GoodSet
<1>2. ASSUME NEW i \in Ways
      PROVE  /\ IsLine(Aged(ways)[i])
             /\ Aged(ways)[i].ucount = ways[i].ucount + 1
             /\ Aged(ways)[i].valid = ways[i].valid
             /\ Aged(ways)[i].tag = ways[i].tag
             /\ ways[i].ucount \in Nat
  BY <1>1 DEF Aged, IsLine
<1>3. Aged(ways) = [i \in Ways |-> Aged(ways)[i]]
  BY DEF Aged
<1> QED
  BY <1>2, <1>3 DEF GoodSet

(* A line that takes a tag no other valid line has keeps the set good (an  *)
(* index outside the set writes nothing).                                  *)
LEMMA UsedGood ==
  ASSUME NEW ways, GoodSet(ways), \A i \in Ways : ways[i].ucount > 0,
         NEW i, NEW tag,
         \A k \in Ways : ways[k].valid = 1 /\ ways[k].tag = tag => k = i
  PROVE  GoodSet(Used(ways, i, tag))
<1> DEFINE u == Used(ways, i, tag)
<1>1. ways = [k \in Ways |-> ways[k]] /\ \A k \in Ways : IsLine(ways[k])
  BY DEF GoodSet
<1>2. u = [k \in Ways |-> u[k]]
  BY <1>1 DEF Used
<1>3. i \in Ways => u[i] = [valid |-> 1, tag |-> tag, ucount |-> 0]
  BY <1>1 DEF Used
<1>4. \A k \in Ways : k # i => u[k] = ways[k]
  BY <1>1 DEF Used
<1>5. \A k \in Ways : IsLine(u[k])
  BY <1>1, <1>3, <1>4 DEF IsLine
<1> HIDE DEF u
<1> QED
  BY <1>2, <1>3, <1>4, <1>5 DEF GoodSet, IsLine, u

(* One access keeps the cache good: on a hit the line that has the tag is  *)
(* used again, on a miss no line has it.                                   *)
LEMMA AccessGood ==
  ASSUME NEW c, GoodCache(c.cache), NEW a,
         DOMAIN c = {"cache", "hit", "miss", "evict"}
  PROVE  /\ GoodCache(load_or_store(c, a).cache)
         /\ DOMAIN load_or_store(c, a) = DOMAIN c
<1> DEFINE x == set_index(a)
           tag == tag_info(a)
           ways == Aged(c.cache[x])
           Into(i) == [c EXCEPT !.cache[x] = Used(ways, i, tag)]
<1>1. ASSUME NEW i, x \in Sets =>
               \A k \in Ways : ways[k].valid = 1 /\ ways[k].tag = tag => k = i
      PROVE  GoodCache(Into(i).cache) /\ DOMAIN Into(i) = DOMAIN c
  <2>1. Into(i).cache = [c.cache EXCEPT ![x] = Used(ways, i, tag)] /\ DOMAIN Into(i) = DOMAIN c
    OBVIOUS
  <2>2. CASE x \in Sets
    <3>1. GoodSet(c.cache[x])
      BY <2>2 DEF GoodCache
    <3>2. GoodSet(ways) /\ \A k \in Ways : ways[k].ucount > 0
      BY <3>1, AgedGood
    <3>3. GoodSet(Used(ways, i, tag))
      <4> HIDE DEF ways, tag
      <4> QED
        BY <1>1, <2>2, <3>2, UsedGood DEF tag
    <3> DEFINE d == Into(i).cache
               w == Used(ways, i, tag)
    <3>4. d = [c.cache EXCEPT ![x] = w] /\ c.cache = [y \in Sets |-> c.cache[y]]
      BY <2>1 DEF GoodCache
    <3>5. GoodSet(w) /\ \A y \in Sets : GoodSet(c.cache[y])
      BY <3>3 DEF GoodCache
    <3> HIDE DEF d, w
    <3>6. d = [y \in Sets |-> d[y]]
      BY <3>4
    <3>7. \A y \in Sets : d[y] = IF y = x THEN w ELSE c.cache[y]
      <4> HIDE DEF x
      <4> QED
        BY <3>4
    <3>8. \A y \in Sets : GoodSet(d[y])
      BY <3>5, <3>7
    <3> QED
      BY <2>1, <3>6, <3>8 DEF GoodCache, d
  <2>3. CASE x \notin Sets
    BY <2>1, <2>3 DEF GoodCache
  <2> QED
    BY <2>2, <2>3
<1>2. CASE HitWays(ways, tag) # {}
  <2> DEFINE i == Least(HitWays(ways, tag))
  <2>1. load_or_store(c, a) = [Into(i) EXCEPT !.hit = @ + 1]
    BY <1>2 DEF load_or_store
  <2>2. x \in Sets => \A k \in Ways : ways[k].valid = 1 /\ ways[k].tag = tag => k = i
    <3> SUFFICES ASSUME x \in Sets, NEW k \in Ways, ways[k].valid = 1, ways[k].tag = tag
                 PROVE  k = i
      OBVIOUS
    <3>1. GoodSet(ways)
      BY AgedGood DEF GoodCache
    <3>2. HitWays(ways, tag) = {k}
      <4> HIDE DEF ways, tag
      <4> QED
        BY <3>1 DEF HitWays, GoodSet
    <3> QED
      BY <3>2 DEF Least, Ways
  <2>3. GoodCache(Into(i).cache) /\ DOMAIN Into(i) = DOMAIN c
    BY <1>1, <2>2
  <2> QED
    BY <2>1, <2>3
<1>3. CASE HitWays(ways, tag) = {}
  <2>1. \A k \in Ways : ~ (ways[k].valid = 1 /\ ways[k].tag = tag)
    BY <1>3 DEF HitWays
  <2>2. \A i : GoodCache(Into(i).cache) /\ DOMAIN Into(i) = DOMAIN c
    BY <1>1, <2>1
  <2>3. CASE EmptyWays(ways) # {}
    <3>1. load_or_store(c, a) = [Into(Least(EmptyWays(ways))) EXCEPT !.miss = @ + 1]
      BY <1>3, <2>3 DEF load_or_store
    <3> QED
      BY <2>2, <3>1
  <2>4. CASE EmptyWays(ways) = {}
    <3>1. load_or_store(c, a) = [Into(LruWay(ways)) EXCEPT !.miss = @ + 1, !.evict = @ + 1]
      BY <1>3, <2>4 DEF load_or_store
    <3> QED
      BY <2>2, <3>1
  <2> QED
    BY <2>3, <2>4
<1> QED
  BY <1>2, <1>3
(* A trace line keeps the cache good, whatever its operation. *)
LEMMA OperateGood ==
  ASSUME NEW c, GoodCache(c.cache), DOMAIN c = {"cache", "hit", "miss", "evict"}, NEW op, NEW a
  PROVE  GoodCache(Operate(c, op, a).cache)
<1>1. /\ GoodCache(load_or_store(c, a).cache)
      /\ DOMAIN load_or_store(c, a) = {"cache", "hit", "miss", "evict"}
  BY AccessGood
<1>2. GoodCache(load_or_store(load_or_store(c, a), a).cache)
  BY <1>1, AccessGood
<1> QED
  BY <1>1, <1>2 DEF Operate

(* Main starts with sets without a valid line. *)
LEMMA InitGood == Init => IInv
<1>1. ASSUME Init, NEW x \in Sets
      PROVE  GoodSet(cache[x])
  <2>1. cache[x] = [i \in Ways |-> [valid |-> 0, tag |-> 0, ucount |-> 0]]
    BY <1>1 DEF Init
  <2> QED
    BY <2>1 DEF GoodSet, IsLine
<1>2. Init => cache = [x \in Sets |-> cache[x]]
  BY DEF Init
<1> QED
  BY <1>1, <1>2 DEF IInv, GoodCache

(* Only Scan writes the cache. *)
LEMMA NextGood == IInv /\ [Next]_vars => IInv'
<1> SUFFICES ASSUME IInv, [Next]_vars
             PROVE  IInv'
  OBVIOUS
<1>1. CASE FileLine
  BY <1>1 DEF FileLine, IInv
<1>2. CASE Scan
  <2> DEFINE op == Head(input)[1]
             a == Head(Skipped(Tail(input)))[2]
             c == [cache |-> cache, hit |-> hit, miss |-> miss, evict |-> evict]
  <2>1. cache' = Operate(c, op, a).cache \/ cache' = cache
    BY <1>2 DEF Scan
  <2>2. c.cache = cache /\ DOMAIN c = {"cache", "hit", "miss", "evict"}
    OBVIOUS
  <2>3. GoodCache(c.cache)
    BY <2>2 DEF IInv
  <2> HIDE DEF op, a, c
  <2>4. GoodCache(Operate(c, op, a).cache)
    BY <2>2, <2>3, OperateGood
  <2>5. GoodCache(cache')
    BY <2>1, <2>4 DEF IInv
  <2> QED
    BY <2>5 DEF IInv, GoodCache
<1>3. CASE EndOfFile \/ UNCHANGED vars
  BY <1>3 DEF EndOfFile, vars, IInv
<1> QED
  BY <1>1, <1>2, <1>3 DEF Next

(* The use counters of a set are never tied between two valid lines, so    *)
(* the line load_or_store() evicts (csim.c:137-146) is the one line that   *)
(* was used least recently: for every geometry, trace and file layout.     *)
THEOREM CountersOrder == Spec => []CountersOrderSet
<1>1. IInv => CountersOrderSet
  BY DEF IInv, GoodCache, GoodSet, CountersOrderSet, Valid
<1> QED
  BY InitGood, NextGood, <1>1, PTL DEF Spec

(* hit_or_miss() (csim.c:68-81) never has two lines to choose from.        *)
THEOREM OneLinePerTag == Spec => []TagsUnique
<1>1. IInv => TagsUnique
  BY DEF IInv, GoodCache, GoodSet, TagsUnique, Valid
<1> QED
  BY InitGood, NextGood, <1>1, PTL DEF Spec

----------------------------------------------------------------------------
(* The refinement.  A list of a set is the sequence of its valid lines in  *)
(* the order of their counters; ByRecency gives the tags of that list.     *)

(* Valid and ByRecency of CSim, of any set of lines.                       *)
ValidWays(ways) == {i \in Ways : ways[i].valid = 1}

Recency(ways) ==
  [n \in 1 .. Cardinality(ValidWays(ways)) |->
     ways[CHOOSE i \in ValidWays(ways) :
            Cardinality({k \in ValidWays(ways) : ways[k].ucount < ways[i].ucount}) = n - 1].tag]

(* w lists the n valid lines of a set, the one used last first.            *)
Lists(ways, n, w) ==
  /\ n \in Nat /\ w \in [1 .. n -> ValidWays(ways)]
  /\ \A i \in ValidWays(ways) : \E m \in 1 .. n : w[m] = i
  /\ \A l, m \in 1 .. n : l < m => ways[w[l]].ucount < ways[w[m]].ucount

(* A list has no line twice, and its order is that of the counters.        *)
LEMMA OrderOnce ==
  ASSUME NEW ways, GoodSet(ways), NEW n, NEW w, Lists(ways, n, w), NEW l \in 1 .. n, NEW m \in 1 .. n
  PROVE  /\ w[l] = w[m] => l = m
         /\ ways[w[l]].ucount < ways[w[m]].ucount <=> l < m
<1>1. w[l] \in Ways /\ w[m] \in Ways /\ n \in Nat
  BY DEF Lists, ValidWays
<1>2. ways[w[l]].ucount \in Nat /\ ways[w[m]].ucount \in Nat
  BY <1>1 DEF GoodSet, IsLine
<1>3. /\ l < m => ways[w[l]].ucount < ways[w[m]].ucount
      /\ m < l => ways[w[m]].ucount < ways[w[l]].ucount
  BY DEF Lists
<1> QED
  BY <1>1, <1>2, <1>3

(* The first j lines of a list are j lines.                                *)
LEMMA CountPrefix ==
  ASSUME NEW ways, GoodSet(ways), NEW n, NEW w, Lists(ways, n, w), NEW j \in 0 .. n
  PROVE  Cardinality({w[l] : l \in 1 .. j}) = j
<1> DEFINE f == [l \in 1 .. j |-> w[l]]
           S == {w[l] : l \in 1 .. j}
<1>1. n \in Nat /\ j \in Nat /\ 1 .. j \subseteq 1 .. n
  BY DEF Lists
<1>2. f \in Bijection(1 .. j, S)
  <2>1. f \in [1 .. j -> S] /\ \A t \in S : \E l \in 1 .. j : f[l] = t
    OBVIOUS
  <2>2. \A l, m \in 1 .. j : f[l] = f[m] => l = m
    BY <1>1, OrderOnce
  <2> QED
    BY <2>1, <2>2 DEF Bijection, Injection, Surjection, IsInjective
<1> QED
  BY <1>1, <1>2, FS_CountingElements DEF ExistsBijection

(* Counting the lines with a smaller counter, as ByRecency does, finds the *)
(* lines in the order of the list.                                         *)
LEMMA RecencyIs ==
  ASSUME NEW ways, GoodSet(ways), NEW n, NEW w, Lists(ways, n, w)
  PROVE  Recency(ways) = [m \in 1 .. n |-> ways[w[m]].tag]
<1> DEFINE V == ValidWays(ways)
           Before(i) == {k \in V : ways[k].ucount < ways[i].ucount}
<1>1. n \in Nat /\ w \in [1 .. n -> V] /\ \A i \in V : \E m \in 1 .. n : w[m] = i
  BY DEF Lists
<1>2. Cardinality(V) = n
  <2>1. V = {w[l] : l \in 1 .. n}
    <3> HIDE DEF V
    <3> DEFINE S == {w[l] : l \in 1 .. n}
    <3>1. V \subseteq S /\ S \subseteq V
      BY <1>1
    <3> HIDE DEF S
    <3>2. V = S
      BY <3>1
    <3> QED
      BY <3>2 DEF S
  <2>2. n \in 0 .. n
    BY <1>1
  <2>3. Cardinality({w[l] : l \in 1 .. n}) = n
    BY <2>2, CountPrefix
  <2> QED
    BY <2>1, <2>3, Zenon
<1>3. ASSUME NEW m \in 1 .. n
      PROVE  Cardinality(Before(w[m])) = m - 1
  <2>1. Before(w[m]) = {w[l] : l \in 1 .. m - 1}
    <3>1. ASSUME NEW l \in 1 .. n
          PROVE  w[l] \in Before(w[m]) <=> l < m
      BY <1>1, <1>3, <3>1, OrderOnce
    <3>2. \A l : l \in 1 .. m - 1 <=> l \in 1 .. n /\ l < m
      BY <1>1
    <3> HIDE DEF Before
    <3>3. \A k \in Before(w[m]) : k \in V
      BY DEF Before
    <3> QED
      BY <1>1, <3>1, <3>2, <3>3
  <2>2. m - 1 \in 0 .. n
    BY <1>1
  <2> QED
    BY <2>1, <2>2, CountPrefix
<1>4. ASSUME NEW m \in 1 .. n
      PROVE  (CHOOSE i \in V : Cardinality(Before(i)) = m - 1) = w[m]
  <2>1. w[m] \in V /\ Cardinality(Before(w[m])) = m - 1
    BY <1>1, <1>3
  <2>2. ASSUME NEW i \in V, Cardinality(Before(i)) = m - 1
        PROVE  i = w[m]
    <3>1. PICK l \in 1 .. n : w[l] = i
      BY <1>1
    <3>2. Cardinality(Before(i)) = l - 1
      BY <1>3, <3>1
    <3> QED
      BY <1>1, <2>2, <3>1, <3>2
  <2> HIDE DEF V, Before
  <2> QED
    BY <2>1, <2>2
<1> HIDE DEF V
<1>5. Recency(ways) = [m \in 1 .. n |-> ways[CHOOSE i \in V : Cardinality(Before(i)) = m - 1].tag]
  BY <1>2 DEF Recency, V
<1> QED
  BY <1>4, <1>5

(* A list with x in front: for its entry p, or for none.                   *)
PutFirst(f, n, p, x) == [m \in 1 .. n |-> IF m = 1 THEN x ELSE IF m <= p THEN f[m - 1] ELSE f[m]]
PutBefore(f, n, x)   == [m \in 1 .. n + 1 |-> IF m = 1 THEN x ELSE f[m - 1]]

(* A line used again moves to the front of the list.                       *)
LEMMA UsedAgain ==
  ASSUME NEW ways, GoodSet(ways), NEW n, NEW w, Lists(ways, n, w), NEW p \in 1 .. n, NEW tag
  PROVE  Lists(Used(Aged(ways), w[p], tag), n, PutFirst(w, n, p, w[p]))
<1> DEFINE u == Used(Aged(ways), w[p], tag)
           z == [m \in 1 .. n |-> IF m = 1 THEN w[p] ELSE IF m <= p THEN w[m - 1] ELSE w[m]]
           V == ValidWays(ways)
<1>1. n \in Nat /\ w \in [1 .. n -> V] /\ V \subseteq Ways /\ p \in Nat
  BY DEF Lists, ValidWays
<1>2. \A i \in Ways : /\ u[i].ucount = IF i = w[p] THEN 0 ELSE ways[i].ucount + 1
                      /\ u[i].valid = IF i = w[p] THEN 1 ELSE ways[i].valid
                      /\ ways[i].ucount \in Nat
  <2> SUFFICES ASSUME NEW i \in Ways
               PROVE  /\ u[i].ucount = IF i = w[p] THEN 0 ELSE ways[i].ucount + 1
                      /\ u[i].valid = IF i = w[p] THEN 1 ELSE ways[i].valid
                      /\ ways[i].ucount \in Nat
    OBVIOUS
  <2>1. /\ Aged(ways)[i].ucount = ways[i].ucount + 1
        /\ Aged(ways)[i].valid = ways[i].valid
        /\ ways[i].ucount \in Nat
        /\ DOMAIN Aged(ways) = Ways
    BY DEF Aged, GoodSet, IsLine
  <2>2. u[i] = IF i = w[p] THEN [valid |-> 1, tag |-> tag, ucount |-> 0] ELSE Aged(ways)[i]
    BY <2>1 DEF Used
  <2> QED
    BY <2>1, <2>2
<1>3. ValidWays(u) = V
  <2> HIDE DEF u
  <2> QED
    BY <1>1, <1>2 DEF ValidWays, V
<1>4. z \in [1 .. n -> V]
  <2>1. \A m \in 1 .. n : m # 1 => m - 1 \in 1 .. n
    BY <1>1
  <2> QED
    BY <1>1, <2>1
<1> HIDE DEF u, V
<1>5. ASSUME NEW i \in V
      PROVE  \E m \in 1 .. n : z[m] = i
  <2>1. PICK l \in 1 .. n : w[l] = i
    BY DEF Lists, V
  <2>2. CASE l = p
    BY <1>1, <2>1, <2>2
  <2>3. CASE l < p
    <3>1. l + 1 \in 1 .. n /\ l + 1 # 1 /\ l + 1 <= p /\ (l + 1) - 1 = l
      BY <1>1, <2>3
    <3> QED
      BY <2>1, <3>1
  <2>4. CASE l > p
    <3>1. l # 1 /\ ~(l <= p)
      BY <1>1, <2>4
    <3> QED
      BY <2>1, <3>1
  <2> QED
    BY <1>1, <2>2, <2>3, <2>4
<1>6. ASSUME NEW l \in 1 .. n, NEW m \in 1 .. n, l < m
      PROVE  u[z[l]].ucount < u[z[m]].ucount
  <2> DEFINE From(k) == IF k = 1 THEN p ELSE IF k <= p THEN k - 1 ELSE k
  <2>1. \A k \in 1 .. n : From(k) \in 1 .. n /\ z[k] = w[From(k)]
    BY <1>1
  <2>2. From(m) # p /\ (l # 1 => From(l) # p /\ From(l) < From(m))
    BY <1>1, <1>6
  <2>3. l = 1 => z[l] = w[p]
    OBVIOUS
  <2>4. \A k \in 1 .. n : w[k] \in Ways /\ (w[k] = w[p] => k = p)
    BY <1>1, OrderOnce
  <2> HIDE DEF z
  <2> DEFINE j == From(l)
             k == From(m)
  <2>5. j \in 1 .. n /\ k \in 1 .. n /\ z[l] = w[j] /\ z[m] = w[k] /\ k # p
        /\ (l # 1 => j # p /\ j < k)
    BY <2>1, <2>2
  <2> HIDE DEF j, k
  <2>6. l # 1 => ways[w[j]].ucount < ways[w[k]].ucount
    BY <2>5 DEF Lists
  <2> QED
    BY <1>2, <2>3, <2>4, <2>5, <2>6
<1> QED
  BY <1>1, <1>3, <1>4, <1>5, <1>6 DEF Lists, u, PutFirst

(* A line that was empty comes in front of the list.                       *)
LEMMA UsedFirst ==
  ASSUME NEW ways, GoodSet(ways), NEW n, NEW w, Lists(ways, n, w),
         NEW e \in Ways, ways[e].valid # 1, NEW tag
  PROVE  Lists(Used(Aged(ways), e, tag), n + 1, PutBefore(w, n, e))
<1> DEFINE u == Used(Aged(ways), e, tag)
           z == [m \in 1 .. n + 1 |-> IF m = 1 THEN e ELSE w[m - 1]]
           V == ValidWays(ways)
<1>1. n \in Nat /\ w \in [1 .. n -> V] /\ V \subseteq Ways /\ e \notin V
  BY DEF Lists, ValidWays
<1>2. \A i \in Ways : /\ u[i].ucount = IF i = e THEN 0 ELSE ways[i].ucount + 1
                      /\ u[i].valid = IF i = e THEN 1 ELSE ways[i].valid
                      /\ ways[i].ucount \in Nat
  <2> SUFFICES ASSUME NEW i \in Ways
               PROVE  /\ u[i].ucount = IF i = e THEN 0 ELSE ways[i].ucount + 1
                      /\ u[i].valid = IF i = e THEN 1 ELSE ways[i].valid
                      /\ ways[i].ucount \in Nat
    OBVIOUS
  <2>1. /\ Aged(ways)[i].ucount = ways[i].ucount + 1
        /\ Aged(ways)[i].valid = ways[i].valid
        /\ ways[i].ucount \in Nat
        /\ DOMAIN Aged(ways) = Ways
    BY DEF Aged, GoodSet, IsLine
  <2>2. u[i] = IF i = e THEN [valid |-> 1, tag |-> tag, ucount |-> 0] ELSE Aged(ways)[i]
    BY <2>1 DEF Used
  <2> QED
    BY <2>1, <2>2
<1>3. ValidWays(u) = V \cup {e}
  <2> HIDE DEF u
  <2> QED
    BY <1>1, <1>2 DEF ValidWays, V
<1>4. \A m \in 1 .. n + 1 : m # 1 => m - 1 \in 1 .. n
  BY <1>1
<1>5. z \in [1 .. n + 1 -> V \cup {e}]
  BY <1>1, <1>4
<1> HIDE DEF u, V
<1>6. ASSUME NEW i \in V \cup {e}
      PROVE  \E m \in 1 .. n + 1 : z[m] = i
  <2>1. CASE i = e
    BY <1>1, <2>1
  <2>2. CASE i \in V
    <3>1. PICK l \in 1 .. n : w[l] = i
      BY <2>2 DEF Lists, V
    <3>2. l + 1 \in 1 .. n + 1 /\ l + 1 # 1 /\ (l + 1) - 1 = l
      BY <1>1
    <3> QED
      BY <3>1, <3>2
  <2> QED
    BY <2>1, <2>2
<1>7. ASSUME NEW l \in 1 .. n + 1, NEW m \in 1 .. n + 1, l < m
      PROVE  u[z[l]].ucount < u[z[m]].ucount
  <2>1. m # 1 /\ m - 1 \in 1 .. n /\ z[m] = w[m - 1]
    BY <1>1, <1>4, <1>7
  <2>2. w[m - 1] \in V /\ u[z[m]].ucount = ways[w[m - 1]].ucount + 1 /\ ways[w[m - 1]].ucount \in Nat
    BY <1>1, <1>2, <2>1
  <2>3. CASE l = 1
    BY <1>2, <2>2, <2>3
  <2>4. CASE l # 1
    <3>1. l - 1 \in 1 .. n /\ l - 1 < m - 1 /\ z[l] = w[l - 1]
      BY <1>1, <1>4, <1>7, <2>4
    <3>2. w[l - 1] \in V /\ u[z[l]].ucount = ways[w[l - 1]].ucount + 1 /\ ways[w[l - 1]].ucount \in Nat
      BY <1>1, <1>2, <3>1
    <3>3. ways[w[l - 1]].ucount < ways[w[m - 1]].ucount
      BY <2>1, <3>1 DEF Lists
    <3> QED
      BY <2>2, <3>2, <3>3
  <2> QED
    BY <2>3, <2>4
<1> QED
  BY <1>1, <1>3, <1>5, <1>6, <1>7 DEF Lists, u, PutBefore

----------------------------------------------------------------------------
(* Tag lists as sequences: a tag put in front, and one moved there.        *)
Entries(q, t) == {q[k] : k \in DOMAIN q} \cup {t}

(* A tag in front of a list, and of a list without its last entry.         *)
LEMMA InFront ==
  ASSUME NEW n \in Nat, NEW q, q = [k \in 1 .. n |-> q[k]], NEW t
  PROVE  /\ q \in Seq(Entries(q, t)) /\ Len(q) = n
         /\ <<t>> \o q = PutBefore(q, n, t)
         /\ n > 0 => <<t>> \o Front(q) = PutFirst(q, n, n, t)
<1> DEFINE T == Entries(q, t)
<1>1. q \in [1 .. n -> T] /\ t \in T
  BY DEF Entries
<1> HIDE DEF T
<1>2. q \in Seq(T) /\ Len(q) = n
  BY <1>1, SeqDef
<1>3. <<t>> \in Seq(T) /\ Len(<<t>>) = 1 /\ <<t>>[1] = t
  BY <1>1
<1>4. ASSUME NEW r \in Seq(T)
      PROVE  <<t>> \o r = [m \in 1 .. Len(r) + 1 |-> IF m = 1 THEN t ELSE r[m - 1]]
  <2>1. <<t>> \o r \in Seq(T) /\ Len(<<t>> \o r) = Len(r) + 1
    BY <1>3, <1>4
  <2>2. <<t>> \o r = [m \in 1 .. Len(r) + 1 |-> (<<t>> \o r)[m]]
    BY <2>1
  <2>3. ASSUME NEW m \in 1 .. Len(r) + 1
        PROVE  (<<t>> \o r)[m] = IF m = 1 THEN t ELSE r[m - 1]
    BY <1>3, <1>4
  <2> QED
    BY <2>2, <2>3
<1>5. ASSUME n > 0
      PROVE  Front(q) \in Seq(T) /\ Len(Front(q)) = n - 1 /\ \A m \in 1 .. n - 1 : Front(q)[m] = q[m]
  BY <1>2, <1>5 DEF Front
<1>6. ASSUME n > 0
      PROVE  <<t>> \o Front(q) = PutFirst(q, n, n, t)
  <2>1. <<t>> \o Front(q) = [m \in 1 .. n |-> IF m = 1 THEN t ELSE Front(q)[m - 1]]
    <3>1. \A r \in Seq(T) : <<t>> \o r = [m \in 1 .. Len(r) + 1 |-> IF m = 1 THEN t ELSE r[m - 1]]
      BY <1>4
    <3>2. Front(q) \in Seq(T) /\ Len(Front(q)) + 1 = n
      BY <1>5, <1>6
    <3> QED
      BY <3>1, <3>2
  <2>2. \A m \in 1 .. n : m <= n /\ (m # 1 => Front(q)[m - 1] = q[m - 1])
    BY <1>5, <1>6
  <2> QED
    BY <2>1, <2>2 DEF PutFirst
<1> QED
  BY <1>2, <1>4, <1>6 DEF T, PutBefore

(* An entry taken out of a list and put in front of it.                    *)
LEMMA ToFront ==
  ASSUME NEW n \in Nat, NEW q, q = [k \in 1 .. n |-> q[k]], NEW p \in 1 .. n
  PROVE  <<q[p]>> \o RemoveAt(q, p) = PutFirst(q, n, p, q[p])
<1> DEFINE T == Entries(q, q[p])
           r == RemoveAt(q, p)
           l == SubSeq(q, 1, p - 1)
           h == SubSeq(q, p + 1, n)
<1>1. q \in Seq(T) /\ Len(q) = n
  BY InFront
<1> HIDE DEF T
<1>2. l \in Seq(T) /\ Len(l) = p - 1 /\ \A k \in 1 .. p - 1 : l[k] = q[k]
  BY <1>1
<1>3. h \in Seq(T) /\ Len(h) = n - p /\ \A k \in 1 .. n - p : h[k] = q[k + p]
  <2>1. h \in Seq(T)
    BY <1>1
  <2>2. Len(h) = n - p
    BY <1>1
  <2>3. \A k \in 1 .. n - p : h[k] = q[(p + 1) + k - 1] /\ (p + 1) + k - 1 = k + p
    BY <1>1
  <2> QED
    BY <2>1, <2>2, <2>3
<1>4. r = l \o h
  BY <1>1 DEF RemoveAt
<1> HIDE DEF l, h, r
<1>5. r \in Seq(T) /\ Len(r) = n - 1
  <2>1. l \in Seq(T) /\ h \in Seq(T) /\ Len(l) + Len(h) = n - 1
    BY <1>2, <1>3
  <2>2. Len(l \o h) = Len(l) + Len(h) /\ l \o h \in Seq(T)
    BY <2>1
  <2> QED
    BY <1>4, <2>1, <2>2
<1>6. ASSUME NEW k \in 1 .. n - 1
      PROVE  r[k] = IF k < p THEN q[k] ELSE q[k + 1]
  <2>1. CASE k < p
    <3>1. k \in 1 .. Len(l) /\ k \in 1 .. p - 1
      BY <1>2, <2>1
    <3>2. r[k] = l[k]
      BY <1>2, <1>3, <1>4, <3>1
    <3> QED
      BY <1>2, <2>1, <3>1, <3>2
  <2>2. CASE ~(k < p)
    <3>1. k - (p - 1) \in 1 .. n - p /\ k - (p - 1) + p = k + 1 /\ ~(k <= Len(l)) /\ k \in 1 .. Len(l) + Len(h)
      <4>1. Len(l) = p - 1 /\ Len(h) = n - p
        BY <1>2, <1>3
      <4> QED
        BY <2>2, <4>1
    <3>2. r[k] = h[k - (p - 1)]
      <4>1. l \in Seq(T) /\ h \in Seq(T) /\ Len(l) = p - 1
        BY <1>2, <1>3
      <4>2. (l \o h)[k] = IF k <= Len(l) THEN l[k] ELSE h[k - Len(l)]
        BY <3>1, <4>1, ConcatProperties
      <4>3. (l \o h)[k] = h[k - (p - 1)]
        BY <3>1, <4>1, <4>2
      <4> QED
        BY <1>4, <4>3
    <3> QED
      BY <1>3, <2>2, <3>1, <3>2
  <2> QED
    BY <2>1, <2>2
<1>7. r = [k \in 1 .. n - 1 |-> r[k]] /\ n - 1 \in Nat
  BY <1>5
<1>8. <<q[p]>> \o r = [m \in 1 .. n |-> IF m = 1 THEN q[p] ELSE r[m - 1]]
  <2>1. <<q[p]>> \o r = PutBefore(r, n - 1, q[p])
    BY <1>7, InFront
  <2>2. (n - 1) + 1 = n
    OBVIOUS
  <2> QED
    BY <2>1, <2>2 DEF PutBefore
<1>9. \A m \in 1 .. n : m # 1 => r[m - 1] = IF m <= p THEN q[m - 1] ELSE q[m]
  <2> SUFFICES ASSUME NEW m \in 1 .. n, m # 1
               PROVE  r[m - 1] = IF m <= p THEN q[m - 1] ELSE q[m]
    OBVIOUS
  <2>1. m - 1 \in 1 .. n - 1 /\ (m - 1 < p <=> m <= p) /\ (m - 1) + 1 = m
    OBVIOUS
  <2> QED
    BY <1>6, <2>1
<1> QED
  BY <1>8, <1>9 DEF r, PutFirst

(* What the lines of a set and the list of its tags have in common.        *)
LEMMA ListFacts ==
  ASSUME NEW ways, GoodSet(ways), NEW n, NEW w, Lists(ways, n, w), NEW tag
  PROVE  /\ Recency(ways) = [m \in 1 .. n |-> ways[w[m]].tag]
         /\ Len(Recency(ways)) = n /\ n \in Nat
         /\ \A m \in 1 .. n : w[m] \in Ways /\ ways[w[m]].valid = 1
         /\ HitWays(Aged(ways), tag) = {i \in Ways : ways[i].valid = 1 /\ ways[i].tag = tag}
         /\ EmptyWays(Aged(ways)) = {i \in Ways : ways[i].valid # 1}
         /\ n = E <=> EmptyWays(Aged(ways)) = {}
<1> DEFINE q == Recency(ways)
           V == ValidWays(ways)
<1>1. /\ q = [m \in 1 .. n |-> ways[w[m]].tag]
      /\ n \in Nat /\ w \in [1 .. n -> V] /\ \A i \in V : \E m \in 1 .. n : w[m] = i
  <2>1. q = [m \in 1 .. n |-> ways[w[m]].tag]
    BY RecencyIs
  <2>2. n \in Nat /\ w \in [1 .. n -> V] /\ \A i \in V : \E m \in 1 .. n : w[m] = i
    BY DEF Lists
  <2> QED
    BY <2>1, <2>2
<1>2. Len(q) = n
  <2>1. q = [m \in 1 .. n |-> q[m]]
    BY <1>1
  <2> HIDE DEF q
  <2> QED
    BY <1>1, <2>1, InFront
<1>3. \A i \in Ways : /\ Aged(ways)[i].valid = ways[i].valid
                      /\ Aged(ways)[i].tag = ways[i].tag
                      /\ ways[i].valid \in {0, 1}
  BY DEF Aged, GoodSet, IsLine
<1>4. /\ HitWays(Aged(ways), tag) = {i \in Ways : ways[i].valid = 1 /\ ways[i].tag = tag}
      /\ EmptyWays(Aged(ways)) = {i \in Ways : ways[i].valid # 1}
  BY <1>3 DEF HitWays, EmptyWays
<1>5. n = E <=> V = Ways
  <2>1. V = {w[l] : l \in 1 .. n}
    BY <1>1
  <2>2. Cardinality(V) = n
    BY <1>1, <2>1, CountPrefix
  <2>3. IsFiniteSet(Ways) /\ Cardinality(Ways) = E
    BY FS_Interval, CSimAssumption DEF Ways
  <2>4. V \in SUBSET Ways
    BY DEF ValidWays
  <2> QED
    BY <2>2, <2>3, <2>4, FS_Subset
<1>6. V = Ways <=> {i \in Ways : ways[i].valid # 1} = {}
  BY DEF ValidWays
<1> QED
  BY <1>1, <1>2, <1>4, <1>5, <1>6 DEF ValidWays

(* hit_or_miss() finds the line whose tag is in the list.                  *)
LEMMA HitFound ==
  ASSUME NEW ways, GoodSet(ways), NEW n, NEW w, Lists(ways, n, w), NEW tag
  PROVE  /\ Contains(Recency(ways), tag) <=> HitWays(Aged(ways), tag) # {}
         /\ HitWays(Aged(ways), tag) # {} =>
              \E p \in 1 .. n : /\ Recency(ways)[p] = tag
                                /\ Least(HitWays(Aged(ways), tag)) = w[p]
                                /\ (CHOOSE k \in DOMAIN Recency(ways) : Recency(ways)[k] = tag) = p
<1> DEFINE q == Recency(ways)
           H == HitWays(Aged(ways), tag)
<1>1. /\ q = [m \in 1 .. n |-> ways[w[m]].tag] /\ Len(q) = n /\ n \in Nat
      /\ \A m \in 1 .. n : w[m] \in Ways /\ ways[w[m]].valid = 1
      /\ H = {i \in Ways : ways[i].valid = 1 /\ ways[i].tag = tag}
  BY ListFacts
<1> HIDE DEF q, H
<1>2. \A m \in 1 .. n : q[m] = tag <=> w[m] \in H
  BY <1>1
<1>3. \A i \in H : \E m \in 1 .. n : w[m] = i
  BY <1>1 DEF Lists, ValidWays
<1>4. Contains(q, tag) <=> H # {}
  BY <1>1, <1>2, <1>3 DEF Contains
<1>5. ASSUME H # {}
      PROVE  \E p \in 1 .. n : /\ q[p] = tag /\ Least(H) = w[p]
                               /\ (CHOOSE k \in DOMAIN q : q[k] = tag) = p
  <2>1. PICK p \in 1 .. n : w[p] \in H
    BY <1>3, <1>5
  <2>2. \A i \in H : i = w[p]
    BY <1>1, <2>1 DEF GoodSet
  <2>3. Least(H) = w[p]
    <3>1. H = {w[p]} /\ w[p] \in Ways
      BY <1>1, <2>1, <2>2
    <3>2. w[p] <= w[p]
      BY <3>1, CSimAssumption DEF Ways
    <3> QED
      BY <3>1, <3>2 DEF Least
  <2>4. \A k \in 1 .. n : q[k] = tag => k = p
    BY <1>2, <2>2, OrderOnce
  <2>5. q[p] = tag /\ DOMAIN q = 1 .. n
    BY <1>1, <1>2, <2>1
  <2>6. (CHOOSE k \in DOMAIN q : q[k] = tag) = p
    BY <2>4, <2>5
  <2> QED
    BY <2>3, <2>5, <2>6
<1> QED
  BY <1>4, <1>5 DEF q, H

(* The line with the greatest counter is the last of the list.             *)
LEMMA OldestIsLast ==
  ASSUME NEW ways, GoodSet(ways), NEW n, NEW w, Lists(ways, n, w), EmptyWays(Aged(ways)) = {}
  PROVE  n \in 1 .. n /\ LruWay(Aged(ways)) = w[n]
<1>1. /\ n = E /\ n \in Nat /\ \A i \in Ways : ways[i].valid = 1
      /\ \A m \in 1 .. n : w[m] \in Ways
  BY ListFacts
<1>2. n \in 1 .. n
  BY <1>1, CSimAssumption
<1>3. \A k \in Ways : Aged(ways)[k].ucount = ways[k].ucount + 1 /\ ways[k].ucount \in Nat
  BY DEF Aged, GoodSet, IsLine
<1>4. ASSUME NEW k \in Ways, k # w[n]
      PROVE  ways[k].ucount < ways[w[n]].ucount
  <2>1. PICK m \in 1 .. n : w[m] = k
    BY <1>1 DEF Lists, ValidWays
  <2>2. m < n
    BY <1>1, <1>4, <2>1
  <2> QED
    BY <1>2, <2>1, <2>2 DEF Lists
<1> DEFINE Oldest(i) == \A k \in Ways : \/ Aged(ways)[k].ucount < Aged(ways)[i].ucount
                                        \/ Aged(ways)[k].ucount = Aged(ways)[i].ucount /\ i <= k
<1>5. w[n] \in Ways /\ w[n] \in Int
  BY <1>1, <1>2, CSimAssumption DEF Ways
<1>6. Oldest(w[n])
  BY <1>3, <1>4, <1>5
<1>7. ASSUME NEW i \in Ways, Oldest(i)
      PROVE  i = w[n]
  <2>1. \/ ways[w[n]].ucount + 1 < ways[i].ucount + 1
        \/ ways[w[n]].ucount + 1 = ways[i].ucount + 1
    BY <1>3, <1>5, <1>7
  <2>2. ways[w[n]].ucount \in Nat /\ ways[i].ucount \in Nat
    BY <1>3, <1>5
  <2> QED
    BY <1>4, <2>1, <2>2
<1> HIDE DEF Oldest
<1>8. LruWay(Aged(ways)) = CHOOSE i \in Ways : Oldest(i)
  BY DEF LruWay, Oldest
<1>9. (CHOOSE i \in Ways : Oldest(i)) = w[n]
  BY <1>5, <1>6, <1>7
<1> QED
  BY <1>2, <1>8, <1>9

(* The line used may take a tag no other line has.                         *)
LEMMA UsedStaysGood ==
  ASSUME NEW ways, GoodSet(ways), NEW i, NEW tag,
         \A k \in Ways : ways[k].valid = 1 /\ ways[k].tag = tag => k = i
  PROVE  GoodSet(Used(Aged(ways), i, tag))
<1>1. GoodSet(Aged(ways)) /\ \A k \in Ways : Aged(ways)[k].ucount > 0
  BY AgedGood
<1>2. \A k \in Ways : Aged(ways)[k].valid = 1 /\ Aged(ways)[k].tag = tag => k = i
  BY DEF Aged, GoodSet, IsLine
<1> QED
  BY <1>1, <1>2, UsedGood

(* The first of some lines is one of them.                                 *)
LEMMA LeastWay ==
  ASSUME NEW S \in SUBSET Ways, S # {}
  PROVE  Least(S) \in S
<1>1. S \in SUBSET Nat
  BY CSimAssumption DEF Ways
<1>2. PICK x \in S : \A y \in S : ~(<<y, x>> \in OpToRel(<, Nat))
  BY <1>1, NatLessThanWellFounded, WFMin
<1>3. \A y \in S : x <= y
  <2> SUFFICES ASSUME NEW y \in S
               PROVE  x <= y
    OBVIOUS
  <2>1. x \in Nat /\ y \in Nat /\ ~(y < x)
    BY <1>1, <1>2 DEF OpToRel
  <2> QED
    BY <2>1
<1> QED
  BY <1>2, <1>3 DEF Least

(* Only the tag of the line used changes.                                  *)
LEMMA UsedTag ==
  ASSUME NEW ways, GoodSet(ways), NEW e \in Ways, NEW tag
  PROVE  \A i \in Ways : Used(Aged(ways), e, tag)[i].tag = IF i = e THEN tag ELSE ways[i].tag
<1> SUFFICES ASSUME NEW i \in Ways
             PROVE  Used(Aged(ways), e, tag)[i].tag = IF i = e THEN tag ELSE ways[i].tag
  OBVIOUS
<1>1. Aged(ways)[i].tag = ways[i].tag /\ DOMAIN Aged(ways) = Ways
  BY DEF Aged, GoodSet, IsLine
<1>2. Used(Aged(ways), e, tag)[i]
        = IF i = e THEN [valid |-> 1, tag |-> tag, ucount |-> 0] ELSE Aged(ways)[i]
  BY <1>1 DEF Used
<1> QED
  BY <1>1, <1>2

(* A set that has a list: what load_or_store() finds and leaves.           *)
Listed(ways) == GoodSet(ways) /\ \E n, w : Lists(ways, n, w)

(* A hit moves the tag to the front.                                       *)
LEMMA SetHit ==
  ASSUME NEW ways, Listed(ways), NEW tag, HitWays(Aged(ways), tag) # {}
  PROVE  LET q == Recency(ways)
             u == Used(Aged(ways), Least(HitWays(Aged(ways), tag)), tag)
         IN  /\ Contains(q, tag) /\ Listed(u)
             /\ Recency(u) = <<tag>> \o RemoveAt(q, CHOOSE k \in DOMAIN q : q[k] = tag)
<1> DEFINE q == Recency(ways)
           H == HitWays(Aged(ways), tag)
           u == Used(Aged(ways), Least(H), tag)
<1>1. GoodSet(ways)
  BY DEF Listed
<1>2. PICK n, w : Lists(ways, n, w)
  BY DEF Listed
<1>3. /\ q = [m \in 1 .. n |-> ways[w[m]].tag] /\ n \in Nat
      /\ \A m \in 1 .. n : w[m] \in Ways /\ ways[w[m]].valid = 1
  BY <1>1, <1>2, ListFacts
<1>4. Contains(q, tag)
  BY <1>1, <1>2, HitFound
<1>5. PICK p \in 1 .. n : q[p] = tag /\ Least(H) = w[p] /\ (CHOOSE k \in DOMAIN q : q[k] = tag) = p
  BY <1>1, <1>2, HitFound
<1>6. GoodSet(u)
  <2>1. w[p] \in Ways /\ ways[w[p]].valid = 1 /\ ways[w[p]].tag = tag
    BY <1>3, <1>5
  <2>2. \A k \in Ways : ways[k].valid = 1 /\ ways[k].tag = tag => k = w[p]
    BY <1>1, <2>1 DEF GoodSet
  <2> QED
    BY <1>1, <1>5, <2>2, UsedStaysGood
<1> DEFINE z == PutFirst(w, n, p, w[p])
<1>7. Lists(u, n, z)
  <2>1. u = Used(Aged(ways), w[p], tag)
    BY <1>5
  <2> HIDE DEF u
  <2> QED
    BY <1>1, <1>2, <2>1, UsedAgain
<1>8. Recency(u) = [m \in 1 .. n |-> u[z[m]].tag]
  <2> HIDE DEF u, z
  <2> QED
    BY <1>6, <1>7, RecencyIs
<1>9. \A m \in 1 .. n : u[z[m]].tag = IF m = 1 THEN q[p] ELSE IF m <= p THEN q[m - 1] ELSE q[m]
  <2>1. \A i \in Ways : u[i].tag = IF i = w[p] THEN tag ELSE ways[i].tag
    <3> HIDE DEF H
    <3> QED
      BY <1>1, <1>3, <1>5, UsedTag
  <2>2. ASSUME NEW m \in 1 .. n, m # p
        PROVE  u[w[m]].tag = q[m]
    BY <1>1, <1>2, <1>3, <2>1, <2>2, OrderOnce
  <2> SUFFICES ASSUME NEW m \in 1 .. n
               PROVE  u[z[m]].tag = IF m = 1 THEN q[p] ELSE IF m <= p THEN q[m - 1] ELSE q[m]
    OBVIOUS
  <2> HIDE DEF u, q, H
  <2>3. CASE m = 1
    BY <1>3, <1>5, <2>1, <2>3 DEF PutFirst
  <2>4. CASE m # 1 /\ m <= p
    <3>1. m - 1 \in 1 .. n /\ m - 1 # p
      BY <1>3, <2>4
    <3> QED
      BY <2>2, <2>4, <3>1 DEF PutFirst
  <2>5. CASE m # 1 /\ ~(m <= p)
    <3>1. m # p
      BY <1>3, <2>5
    <3> QED
      BY <2>2, <2>5, <3>1 DEF PutFirst
  <2> QED
    BY <2>3, <2>4, <2>5
<1> HIDE DEF u, z, H
<1>10. Recency(u) = <<q[p]>> \o RemoveAt(q, p)
  <2>1. q = [m \in 1 .. n |-> q[m]]
    BY <1>3
  <2> HIDE DEF q
  <2>2. Recency(u) = PutFirst(q, n, p, q[p])
    BY <1>8, <1>9 DEF PutFirst
  <2>3. n \in Nat
    BY <1>3
  <2> QED
    BY <2>1, <2>2, <2>3, ToFront
<1> QED
  BY <1>4, <1>5, <1>6, <1>7, <1>10 DEF Listed, u, H

(* A miss in a set that is not full puts the tag in front.                 *)
LEMMA SetFill ==
  ASSUME NEW ways, Listed(ways), NEW tag,
         HitWays(Aged(ways), tag) = {}, EmptyWays(Aged(ways)) # {}
  PROVE  LET q == Recency(ways)
             u == Used(Aged(ways), Least(EmptyWays(Aged(ways))), tag)
         IN  /\ ~Contains(q, tag) /\ Len(q) # E /\ Listed(u)
             /\ Recency(u) = <<tag>> \o q
<1> DEFINE q == Recency(ways)
           e == Least(EmptyWays(Aged(ways)))
           u == Used(Aged(ways), e, tag)
<1>1. GoodSet(ways)
  BY DEF Listed
<1>2. PICK n, w : Lists(ways, n, w)
  BY DEF Listed
<1>3. /\ q = [m \in 1 .. n |-> ways[w[m]].tag] /\ n \in Nat /\ Len(q) = n /\ n # E
      /\ \A m \in 1 .. n : w[m] \in Ways /\ ways[w[m]].valid = 1
      /\ EmptyWays(Aged(ways)) = {i \in Ways : ways[i].valid # 1}
      /\ HitWays(Aged(ways), tag) = {i \in Ways : ways[i].valid = 1 /\ ways[i].tag = tag}
  BY <1>1, <1>2, ListFacts
<1>4. ~Contains(q, tag)
  BY <1>1, <1>2, HitFound
<1>5. e \in Ways /\ ways[e].valid # 1
  <2> DEFINE S == EmptyWays(Aged(ways))
  <2>1. S \subseteq Ways /\ S # {}
    BY <1>3
  <2> HIDE DEF S
  <2>2. Least(S) \in S
    BY <2>1, LeastWay
  <2> QED
    BY <1>3, <2>2 DEF S
<1>6. GoodSet(u)
  BY <1>1, <1>3, UsedStaysGood
<1> DEFINE z == PutBefore(w, n, e)
<1> HIDE DEF e
<1>7. Lists(u, n + 1, z)
  BY <1>1, <1>2, <1>5, UsedFirst
<1>8. Recency(u) = [m \in 1 .. n + 1 |-> u[z[m]].tag]
  <2> HIDE DEF u, z
  <2> QED
    BY <1>6, <1>7, RecencyIs
<1>9. \A m \in 1 .. n + 1 : u[z[m]].tag = IF m = 1 THEN tag ELSE q[m - 1]
  <2>1. \A i \in Ways : u[i].tag = IF i = e THEN tag ELSE ways[i].tag
    BY <1>1, <1>5, UsedTag
  <2> SUFFICES ASSUME NEW m \in 1 .. n + 1
               PROVE  u[z[m]].tag = IF m = 1 THEN tag ELSE q[m - 1]
    OBVIOUS
  <2>2. CASE m = 1
    BY <1>5, <2>1, <2>2 DEF PutBefore
  <2>3. CASE m # 1
    <3>1. m - 1 \in 1 .. n
      BY <1>3, <2>3
    <3>2. w[m - 1] \in Ways /\ w[m - 1] # e /\ q[m - 1] = ways[w[m - 1]].tag
      BY <1>3, <1>5, <3>1
    <3> QED
      BY <2>1, <2>3, <3>2 DEF PutBefore
  <2> QED
    BY <2>2, <2>3
<1> HIDE DEF u, z
<1>10. Recency(u) = <<tag>> \o q
  <2>1. q = [m \in 1 .. n |-> q[m]]
    BY <1>3
  <2> HIDE DEF q
  <2>2. Recency(u) = PutBefore(q, n, tag)
    BY <1>8, <1>9 DEF PutBefore
  <2>3. n \in Nat
    BY <1>3
  <2> QED
    BY <2>1, <2>2, <2>3, InFront
<1> QED
  BY <1>3, <1>4, <1>6, <1>7, <1>10 DEF Listed, u, e

(* A miss in a full set does, and drops the last tag.                      *)
LEMMA SetEvict ==
  ASSUME NEW ways, Listed(ways), NEW tag,
         HitWays(Aged(ways), tag) = {}, EmptyWays(Aged(ways)) = {}
  PROVE  LET q == Recency(ways)
             u == Used(Aged(ways), LruWay(Aged(ways)), tag)
         IN  /\ ~Contains(q, tag) /\ Len(q) = E /\ Listed(u)
             /\ Recency(u) = <<tag>> \o Front(q)
<1> DEFINE q == Recency(ways)
           u == Used(Aged(ways), LruWay(Aged(ways)), tag)
<1>1. GoodSet(ways)
  BY DEF Listed
<1>2. PICK n, w : Lists(ways, n, w)
  BY DEF Listed
<1>3. /\ q = [m \in 1 .. n |-> ways[w[m]].tag] /\ n \in Nat /\ Len(q) = n /\ n = E
      /\ \A m \in 1 .. n : w[m] \in Ways /\ ways[w[m]].valid = 1
      /\ HitWays(Aged(ways), tag) = {i \in Ways : ways[i].valid = 1 /\ ways[i].tag = tag}
  BY <1>1, <1>2, ListFacts
<1>4. ~Contains(q, tag)
  BY <1>1, <1>2, HitFound
<1>5. n \in 1 .. n /\ LruWay(Aged(ways)) = w[n]
  BY <1>1, <1>2, OldestIsLast
<1>6. GoodSet(u)
  BY <1>1, <1>3, UsedStaysGood
<1> DEFINE z == PutFirst(w, n, n, w[n])
<1>7. Lists(u, n, z)
  <2>1. u = Used(Aged(ways), w[n], tag)
    BY <1>5
  <2>2. n \in 1 .. n
    BY <1>5
  <2> HIDE DEF u
  <2> QED
    BY <1>1, <1>2, <2>1, <2>2, UsedAgain
<1>8. Recency(u) = [m \in 1 .. n |-> u[z[m]].tag]
  <2> HIDE DEF u, z
  <2> QED
    BY <1>6, <1>7, RecencyIs
<1>9. \A m \in 1 .. n : u[z[m]].tag = IF m = 1 THEN tag ELSE q[m - 1]
  <2>1. \A i \in Ways : u[i].tag = IF i = w[n] THEN tag ELSE ways[i].tag
    BY <1>1, <1>3, <1>5, UsedTag
  <2> SUFFICES ASSUME NEW m \in 1 .. n
               PROVE  u[z[m]].tag = IF m = 1 THEN tag ELSE q[m - 1]
    OBVIOUS
  <2>2. CASE m = 1
    BY <1>3, <1>5, <2>1, <2>2 DEF PutFirst
  <2>3. CASE m # 1
    <3>1. m - 1 \in 1 .. n /\ m - 1 # n /\ m <= n
      BY <1>3, <2>3
    <3>2. w[m - 1] \in Ways /\ w[m - 1] # w[n] /\ q[m - 1] = ways[w[m - 1]].tag
      BY <1>1, <1>2, <1>3, <1>5, <3>1, OrderOnce
    <3> QED
      BY <2>1, <2>3, <3>1, <3>2 DEF PutFirst
  <2> QED
    BY <2>2, <2>3
<1> HIDE DEF u, z
<1>10. Recency(u) = <<tag>> \o Front(q)
  <2>1. q = [m \in 1 .. n |-> q[m]] /\ n > 0
    BY <1>3, <1>5
  <2> HIDE DEF q
  <2>2. Recency(u) = PutFirst(q, n, n, tag)
    <3>1. \A m \in 1 .. n : m <= n
      BY <1>3
    <3> QED
      BY <1>8, <1>9, <3>1 DEF PutFirst
  <2>3. n \in Nat /\ n > 0
    BY <1>3, <2>1
  <2> QED
    BY <2>1, <2>2, <2>3, InFront
<1> QED
  BY <1>3, <1>4, <1>6, <1>7, <1>10 DEF Listed, u

----------------------------------------------------------------------------
(* 2^n counts the subsets of 1 .. n: it is a positive number.              *)
LEMMA PowerOfTwo ==
  ASSUME NEW n \in Nat
  PROVE  2^n \in Nat \ {0}
<1>1. IsFiniteSet(1 .. n) /\ Cardinality(1 .. n) = n
  BY FS_Interval
<1>2. IsFiniteSet(SUBSET (1 .. n)) /\ Cardinality(SUBSET (1 .. n)) = 2^n
  BY <1>1, FS_SUBSET
<1>3. SUBSET (1 .. n) # {}
  OBVIOUS
<1> QED
  BY <1>2, <1>3, FS_CardinalityType, FS_EmptySet

(* set_index() is the index of a set.                                      *)
LEMMA SetOfAddress ==
  ASSUME NEW a \in Nat
  PROVE  set_index(a) \in Sets
<1>1. 2^s \in Nat \ {0} /\ 2^b \in Nat \ {0}
  BY CSimAssumption, PowerOfTwo
<1> DEFINE m == 2^s
           d == 2^b
<1>2. (a \div d) % m \in 0 .. m - 1
  <2> HIDE DEF m, d
  <2>1. m \in Nat \ {0} /\ d \in Nat \ {0}
    BY <1>1 DEF m, d
  <2> QED
    BY <2>1
<1> QED
  BY <1>2 DEF set_index, Sets

(* The state of LruCache that a cache with its counters stands for, and    *)
(* what makes the cache one.                                               *)
State(c) == [order |-> [x \in Sets |-> Recency(c.cache[x])],
             stats |-> [hits |-> c.hit, misses |-> c.miss, evictions |-> c.evict]]

GoodState(c) ==
  /\ c = [cache |-> c.cache, hit |-> c.hit, miss |-> c.miss, evict |-> c.evict]
  /\ c.hit \in Nat /\ c.miss \in Nat /\ c.evict \in Nat
  /\ c.cache = [x \in Sets |-> c.cache[x]]
  /\ \A x \in Sets : Listed(c.cache[x])

(* The effect of one load_or_store() on each of the two.                   *)
Written(c, x, u, h, m, v) ==
  [cache |-> [c.cache EXCEPT ![x] = u], hit |-> c.hit + h, miss |-> c.miss + m, evict |-> c.evict + v]

After(st, x, q, h, m, v) ==
  [order |-> [st.order EXCEPT ![x] = q], stats |-> Lru!Count(st.stats, h, m, v)]

(* What happens to one set happens to its list.                            *)
LEMMA OneSetUsed ==
  ASSUME NEW c, GoodState(c), NEW x \in Sets, NEW u, Listed(u),
         NEW h \in Nat, NEW m \in Nat, NEW v \in Nat
  PROVE  /\ GoodState(Written(c, x, u, h, m, v))
         /\ State(Written(c, x, u, h, m, v)) = After(State(c), x, Recency(u), h, m, v)
<1> DEFINE d == Written(c, x, u, h, m, v)
<1>1. /\ d.hit = c.hit + h /\ d.miss = c.miss + m /\ d.evict = c.evict + v
      /\ d.cache = [c.cache EXCEPT ![x] = u]
      /\ d = [cache |-> d.cache, hit |-> d.hit, miss |-> d.miss, evict |-> d.evict]
  BY DEF Written
<1> HIDE DEF d
<1>2. /\ c.hit \in Nat /\ c.miss \in Nat /\ c.evict \in Nat
      /\ c.cache = [y \in Sets |-> c.cache[y]] /\ \A y \in Sets : Listed(c.cache[y])
  BY DEF GoodState
<1>3. /\ d.cache = [y \in Sets |-> d.cache[y]]
      /\ \A y \in Sets : d.cache[y] = IF y = x THEN u ELSE c.cache[y]
  BY <1>1, <1>2
<1>4. d.hit \in Nat /\ d.miss \in Nat /\ d.evict \in Nat
  BY <1>1, <1>2
<1>5. \A y \in Sets : Listed(d.cache[y])
  BY <1>2, <1>3
<1>6. GoodState(d)
  BY <1>1, <1>3, <1>4, <1>5 DEF GoodState
<1>7. [y \in Sets |-> Recency(d.cache[y])]
        = [[y \in Sets |-> Recency(c.cache[y])] EXCEPT ![x] = Recency(u)]
  BY <1>3
<1>8. Lru!Count(State(c).stats, h, m, v) = [hits |-> d.hit, misses |-> d.miss, evictions |-> d.evict]
  BY <1>1 DEF State, Lru!Count
<1>9. State(c).order = [y \in Sets |-> Recency(c.cache[y])]
  BY DEF State
<1> QED
  BY <1>6, <1>7, <1>8, <1>9 DEF State, After, d

(* The three ways load_or_store() writes its state.                        *)
LEMMA RecordWritten ==
  ASSUME NEW c, c = [cache |-> c.cache, hit |-> c.hit, miss |-> c.miss, evict |-> c.evict],
         c.hit \in Nat, c.miss \in Nat, c.evict \in Nat, NEW x, NEW u
  PROVE  /\ [[c EXCEPT !.cache[x] = u] EXCEPT !.hit = @ + 1] = Written(c, x, u, 1, 0, 0)
         /\ [[c EXCEPT !.cache[x] = u] EXCEPT !.miss = @ + 1] = Written(c, x, u, 0, 1, 0)
         /\ [[c EXCEPT !.cache[x] = u] EXCEPT !.miss = @ + 1, !.evict = @ + 1]
              = Written(c, x, u, 0, 1, 1)
<1> DEFINE e == [c EXCEPT !.cache[x] = u]
           k == c.cache
           K == [k EXCEPT ![x] = u]
           h == c.hit
           m == c.miss
           v == c.evict
<1>1. c = [cache |-> k, hit |-> h, miss |-> m, evict |-> v] /\ h + 0 = h /\ m + 0 = m /\ v + 0 = v
  OBVIOUS
<1> HIDE DEF k, h, m, v
<1>2. e = [cache |-> K, hit |-> h, miss |-> m, evict |-> v]
  BY <1>1
<1> HIDE DEF e, K
<1>3. /\ [e EXCEPT !.hit = @ + 1] = [cache |-> K, hit |-> h + 1, miss |-> m, evict |-> v]
      /\ [e EXCEPT !.miss = @ + 1] = [cache |-> K, hit |-> h, miss |-> m + 1, evict |-> v]
      /\ [e EXCEPT !.miss = @ + 1, !.evict = @ + 1]
           = [cache |-> K, hit |-> h, miss |-> m + 1, evict |-> v + 1]
  <2> DEFINE y == h + 1
             z == m + 1
             t == v + 1
             f == [e EXCEPT !.miss = z]
  <2>1. /\ [e EXCEPT !.hit = @ + 1] = [e EXCEPT !.hit = y]
        /\ [e EXCEPT !.miss = @ + 1] = f
        /\ [e EXCEPT !.miss = @ + 1, !.evict = @ + 1] = [e EXCEPT !.miss = z, !.evict = t]
    BY <1>2
  <2> HIDE DEF y, z, t
  <2>2. [e EXCEPT !.hit = y] = [cache |-> K, hit |-> y, miss |-> m, evict |-> v]
    BY <1>2
  <2>3. f = [cache |-> K, hit |-> h, miss |-> z, evict |-> v]
    BY <1>2
  <2>4. [e EXCEPT !.miss = z, !.evict = t] = [f EXCEPT !.evict = t]
    BY <1>2
  <2> HIDE DEF f
  <2>5. [f EXCEPT !.evict = t] = [cache |-> K, hit |-> h, miss |-> z, evict |-> t]
    BY <2>3
  <2> QED
    BY <2>1, <2>2, <2>3, <2>4, <2>5 DEF y, z, t
<1>4. /\ Written(c, x, u, 1, 0, 0) = [cache |-> K, hit |-> h + 1, miss |-> m, evict |-> v]
      /\ Written(c, x, u, 0, 1, 0) = [cache |-> K, hit |-> h, miss |-> m + 1, evict |-> v]
      /\ Written(c, x, u, 0, 1, 1) = [cache |-> K, hit |-> h, miss |-> m + 1, evict |-> v + 1]
  BY <1>1 DEF Written, k, K, h, m, v
<1> QED
  BY <1>3, <1>4 DEF e

(* One load_or_store() is one access of a least-recently-used cache.       *)
LEMMA AccessImplements ==
  ASSUME NEW c, GoodState(c), NEW a \in Nat
  PROVE  /\ GoodState(load_or_store(c, a))
         /\ State(load_or_store(c, a)) = Lru!Access(State(c), a)
<1> DEFINE x == set_index(a)
           tag == tag_info(a)
           old == c.cache[x]
           ways == Aged(old)
           q == Recency(old)
           d == load_or_store(c, a)
<1>1. x \in Sets
  BY SetOfAddress
<1>2. Listed(old) /\ State(c).order[x] = q
  BY <1>1 DEF GoodState, State
<1>3. c = [cache |-> c.cache, hit |-> c.hit, miss |-> c.miss, evict |-> c.evict]
      /\ c.hit \in Nat /\ c.miss \in Nat /\ c.evict \in Nat
  BY DEF GoodState
<1>4. CASE HitWays(ways, tag) # {}
  <2> DEFINE u == Used(ways, Least(HitWays(ways, tag)), tag)
             at == CHOOSE k \in DOMAIN q : q[k] = tag
  <2>1. d = Written(c, x, u, 1, 0, 0)
    <3>1. d = [[c EXCEPT !.cache[x] = u] EXCEPT !.hit = @ + 1]
      BY <1>4 DEF load_or_store
    <3> HIDE DEF d, u, x
    <3> QED
      BY <1>3, <3>1, RecordWritten
  <2>2. Contains(q, tag) /\ Listed(u) /\ Recency(u) = <<tag>> \o RemoveAt(q, at)
    <3> HIDE DEF old, tag
    <3> QED
      BY <1>2, <1>4, SetHit
  <2>3. Lru!Access(State(c), a) = After(State(c), x, <<tag>> \o RemoveAt(q, at), 1, 0, 0)
    <3>1. Lru!Contains(State(c).order[x], tag)
      BY <1>2, <2>2 DEF Contains, Lru!Contains
    <3> QED
      BY <1>2, <3>1 DEF After, Lru!Access, Lru!RemoveAt, RemoveAt
  <2> HIDE DEF d, u, at, x, tag, q, old, ways
  <2> QED
    <3>1. /\ GoodState(Written(c, x, u, 1, 0, 0))
          /\ State(Written(c, x, u, 1, 0, 0)) = After(State(c), x, Recency(u), 1, 0, 0)
      <4>1. 0 \in Nat /\ 1 \in Nat /\ Listed(u)
        BY <2>2
      <4> QED
        BY <1>1, <4>1, OneSetUsed
    <3> QED
      BY <2>1, <2>2, <2>3, <3>1 DEF d
<1>5. CASE HitWays(ways, tag) = {} /\ EmptyWays(ways) # {}
  <2> DEFINE u == Used(ways, Least(EmptyWays(ways)), tag)
  <2>1. d = Written(c, x, u, 0, 1, 0)
    <3>1. d = [[c EXCEPT !.cache[x] = u] EXCEPT !.miss = @ + 1]
      BY <1>5 DEF load_or_store
    <3> HIDE DEF d, u, x
    <3> QED
      BY <1>3, <3>1, RecordWritten
  <2>2. ~Contains(q, tag) /\ Len(q) # E /\ Listed(u) /\ Recency(u) = <<tag>> \o q
    <3> HIDE DEF old, tag
    <3> QED
      BY <1>2, <1>5, SetFill
  <2>3. Lru!Access(State(c), a) = After(State(c), x, <<tag>> \o q, 0, 1, 0)
    <3>1. ~Lru!Contains(State(c).order[x], tag)
      BY <1>2, <2>2 DEF Contains, Lru!Contains
    <3> QED
      BY <1>2, <2>2, <3>1 DEF After, Lru!Access
  <2> HIDE DEF d, u, x, tag, q, old, ways
  <2> QED
    <3>1. /\ GoodState(Written(c, x, u, 0, 1, 0))
          /\ State(Written(c, x, u, 0, 1, 0)) = After(State(c), x, Recency(u), 0, 1, 0)
      <4>1. 0 \in Nat /\ 1 \in Nat /\ Listed(u)
        BY <2>2
      <4> QED
        BY <1>1, <4>1, OneSetUsed
    <3> QED
      BY <2>1, <2>2, <2>3, <3>1 DEF d
<1>6. CASE HitWays(ways, tag) = {} /\ EmptyWays(ways) = {}
  <2> DEFINE u == Used(ways, LruWay(ways), tag)
  <2>1. d = Written(c, x, u, 0, 1, 1)
    <3>1. d = [[c EXCEPT !.cache[x] = u] EXCEPT !.miss = @ + 1, !.evict = @ + 1]
      BY <1>6 DEF load_or_store
    <3> HIDE DEF d, u, x
    <3> QED
      BY <1>3, <3>1, RecordWritten
  <2>2. ~Contains(q, tag) /\ Len(q) = E /\ Listed(u) /\ Recency(u) = <<tag>> \o Front(q)
    <3> HIDE DEF old, tag
    <3> QED
      BY <1>2, <1>6, SetEvict
  <2>3. Lru!Access(State(c), a) = After(State(c), x, <<tag>> \o Front(q), 0, 1, 1)
    <3>1. ~Lru!Contains(State(c).order[x], tag)
      BY <1>2, <2>2 DEF Contains, Lru!Contains
    <3> QED
      BY <1>2, <2>2, <3>1 DEF After, Lru!Access, Lru!Front, Front
  <2> HIDE DEF d, u, x, tag, q, old, ways
  <2> QED
    <3>1. /\ GoodState(Written(c, x, u, 0, 1, 1))
          /\ State(Written(c, x, u, 0, 1, 1)) = After(State(c), x, Recency(u), 0, 1, 1)
      <4>1. 0 \in Nat /\ 1 \in Nat /\ Listed(u)
        BY <2>2
      <4> QED
        BY <1>1, <4>1, OneSetUsed
    <3> QED
      BY <2>1, <2>2, <2>3, <3>1 DEF d
<1> QED
  BY <1>4, <1>5, <1>6

(* A line of the trace is simulated with the accesses it stands for.       *)
LEMMA LineImplements ==
  ASSUME NEW c, GoodState(c), NEW op \in Ops, NEW a \in Nat
  PROVE  /\ GoodState(Operate(c, op, a))
         /\ State(Operate(c, op, a)) = Lru!Effect(State(c), [op |-> op, addr |-> a])
<1>1. /\ GoodState(load_or_store(c, a))
      /\ State(load_or_store(c, a)) = Lru!Access(State(c), a)
  BY AccessImplements
<1>2. /\ GoodState(load_or_store(load_or_store(c, a), a))
      /\ State(load_or_store(load_or_store(c, a), a)) = Lru!Access(Lru!Access(State(c), a), a)
  BY <1>1, AccessImplements
<1>3. CASE op \in {"L", "S"}
  BY <1>1, <1>3 DEF Operate, Lru!Effect
<1>4. CASE op = "M"
  BY <1>2, <1>4 DEF Operate, Lru!Effect
<1>5. CASE op = "I"
  BY <1>5 DEF Operate, Lru!Effect
<1> QED
  BY <1>3, <1>4, <1>5 DEF Ops

----------------------------------------------------------------------------
(* A sequence with one more element in front.                              *)
LEMMA OneInFront ==
  ASSUME NEW T, NEW t \in T, NEW q \in Seq(T)
  PROVE  LET c == <<t>> \o q
         IN  /\ c \in Seq(T) /\ Len(c) = Len(q) + 1 /\ DOMAIN c = 1 .. Len(q) + 1
             /\ c[1] = t /\ (\A k \in 1 .. Len(q) : c[k + 1] = q[k]) /\ Tail(c) = q
<1> DEFINE c == <<t>> \o q
<1>0. <<t>> \in Seq(T) /\ Len(<<t>>) = 1 /\ <<t>>[1] = t /\ Len(q) \in Nat
  OBVIOUS
<1>1. c \in Seq(T) /\ Len(c) = Len(q) + 1 /\ DOMAIN c = 1 .. Len(q)+1
  BY <1>0
<1>2. c[1] = t
  BY <1>0
<1>3. \A k \in 1 .. Len(q) : c[k + 1] = q[k]
  BY <1>0
<1> HIDE DEF c
<1>4. Tail(c) \in Seq(T) /\ Len(Tail(c)) = Len(q) /\ \A k \in 1 .. Len(q) : Tail(c)[k] = c[k + 1]
  BY <1>1
<1>5. Tail(c) = q
  BY <1>3, <1>4, SeqEqual
<1> QED
  BY <1>1, <1>2, <1>3, <1>5 DEF c
(* Five tokens, from the first on.                                         *)
LEMMA Five ==
  ASSUME NEW x1, NEW x2, NEW x3, NEW x4, NEW x5
  PROVE  <<x1, x2, x3, x4, x5>> = <<x1>> \o (<<x2>> \o <<x3, x4, x5>>)
<1> DEFINE T == {x1, x2, x3, x4, x5}
           a == <<x1, x2, x3, x4, x5>>
           r == <<x3, x4, x5>>
           d == <<x2>> \o r
           e == <<x1>> \o d
<1>1. a \in Seq(T) /\ r \in Seq(T) /\ x1 \in T /\ x2 \in T
  OBVIOUS
<1>2. /\ Len(a) = 5 /\ a[1] = x1 /\ a[2] = x2 /\ a[3] = x3 /\ a[4] = x4 /\ a[5] = x5
      /\ Len(r) = 3 /\ r[1] = x3 /\ r[2] = x4 /\ r[3] = x5
  OBVIOUS
<1> HIDE DEF T, a, r
<1>3. d \in Seq(T) /\ Len(d) = 4 /\ d[1] = x2 /\ d[2] = x3 /\ d[3] = x4 /\ d[4] = x5
  <2>1. /\ d \in Seq(T) /\ Len(d) = Len(r) + 1 /\ d[1] = x2 /\ (\A k \in 1 .. Len(r) : d[k + 1] = r[k])
    BY <1>1, OneInFront
  <2>2. Len(d) = 4 /\ d[1+1] = r[1] /\ d[2+1] = r[2] /\ d[3+1] = r[3]
    BY <1>2, <2>1
  <2> QED
    BY <1>2, <2>1, <2>2
<1> HIDE DEF d
<1>4. e \in Seq(T) /\ Len(e) = 5 /\ e[1] = x1 /\ e[2] = x2 /\ e[3] = x3 /\ e[4] = x4 /\ e[5] = x5
  <2>1. /\ e \in Seq(T) /\ Len(e) = Len(d) + 1 /\ e[1] = x1 /\ (\A k \in 1 .. Len(d) : e[k + 1] = d[k])
    <3>1. x1 \in T /\ d \in Seq(T)
      BY <1>1, <1>3
    <3> QED
      BY <3>1, OneInFront
  <2>2. Len(e) = 5 /\ e[1+1] = d[1] /\ e[2+1] = d[2] /\ e[3+1] = d[3] /\ e[4+1] = d[4]
    BY <1>3, <2>1
  <2> QED
    BY <1>3, <2>1, <2>2
<1> HIDE DEF e
<1>5. a = e
  <2>1. \A i \in 1 .. 5 : a[i] = e[i]
    BY <1>2, <1>4
  <2>2. a \in Seq(T) /\ e \in Seq(T) /\ Len(a) = Len(e) /\ Len(a) = 5
    BY <1>1, <1>2, <1>4
  <2> QED
    BY <2>1, <2>2, SeqEqual
<1> QED
  BY <1>5 DEF a, r, d, e

(* The tokens of CSim, and what fscanf() may still see of a line.          *)
Tok(ch) == <<ch, 0>>
Hex(n)  == <<"hex", n>>
Token == {Tok(ch) : ch \in Ops \cup {"comma", "nl", "blank"}} \cup {Hex(n) : n \in Nat}

Newline == <<Tok("nl")>>
Size == <<Tok("comma"), Hex(1), Tok("nl")>>
Number(a) == <<Hex(a)>> \o Size
Rest(op, a) == <<Tok(op)>> \o Number(a)
Started(ch, op, a) == <<Tok(ch)>> \o Rest(op, a)
Whole(op, a) == <<Tok("nl")>> \o Started("blank", op, a)

(* The line IsLruCache takes to be read and not simulated, for any input.  *)
FirstOp(q) == SelectInSeq(q, LAMBDA tok : tok[1] \in Ops)
LineIn(q) == IF FirstOp(q) = 0 THEN [op |-> "none", addr |-> 0]
             ELSE [op |-> q[FirstOp(q)][1], addr |-> q[FirstOp(q) + 1][2]]
NextLine == IF Unread = 0 THEN [op |-> "none", addr |-> 0]
            ELSE [op |-> input[Unread][1], addr |-> input[Unread + 1][2]]

(* The input while no line waits, and while the line op a does.            *)
Ends == {<<>>, Newline, Size}
Left(op, a) == {Rest(op, a), Started("nl", op, a), Started("blank", op, a), Whole(op, a)}
Between == input \in Ends
Line(op, a) == input \in Left(op, a)

(* The parts of a token.                                                   *)
LEMMA Tokens ==
  /\ \A ch : Tok(ch)[1] = ch
  /\ \A n : Hex(n)[1] = "hex" /\ Hex(n)[2] = n
BY DEF Tok, Hex

(* The first operation in the input.                                       *)
LEMMA UnreadIs ==
  ASSUME NEW q, NEW k \in DOMAIN q, q[k][1] \in Ops, DOMAIN q \in SUBSET Nat, DOMAIN q = 1 .. Len(q),
         \A m \in DOMAIN q : q[m][1] \in Ops => k <= m
  PROVE  FirstOp(q) = k
<1> DEFINE I == {i \in 1 .. Len(q) : q[i][1] \in Ops}
<1>1. k \in I /\ \A m \in I : k <= m /\ m \in Nat
  OBVIOUS
<1>2. FirstOp(q) = IF I # {} THEN Min(I) ELSE 0
  BY DEF FirstOp, SelectInSeq
<1> HIDE DEF I
<1>3. Min(I) = k
  BY <1>1 DEF Min
<1> QED
  BY <1>1, <1>2, <1>3

(* At the end of a line there is none.                                     *)
LEMMA NoneUnread ==
  ASSUME NEW q \in Ends
  PROVE  LineIn(q) = [op |-> "none", addr |-> 0]
<1>1. {i \in 1 .. Len(q) : q[i][1] \in Ops} = {}
  <2>1. CASE q = <<>>
    BY <2>1
  <2>2. CASE q = Newline
    BY <2>2, Tokens DEF Newline, Ops
  <2>3. CASE q = Size
    <3>1. Len(q) = 3 /\ q[1] = Tok("comma") /\ q[2] = Hex(1) /\ q[3] = Tok("nl")
      BY <2>3 DEF Size
    <3>2. \A i \in 1 .. 3 : q[i][1] \notin Ops
      BY <3>1, Tokens DEF Ops
    <3> QED
      BY <3>1, <3>2
  <2> QED
    BY <2>1, <2>2, <2>3 DEF Ends
<1> QED
  BY <1>1 DEF LineIn, FirstOp, SelectInSeq

(* The end of a line, from its operation on.                               *)
LEMMA RestForm ==
  ASSUME NEW op \in Ops, NEW a \in Nat
  PROVE  /\ Size \in Seq(Token) /\ Len(Size) = 3
         /\ Number(a) \in Seq(Token) /\ Len(Number(a)) = 4
         /\ Number(a)[1] = Hex(a) /\ Tail(Number(a)) = Size
         /\ Rest(op, a) \in Seq(Token) /\ Len(Rest(op, a)) = 5
         /\ Rest(op, a)[1] = Tok(op) /\ Rest(op, a)[2] = Hex(a) /\ Tail(Rest(op, a)) = Number(a)
<1>1. Tok("comma") \in Token /\ Hex(1) \in Token /\ Tok("nl") \in Token /\ Hex(a) \in Token
      /\ Tok(op) \in Token
  BY DEF Token
<1>2. Size \in Seq(Token) /\ Len(Size) = 3
  <2> DEFINE o == Tok("comma")
             h == Hex(1)
             e == Tok("nl")
  <2>1. Size = <<o, h, e>> /\ o \in Token /\ h \in Token /\ e \in Token
    BY <1>1 DEF Size
  <2> HIDE DEF o, h, e
  <2> QED
    BY <2>1
<1>3. /\ Number(a) \in Seq(Token) /\ Len(Number(a)) = Len(Size) + 1
      /\ Number(a)[1] = Hex(a) /\ Tail(Number(a)) = Size
  <2>1. Hex(a) \in Token /\ Size \in Seq(Token)
    BY <1>1, <1>2
  <2> QED
    BY <2>1, OneInFront DEF Number
<1>4. /\ Rest(op, a) \in Seq(Token) /\ Len(Rest(op, a)) = Len(Number(a)) + 1
      /\ Rest(op, a)[1] = Tok(op) /\ Tail(Rest(op, a)) = Number(a)
      /\ \A k \in 1 .. Len(Number(a)) : Rest(op, a)[k + 1] = Number(a)[k]
  BY <1>1, <1>3, OneInFront DEF Rest
<1>5. Rest(op, a)[1 + 1] = Hex(a) /\ Len(Rest(op, a)) = 5
  BY <1>2, <1>3, <1>4
<1> QED
  BY <1>2, <1>3, <1>4, <1>5

(* A line with one character in front.                                     *)
LEMMA StartedForm ==
  ASSUME NEW op \in Ops, NEW a \in Nat, NEW ch \in {"nl", "blank"}
  PROVE /\ Started(ch, op, a) \in Seq(Token) /\ Len(Started(ch, op, a)) = 6
         /\ Started(ch, op, a)[1] = Tok(ch) /\ Started(ch, op, a)[2] = Tok(op)
         /\ Started(ch, op, a)[3] = Hex(a) /\ Tail(Started(ch, op, a)) = Rest(op, a)
<1>1. /\ Rest(op, a) \in Seq(Token) /\ Len(Rest(op, a)) = 5
      /\ Rest(op, a)[1] = Tok(op) /\ Rest(op, a)[2] = Hex(a)
  BY RestForm
<1>2. Tok(ch) \in Token
  BY DEF Token
<1>3. /\ Started(ch, op, a) \in Seq(Token) /\ Len(Started(ch, op, a)) = Len(Rest(op, a)) + 1
      /\ Started(ch, op, a)[1] = Tok(ch) /\ Tail(Started(ch, op, a)) = Rest(op, a)
      /\ \A k \in 1 .. Len(Rest(op, a)) : Started(ch, op, a)[k + 1] = Rest(op, a)[k]
  <2>1. Rest(op, a) \in Seq(Token)
    BY <1>1
  <2> QED
    BY <1>2, <2>1, OneInFront DEF Started
<1>4. Started(ch, op, a)[1 + 1] = Tok(op) /\ Started(ch, op, a)[2 + 1] = Hex(a)
  BY <1>1, <1>3
<1> QED
  BY <1>1, <1>3, <1>4

(* A line behind the newline of the line before it.                        *)
LEMMA WholeForm ==
  ASSUME NEW op \in Ops, NEW a \in Nat
  PROVE  /\ Whole(op, a) \in Seq(Token) /\ Len(Whole(op, a)) = 7
         /\ Whole(op, a)[1] = Tok("nl") /\ Whole(op, a)[2] = Tok("blank") /\ Whole(op, a)[3] = Tok(op)
         /\ Whole(op, a)[4] = Hex(a) /\ Tail(Whole(op, a)) = Started("blank", op, a)
<1> DEFINE q == Started("blank", op, a)
<1>1. /\ q \in Seq(Token) /\ Len(q) = 6 /\ q[1] = Tok("blank") /\ q[2] = Tok(op) /\ q[3] = Hex(a)
      /\ Tok("nl") \in Token
  BY StartedForm DEF Token
<1> HIDE DEF q
<1>2. /\ Whole(op, a) \in Seq(Token) /\ Len(Whole(op, a)) = Len(q) + 1
      /\ Whole(op, a)[1] = Tok("nl") /\ Tail(Whole(op, a)) = q
      /\ \A k \in 1 .. Len(q) : Whole(op, a)[k + 1] = q[k]
  BY <1>1, OneInFront DEF Whole, q
<1>3. /\ Whole(op, a)[1 + 1] = Tok("blank") /\ Whole(op, a)[2 + 1] = Tok(op) /\ Whole(op, a)[3 + 1] = Hex(a)
  BY <1>1, <1>2
<1> QED
  <2>1. Tail(Whole(op, a)) = Started("blank", op, a)
    BY <1>2 DEF q
  <2> QED
    BY <1>1, <1>2, <1>3, <2>1

(* Of a line that has not been scanned, it is the operation.               *)
LEMMA OneUnread ==
  ASSUME NEW op \in Ops, NEW a \in Nat, NEW q \in Left(op, a)
  PROVE  LineIn(q) = [op |-> op, addr |-> a]
<1>0. "nl" \notin Ops /\ "blank" \notin Ops
  BY DEF Ops
<1>1. CASE q = Rest(op, a)
  <2>1. DOMAIN q = 1 .. 5 /\ Len(q) = 5 /\ q[1][1] = op /\ q[2][2] = a
    <3>1. q \in Seq(Token) /\ Len(q) = 5 /\ q[1] = Tok(op) /\ q[2] = Hex(a)
      BY <1>1, RestForm
    <3> QED
      BY <3>1, Tokens
  <2>2. FirstOp(q) = 1
    BY <2>1, UnreadIs
  <2> QED
    BY <2>1, <2>2 DEF LineIn
<1>2. ASSUME NEW ch \in {"nl", "blank"}, q = Started(ch, op, a)
      PROVE  LineIn(q) = [op |-> op, addr |-> a]
  <2>1. /\ DOMAIN q = 1 .. 6 /\ Len(q) = 6
        /\ q[1][1] = ch /\ q[2][1] = op /\ q[3][2] = a
    <3>1. /\ q \in Seq(Token) /\ Len(q) = 6
          /\ q[1] = Tok(ch) /\ q[2] = Tok(op) /\ q[3] = Hex(a)
      BY <1>2, StartedForm
    <3> QED
      BY <3>1, Tokens
  <2>2. FirstOp(q) = 2
    BY <1>0, <2>1, UnreadIs
  <2> QED
    BY <2>1, <2>2 DEF LineIn
<1>3. CASE q = Whole(op, a)
  <2>1. /\ DOMAIN q = 1 .. 7 /\ Len(q) = 7
        /\ q[1][1] = "nl" /\ q[2][1] = "blank" /\ q[3][1] = op /\ q[4][2] = a
    <3>1. /\ q \in Seq(Token) /\ Len(q) = 7
          /\ q[1] = Tok("nl") /\ q[2] = Tok("blank") /\ q[3] = Tok(op) /\ q[4] = Hex(a)
      BY <1>3, WholeForm
    <3>2. q[1][1] = "nl" /\ q[2][1] = "blank" /\ q[3][1] = op /\ q[4][2] = a
      BY <3>1, Tokens, Zenon
    <3>3. DOMAIN q = 1 .. Len(q)
      BY <3>1
    <3> QED
      BY <3>1, <3>2, <3>3, Zenon
  <2>2. FirstOp(q) = 3
    BY <1>0, <2>1, UnreadIs
  <2> QED
    BY <2>1, <2>2 DEF LineIn
<1> QED
  BY <1>1, <1>2, <1>3 DEF Left

(* What the blank of the format skips here: nothing, or one character.     *)
LEMMA Skips ==
  ASSUME NEW T, NEW q \in Seq(T), q # <<>>
  PROVE  /\ NotWhite(q[1]) => Skipped(q) = q
         /\ Len(q) > 1 /\ ~NotWhite(q[1]) /\ NotWhite(q[2]) => Skipped(q) = Tail(q)
         /\ Len(q) = 1 /\ ~NotWhite(q[1]) => Skipped(q) = <<>>
<1> DEFINE I == {i \in 1 .. Len(q) : NotWhite(q[i])}
<1>1. Len(q) \in Nat \ {0} /\ DOMAIN q = 1 .. Len(q)
  OBVIOUS
<1>2. Skipped(q) = IF I # {} THEN SubSeq(q, IF I # {} THEN Min(I) ELSE 0, Len(q)) ELSE <<>>
  BY <1>1 DEF Skipped, SelectInSeq
<1>3. ASSUME NotWhite(q[1])
      PROVE  Skipped(q) = q
  <2>1. Min(I) = 1 /\ I # {}
    <3>1. 1 \in I /\ \A m \in I : 1 <= m /\ m \in Nat
      BY <1>1, <1>3
    <3> HIDE DEF I
    <3> QED
      BY <3>1 DEF Min
  <2> HIDE DEF I
  <2>2. Skipped(q) = SubSeq(q, 1, Len(q))
    BY <1>2, <2>1
  <2> QED
    BY <2>2
<1>4. ASSUME Len(q) > 1, ~NotWhite(q[1]), NotWhite(q[2])
      PROVE  Skipped(q) = Tail(q)
  <2>1. Min(I) = 2 /\ I # {}
    <3>1. 2 \in I /\ \A m \in I : 2 <= m /\ m \in Nat
      BY <1>1, <1>4
    <3> HIDE DEF I
    <3> QED
      BY <3>1 DEF Min
  <2> HIDE DEF I
  <2>2. Skipped(q) = SubSeq(q, 2, Len(q))
    BY <1>2, <2>1
  <2>3. Tail(q) = SubSeq(q, 2, Len(q))
    <3>1. Tail(q) \in Seq(T) /\ Len(Tail(q)) = Len(q) - 1 /\ \A k \in 1 .. Len(q) - 1 : Tail(q)[k] = q[k + 1]
      BY <1>1
    <3>2. /\ SubSeq(q, 2, Len(q)) \in Seq(T) /\ Len(SubSeq(q, 2, Len(q))) = Len(q) - 1
          /\ \A k \in 1 .. Len(q) - 1 : SubSeq(q, 2, Len(q))[k] = q[k + 1]
      BY <1>1, <1>4
    <3> QED
      BY <1>1, <3>1, <3>2, SeqEqual
  <2> QED
    BY <2>2, <2>3
<1>5. ASSUME Len(q) = 1, ~NotWhite(q[1])
      PROVE  Skipped(q) = <<>>
  <2>1. I = {}
    BY <1>5
  <2> QED
    BY <1>2, <2>1
<1> QED
  BY <1>3, <1>4, <1>5

----------------------------------------------------------------------------
(* The invariant: the cache is good, and the input is the end of one line  *)
(* or a line, with at most one newline and one blank before its operation. *)
Now == [cache |-> cache, hit |-> hit, miss |-> miss, evict |-> evict]

Shape == Between \/ \E op \in Ops, a \in Addresses : Line(op, a)

LInv == GoodState(Now) /\ Shape

(* The line waiting is a function of the input, in this state and the next.*)
LEMMA LineNow == NextLine = LineIn(input) /\ NextLine' = LineIn(input')
<1>1. Unread = FirstOp(input) /\ Unread' = FirstOp(input')
  BY DEF Unread, FirstOp, SelectInSeq
<1> QED
  BY <1>1 DEF NextLine, LineIn

(* A line as the file has it.                                              *)
LEMMA TextIs ==
  ASSUME NEW op \in Ops, NEW a \in Nat
  PROVE  Text(op, a) = IF op = "I" THEN Rest(op, a) ELSE Started("blank", op, a)
<1> DEFINE x1 == Tok(op)
           x2 == Hex(a)
           x3 == Tok("comma")
           x4 == Hex(1)
           x5 == Tok("nl")
           x0 == Tok("blank")
           q == <<x1, x2, x3, x4, x5>>
<1>1. Text(op, a) = (IF op = "I" THEN <<>> ELSE <<x0>>) \o q
  BY DEF Text, Tok, Hex
<1>2. Rest(op, a) = <<x1>> \o (<<x2>> \o <<x3, x4, x5>>) /\ Started("blank", op, a) = <<x0>> \o Rest(op, a)
  BY DEF Rest, Number, Size, Started
<1> HIDE DEF x0, x1, x2, x3, x4, x5
<1>3. q = Rest(op, a)
  BY <1>2, Five
<1>4. <<>> \o Rest(op, a) = Rest(op, a)
  BY RestForm, ConcatEmptySeq
<1> QED
  BY <1>1, <1>2, <1>3, <1>4

(* FileLine adds a line only when none waits.                              *)
LEMMA ShortIsBetween ==
  ASSUME Shape, Len(input) <= 1
  PROVE  input \in {<<>>, Newline}
<1>1. ASSUME NEW op \in Ops, NEW a \in Addresses, Line(op, a)
      PROVE  Len(input) > 1
  <2>1. a \in Nat
    BY CSimAssumption
  <2>2. Len(Rest(op, a)) = 5 /\ Len(Whole(op, a)) = 7
    BY <2>1, RestForm, WholeForm
  <2>3. \A ch \in {"nl", "blank"} : Len(Started(ch, op, a)) = 6
    BY <2>1, StartedForm
  <2> QED
    <3>1. \/ input = Rest(op, a) \/ input = Whole(op, a)
          \/ \E ch \in {"nl", "blank"} : input = Started(ch, op, a)
      BY <1>1 DEF Line, Left
    <3>2. Len(input) = 5 \/ Len(input) = 7 \/ Len(input) = 6
      BY <2>2, <2>3, <3>1, Zenon
    <3> DEFINE k == Len(input)
    <3> HIDE DEF k
    <3>3. k = 5 \/ k = 7 \/ k = 6
      BY <3>2 DEF k
    <3>4. k > 1
      BY <3>3
    <3> QED
      BY <3>4 DEF k
<1>2. Len(Size) = 3
  BY DEF Size
<1> QED
  BY <1>1, <1>2 DEF Shape, Between, Ends

(* The next line of the file is the one that waits then.                   *)
LEMMA LineRead ==
  ASSUME LInv, FileLine
  PROVE  /\ NextLine = Lru!NoLine
         /\ \E op \in Ops, a \in Addresses : input' \in Left(op, a)
         /\ Now' = Now
<1>1. input \in {<<>>, Newline}
  BY ShortIsBetween DEF LInv, FileLine
<1>2. NextLine = Lru!NoLine
  BY <1>1, NoneUnread, LineNow DEF Ends, Lru!NoLine
<1>3. PICK op \in Ops, a \in Addresses : input' = input \o Text(op, a)
  BY DEF FileLine
<1>4. a \in Nat
  BY CSimAssumption
<1>5. input' \in {Rest(op, a), Started("nl", op, a), Started("blank", op, a), Whole(op, a)}
  <2>1. /\ <<>> \o Rest(op, a) = Rest(op, a)
        /\ <<>> \o Started("blank", op, a) = Started("blank", op, a)
    BY <1>4, RestForm, StartedForm, ConcatEmptySeq
  <2>2. /\ Newline \o Rest(op, a) = Started("nl", op, a)
        /\ Newline \o Started("blank", op, a) = Whole(op, a)
    BY DEF Newline, Started, Whole
  <2> QED
    BY <1>1, <1>3, <1>4, <2>1, <2>2, TextIs
<1>6. input' \in Left(op, a)
  BY <1>5 DEF Left
<1>7. Now' = Now
  BY DEF Now, FileLine
<1> QED
  BY <1>2, <1>6, <1>7

(* A conversion that finds no number reads on to the operation.            *)
LEMMA ToOperation ==
  ASSUME NEW op \in Ops, NEW a \in Nat, Scan,
         \/ \E ch \in {"nl", "blank"} : input = Started(ch, op, a)
         \/ input = Whole(op, a)
  PROVE  input' = Rest(op, a) /\ Now' = Now
<1>0. "hex" \notin Ops /\ NotWhite(Tok(op)) /\ ~NotWhite(Tok("blank")) /\ ~NotWhite(Tok("nl"))
  BY Tokens DEF Ops, NotWhite
<1>1. Skipped(Tail(input)) = Rest(op, a)
  <2>1. ASSUME NEW ch \in {"nl", "blank"}, input = Started(ch, op, a)
        PROVE  Skipped(Tail(input)) = Rest(op, a)
    <3>1. Tail(input) = Rest(op, a) /\ Rest(op, a) \in Seq(Token) /\ Rest(op, a) # <<>> /\ Rest(op, a)[1] = Tok(op)
      <4>1. Tail(input) = Rest(op, a)
        BY <2>1, StartedForm
      <4> QED
        BY <4>1, RestForm
    <3> QED
      BY <1>0, <3>1, Skips
  <2>2. CASE input = Whole(op, a)
    <3> DEFINE q == Started("blank", op, a)
    <3>1. Tail(input) = q
      BY <2>2, WholeForm
    <3>2. q \in Seq(Token) /\ Len(q) = 6 /\ q[1] = Tok("blank") /\ q[2] = Tok(op) /\ Tail(q) = Rest(op, a)
      BY StartedForm
    <3> HIDE DEF q
    <3>3. q # <<>> /\ Len(q) > 1 /\ q \in Seq(Token)
      <4>1. q = <<>> => Len(q) = 0
        OBVIOUS
      <4> QED
        BY <3>2, <4>1
    <3>4. ~NotWhite(q[1]) /\ NotWhite(q[2])
      BY <1>0, <3>2
    <3>5. Skipped(q) = Tail(q)
      BY <3>3, <3>4, Skips
    <3> QED
      BY <3>1, <3>2, <3>5
  <2> QED
    BY <2>1, <2>2
<1>2. Head(Rest(op, a)) = Tok(op) /\ Rest(op, a) # <<>>
  BY RestForm
<1>3. Head(Rest(op, a))[1] # "hex"
  BY <1>0, <1>2, Tokens
<1>4. input' = Rest(op, a) /\ UNCHANGED <<cache, hit, miss, evict>>
  BY <1>1, <1>2, <1>3 DEF Scan
<1> QED
  BY <1>4 DEF Now

(* A conversion that finds the address simulates the line.                 *)
LEMMA ToSize ==
  ASSUME NEW op \in Ops, NEW a \in Nat, LInv, Scan, input = Rest(op, a)
  PROVE  /\ input' = Size
         /\ Now' = Operate(Now, op, a)
<1>0. NotWhite(Hex(a))
  BY Tokens DEF NotWhite
<1>1. /\ input \in Seq(Token) /\ Len(input) = 5 /\ input[1] = Tok(op) /\ Tail(input) = Number(a)
      /\ Number(a) \in Seq(Token) /\ Len(Number(a)) = 4 /\ Number(a)[1] = Hex(a) /\ Tail(Number(a)) = Size
  BY RestForm
<1>2. Skipped(Number(a)) = Number(a) /\ Number(a) # <<>>
  <2> DEFINE q == Number(a)
  <2>1. q \in Seq(Token) /\ Len(q) = 4 /\ NotWhite(q[1])
    BY <1>0, <1>1
  <2> HIDE DEF q
  <2>2. q # <<>>
    <3>1. q = <<>> => Len(q) = 0
      OBVIOUS
    <3> QED
      BY <2>1, <3>1
  <2>3. Skipped(q) = q
    BY <2>1, <2>2, Skips
  <2> QED
    BY <2>2, <2>3 DEF q
<1>3. Head(input) = Tok(op) /\ Head(Number(a)) = Hex(a)
  BY <1>1
<1>4. Head(input)[1] = op /\ Head(Number(a))[1] = "hex" /\ Head(Number(a))[2] = a
  BY <1>1, <1>3, Tokens
<1> DEFINE d == Operate(Now, op, a)
<1>5. input' = Size /\ cache' = d.cache /\ hit' = d.hit /\ miss' = d.miss /\ evict' = d.evict
  BY <1>1, <1>2, <1>4 DEF Scan, Now
<1>6. d = [cache |-> d.cache, hit |-> d.hit, miss |-> d.miss, evict |-> d.evict]
  <2>1. GoodState(d)
    BY LineImplements DEF LInv
  <2> HIDE DEF d
  <2> QED
    BY <2>1 DEF GoodState
<1> HIDE DEF d
<1>7. Now' = d
  BY <1>5, <1>6 DEF Now
<1> QED
  BY <1>5, <1>7 DEF d

(* The size and the newline are scanned without effect.                    *)
LEMMA ToBetween ==
  ASSUME Scan, Between
  PROVE  input' \in {<<>>, Newline} /\ Now' = Now
<1>1. CASE input = Size
  <2> DEFINE c == Tok("comma")
             h == Hex(1)
             e == Tok("nl")
             q == <<h, e>>
  <2>0. /\ c[1] = "comma" /\ h[1] = "hex" /\ NotWhite(h)
        /\ Size = <<c, h, e>> /\ Newline = <<e>>
    BY Tokens DEF Size, Newline, NotWhite
  <2> HIDE DEF c, h, e
  <2>1. Head(input) = c /\ Tail(input) = q /\ q \in Seq({h, e}) /\ q # <<>> /\ q[1] = h /\ Head(q) = h /\ Tail(q) = Newline
    BY <1>1, <2>0
  <2> HIDE DEF q
  <2>2. Skipped(q) = q
    BY <2>0, <2>1, Skips
  <2>3. \A st, a : Operate(st, "comma", a) = st
    BY DEF Operate
  <2>4. input' = Newline /\ cache' = Now.cache /\ hit' = Now.hit /\ miss' = Now.miss /\ evict' = Now.evict
    BY <2>0, <2>1, <2>2, <2>3 DEF Scan, Now
  <2> QED
    BY <2>4 DEF Now
<1>2. CASE input = Newline
  <2>1. Tail(input) = <<>>
    BY <1>2 DEF Newline
  <2>2. Skipped(<<>>) = <<>>
    BY DEF Skipped
  <2> QED
    BY <2>1, <2>2 DEF Scan, Now
<1>3. input # <<>>
  BY DEF Scan
<1> QED
  BY <1>1, <1>2, <1>3 DEF Between, Ends

(* The refinement mapping is State, in this state and the next.            *)
LEMMA Mapped ==
  /\ State(Now).order = [x \in Sets |-> ByRecency(x)]
  /\ State(Now).stats = [hits |-> hit, misses |-> miss, evictions |-> evict]
  /\ State(Now').order = [x \in Sets |-> ByRecency(x)]'
  /\ State(Now').stats = [hits |-> hit, misses |-> miss, evictions |-> evict]'
BY DEF State, Now, ByRecency, Recency, Valid, ValidWays

(* The invariant in the next state, from that state.                       *)
LEMMA GoodNext == GoodState(Now') => GoodState(Now)'
BY DEF GoodState, Listed, Lists, GoodSet, IsLine, ValidWays, Sets, Ways

(* Likewise for the input.                                                 *)
LEMMA ShapeNext ==
  /\ input' \in Ends => Between'
  /\ \A op \in Ops, a \in Addresses : input' \in Left(op, a) => Line(op, a)'
BY DEF Between, Line, Ends, Left, Newline, Size, Rest, Started, Whole, Number, Tok, Hex

(* The simulator starts with empty lists.                                  *)
LEMMA StartsEmpty ==
  ASSUME Init
  PROVE  LInv /\ \A x \in Sets : ByRecency(x) = <<>>
<1>1. ASSUME NEW x \in Sets
      PROVE  GoodSet(cache[x]) /\ Lists(cache[x], 0, <<>>)
  <2>1. cache[x] = [i \in Ways |-> [valid |-> 0, tag |-> 0, ucount |-> 0]]
    BY DEF Init
  <2>2. GoodSet(cache[x])
    BY <2>1 DEF GoodSet, IsLine
  <2>3. ValidWays(cache[x]) = {}
    BY <2>1 DEF ValidWays
  <2>4. <<>> \in [1 .. 0 -> {}]
    OBVIOUS
  <2> QED
    BY <2>2, <2>3, <2>4 DEF Lists
<1>2. ASSUME NEW x \in Sets
      PROVE  ByRecency(x) = <<>>
  <2>1. Recency(cache[x]) = [m \in 1 .. 0 |-> cache[x][<<>>[m]].tag]
    BY <1>1, RecencyIs
  <2>2. Recency(cache[x]) = ByRecency(x)
    BY DEF Recency, ByRecency, Valid, ValidWays
  <2> QED
    BY <2>1, <2>2
<1>3. GoodState(Now)
  <2>1. /\ Now = [cache |-> Now.cache, hit |-> Now.hit, miss |-> Now.miss, evict |-> Now.evict]
        /\ Now.cache = cache /\ Now.hit = 0 /\ Now.miss = 0 /\ Now.evict = 0
    BY DEF Now, Init
  <2>2. cache = [x \in Sets |-> cache[x]]
    BY DEF Init
  <2> QED
    BY <1>1, <2>1, <2>2 DEF GoodState, Listed
<1>4. Shape
  BY DEF Shape, Between, Ends, Init
<1> QED
  BY <1>2, <1>3, <1>4 DEF LInv

(* It starts as LruCache does.                                             *)
LEMMA StartsRight == Init => LInv /\ Lru!Init
<1> SUFFICES ASSUME Init
             PROVE  LInv /\ Lru!Init
  OBVIOUS
<1>1. LInv /\ \A x \in Sets : ByRecency(x) = <<>>
  BY StartsEmpty
<1>2. NextLine = Lru!NoLine
  BY NoneUnread, LineNow DEF Init, Ends, Lru!NoLine
<1>3. hit = 0 /\ miss = 0 /\ evict = 0
  BY DEF Init
<1> QED
  BY <1>1, <1>2, <1>3 DEF Lru!Init, NextLine

(* Every step is one of LruCache or none: FileLine reads a line, the scan  *)
(* that takes its address simulates it, the other scans change nothing.    *)
LEMMA StepImplements ==
  LInv /\ [Next]_vars =>
    /\ LInv'
    /\ [Lru!Read \/ Lru!Simulate]_<<[x \in Sets |-> ByRecency(x)],
                                     [hits |-> hit, misses |-> miss, evictions |-> evict], NextLine>>
<1> DEFINE order == [x \in Sets |-> ByRecency(x)]
           stats == [hits |-> hit, misses |-> miss, evictions |-> evict]
           Stays == UNCHANGED <<order, stats>>
<1> SUFFICES ASSUME LInv, [Next]_vars
             PROVE  LInv' /\ [Lru!Read \/ Lru!Simulate]_<<order, stats, NextLine>>
  OBVIOUS
<1>1. /\ State(Now).order = order /\ State(Now').order = order'
      /\ State(Now).stats = stats /\ State(Now').stats = stats'
  BY Mapped
<1>2. Now' = Now => Stays /\ GoodState(Now)'
  <2>1. ASSUME Now' = Now
        PROVE  GoodState(Now')
    BY <2>1 DEF LInv
  <2>2. Now' = Now => State(Now') = State(Now)
    OBVIOUS
  <2> QED
    BY <1>1, <2>1, <2>2, GoodNext
<1> HIDE DEF order, stats
<1>3. CASE FileLine
  <2>1. /\ NextLine = Lru!NoLine /\ Now' = Now
        /\ \E op \in Ops, a \in Addresses : input' \in Left(op, a)
    BY <1>3, LineRead
  <2>2. PICK op \in Ops, a \in Addresses : input' \in Left(op, a)
    BY <2>1
  <2>3. NextLine' = [op |-> op, addr |-> a]
    <3>1. a \in Nat
      BY CSimAssumption
    <3> QED
      BY <2>2, <3>1, OneUnread, LineNow
  <2>4. Lru!Read
    BY <1>2, <2>1, <2>3 DEF Lru!Read, NextLine, order, stats
  <2>5. Shape'
    BY <2>2, ShapeNext DEF Shape
  <2> QED
    BY <1>2, <2>1, <2>4, <2>5 DEF LInv
<1>4. CASE Scan
  <2>1. CASE Between
    <3>1. input' \in {<<>>, Newline} /\ Now' = Now
      BY <1>4, <2>1, ToBetween
    <3>2. input' \in Ends /\ input \in Ends
      BY <2>1, <3>1 DEF Ends, Between
    <3>3. NextLine' = NextLine
      BY <3>2, NoneUnread, LineNow
    <3>4. Shape'
      BY <3>2, ShapeNext DEF Shape
    <3> QED
      BY <1>2, <3>1, <3>3, <3>4 DEF LInv
  <2>2. ASSUME NEW op \in Ops, NEW a \in Addresses, Line(op, a)
        PROVE  LInv' /\ [Lru!Read \/ Lru!Simulate]_<<order, stats, NextLine>>
    <3>0. a \in Nat
      BY CSimAssumption
    <3>1. NextLine = [op |-> op, addr |-> a]
      BY <2>2, <3>0, OneUnread, LineNow DEF Line
    <3>2. CASE input = Rest(op, a)
      <4>1. input' = Size /\ Now' = Operate(Now, op, a)
        BY <1>4, <3>0, <3>2, ToSize
      <4>2. /\ GoodState(Operate(Now, op, a))
            /\ State(Operate(Now, op, a)) = Lru!Effect(State(Now), NextLine)
        BY <3>0, <3>1, LineImplements DEF LInv
      <4>3. Shape'
        BY <4>1, ShapeNext DEF Ends, Shape
      <4>4. NextLine' = Lru!NoLine
        BY <4>1, NoneUnread, LineNow DEF Lru!NoLine, Ends
      <4>5. NextLine # Lru!NoLine
        BY <3>1 DEF Lru!NoLine, Ops
      <4>6. State(Now) = [order |-> order, stats |-> stats]
        BY <1>1 DEF State
      <4>7. State(Now') = Lru!Effect([order |-> order, stats |-> stats], NextLine)
        BY <4>1, <4>2, <4>6
      <4>8. Lru!Simulate
        BY <1>1, <4>4, <4>5, <4>7 DEF Lru!Simulate, NextLine, order, stats
      <4>9. GoodState(Now)'
        BY <4>1, <4>2, GoodNext
      <4> QED
        BY <4>3, <4>8, <4>9 DEF LInv
    <3>3. CASE input # Rest(op, a)
      <4>1. input' = Rest(op, a) /\ Now' = Now
        BY <1>4, <2>2, <3>0, <3>3, ToOperation DEF Line, Left
      <4>2. input' \in Left(op, a)
        BY <4>1 DEF Left
      <4>3. NextLine' = [op |-> op, addr |-> a]
        BY <3>0, <4>2, OneUnread, LineNow
      <4>4. Shape'
        BY <4>2, ShapeNext DEF Shape
      <4> QED
        BY <1>2, <3>1, <4>1, <4>3, <4>4 DEF LInv
    <3> QED
      BY <3>2, <3>3
  <2> QED
    BY <2>1, <2>2 DEF LInv, Shape
<1>5. CASE EndOfFile \/ UNCHANGED vars
  <2>1. input' = input /\ Now' = Now
    BY <1>5 DEF EndOfFile, vars, Now
  <2>2. NextLine' = NextLine
    BY <2>1, LineNow
  <2>3. Shape'
    <3>1. CASE Between
      BY <2>1, <3>1, ShapeNext DEF Between, Shape
    <3>2. ASSUME NEW op \in Ops, NEW a \in Addresses, Line(op, a)
          PROVE  Shape'
      BY <2>1, <3>2, ShapeNext DEF Line, Shape
    <3> QED
      BY <3>1, <3>2 DEF LInv, Shape
  <2> QED
    BY <1>2, <2>1, <2>2, <2>3 DEF LInv
<1> QED
  BY <1>3, <1>4, <1>5 DEF Next

(* For every geometry, trace and file layout the simulator is a cache with *)
(* least-recently-used replacement, and simulates each line of the trace   *)
(* once, in order (csim.c:84-155, 192-204).                                *)
THEOREM SimulatesLru == Spec => IsLruCache
<1>1. Init => LInv /\ Lru!Init
  BY StartsRight
<1>2. LInv /\ [Next]_vars => LInv' /\ [Lru!Read \/ Lru!Simulate]_<<[x \in Sets |-> ByRecency(x)],
                                     [hits |-> hit, misses |-> miss, evictions |-> evict], NextLine>>
  BY StepImplements
<1> QED
  BY <1>1, <1>2, PTL DEF Spec, IsLruCache, Lru!Spec, NextLine
=============================================================================
