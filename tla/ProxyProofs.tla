---------------------------- MODULE ProxyProofs -----------------------------
(***************************************************************************)
(* Proofs about Proxy, for any number of threads, URIs, buffers and any    *)
(* sizes.  The semaphores of proxy.c count what they should and the        *)
(* readers-writer lock excludes.  On top of that, about the cache: when no *)
(* insertion is under way total_size is the sum of the sizes in the list,  *)
(* every block owns one buffer, nothing is leaked or freed twice, and      *)
(* every pointer a thread holds is into the list.                          *)
(***************************************************************************)
EXTENDS Proxy, FiniteSetTheorems, SequenceTheorems, WellFoundedInduction, TLAPS

----------------------------------------------------------------------------
(* The semaphores                                                          *)

Cnt(S) == Cardinality(AtOneOf(S))
Bit(b) == IF b THEN 1 ELSE 0

(* What mutex and the threads past it add up to. *)
Kept == IF lost THEN 0 ELSE 1

(* What the semaphores and the labels of the threads are. *)
Labelled == /\ pc \in [Threads -> Labels]
            /\ mutex \in Nat /\ op_mut \in Nat /\ cache_mut \in Nat /\ readcnt \in Nat
            /\ lost \in BOOLEAN

(* The inductive invariant.  SemaphoresCount relates every semaphore to    *)
(* the threads inside what it guards; with the labels typed it is closed   *)
(* under every step.                                                       *)
IInv == Labelled /\ SemaphoresCount

----------------------------------------------------------------------------
(* The threads at one of the labels S are finitely many; a thread that is  *)
(* there makes their number positive.                                      *)
LEMMA CntType ==
  ASSUME NEW S
  PROVE  /\ IsFiniteSet(AtOneOf(S))
         /\ Cnt(S) \in Nat
         /\ Cnt(S) = 0 <=> AtOneOf(S) = {}
         /\ \A t \in Threads : pc[t] \in S => Cnt(S) >= 1
<1>1. IsFiniteSet(AtOneOf(S))
  <2>1. AtOneOf(S) \in SUBSET Threads
    BY DEF AtOneOf
  <2> QED
    BY <2>1, FS_Subset, ProxyAssumption
<1>2. Cnt(S) \in Nat
  BY <1>1, FS_CardinalityType DEF Cnt
<1>3. Cnt(S) = 0 <=> AtOneOf(S) = {}
  BY <1>1, FS_EmptySet DEF Cnt
<1>4. ASSUME NEW t \in Threads, pc[t] \in S
      PROVE  Cnt(S) >= 1
  <2>1. AtOneOf(S) # {}
    BY <1>4 DEF AtOneOf
  <2> QED
    BY <2>1, <1>2, <1>3
<1> QED
  BY <1>1, <1>2, <1>3, <1>4

(* A thread that goes from its label to l changes the number of threads at *)
(* the labels S by what its old and its new label say.                     *)
LEMMA Move ==
  ASSUME pc \in [Threads -> Labels], NEW t \in Threads, NEW l \in Labels,
         Goto(t, l), NEW S
  PROVE  Cnt(S)' = Cnt(S) + Bit(l \in S) - Bit(pc[t] \in S)
<1> DEFINE A == AtOneOf(S)
<1>1. IsFiniteSet(A) /\ Cnt(S) \in Nat
  BY CntType
<1>2. CASE l \in S
  <2>1. AtOneOf(S)' = A \cup {t}
    BY <1>2 DEF AtOneOf, Goto
  <2>2. t \in A <=> pc[t] \in S
    BY DEF AtOneOf
  <2>3. Cardinality(A \cup {t}) = IF t \in A THEN Cardinality(A) ELSE Cardinality(A) + 1
    BY <1>1, FS_AddElement
  <2> QED
    BY <1>1, <1>2, <2>1, <2>2, <2>3 DEF Cnt, Bit
<1>3. CASE l \notin S
  <2>1. AtOneOf(S)' = A \ {t}
    BY <1>3 DEF AtOneOf, Goto
  <2>2. t \in A <=> pc[t] \in S
    BY DEF AtOneOf
  <2>3. Cardinality(A \ {t}) = IF t \in A THEN Cardinality(A) - 1 ELSE Cardinality(A)
    BY <1>1, FS_RemoveElement
  <2> QED
    BY <1>1, <1>3, <2>1, <2>2, <2>3 DEF Cnt, Bit
<1> QED
  BY <1>2, <1>3

(* Readers that hold op_mut and readers that have entered are different    *)
(* threads.                                                                *)
LEMMA ReadersSplit ==
  Cnt(Reading \cup {"first"}) = Cnt(Reading) + Cnt({"first"})
<1> DEFINE R == AtOneOf(Reading)
           F == AtOneOf({"first"})
<1>1. IsFiniteSet(R) /\ IsFiniteSet(F)
  BY CntType
<1>2. AtOneOf(Reading \cup {"first"}) = R \cup F
  BY DEF AtOneOf
<1>3. R \cap F = {}
  BY DEF AtOneOf, Reading
<1>4. Cardinality(R \cup F) = Cardinality(R) + Cardinality(F) - Cardinality(R \cap F)
  BY <1>1, FS_Union
<1>5. Cardinality(R \cap F) = 0
  BY <1>3, FS_EmptySet
<1>6. Cardinality(R) \in Nat /\ Cardinality(F) \in Nat
  BY <1>1, FS_CardinalityType
<1>7. Cardinality(R \cup F) = Cardinality(R) + Cardinality(F)
  <2> HIDE DEF R, F
  <2> QED
    BY <1>4, <1>5, <1>6
<1> QED
  BY <1>2, <1>7 DEF Cnt

LEMMA NoReaders == Cnt(Reading) = 0 <=> AtOneOf(Reading) = {}
  BY CntType

(* SemaphoresCount over the five numbers it depends on. *)
LEMMA CountForm ==
  SemaphoresCount <=>
    /\ mutex + Cnt(InMutex) = Kept
    /\ op_mut + Cnt({"first"}) = 1
    /\ readcnt = Cnt(Reading) + Cnt({"first"})
    /\ cache_mut + Cnt(Writing) + Bit(Cnt(Reading) # 0) = 1
<1>1. Bit(Cnt(Reading) # 0) = IF AtOneOf(Reading) = {} THEN 0 ELSE 1
  BY NoReaders DEF Bit
<1> QED
  BY <1>1, ReadersSplit DEF SemaphoresCount, Cnt, Kept

(* The five numbers after a step of t to l. *)
Moved(t, l, S) == Cnt(S)' = Cnt(S) + Bit(l \in S) - Bit(pc[t] \in S)

LEMMA MoveAll ==
  ASSUME IInv, NEW t \in Threads, NEW l \in Labels, Goto(t, l)
  PROVE  /\ Moved(t, l, InMutex) /\ Moved(t, l, {"first"})
         /\ Moved(t, l, Reading) /\ Moved(t, l, Writing)
         /\ pc' \in [Threads -> Labels]
         /\ Cnt(InMutex) \in Nat /\ Cnt({"first"}) \in Nat
         /\ Cnt(Reading) \in Nat /\ Cnt(Writing) \in Nat
         /\ pc[t] \in InMutex => Cnt(InMutex) >= 1
         /\ pc[t] \in {"first"} => Cnt({"first"}) >= 1
         /\ pc[t] \in Reading => Cnt(Reading) >= 1
         /\ pc[t] \in Writing => Cnt(Writing) >= 1
<1>1. pc \in [Threads -> Labels]
  BY DEF IInv, Labelled
<1>2. /\ Moved(t, l, InMutex) /\ Moved(t, l, {"first"})
      /\ Moved(t, l, Reading) /\ Moved(t, l, Writing)
  BY <1>1, Move DEF Moved
<1>3. pc' \in [Threads -> Labels]
  BY <1>1 DEF Goto
<1>4. /\ Cnt(InMutex) \in Nat /\ (pc[t] \in InMutex => Cnt(InMutex) >= 1)
      /\ Cnt({"first"}) \in Nat /\ (pc[t] \in {"first"} => Cnt({"first"}) >= 1)
      /\ Cnt(Reading) \in Nat /\ (pc[t] \in Reading => Cnt(Reading) >= 1)
      /\ Cnt(Writing) \in Nat /\ (pc[t] \in Writing => Cnt(Writing) >= 1)
  BY CntType
<1> QED
  BY <1>2, <1>3, <1>4

(* SemaphoresCount after the step, from the five numbers after it. *)
LEMMA CountFormPrime ==
  ASSUME /\ mutex' + Cnt(InMutex)' = Kept'
         /\ op_mut' + Cnt({"first"})' = 1
         /\ readcnt' = Cnt(Reading)' + Cnt({"first"})'
         /\ cache_mut' + Cnt(Writing)' + Bit(Cnt(Reading)' # 0) = 1
  PROVE  SemaphoresCount'
<1>1. (Cnt(Reading \cup {"first"}) = Cnt(Reading) + Cnt({"first"}))'
  BY ReadersSplit, PTL
<1>2. (Cnt(Reading) = 0 <=> AtOneOf(Reading) = {})'
  BY NoReaders, PTL
<1>3. Bit(Cnt(Reading)' # 0) = (IF AtOneOf(Reading) = {} THEN 0 ELSE 1)'
  BY <1>2 DEF Bit
<1> QED
  BY <1>1, <1>3 DEF SemaphoresCount, Cnt, Kept

(* The semaphores after a step of t to l, over the numbers before it. *)
Balanced(t, l) ==
  /\ mutex' \in Nat /\ op_mut' \in Nat /\ cache_mut' \in Nat /\ readcnt' \in Nat
  /\ lost' = lost
  /\ mutex' - mutex = Bit(pc[t] \in InMutex) - Bit(l \in InMutex)
  /\ op_mut' - op_mut = Bit(pc[t] \in {"first"}) - Bit(l \in {"first"})
  /\ readcnt' - readcnt = Bit(l \in Reading) + Bit(l \in {"first"})
                           - Bit(pc[t] \in Reading) - Bit(pc[t] \in {"first"})
  /\ LET r == Cnt(Reading) + Bit(l \in Reading) - Bit(pc[t] \in Reading)
     IN  cache_mut' - cache_mut =
           Bit(pc[t] \in Writing) - Bit(l \in Writing)
           + Bit(Cnt(Reading) # 0) - Bit(r # 0)

LEMMA BalancedStep ==
  ASSUME IInv, NEW t \in Threads, NEW l \in Labels, Goto(t, l), Balanced(t, l)
  PROVE  IInv'
<1>1. /\ Moved(t, l, InMutex) /\ Moved(t, l, {"first"})
      /\ Moved(t, l, Reading) /\ Moved(t, l, Writing)
      /\ Cnt(InMutex) \in Nat /\ Cnt({"first"}) \in Nat
      /\ Cnt(Reading) \in Nat /\ Cnt(Writing) \in Nat
  BY MoveAll
<1>2. Labelled'
  <2>1. lost \in BOOLEAN /\ lost' = lost
    BY DEF IInv, Labelled, Balanced
  <2>2. pc' \in [Threads -> Labels]
    BY MoveAll
  <2>3. mutex' \in Nat /\ op_mut' \in Nat /\ cache_mut' \in Nat /\ readcnt' \in Nat
    BY DEF Balanced
  <2> QED
    BY <2>1, <2>2, <2>3 DEF Labelled
<1>3. /\ mutex + Cnt(InMutex) = Kept
      /\ op_mut + Cnt({"first"}) = 1
      /\ readcnt = Cnt(Reading) + Cnt({"first"})
      /\ cache_mut + Cnt(Writing) + Bit(Cnt(Reading) # 0) = 1
  BY CountForm DEF IInv
<1>4. mutex \in Nat /\ op_mut \in Nat /\ cache_mut \in Nat /\ readcnt \in Nat
  BY DEF IInv, Labelled
<1> DEFINE In(S) == Bit(l \in S)
           Was(S) == Bit(pc[t] \in S)
<1>9. /\ In(InMutex) \in Int /\ Was(InMutex) \in Int
      /\ In({"first"}) \in Int /\ Was({"first"}) \in Int
      /\ In(Reading) \in Int /\ Was(Reading) \in Int
      /\ In(Writing) \in Int /\ Was(Writing) \in Int
  BY DEF Bit
<1>10. /\ Cnt(InMutex)' = Cnt(InMutex) + In(InMutex) - Was(InMutex)
       /\ Cnt({"first"})' = Cnt({"first"}) + In({"first"}) - Was({"first"})
       /\ Cnt(Reading)' = Cnt(Reading) + In(Reading) - Was(Reading)
       /\ Cnt(Writing)' = Cnt(Writing) + In(Writing) - Was(Writing)
  BY <1>1 DEF Moved
<1>11. /\ mutex' - mutex = Was(InMutex) - In(InMutex)
       /\ op_mut' - op_mut = Was({"first"}) - In({"first"})
       /\ readcnt' - readcnt = In(Reading) + In({"first"}) - Was(Reading) - Was({"first"})
       /\ cache_mut' - cache_mut = Was(Writing) - In(Writing) + Bit(Cnt(Reading) # 0)
                                   - Bit(Cnt(Reading) + In(Reading) - Was(Reading) # 0)
       /\ mutex' \in Nat /\ op_mut' \in Nat /\ cache_mut' \in Nat /\ readcnt' \in Nat
  BY DEF Balanced
<1>14. Kept' = Kept /\ Kept \in Int
  BY DEF Balanced, Kept
<1>12. Bit(Cnt(Reading)' # 0) = Bit(Cnt(Reading) + In(Reading) - Was(Reading) # 0)
  BY <1>10
<1>13. Bit(Cnt(Reading)' # 0) \in Int /\ Bit(Cnt(Reading) # 0) \in Int
  BY DEF Bit
<1> HIDE DEF In, Was
<1>5. mutex' + Cnt(InMutex)' = Kept'
  <2>1. mutex + Cnt(InMutex) = Kept /\ mutex \in Nat /\ Cnt(InMutex) \in Nat
    BY <1>1, <1>3, <1>4
  <2>2. Cnt(InMutex)' = Cnt(InMutex) + In(InMutex) - Was(InMutex)
    BY <1>10
  <2>3. mutex' - mutex = Was(InMutex) - In(InMutex) /\ mutex' \in Nat
    BY <1>11
  <2> QED
    BY <1>9, <1>14, <2>1, <2>2, <2>3
<1>6. op_mut' + Cnt({"first"})' = 1
  BY <1>1, <1>3, <1>4, <1>9, <1>10, <1>11
<1>7. readcnt' = Cnt(Reading)' + Cnt({"first"})'
  BY <1>1, <1>3, <1>4, <1>9, <1>10, <1>11
<1>8. cache_mut' + Cnt(Writing)' + Bit(Cnt(Reading)' # 0) = 1
  <2>1. cache_mut + Cnt(Writing) + Bit(Cnt(Reading) # 0) = 1 /\ cache_mut \in Nat /\ Cnt(Writing) \in Nat
    BY <1>1, <1>3, <1>4
  <2>2. Cnt(Writing)' = Cnt(Writing) + In(Writing) - Was(Writing)
    BY <1>10
  <2>3. /\ cache_mut' - cache_mut = Was(Writing) - In(Writing) + Bit(Cnt(Reading) # 0) - Bit(Cnt(Reading)' # 0)
        /\ cache_mut' \in Nat
    BY <1>11, <1>12
  <2> QED
    BY <1>9, <1>13, <2>1, <2>2, <2>3
<1> QED
  BY <1>2, <1>5, <1>6, <1>7, <1>8, CountFormPrime DEF IInv


(* Every step of a thread moves one thread between two labels and    *)
(* takes from the semaphores what the labels account for.                  *)
LEMMA ThreadStep ==
  ASSUME IInv, NEW t \in Threads, Step(t) \/ Client(t) \/ EndOfResponse(t)
  PROVE  IInv'
<1> DEFINE nR == Cnt(Reading)
           nF == Cnt({"first"})
           nW == Cnt(Writing)
<1>1. /\ pc \in [Threads -> Labels]
      /\ mutex \in Nat /\ op_mut \in Nat /\ cache_mut \in Nat /\ readcnt \in Nat
      /\ lost \in BOOLEAN
  BY DEF IInv, Labelled
<1>2. nR \in Nat /\ nF \in Nat /\ nW \in Nat
  BY CntType
<1>3. /\ pc[t] = "first" => nF >= 1
      /\ pc[t] = "leave" => nR >= 1
      /\ pc[t] \in Writing => nW >= 1
  BY CntType DEF Reading
<1>4. /\ op_mut + nF = 1
      /\ readcnt = nR + nF
      /\ cache_mut + nW + Bit(nR # 0) = 1
  BY CountForm DEF IInv
<1>5. SUFFICES \E l \in Labels : Goto(t, l) /\ Balanced(t, l)
  BY BalancedStep
<1> HIDE DEF nR, nF, nW
<1>6. ASSUME NEW l \in Labels, Goto(t, l),
             mutex' \in Nat, op_mut' \in Nat, cache_mut' \in Nat, readcnt' \in Nat,
             lost' = lost,
             mutex' - mutex = Bit(pc[t] \in InMutex) - Bit(l \in InMutex),
             op_mut' - op_mut = Bit(pc[t] \in {"first"}) - Bit(l \in {"first"}),
             readcnt' - readcnt = Bit(l \in Reading) + Bit(l \in {"first"})
                                  - Bit(pc[t] \in Reading) - Bit(pc[t] \in {"first"}),
             cache_mut' - cache_mut =
               Bit(pc[t] \in Writing) - Bit(l \in Writing)
               + Bit(nR # 0) - Bit(nR + Bit(l \in Reading) - Bit(pc[t] \in Reading) # 0)
      PROVE  \E k \in Labels : Goto(t, k) /\ Balanced(t, k)
  BY <1>6 DEF Balanced, nR
\* A step that leaves the semaphores alone stays on the same side of each.
<1>7. ASSUME NEW l \in Labels, Goto(t, l), UNCHANGED sems,
             l \in InMutex <=> pc[t] \in InMutex,
             l = "first" <=> pc[t] = "first",
             l \in Reading <=> pc[t] \in Reading,
             l \in Writing <=> pc[t] \in Writing
      PROVE  \E k \in Labels : Goto(t, k) /\ Balanced(t, k)
  <2>1. /\ Bit(l \in InMutex) = Bit(pc[t] \in InMutex)
        /\ Bit(l \in {"first"}) = Bit(pc[t] \in {"first"})
        /\ Bit(l \in Reading) = Bit(pc[t] \in Reading)
        /\ Bit(l \in Writing) = Bit(pc[t] \in Writing)
    BY <1>7 DEF Bit
  <2>2. /\ Bit(pc[t] \in InMutex) \in Nat /\ Bit(pc[t] \in {"first"}) \in Nat
        /\ Bit(pc[t] \in Reading) \in Nat /\ Bit(pc[t] \in Writing) \in Nat
        /\ Bit(nR # 0) \in Nat
    BY DEF Bit
  <2>3. nR + Bit(l \in Reading) - Bit(pc[t] \in Reading) = nR
    BY <1>2, <2>1, <2>2
  <2>4. /\ mutex' = mutex /\ op_mut' = op_mut /\ cache_mut' = cache_mut
        /\ readcnt' = readcnt /\ lost' = lost
    BY <1>7 DEF sems
  <2> QED
    BY <1>1, <1>6, <1>7, <2>1, <2>2, <2>3, <2>4
<1>10. CASE ReadRequest(t)
  <2>1. Goto(t, "enter") /\ UNCHANGED sems
    BY <1>10 DEF ReadRequest, sems
  <2> QED
    BY <1>7, <1>10, <2>1 DEF ReadRequest, At, Labels, InMutex, Reading, Writing
<1>11. CASE Load(t)
  <2>1. Goto(t, "store") /\ UNCHANGED sems
    BY <1>11 DEF Load, sems
  <2> QED
    BY <1>7, <1>11, <2>1 DEF Load, At, Labels, InMutex, Reading, Writing
<1>12. CASE ReadBlock(t)
  <2>1. Goto(t, "write") /\ UNCHANGED sems
    BY <1>12 DEF ReadBlock, sems
  <2> QED
    BY <1>7, <1>12, <2>1 DEF ReadBlock, At, Labels, InMutex, Reading, Writing
<1>13. CASE WriteBlock(t)
  <2>1. Goto(t, "written") /\ UNCHANGED sems
    BY <1>13 DEF WriteBlock, sems
  <2> QED
    BY <1>7, <1>13, <2>1 DEF WriteBlock, At, Labels, InMutex, Reading, Writing
<1>14. CASE LockMiss(t)
  <2>1. Goto(t, "parse") /\ UNCHANGED sems
    BY <1>14 DEF LockMiss, sems
  <2> QED
    BY <1>7, <1>14, <2>1 DEF LockMiss, At, Labels, InMutex, Reading, Writing
<1>15. CASE AddBlock(t)
  <2>1. Goto(t, "inserted") /\ UNCHANGED sems
    BY <1>15 DEF AddBlock, sems
  <2> QED
    BY <1>7, <1>15, <2>1 DEF AddBlock, At, Labels, InMutex, Reading, Writing
<1>16. CASE EvictFree(t)
  <2>1. Goto(t, "refill") /\ UNCHANGED sems
    BY <1>16 DEF EvictFree, sems
  <2> QED
    BY <1>7, <1>16, <2>1 DEF EvictFree, At, Labels, InMutex, Reading, Writing
<1>17. CASE EvictRefill(t)
  <2>1. Goto(t, "resize") /\ UNCHANGED sems
    BY <1>17 DEF EvictRefill, sems
  <2> QED
    BY <1>7, <1>17, <2>1 DEF EvictRefill, At, Labels, InMutex, Reading, Writing
<1>18. CASE EvictResize(t)
  <2>1. Goto(t, "inserted") /\ UNCHANGED sems
    BY <1>18 DEF EvictResize, sems
  <2> QED
    BY <1>7, <1>18, <2>1 DEF EvictResize, At, Labels, InMutex, Reading, Writing
<1>19. CASE Inquire(t)
  <2>1. UNCHANGED sems /\ \E l \in {"load", "leave"} : Goto(t, l)
    BY <1>19 DEF Inquire, Return, sems
  <2> QED
    BY <1>7, <1>19, <2>1 DEF Inquire, At, Labels, InMutex, Reading, Writing
<1>20. CASE Store(t)
  <2>1. UNCHANGED sems /\ \E l \in {"load", "leave"} : Goto(t, l)
    BY <1>20 DEF Store, Return, sems
  <2> QED
    BY <1>7, <1>20, <2>1 DEF Store, At, Labels, InMutex, Reading, Writing
<1>21. CASE Parse(t)
  <2>1. UNCHANGED sems /\ \E l \in {"fetch", "idle"} : Goto(t, l)
    BY <1>21 DEF Parse, Return, sems
  <2> QED
    BY <1>7, <1>21, <2>1 DEF Parse, At, Labels, InMutex, Reading, Writing
<1>22. CASE EndOfResponse(t)
  <2>1. UNCHANGED sems /\ \E l \in {"insert", "idle"} : Goto(t, l)
    BY <1>22 DEF EndOfResponse, Return, sems
  <2> QED
    BY <1>7, <1>22, <2>1 DEF EndOfResponse, At, Labels, InMutex, Reading, Writing
<1>23. CASE Create(t)
  <2>1. "start" \in Labels /\ Goto(t, "start")
    BY <1>23 DEF Create, Labels, InMutex, Reading, Writing
  <2> QED
    BY <1>1, <1>2, <1>3, <1>4, <1>6, <1>23, <2>1 DEF Create, At, Bit, sems, InMutex, Reading, Writing
<1>24. CASE ThreadStart(t)
  <2>1. "read" \in Labels /\ Goto(t, "read")
    BY <1>24 DEF ThreadStart, Labels, InMutex, Reading, Writing
  <2> QED
    BY <1>1, <1>2, <1>3, <1>4, <1>6, <1>24, <2>1 DEF ThreadStart, At, Bit, sems, InMutex, Reading, Writing
<1>25. CASE Enter(t)
  <2>1. "first" \in Labels /\ Goto(t, "first")
    BY <1>25 DEF Enter, Labels, InMutex, Reading, Writing
  <2> QED
    BY <1>1, <1>2, <1>3, <1>4, <1>6, <1>25, <2>1 DEF Enter, At, Bit, sems, InMutex, Reading, Writing
<1>26. CASE LockHit(t)
  <2>1. "hit" \in Labels /\ Goto(t, "hit")
    BY <1>26 DEF LockHit, Labels, InMutex, Reading, Writing
  <2> QED
    BY <1>1, <1>2, <1>3, <1>4, <1>6, <1>26, <2>1 DEF LockHit, At, Bit, sems, InMutex, Reading, Writing
<1>27. CASE UnlockHit(t)
  <2>1. "idle" \in Labels /\ Goto(t, "idle")
    BY <1>27 DEF UnlockHit, Return, Labels, InMutex, Reading, Writing
  <2> QED
    BY <1>1, <1>2, <1>3, <1>4, <1>6, <1>27, <2>1 DEF UnlockHit, At, Bit, sems, InMutex, Reading, Writing
<1>28. CASE UnlockInsert(t)
  <2>1. "idle" \in Labels /\ Goto(t, "idle")
    BY <1>28 DEF UnlockInsert, Return, Labels, InMutex, Reading, Writing
  <2> QED
    BY <1>1, <1>2, <1>3, <1>4, <1>6, <1>28, <2>1 DEF UnlockInsert, At, Bit, sems, InMutex, Reading, Writing
<1>29. CASE First(t)
  <2>1. "inquire" \in Labels /\ Goto(t, "inquire")
    BY <1>29 DEF First, Labels, InMutex, Reading, Writing
  <2> QED
    BY <1>1, <1>2, <1>3, <1>4, <1>6, <1>29, <2>1 DEF First, At, Bit, sems, InMutex, Reading, Writing
<1>30. CASE Leave(t)
  <2>1. "choose" \in Labels /\ Goto(t, "choose")
    BY <1>30 DEF Leave, Labels, InMutex, Reading, Writing
  <2> QED
    BY <1>1, <1>2, <1>3, <1>4, <1>6, <1>30, <2>1 DEF Leave, At, Bit, sems, InMutex, Reading, Writing
<1>31. CASE LockInsert(t)
  <2>1. PICK l \in {"add", "evict"} : Goto(t, l)
    BY <1>31 DEF LockInsert
  <2>2. l \in Labels
    BY <2>1 DEF Labels, InMutex, Reading, Writing
  <2> QED
    BY <1>1, <1>2, <1>3, <1>4, <1>6, <1>31, <2>1, <2>2 DEF LockInsert, At, Bit, sems, InMutex, Reading, Writing
<1> QED
  BY <1>10, <1>11, <1>12, <1>13, <1>14, <1>15, <1>16, <1>17, <1>18, <1>19, <1>20, <1>21, <1>22, <1>23, <1>24, <1>25, <1>26, <1>27, <1>28, <1>29, <1>30, <1>31
  DEF Step, Client, Lookup, Insert

LEMMA CntNone == (\A t \in Threads : pc[t] = "idle") =>
                    \A S : "idle" \notin S => Cnt(S) = 0
<1>1. ASSUME \A t \in Threads : pc[t] = "idle", NEW S, "idle" \notin S
      PROVE  Cnt(S) = 0
  <2>1. AtOneOf(S) = {}
    BY <1>1 DEF AtOneOf
  <2> QED
    BY <2>1, CntType
<1> QED
  BY <1>1

LEMMA InitIInv == Init => IInv
<1> SUFFICES ASSUME Init PROVE IInv
  OBVIOUS
<1>1. \A t \in Threads : pc[t] = "idle"
  BY DEF Init
<1>2. /\ Cnt(InMutex) = 0 /\ Cnt({"first"}) = 0 /\ Cnt(Reading) = 0 /\ Cnt(Writing) = 0
  BY <1>1, CntNone DEF InMutex, Reading, Writing
<1>3. SemaphoresCount
  <2>1. mutex = 1 /\ op_mut = 1 /\ cache_mut = 1 /\ readcnt = 0 /\ lost = FALSE
    BY DEF Init
  <2>2. Bit(Cnt(Reading) # 0) = 0 /\ Kept = 1
    BY <1>2, <2>1 DEF Bit, Kept
  <2> QED
    BY <1>2, <2>1, <2>2, CountForm
<1>4. Labelled
  BY DEF Init, Labelled, Labels
<1> QED
  BY <1>3, <1>4 DEF IInv

(* A step that moves no thread and no semaphore keeps the invariant. *)
LEMMA NothingMoves == IInv /\ UNCHANGED <<pc, sems>> => IInv'
  BY DEF IInv, Labelled, SemaphoresCount, AtOneOf, sems

(* A thread that was not started: the mutex main() took is lost with it,   *)
(* and no thread is inside.                                                *)
LEMMA CreateFailsStep == IInv /\ CreateFails => IInv'
<1> SUFFICES ASSUME IInv, CreateFails PROVE IInv'
  OBVIOUS
<1>1. /\ pc' = pc /\ mutex > 0 /\ mutex' = mutex - 1 /\ lost' = TRUE
      /\ op_mut' = op_mut /\ cache_mut' = cache_mut /\ readcnt' = readcnt
  BY DEF CreateFails
<1>2. \A S : AtOneOf(S)' = AtOneOf(S)
  BY <1>1 DEF AtOneOf
<1>3. mutex + Cnt(InMutex) = Kept /\ mutex \in Nat /\ Cnt(InMutex) \in Nat
  BY CountForm, CntType DEF IInv, Labelled
<1>4. mutex' + Cnt(InMutex) = 0 /\ mutex' \in Nat
  BY <1>1, <1>3 DEF Kept
<1> QED
  BY <1>1, <1>2, <1>4 DEF IInv, Labelled, SemaphoresCount, Cnt

LEMMA NextIInv == IInv /\ [Next]_vars => IInv'
<1> SUFFICES ASSUME IInv, [Next]_vars PROVE IInv'
  OBVIOUS
<1>1. CASE Accept
  BY <1>1, NothingMoves DEF Accept
<1>2. CASE Fail
  BY <1>2, NothingMoves DEF Fail
<1>3. CASE Over \/ UNCHANGED vars
  BY <1>3, NothingMoves DEF Over, vars, sems
<1>4. ASSUME NEW t \in Threads, ReadPiece(t)
      PROVE  IInv'
  BY <1>4, NothingMoves DEF ReadPiece
<1>5. ASSUME NEW t \in Threads, Step(t) \/ Client(t) \/ EndOfResponse(t)
      PROVE  IInv'
  BY <1>5, ThreadStep
<1>6. CASE CreateFails
  BY <1>6, CreateFailsStep
<1> QED
  BY <1>1, <1>2, <1>3, <1>4, <1>5, <1>6 DEF Next, Server

(* No V() of the proxy is made twice, no semaphore has two owners, and the *)
(* only V() ever lost is that of a thread pthread_create() did not start.  *)
THEOREM SemaphoresHold == Spec => []SemaphoresCount
<1>1. IInv => SemaphoresCount
  BY DEF IInv
<1> QED
  BY <1>1, InitIInv, NextIInv, PTL DEF Spec

(* One writer at one of the labels S1, another thread at S2, are counted   *)
(* twice.                                                                  *)
LEMMA TwoAtOnce ==
  ASSUME NEW S, NEW t \in Threads, NEW o \in Threads, t # o, pc[t] \in S, pc[o] \in S
  PROVE  Cnt(S) >= 2
<1>1. {t, o} \in SUBSET AtOneOf(S)
  BY DEF AtOneOf
<1>2. IsFiniteSet(AtOneOf(S)) /\ Cnt(S) \in Nat
  BY CntType
<1>3. IsFiniteSet({t}) /\ Cardinality({t}) = 1
  BY FS_Singleton
<1>4. Cardinality({t} \cup {o}) = 2
  <2>1. Cardinality({t} \cup {o}) =
          IF o \in {t} THEN Cardinality({t}) ELSE Cardinality({t}) + 1
    BY <1>3, FS_AddElement
  <2> QED
    BY <1>3, <2>1
<1>5. {t} \cup {o} = {t, o}
  OBVIOUS
<1>6. Cardinality({t, o}) <= Cardinality(AtOneOf(S))
  BY <1>1, <1>2, FS_Subset
<1> QED
  BY <1>2, <1>4, <1>5, <1>6 DEF Cnt

(* The readers-writer lock made of op_mut, readcnt and cache_mut excludes: *)
(* no lookup and no second insertion runs beside an insertion.             *)
THEOREM CacheIsGuarded == Spec => []ReadersExcludeWriter
<1>1. IInv => ReadersExcludeWriter
  <2> SUFFICES ASSUME IInv, NEW t \in Threads, NEW o \in Threads, t # o,
                      pc[t] \in Writing, pc[o] \in Reading \cup Writing
               PROVE  FALSE
    BY DEF ReadersExcludeWriter
  <2>1. cache_mut + Cnt(Writing) + Bit(Cnt(Reading) # 0) = 1 /\ cache_mut \in Nat
    BY CountForm DEF IInv, Labelled
  <2>2. /\ Cnt(Writing) \in Nat /\ Cnt(Writing) >= 1 /\ Cnt(Reading) \in Nat
        /\ pc[o] \in Reading => Cnt(Reading) >= 1
    BY CntType
  <2>3. CASE pc[o] \in Reading
    BY <2>1, <2>2, <2>3 DEF Bit
  <2>4. CASE pc[o] \in Writing
    <3>1. Cnt(Writing) >= 2
      BY <2>4, TwoAtOnce
    <3> QED
      BY <2>1, <2>2, <3>1 DEF Bit
  <2> QED
    BY <2>3, <2>4
<1> QED
  BY <1>1, InitIInv, NextIInv, PTL DEF Spec

----------------------------------------------------------------------------
(* The sum of the sizes of a list, by its partial sums *)

Sums(list, f) ==
  /\ f \in [0 .. Len(list) -> Nat]
  /\ f[0] = 0
  /\ \A n \in 1 .. Len(list) : f[n] = f[n - 1] + list[n].size

(* A property of numbers that fails at all fails first somewhere.          *)
LEMMA Least ==
  ASSUME NEW S, S \subseteq Nat, S # {}
  PROVE  \E x \in S : \A y \in S : x <= y
<1>1. PICK x \in S : \A y \in S : ~ (<<y, x>> \in OpToRel(<, Nat))
  BY NatLessThanWellFounded, WFMin
<1>2. \A y \in S : x <= y
  <2>1. SUFFICES ASSUME NEW y \in S PROVE x <= y
    OBVIOUS
  <2>2. x \in Nat /\ y \in Nat /\ ~ (y < x)
    BY <1>1 DEF OpToRel
  <2> QED BY <2>2
<1> QED BY <1>2

LEMMA BlockSizes ==
  ASSUME NEW list \in Seq(Block)
  PROVE  /\ Len(list) \in Nat
         /\ \A k \in 1 .. Len(list) : list[k] \in Block /\ list[k].size \in Nat
<1>1. \A k \in 1 .. Len(list) : list[k] \in Block
  OBVIOUS
<1>2. \A b \in Block : b.size \in Nat
  BY DEF Block
<1> QED BY <1>1, <1>2

LEMMA SumsExist ==
  ASSUME NEW list \in Seq(Block)
  PROVE  \E f : Sums(list, f)
<1> DEFINE Upto(n, f) == /\ f \in [0 .. n -> Nat]
                         /\ f[0] = 0
                         /\ \A k \in 1 .. n : f[k] = f[k - 1] + list[k].size
           S == {n \in 0 .. Len(list) : ~ \E f : Upto(n, f)}
<1>1. Len(list) \in Nat /\ \A k \in 1 .. Len(list) : list[k].size \in Nat
  BY BlockSizes
<1>2. SUFFICES ASSUME S # {} PROVE FALSE
  BY <1>1 DEF Sums
<1>3. PICK n \in S : \A y \in S : n <= y
  <2>1. S \subseteq Nat
    BY <1>1
  <2> HIDE DEF S
  <2> QED BY <1>2, <2>1, Least
<1>4. n # 0
  <2>1. Upto(0, [k \in 0 .. 0 |-> 0])
    OBVIOUS
  <2> QED BY <1>3, <2>1
<1>5. n - 1 \in 0 .. Len(list) /\ n - 1 \notin S /\ n \in 1 .. Len(list)
  <2>1. n - 1 \in 0 .. Len(list) /\ n \in 1 .. Len(list)
    BY <1>1, <1>3, <1>4
  <2>2. n - 1 \notin S
    <3> HIDE DEF S
    <3> QED BY <1>3, <2>1
  <2> QED BY <2>1, <2>2
<1>6. PICK f : Upto(n - 1, f)
  BY <1>5
<1>7. Upto(n, [k \in 0 .. n |-> IF k = n THEN f[n - 1] + list[n].size ELSE f[k]])
  BY <1>1, <1>5, <1>6, SMTT(30)
<1> QED BY <1>3, <1>7

(* Sizes are not negative: the sums grow.                                  *)
LEMMA SumsGrow ==
  ASSUME NEW list \in Seq(Block), NEW f, Sums(list, f),
         NEW i \in 0 .. Len(list), NEW k \in i .. Len(list)
  PROVE  f[i] <= f[k]
<1> DEFINE S == {n \in i .. Len(list) : ~ (f[i] <= f[n])}
<1>1. /\ Len(list) \in Nat /\ \A n \in 1 .. Len(list) : list[n].size \in Nat
      /\ \A n \in 0 .. Len(list) : f[n] \in Nat
  BY BlockSizes DEF Sums
<1>2. SUFFICES ASSUME S # {} PROVE FALSE
  BY <1>1
<1>3. PICK n \in S : \A y \in S : n <= y
  <2>1. S \subseteq Nat
    BY <1>1
  <2> HIDE DEF S
  <2> QED BY <1>2, <2>1, Least
<1>4. n # i /\ n \in i .. Len(list)
  BY <1>1, <1>3
<1>5. n - 1 \in i .. Len(list) /\ n - 1 \notin S /\ n \in 1 .. Len(list)
  <2>1. n - 1 \in i .. Len(list) /\ n \in 1 .. Len(list) /\ ~ (n <= n - 1)
    BY <1>1, <1>4
  <2> QED BY <1>3, <2>1
<1>6. f[i] <= f[n - 1] /\ f[n] = f[n - 1] + list[n].size
  BY <1>5 DEF Sums
<1> QED BY <1>1, <1>3, <1>5, <1>6

(* Two ways to add up give one sum.                                        *)
LEMMA SumsUnique ==
  ASSUME NEW list \in Seq(Block), NEW f, NEW g, Sums(list, f),
         g[0] = 0, \A n \in 1 .. Len(list) : g[n] = g[n - 1] + list[n].size
  PROVE  g[Len(list)] = f[Len(list)]
<1> DEFINE S == {n \in 0 .. Len(list) : g[n] # f[n]}
<1>1. Len(list) \in Nat
  OBVIOUS
<1>2. SUFFICES ASSUME S # {} PROVE FALSE
  BY <1>1
<1>3. PICK n \in S : \A y \in S : n <= y
  <2>1. S \subseteq Nat
    BY <1>1
  <2> HIDE DEF S
  <2> QED BY <1>2, <2>1, Least
<1>4. n # 0
  BY <1>3 DEF Sums
<1>5. n - 1 \in 0 .. Len(list) /\ n - 1 \notin S /\ n \in 1 .. Len(list)
  BY <1>1, <1>3, <1>4
<1>6. g[n - 1] = f[n - 1]
  BY <1>5
<1> QED BY <1>3, <1>5, <1>6 DEF Sums

LEMMA SumIs ==
  ASSUME NEW list \in Seq(Block), NEW f, Sums(list, f)
  PROVE  SumOfSizes(list) = f[Len(list)]
<1> DEFINE Is(g) == g = [n \in 0 .. Len(list) |-> IF n = 0 THEN 0 ELSE g[n - 1] + list[n].size]
           g == CHOOSE h : Is(h)
<1>1. Is(f)
  BY DEF Sums
<1>2. Is(g)
  BY <1>1
<1>3. SumOfSizes(list) = g[Len(list)]
  BY DEF SumOfSizes
<1> HIDE DEF g
<1>4. Len(list) \in Nat
  OBVIOUS
<1>5. g[0] = 0
  BY <1>2, <1>4
<1>6. \A n \in 1 .. Len(list) : g[n] = g[n - 1] + list[n].size
  <2> SUFFICES ASSUME NEW n \in 1 .. Len(list) PROVE g[n] = g[n - 1] + list[n].size
    OBVIOUS
  <2>1. n \in 0 .. Len(list) /\ n # 0
    BY <1>4
  <2> QED BY <1>2, <2>1
<1> QED BY <1>3, <1>5, <1>6, SumsUnique

(* What the three changes of the list do to the sum: a block in front      *)
(* (cache.c:41-54), another size for one block (cache.c:56-87), and        *)
(* anything that leaves the sizes alone.                                   *)
LEMMA SumOfNone == SumOfSizes(<< >>) = 0
<1>1. << >> \in Seq(Block) /\ Len(<< >>) = 0
  OBVIOUS
<1>2. Sums(<< >>, [n \in 0 .. 0 |-> 0])
  BY <1>1 DEF Sums
<1> QED BY <1>1, <1>2, SumIs

LEMMA SumOfAppend ==
  ASSUME NEW list \in Seq(Block), NEW blk \in Block
  PROVE  SumOfSizes(Append(list, blk)) = SumOfSizes(list) + blk.size
<1> DEFINE more == Append(list, blk)
           n == Len(list)
<1>1. PICK f : Sums(list, f)
  BY SumsExist
<1> DEFINE g == [k \in 0 .. n + 1 |-> IF k = n + 1 THEN f[n] + blk.size ELSE f[k]]
<1>2. /\ more \in Seq(Block) /\ Len(more) = n + 1 /\ n \in Nat /\ blk.size \in Nat
      /\ more[n + 1] = blk /\ \A k \in 1 .. n : more[k] = list[k]
  BY DEF Block
<1> HIDE DEF more, n
<1>3. Sums(more, g)
  <2>1. g \in [0 .. Len(more) -> Nat] /\ g[0] = 0
    BY <1>1, <1>2 DEF Sums, n
  <2>2. ASSUME NEW k \in 1 .. n + 1 PROVE g[k] = g[k - 1] + more[k].size
    <3>1. CASE k = n + 1
      BY <1>2, <3>1
    <3>2. CASE k # n + 1
      <4>1. k \in 1 .. n /\ k - 1 \in 0 .. n
        BY <1>2, <3>2
      <4>2. g[k] = f[k] /\ g[k - 1] = f[k - 1] /\ f[k] = f[k - 1] + list[k].size
        BY <1>1, <1>2, <4>1 DEF Sums, n
      <4> QED BY <1>2, <4>1, <4>2
    <3> QED BY <3>1, <3>2
  <2> QED BY <1>2, <2>1, <2>2 DEF Sums
<1>4. SumOfSizes(more) = f[n] + blk.size
  BY <1>2, <1>3, SumIs
<1>5. SumOfSizes(list) = f[n]
  BY <1>1, SumIs DEF n
<1> QED BY <1>4, <1>5 DEF more

LEMMA SumOfChanged ==
  ASSUME NEW list \in Seq(Block), NEW new \in Seq(Block), Len(new) = Len(list),
         NEW i \in 1 .. Len(list),
         \A k \in 1 .. Len(list) : k # i => new[k].size = list[k].size
  PROVE  /\ SumOfSizes(list) \in Nat
         /\ SumOfSizes(list) >= list[i].size
         /\ SumOfSizes(new) = SumOfSizes(list) - list[i].size + new[i].size
<1> DEFINE n == Len(list)
<1>1. PICK f : Sums(list, f)
  BY SumsExist
<1>2. /\ n \in Nat /\ list[i].size \in Nat /\ new[i].size \in Nat
      /\ \A k \in 0 .. n : f[k] \in Nat
      /\ f[i] = f[i - 1] + list[i].size /\ i - 1 \in 0 .. n
      /\ \A k \in i .. n : f[i] <= f[k]
  <2>1. n \in Nat /\ list[i].size \in Nat /\ new[i].size \in Nat
    BY BlockSizes
  <2>2. i \in 0 .. n /\ i - 1 \in 0 .. n
    BY <2>1
  <2> QED BY <1>1, <2>1, <2>2, SumsGrow DEF Sums
<1> DEFINE g == [k \in 0 .. n |-> IF k < i THEN f[k] ELSE f[k] - list[i].size + new[i].size]
<1>3. Sums(new, g)
  <2>1. g \in [0 .. n -> Nat] /\ g[0] = 0
    <3>1. ASSUME NEW k \in 0 .. n PROVE (IF k < i THEN f[k] ELSE f[k] - list[i].size + new[i].size) \in Nat
      <4>1. CASE k < i
        BY <1>2, <4>1
      <4>2. CASE ~ (k < i)
        <5>1. f[i] <= f[k] /\ f[k] \in Nat /\ f[i - 1] \in Nat
          BY <1>2, <4>2
        <5>2. f[k] - list[i].size \in Nat
          BY <1>2, <5>1
        <5> QED BY <1>2, <4>2, <5>2
      <4> QED BY <4>1, <4>2
    <3> QED BY <1>1, <1>2, <3>1 DEF Sums
  <2>2. ASSUME NEW k \in 1 .. n PROVE g[k] = g[k - 1] + new[k].size
    <3>1. /\ k \in 0 .. n /\ k - 1 \in 0 .. n /\ f[k] = f[k - 1] + list[k].size
          /\ f[k] \in Nat /\ f[k - 1] \in Nat /\ list[k].size \in Nat
      BY <1>1, <1>2, BlockSizes, SMTT(30) DEF Sums
    <3>2. CASE k < i
      <4>1. k - 1 < i
        BY <1>2, <3>2
      <4>2. g[k] = f[k] /\ g[k - 1] = f[k - 1]
        BY <3>1, <3>2, <4>1
      <4>3. new[k].size = list[k].size
        BY <1>2, <3>2
      <4> QED BY <3>1, <4>2, <4>3
    <3>3. CASE k = i
      BY <1>2, <3>1, <3>3
    <3>4. CASE k > i
      <4>1. ~ (k < i) /\ ~ (k - 1 < i)
        BY <1>2, <3>4
      <4>2. /\ g[k] = f[k] - list[i].size + new[i].size
            /\ g[k - 1] = f[k - 1] - list[i].size + new[i].size
        BY <3>1, <4>1
      <4>3. new[k].size = list[k].size
        BY <1>2, <3>4
      <4>4. list[i].size \in Nat /\ new[i].size \in Nat
        BY <1>2
      <4>5. ASSUME NEW a \in Nat, NEW b \in Nat, NEW c \in Nat, NEW d \in Nat
            PROVE  ((a + b) - c) + d = ((a - c) + d) + b
        BY <4>5
      <4>6. ((f[k - 1] + list[k].size) - list[i].size) + new[i].size
              = ((f[k - 1] - list[i].size) + new[i].size) + list[k].size
        BY <3>1, <4>4, <4>5, SMTT(30)
      <4>7. g[k] = ((f[k - 1] + list[k].size) - list[i].size) + new[i].size
        BY <3>1, <4>2
      <4> HIDE DEF g
      <4> QED BY <4>2, <4>3, <4>6, <4>7
    <3> QED BY <1>2, <3>2, <3>3, <3>4
  <2> QED BY <2>1, <2>2 DEF Sums
<1>4. SumOfSizes(list) = f[n] /\ SumOfSizes(new) = g[n]
  BY <1>1, <1>3, SumIs
<1>5. g[n] = f[n] - list[i].size + new[i].size /\ f[n] \in Nat /\ f[n] >= list[i].size
  <2>1. n \in i .. n /\ ~ (n < i)
    BY <1>2
  <2>2. f[i] <= f[n] /\ f[i - 1] \in Nat /\ f[n] \in Nat
    BY <1>2, <2>1
  <2> QED BY <1>2, <2>1, <2>2
<1> QED BY <1>4, <1>5

LEMMA SumOfSame ==
  ASSUME NEW list \in Seq(Block), NEW new \in Seq(Block), Len(new) = Len(list),
         \A k \in 1 .. Len(list) : new[k].size = list[k].size
  PROVE  SumOfSizes(new) = SumOfSizes(list)
<1>1. PICK f : Sums(list, f)
  BY SumsExist
<1>2. Sums(new, f)
  BY <1>1 DEF Sums
<1> QED BY <1>1, <1>2, SumIs

----------------------------------------------------------------------------
(* The loops over the list *)

(* The loop of cache_inquiry returns a block of the list or NULL.          *)
LEMMA FoundIsBlock ==
  ASSUME blocks \in Seq(Block), NEW u
  PROVE  Found(u) \in 0 .. Len(blocks)
<1> DEFINE M == Matching(u)
           S == {n \in 0 .. Len(blocks) : \A k \in M : k <= n}
<1>1. Len(blocks) \in Nat /\ DOMAIN blocks = 1 .. Len(blocks)
  OBVIOUS
<1>2. M \subseteq 1 .. Len(blocks)
  BY <1>1 DEF Matching
<1>3. CASE M = {}
  BY <1>1, <1>3 DEF Found, NULL
<1>4. CASE M # {}
  <2>1. PICK n \in S : \A y \in S : n <= y
    <3>1. S \subseteq Nat /\ Len(blocks) \in S
      BY <1>1, <1>2
    <3> HIDE DEF S
    <3> QED BY <3>1, Least
  <2>2. n \in M
    <3>1. SUFFICES ASSUME n \notin M PROVE FALSE
      OBVIOUS
    <3>2. n # 0
      BY <1>2, <1>4, <2>1
    <3>3. n - 1 \in S
      BY <1>1, <1>2, <2>1, <3>1, <3>2
    <3> QED BY <1>1, <2>1, <3>3
  <2>3. \E i \in M : \A k \in M : k <= i
    BY <2>1, <2>2
  <2>4. Found(u) \in M
    BY <1>4, <2>3 DEF Found
  <2> QED BY <1>1, <1>2, <2>4
<1> QED BY <1>3, <1>4

(* Among finitely many numbers there is a greatest one, the last of them.  *)
LEMMA GreatestLast ==
  ASSUME NEW N \in Nat, N # 0, NEW u, \A k \in 1 .. N : u[k] \in Nat
  PROVE  \E i \in 1 .. N : \A k \in 1 .. N : u[k] < u[i] \/ (u[k] = u[i] /\ k <= i)
<1> DEFINE Best(i, n) == \A k \in 1 .. n : u[k] < u[i] \/ (u[k] = u[i] /\ k <= i)
           S == {n \in 1 .. N : ~ \E i \in 1 .. n : Best(i, n)}
<1>1. SUFFICES S = {}
  <2>1. N \in 1 .. N
    OBVIOUS
  <2>2. S = {} => \E i \in 1 .. N : Best(i, N)
    <3> HIDE DEF Best
    <3> QED BY <2>1
  <2> QED BY <2>2
<1>2. SUFFICES ASSUME S # {} PROVE FALSE
  OBVIOUS
<1>3. PICK n \in S : \A y \in S : n <= y
  <2>1. S \subseteq Nat
    <3> HIDE DEF Best
    <3> QED OBVIOUS
  <2> HIDE DEF S
  <2> QED BY <1>2, <2>1, Least
<1>4. n \in 1 .. N /\ n \in Nat /\ n >= 1 /\ \A i \in 1 .. n : ~ Best(i, n)
  <2> HIDE DEF Best
  <2> QED BY <1>3
<1>5. n # 1
  <2>1. \A k \in 1 .. 1 : k = 1
    OBVIOUS
  <2>2. Best(1, 1)
    BY <1>4, <2>1
  <2>3. 1 \in 1 .. 1
    OBVIOUS
  <2> HIDE DEF Best
  <2> QED BY <1>4, <2>2, <2>3
<1>6. n - 1 \in 1 .. N /\ ~ (n <= n - 1)
  <2> HIDE DEF Best
  <2> QED BY <1>4, <1>5
<1>7. PICK i \in 1 .. n - 1 : Best(i, n - 1)
  <2>1. n - 1 \notin S
    <3> HIDE DEF S
    <3> QED BY <1>3, <1>6
  <2> HIDE DEF Best
  <2> QED BY <1>6, <2>1
<1>8. /\ i \in 1 .. n /\ i \in 1 .. N /\ u[i] \in Nat /\ u[n] \in Nat
      /\ n \in 1 .. n
      /\ \A k \in 1 .. n : k # n => k \in 1 .. n - 1 /\ k \in 1 .. N /\ k <= n
  <2> HIDE DEF Best
  <2> QED BY <1>4, <1>6, <1>7
<1>9. CASE u[n] < u[i]
  <2>1. ASSUME NEW k \in 1 .. n
        PROVE  u[k] < u[i] \/ (u[k] = u[i] /\ k <= i)
    <3>1. CASE k = n
      BY <1>9, <3>1
    <3>2. CASE k # n
      <4>1. k \in 1 .. n - 1
        <5> HIDE DEF Best
        <5> QED BY <1>8, <3>2
      <4> QED BY <1>7, <4>1
    <3> QED BY <3>1, <3>2
  <2>2. Best(i, n)
    BY <2>1
  <2> HIDE DEF Best
  <2> QED BY <1>4, <1>8, <2>2
<1>10. CASE ~ (u[n] < u[i])
  <2>1. ASSUME NEW k \in 1 .. n
        PROVE  u[k] < u[n] \/ (u[k] = u[n] /\ k <= n)
    <3>1. CASE k = n
      BY <1>4, <3>1
    <3>2. CASE k # n
      <4>1. k \in 1 .. n - 1 /\ k <= n /\ u[k] \in Nat
        <5> HIDE DEF Best
        <5> QED BY <1>8, <3>2
      <4>2. u[k] < u[i] \/ u[k] = u[i]
        BY <1>7, <4>1
      <4> HIDE DEF Best
      <4> QED BY <1>8, <1>10, <4>1, <4>2
    <3> QED BY <3>1, <3>2
  <2>2. Best(n, n)
    BY <2>1
  <2> HIDE DEF Best
  <2> QED BY <1>4, <1>8, <2>2
<1> QED BY <1>9, <1>10

(* The loop of cache_insert finds a victim in a list that is not empty.    *)
LEMMA VictimIsBlock ==
  ASSUME blocks \in Seq(Block), blocks # << >>
  PROVE  Victim \in 1 .. Len(blocks)
<1> DEFINE u == [k \in 1 .. Len(blocks) |-> blocks[k].ucount]
<1>1. Len(blocks) \in Nat /\ DOMAIN blocks = 1 .. Len(blocks) /\ Len(blocks) # 0
  OBVIOUS
<1>2. \A k \in 1 .. Len(blocks) : u[k] \in Nat
  <2>1. \A b \in Block : b.ucount \in Nat
    BY DEF Block
  <2> QED BY <2>1
<1>3. \E i \in 1 .. Len(blocks) : \A k \in 1 .. Len(blocks) :
        u[k] < u[i] \/ (u[k] = u[i] /\ k <= i)
  <2> HIDE DEF u
  <2> QED BY <1>1, <1>2, GreatestLast
<1>4. \E i \in DOMAIN blocks :
        \A k \in DOMAIN blocks : \/ blocks[k].ucount < blocks[i].ucount
                                 \/ blocks[k].ucount = blocks[i].ucount /\ k <= i
  BY <1>1, <1>3
<1>5. Victim \in DOMAIN blocks
  BY <1>4, Zenon DEF Victim
<1> QED BY <1>1, <1>5

----------------------------------------------------------------------------
(* The inductive invariant *)

Stored == blocks \in Seq(Block) /\ total_size \in Nat /\ mem \in [Bufs -> Content]

Locals == /\ uri \in [Threads -> Uris \cup BadUris \cup {""}]
          /\ block \in [Threads -> Nat]
          /\ cursor \in [Threads -> Bufs \cup Nat]
          /\ loaded \in [Threads -> Nat]
          /\ data \in [Threads -> Content]
          /\ size \in [Threads -> Nat]

MainOK == main \in {"accept", "lock", "dead"} /\ requests \in 0 .. MaxRequests

(* What a thread holds at its label: pointers into the list, a request     *)
(* parse() has accepted before it is inserted, and a response small enough *)
(* (proxy.c:157).  Only a hit has anything but a response in response_buf. *)
Placed(t) ==
  /\ block[t] <= Len(blocks)
  /\ cursor[t] \in Bufs \cup (0 .. Len(blocks))
  /\ pc[t] \in {"fetch", "insert"} \cup Writing => uri[t] \in Uris
  /\ pc[t] = "insert" => size[t] <= MAX_OBJECT_SIZE
  /\ pc[t] \in {"load", "store"} => cursor[t] \in 1 .. Len(blocks)
  /\ pc[t] \in {"hit", "refill", "resize"} => block[t] # NULL
  /\ pc[t] = "write" => cursor[t] \in Bufs
  /\ pc[t] # "written" => data[t] # NoData

(* Between the free() of the victim's buffer and the store of its new size *)
(* total_size lacks the victim's size (cache.c:79-87).                     *)
Half == AtOneOf({"refill", "resize"})
Ledger ==
  /\ Half = {} => total_size = SizeSum
  /\ \A t \in Half : total_size + blocks[block[t]].size = SizeSum

(* The buffers in use are those of the blocks, one each, but for the       *)
(* victim's between its free() and the malloc() of its new one.            *)
Dangling(i) == \E t \in AtOneOf({"refill"}) : block[t] = i
OwnersDiffer ==
  \A i, k \in 1 .. Len(blocks) : blocks[i].buf = blocks[k].buf => i = k
Owned ==
  \A b \in Bufs :
     mem[b] # NoData <=> \E i \in 1 .. Len(blocks) : blocks[i].buf = b /\ ~ Dangling(i)

CInv == /\ Stored /\ Locals /\ MainOK
        /\ \A t \in Threads : Placed(t)
        /\ Ledger /\ OwnersDiffer /\ Owned /\ EvictsABlock

----------------------------------------------------------------------------
(* One writer at a time *)

(* Beside a thread that inserts there is no other one that does.           *)
LEMMA OneWriter ==
  ASSUME IInv, NEW t \in Threads, pc[t] \in Writing, NEW o \in Threads, o # t
  PROVE  pc[o] \notin Writing
<1>1. cache_mut + Cnt(Writing) + Bit(Cnt(Reading) # 0) = 1 /\ cache_mut \in Nat
  BY CountForm DEF IInv, Labelled
<1>2. Cnt(Writing) \in Nat
  BY CntType
<1>3. pc[o] \in Writing => Cnt(Writing) >= 2
  BY TwoAtOnce
<1> QED BY <1>1, <1>2, <1>3 DEF Bit

(* Whoever can take cache_mut finds no insertion under way.                *)
LEMMA NoWriter ==
  ASSUME IInv, cache_mut > 0
  PROVE  \A o \in Threads : pc[o] \notin Writing
<1>1. cache_mut + Cnt(Writing) + Bit(Cnt(Reading) # 0) = 1 /\ cache_mut \in Nat
  BY CountForm DEF IInv, Labelled
<1>2. Cnt(Writing) \in Nat
  BY CntType
<1>3. Cnt(Writing) = 0
  BY <1>1, <1>2 DEF Bit
<1> QED BY <1>3, CntType DEF AtOneOf

----------------------------------------------------------------------------
(* What the threads hold *)

(* A step of t leaves the locals of the other threads alone.               *)
Mine(t) ==
  \A o \in Threads : o # t =>
     /\ pc'[o] = pc[o] /\ uri'[o] = uri[o] /\ block'[o] = block[o]
     /\ cursor'[o] = cursor[o] /\ data'[o] = data[o] /\ size'[o] = size[o]

(* The list never gets shorter: what a thread points at stays in it.       *)
LEMMA OthersPlaced ==
  ASSUME blocks \in Seq(Block), blocks' \in Seq(Block), Len(blocks) <= Len(blocks'),
         NEW t \in Threads, Mine(t), block \in [Threads -> Nat],
         NEW o \in Threads, o # t, Placed(o)
  PROVE  Placed(o)'
<1>1. /\ pc'[o] = pc[o] /\ uri'[o] = uri[o] /\ block'[o] = block[o]
      /\ cursor'[o] = cursor[o] /\ data'[o] = data[o] /\ size'[o] = size[o]
  BY DEF Mine
<1>2. Len(blocks) \in Nat /\ Len(blocks') \in Nat /\ block[o] \in Nat
  OBVIOUS
<1>3. 0 .. Len(blocks) \subseteq 0 .. Len(blocks') /\ 1 .. Len(blocks) \subseteq 1 .. Len(blocks')
  BY <1>2
<1>4. block'[o] <= Len(blocks')
  BY <1>1, <1>2 DEF Placed
<1> QED BY <1>1, <1>3, <1>4 DEF Placed

(* The part of the invariant that is about the locals, after a step of t.  *)
LEMMA LocalStep ==
  ASSUME CInv, NEW t \in Threads, blocks' \in Seq(Block), Len(blocks) <= Len(blocks'),
         Locals', Mine(t), Placed(t)'
  PROVE  Locals' /\ \A o \in Threads : Placed(o)'
  BY OthersPlaced DEF CInv, Stored, Locals

(* A pointer to a block that is not NULL is into the list.                 *)
LEMMA PointerIsBlock ==
  ASSUME CInv, NEW t \in Threads, block[t] # NULL
  PROVE  block[t] \in 1 .. Len(blocks)
<1>1. Placed(t) /\ Locals /\ Stored
  BY DEF CInv
<1>2. Len(blocks) \in Nat
  BY <1>1 DEF Stored
<1>3. block[t] \in Nat
  BY <1>1 DEF Locals
<1>4. block[t] <= Len(blocks)
  BY <1>1 DEF Placed
<1> QED BY <1>2, <1>3, <1>4 DEF NULL

(* Steps that touch neither the sizes nor the buffers of the list, and do  *)
(* not enter or leave an eviction.                                         *)
LEMMA CacheSame ==
  ASSUME CInv, NEW t \in Threads, pc \in [Threads -> Labels],
         NEW l \in Labels, Goto(t, l), Mine(t),
         pc[t] \notin {"refill", "resize"}, l \notin {"refill", "resize"},
         blocks' \in Seq(Block), Len(blocks') = Len(blocks),
         \A k \in 1 .. Len(blocks) : /\ blocks'[k].buf = blocks[k].buf
                                     /\ blocks'[k].size = blocks[k].size,
         total_size' = total_size, mem' = mem
  PROVE  Ledger' /\ OwnersDiffer' /\ Owned'
<1>1. SizeSum' = SizeSum
  <2>1. SumOfSizes(blocks') = SumOfSizes(blocks)
    BY SumOfSame DEF CInv, Stored
  <2> QED BY <2>1 DEF SizeSum
<1>2. Half' = Half /\ AtOneOf({"refill"})' = AtOneOf({"refill"})
  BY DEF Half, AtOneOf, Goto
<1>3. \A o \in Half : block'[o] = block[o] /\ block[o] \in 1 .. Len(blocks)
  <2>1. \A o \in Half : o \in Threads /\ o # t /\ pc[o] \in {"refill", "resize"}
    BY DEF Half, AtOneOf
  <2>2. \A o \in Half : Placed(o) /\ block[o] # NULL
    BY <2>1 DEF CInv, Placed
  <2> QED BY <2>1, <2>2, PointerIsBlock DEF Mine
<1>4. Ledger'
  BY <1>1, <1>2, <1>3 DEF CInv, Ledger
<1>5. \A i : Dangling(i)' <=> Dangling(i)
  BY <1>2, <1>3 DEF Dangling, Half, AtOneOf
<1>6. OwnersDiffer'
  BY DEF CInv, OwnersDiffer
<1>7. Owned'
  BY <1>5 DEF CInv, Owned
<1> QED BY <1>4, <1>6, <1>7

LEMMA CacheSameStep ==
  ASSUME CInv, NEW t \in Threads, pc \in [Threads -> Labels],
         NEW l \in Labels, Goto(t, l), Mine(t),
         pc[t] \notin {"refill", "resize"}, l \notin {"refill", "resize"},
         blocks' \in Seq(Block), Len(blocks') = Len(blocks),
         \A k \in 1 .. Len(blocks) : /\ blocks'[k].buf = blocks[k].buf
                                     /\ blocks'[k].size = blocks[k].size,
         total_size' = total_size, mem' = mem,
         Locals', Placed(t)', MainOK', l = "evict" => blocks # << >>
  PROVE  CInv'
<1>1. Ledger' /\ OwnersDiffer' /\ Owned'
  BY CacheSame
<1>2. Len(blocks) <= Len(blocks')
  BY DEF CInv, Stored
<1>3. \A o \in Threads : Placed(o)'
  BY <1>2, LocalStep
<1>4. Stored'
  BY DEF CInv, Stored
<1>5. EvictsABlock'
  <2> SUFFICES ASSUME NEW o \in Threads, pc'[o] = "evict" PROVE blocks' # << >>
    BY DEF EvictsABlock
  <2>1. blocks # << >>
    BY DEF CInv, EvictsABlock, Mine, Goto
  <2> QED BY <2>1 DEF CInv, Stored
<1> QED BY <1>1, <1>3, <1>4, <1>5 DEF CInv

(* The same when the list itself stays as it is.                           *)
LEMMA QuietStep ==
  ASSUME CInv, NEW t \in Threads, pc \in [Threads -> Labels],
         NEW l \in Labels \ {"refill", "resize"}, Goto(t, l), Mine(t),
         pc[t] \notin {"refill", "resize"}, UNCHANGED cachevars,
         Locals', Placed(t)', MainOK', l = "evict" => blocks # << >>
  PROVE  CInv'
<1>1. blocks' = blocks /\ total_size' = total_size /\ mem' = mem
  BY DEF cachevars
<1>2. blocks' \in Seq(Block)
  BY <1>1 DEF CInv, Stored
<1> QED BY <1>1, <1>2, CacheSameStep

(* ... and no local changes either.                                        *)
LEMMA LabelStep ==
  ASSUME CInv, NEW t \in Threads, pc \in [Threads -> Labels],
         NEW l \in Labels \ {"refill", "resize"}, Goto(t, l),
         pc[t] \notin {"refill", "resize"}, UNCHANGED cachevars, UNCHANGED locals,
         Placed(t)', MainOK', l = "evict" => blocks # << >>
  PROVE  CInv'
<1>1. Mine(t)
  BY DEF Mine, Goto, locals
<1>2. Locals'
  BY DEF CInv, Locals, locals
<1> QED BY <1>1, <1>2, QuietStep

(* A thread that ends holds nothing.                                       *)
LEMMA ReturnHolds ==
  ASSUME CInv, NEW t \in Threads, pc \in [Threads -> Labels], Return(t),
         blocks' \in Seq(Block)
  PROVE  Locals' /\ Mine(t) /\ Placed(t)'
<1>1. Junk \in Content /\ Junk # NoData
  BY DEF Junk, NoData, Content
<1>2. Locals'
  BY <1>1 DEF CInv, Locals, Return, NULL
<1>3. Mine(t)
  BY DEF CInv, Mine, Return, Goto, Locals
<1>4. pc'[t] = "idle" /\ block'[t] = 0 /\ cursor'[t] = 0 /\ data'[t] = Junk
  BY DEF CInv, Return, Goto, Locals, NULL
<1>5. Placed(t)'
  <2>1. Len(blocks') \in Nat
    OBVIOUS
  <2> QED BY <1>1, <1>4, <2>1 DEF Placed, Writing
<1> QED BY <1>2, <1>3, <1>5

----------------------------------------------------------------------------
(* The steps of a thread outside an eviction *)

LEMMA SemaphoreSteps ==
  ASSUME IInv, CInv, NEW t \in Threads,
         \/ Create(t) \/ ThreadStart(t) \/ Enter(t) \/ First(t) \/ Leave(t)
         \/ LockHit(t) \/ LockMiss(t)
  PROVE  CInv'
<1>1. pc \in [Threads -> Labels]
  BY DEF IInv, Labelled
<1>2. Placed(t)
  BY DEF CInv
<1>3. CASE Create(t)
  <2>1. /\ Goto(t, "start") /\ UNCHANGED cachevars /\ UNCHANGED locals /\ pc'[t] = "start"
        /\ pc[t] \notin {"refill", "resize", "written"}
    BY <1>1, <1>3 DEF Create, At, Goto
  <2>2. MainOK'
    BY <1>3 DEF CInv, MainOK, Create
  <2>3. Placed(t)'
    BY <1>2, <1>3, <2>1 DEF Placed, Writing, cachevars, locals, Create, At
  <2> QED BY <1>1, <2>1, <2>2, <2>3, LabelStep DEF Labels, InMutex, Reading, Writing
<1>4. CASE ThreadStart(t)
  <2>1. /\ Goto(t, "read") /\ UNCHANGED cachevars /\ UNCHANGED locals /\ pc'[t] = "read"
        /\ pc[t] \notin {"refill", "resize", "written"}
    BY <1>1, <1>4 DEF ThreadStart, At, Goto
  <2>2. MainOK'
    BY <1>4 DEF CInv, MainOK, ThreadStart
  <2>3. Placed(t)'
    BY <1>2, <1>4, <2>1 DEF Placed, Writing, cachevars, locals, ThreadStart, At
  <2> QED BY <1>1, <2>1, <2>2, <2>3, LabelStep DEF Labels, InMutex, Reading, Writing
<1>5. CASE Enter(t)
  <2>1. /\ Goto(t, "first") /\ UNCHANGED cachevars /\ UNCHANGED locals /\ pc'[t] = "first"
        /\ pc[t] \notin {"refill", "resize", "written"}
    BY <1>1, <1>5 DEF Enter, At, Goto
  <2>2. MainOK'
    BY <1>5 DEF CInv, MainOK, Enter
  <2>3. Placed(t)'
    BY <1>2, <1>5, <2>1 DEF Placed, Writing, cachevars, locals, Enter, At
  <2> QED BY <1>1, <2>1, <2>2, <2>3, LabelStep DEF Labels, InMutex, Reading, Writing
<1>6. CASE First(t)
  <2>1. /\ Goto(t, "inquire") /\ UNCHANGED cachevars /\ UNCHANGED locals /\ pc'[t] = "inquire"
        /\ pc[t] \notin {"refill", "resize", "written"}
    BY <1>1, <1>6 DEF First, At, Goto
  <2>2. MainOK'
    BY <1>6 DEF CInv, MainOK, First
  <2>3. Placed(t)'
    BY <1>2, <1>6, <2>1 DEF Placed, Writing, cachevars, locals, First, At
  <2> QED BY <1>1, <2>1, <2>2, <2>3, LabelStep DEF Labels, InMutex, Reading, Writing
<1>7. CASE Leave(t)
  <2>1. /\ Goto(t, "choose") /\ UNCHANGED cachevars /\ UNCHANGED locals /\ pc'[t] = "choose"
        /\ pc[t] \notin {"refill", "resize", "written"}
    BY <1>1, <1>7 DEF Leave, At, Goto
  <2>2. MainOK'
    BY <1>7 DEF CInv, MainOK, Leave
  <2>3. Placed(t)'
    BY <1>2, <1>7, <2>1 DEF Placed, Writing, cachevars, locals, Leave, At
  <2> QED BY <1>1, <2>1, <2>2, <2>3, LabelStep DEF Labels, InMutex, Reading, Writing
<1>8. CASE LockHit(t)
  <2>1. /\ Goto(t, "hit") /\ UNCHANGED cachevars /\ UNCHANGED locals /\ pc'[t] = "hit"
        /\ pc[t] \notin {"refill", "resize", "written"}
    BY <1>1, <1>8 DEF LockHit, At, Goto
  <2>2. MainOK'
    BY <1>8 DEF CInv, MainOK, LockHit
  <2>3. Placed(t)'
    BY <1>2, <1>8, <2>1 DEF Placed, Writing, cachevars, locals, LockHit, At
  <2> QED BY <1>1, <2>1, <2>2, <2>3, LabelStep DEF Labels, InMutex, Reading, Writing
<1>9. CASE LockMiss(t)
  <2>1. /\ Goto(t, "parse") /\ UNCHANGED cachevars /\ UNCHANGED locals /\ pc'[t] = "parse"
        /\ pc[t] \notin {"refill", "resize", "written"}
    BY <1>1, <1>9 DEF LockMiss, At, Goto
  <2>2. MainOK'
    BY <1>9 DEF CInv, MainOK, LockMiss
  <2>3. Placed(t)'
    BY <1>2, <1>9, <2>1 DEF Placed, Writing, cachevars, locals, LockMiss, At
  <2> QED BY <1>1, <2>1, <2>2, <2>3, LabelStep DEF Labels, InMutex, Reading, Writing
<1> QED BY <1>3, <1>4, <1>5, <1>6, <1>7, <1>8, <1>9

LEMMA ReturnSteps ==
  ASSUME IInv, CInv, NEW t \in Threads, Return(t), UNCHANGED cachevars,
         pc[t] \notin {"refill", "resize"}, UNCHANGED <<main, requests>>
  PROVE  CInv'
<1>1. pc \in [Threads -> Labels] /\ Goto(t, "idle")
  BY DEF IInv, Labelled, Return
<1>2. blocks' \in Seq(Block)
  BY DEF CInv, Stored, cachevars
<1>3. Locals' /\ Mine(t) /\ Placed(t)'
  BY <1>1, <1>2, ReturnHolds
<1>4. MainOK'
  BY DEF CInv, MainOK
<1> QED BY <1>1, <1>3, <1>4, QuietStep DEF Labels

(* Storing into one thread's local.                                        *)
LEMMA Elsewhere ==
  ASSUME NEW S, NEW f \in [Threads -> S], NEW t \in Threads, NEW v
  PROVE  /\ [f EXCEPT ![t] = v][t] = v
         /\ \A o \in Threads : o # t => [f EXCEPT ![t] = v][o] = f[o]
         /\ v \in S => [f EXCEPT ![t] = v] \in [Threads -> S]
  OBVIOUS

(* Reading the request, and the pieces of a response: what response_buf    *)
(* holds is never taken for a free buffer.                                 *)
LEMMA ReadSteps ==
  ASSUME IInv, CInv, NEW t \in Threads, ReadRequest(t) \/ ReadPiece(t)
  PROVE  CInv'
<1>1. pc \in [Threads -> Labels]
  BY DEF IInv, Labelled
<1>2. Placed(t) /\ Locals
  BY DEF CInv
<1>3. CASE ReadRequest(t)
  <2>1. /\ Goto(t, "enter") /\ UNCHANGED cachevars /\ pc'[t] = "enter"
        /\ pc[t] \notin {"refill", "resize", "written"}
    BY <1>1, <1>3 DEF ReadRequest, At, Goto
  <2>2. MainOK'
    BY <1>3 DEF CInv, MainOK, ReadRequest
  <2>3. PICK u \in Uris \cup BadUris : uri' = [uri EXCEPT ![t] = u]
    BY <1>3 DEF ReadRequest
  <2>4. Locals' /\ Mine(t)
    <3>1. uri' \in [Threads -> Uris \cup BadUris \cup {""}]
      BY <1>2, <2>3, Elsewhere DEF Locals
    <3>2. \A o \in Threads : o # t => uri'[o] = uri[o]
      BY <1>2, <2>3, Elsewhere DEF Locals
    <3>3. \A o \in Threads : o # t => pc'[o] = pc[o]
      BY <1>1, <2>1, Elsewhere DEF Goto
    <3>4. UNCHANGED <<block, cursor, loaded, data, size>>
      BY <1>3 DEF ReadRequest
    <3> QED BY <1>2, <3>1, <3>2, <3>3, <3>4 DEF Locals, Mine
  <2>5. Placed(t)'
    BY <1>2, <1>3, <2>1 DEF Placed, Writing, cachevars, ReadRequest, At
  <2> QED BY <1>1, <2>1, <2>2, <2>4, <2>5, QuietStep DEF Labels
<1>4. CASE ReadPiece(t)
  <2>1. /\ pc[t] = "fetch" /\ UNCHANGED cachevars /\ pc' = pc /\ uri[t] \in Uris
        /\ size[t] \in Nat
    BY <1>2, <1>4 DEF ReadPiece, At, Placed, Locals
  <2>2. MainOK'
    BY <1>4 DEF CInv, MainOK, ReadPiece
  <2>3. <<uri[t], size[t] + 1>> \in Content /\ <<uri[t], size[t] + 1>> # NoData
    BY <2>1 DEF Content, NoData
  <2>4. /\ data' = [data EXCEPT ![t] = <<uri[t], size[t] + 1>>]
        /\ size' = [size EXCEPT ![t] = size[t] + 1]
        /\ UNCHANGED <<uri, block, cursor, loaded>> /\ size[t] + 1 \in Nat
    BY <1>4, <2>1 DEF ReadPiece
  <2> HIDE DEF NoData
  <2>5. Locals' /\ Mine(t)
    <3> DEFINE v == <<uri[t], size[t] + 1>>
               s == size[t] + 1
    <3>1. v \in Content /\ s \in Nat /\ data' = [data EXCEPT ![t] = v] /\ size' = [size EXCEPT ![t] = s]
      BY <2>3, <2>4
    <3> HIDE DEF v, s
    <3>2. data' \in [Threads -> Content] /\ \A o \in Threads : o # t => data'[o] = data[o]
      BY <1>2, <3>1, Elsewhere DEF Locals
    <3>3. size' \in [Threads -> Nat] /\ \A o \in Threads : o # t => size'[o] = size[o]
      BY <1>2, <3>1, Elsewhere DEF Locals
    <3> QED BY <1>2, <2>1, <2>4, <3>2, <3>3 DEF Locals, Mine
  <2>7. Goto(t, "fetch")
    BY <1>1, <2>1 DEF Goto
  <2>6. Placed(t)'
    BY <1>2, <1>4, <2>1, <2>3 DEF Placed, Writing, Locals, cachevars, ReadPiece, At
  <2> QED BY <1>1, <2>1, <2>2, <2>5, <2>6, <2>7, QuietStep DEF Labels
<1> QED BY <1>3, <1>4

(* A hit: the arguments of Rio_writen() are a buffer and a size.           *)
LEMMA HitSteps ==
  ASSUME IInv, CInv, NEW t \in Threads, ReadBlock(t) \/ WriteBlock(t)
  PROVE  CInv'
<1>1. pc \in [Threads -> Labels]
  BY DEF IInv, Labelled
<1>2. Placed(t) /\ Locals /\ Stored
  BY DEF CInv
<1>3. CASE ReadBlock(t)
  <2>1. /\ Goto(t, "write") /\ UNCHANGED cachevars /\ pc'[t] = "write"
        /\ pc[t] = "hit"
    BY <1>1, <1>3 DEF ReadBlock, At, Goto
  <2>2. MainOK'
    BY <1>3 DEF CInv, MainOK, ReadBlock
  <2>3. blocks[block[t]].buf \in Bufs /\ blocks[block[t]].size \in Nat
    <3>1. block[t] \in 1 .. Len(blocks)
      BY <1>2, <2>1, PointerIsBlock DEF Placed
    <3>2. blocks[block[t]] \in Block
      BY <1>2, <3>1 DEF Stored
    <3> QED BY <3>2 DEF Block
  <2>4. /\ cursor' = [cursor EXCEPT ![t] = blocks[block[t]].buf]
        /\ size' = [size EXCEPT ![t] = blocks[block[t]].size]
        /\ UNCHANGED <<uri, block, loaded, data>>
    BY <1>3 DEF ReadBlock
  <2>5. Locals' /\ Mine(t)
    <3>1. /\ cursor' \in [Threads -> Bufs \cup Nat]
          /\ \A o \in Threads : o # t => cursor'[o] = cursor[o]
      BY <1>2, <2>3, <2>4, Elsewhere DEF Locals
    <3>2. /\ size' \in [Threads -> Nat]
          /\ \A o \in Threads : o # t => size'[o] = size[o]
      BY <1>2, <2>3, <2>4, Elsewhere DEF Locals
    <3>3. \A o \in Threads : o # t => pc'[o] = pc[o]
      BY <1>1, <2>1, Elsewhere DEF Goto
    <3> QED BY <1>2, <2>4, <3>1, <3>2, <3>3 DEF Locals, Mine
  <2>6. Placed(t)'
    <3>1. cursor'[t] = blocks[block[t]].buf
      BY <1>2, <1>3 DEF Locals, ReadBlock
    <3> QED BY <1>2, <1>3, <2>1, <2>3, <3>1 DEF Placed, Writing, cachevars, ReadBlock
  <2> QED BY <1>1, <2>1, <2>2, <2>5, <2>6, QuietStep DEF Labels, InMutex
<1>4. CASE WriteBlock(t)
  <2>1. /\ Goto(t, "written") /\ UNCHANGED cachevars /\ pc'[t] = "written"
        /\ pc[t] = "write"
    BY <1>1, <1>4 DEF WriteBlock, At, Goto
  <2>2. MainOK'
    BY <1>4 DEF CInv, MainOK, WriteBlock
  <2>3. mem[cursor[t]] \in Content
    BY <1>2, <2>1 DEF Placed, Stored
  <2>4. /\ data' = [data EXCEPT ![t] = mem[cursor[t]]]
        /\ UNCHANGED <<uri, block, cursor, loaded, size>>
    BY <1>4 DEF WriteBlock
  <2>5. Locals' /\ Mine(t)
    <3>1. /\ data' \in [Threads -> Content]
          /\ \A o \in Threads : o # t => data'[o] = data[o]
      BY <1>2, <2>3, <2>4, Elsewhere DEF Locals
    <3>2. \A o \in Threads : o # t => pc'[o] = pc[o]
      BY <1>1, <2>1, Elsewhere DEF Goto
    <3> QED BY <1>2, <2>4, <3>1, <3>2 DEF Locals, Mine
  <2>6. Placed(t)'
    BY <1>2, <1>4, <2>1 DEF Placed, Writing, cachevars, WriteBlock
  <2> QED BY <1>1, <2>1, <2>2, <2>5, <2>6, QuietStep DEF Labels, InMutex
<1> QED BY <1>3, <1>4

(* cache_inquiry and increment_ucount write no more than a ucount.         *)
LEMMA UcountSet ==
  ASSUME Stored, NEW i \in 1 .. Len(blocks), NEW n \in Nat, SetUcount(i, n)
  PROVE  /\ blocks' \in Seq(Block) /\ Len(blocks') = Len(blocks)
         /\ \A k \in 1 .. Len(blocks) : /\ blocks'[k].buf = blocks[k].buf
                                        /\ blocks'[k].size = blocks[k].size
<1>1. \A k \in 1 .. Len(blocks) :
        /\ [blocks[k] EXCEPT !.ucount = n] \in Block
        /\ [blocks[k] EXCEPT !.ucount = n].buf = blocks[k].buf
        /\ [blocks[k] EXCEPT !.ucount = n].size = blocks[k].size
  <2>1. \A k \in 1 .. Len(blocks) : blocks[k] \in Block
    BY DEF Stored
  <2>2. ASSUME NEW b \in Block
        PROVE  /\ [b EXCEPT !.ucount = n] \in Block
               /\ [b EXCEPT !.ucount = n].buf = b.buf
               /\ [b EXCEPT !.ucount = n].size = b.size
    BY DEF Block
  <2> QED BY <2>1, <2>2
<1>2. blocks' = [blocks EXCEPT ![i] = [blocks[i] EXCEPT !.ucount = n]]
  BY DEF SetUcount
<1>3. blocks' \in Seq(Block) /\ Len(blocks') = Len(blocks)
  BY <1>1, <1>2 DEF Stored
<1>4. \A k \in 1 .. Len(blocks) :
        blocks'[k] = IF k = i THEN [blocks[i] EXCEPT !.ucount = n] ELSE blocks[k]
  BY <1>2 DEF Stored
<1> QED BY <1>1, <1>3, <1>4

LEMMA LookupSteps ==
  ASSUME IInv, CInv, NEW t \in Threads, Inquire(t) \/ Load(t) \/ Store(t)
  PROVE  CInv'
<1>1. pc \in [Threads -> Labels]
  BY DEF IInv, Labelled
<1>2. Placed(t) /\ Locals /\ Stored /\ Len(blocks) \in Nat
  BY DEF CInv, Stored
<1>3. CASE Inquire(t)
  <2> DEFINE i == Found(uri[t])
             c == IF i = NULL THEN NULL ELSE i - 1
             l == IF i > 1 THEN "load" ELSE "leave"
  <2>1. /\ block' = [block EXCEPT ![t] = i] /\ cursor' = [cursor EXCEPT ![t] = c]
        /\ Goto(t, l) /\ pc[t] = "inquire"
        /\ i = NULL => blocks' = blocks
        /\ i # NULL => SetUcount(i, 0)
        /\ UNCHANGED <<total_size, mem, uri, loaded, data, size, main, requests>>
    BY <1>3 DEF Inquire, At
  <2>2. i \in 0 .. Len(blocks)
    BY <1>2, FoundIsBlock DEF Stored
  <2> HIDE DEF i
  <2>3. /\ c \in 0 .. Len(blocks) /\ i \in Nat /\ c \in Nat
        /\ l = "load" => c \in 1 .. Len(blocks)
        /\ l \in {"load", "leave"} /\ i <= Len(blocks)
    BY <1>2, <2>2 DEF NULL
  <2>4. /\ blocks' \in Seq(Block) /\ Len(blocks') = Len(blocks)
        /\ \A k \in 1 .. Len(blocks) : /\ blocks'[k].buf = blocks[k].buf
                                       /\ blocks'[k].size = blocks[k].size
    <3>1. CASE i = NULL
      BY <1>2, <2>1, <3>1 DEF Stored
    <3>2. CASE i # NULL
      <4>1. i \in 1 .. Len(blocks)
        BY <1>2, <2>2, <3>2 DEF NULL
      <4> QED BY <1>2, <2>1, <3>2, <4>1, UcountSet
    <3> QED BY <3>1, <3>2
  <2> HIDE DEF c, l
  <2>5. Locals' /\ Mine(t) /\ block'[t] = i /\ cursor'[t] = c /\ pc'[t] = l
    <3>1. /\ block' \in [Threads -> Nat] /\ block'[t] = i
          /\ \A o \in Threads : o # t => block'[o] = block[o]
      BY <1>2, <2>1, <2>3, Elsewhere DEF Locals
    <3>2. /\ cursor' \in [Threads -> Bufs \cup Nat] /\ cursor'[t] = c
          /\ \A o \in Threads : o # t => cursor'[o] = cursor[o]
      BY <1>2, <2>1, <2>3, Elsewhere DEF Locals
    <3>3. pc'[t] = l /\ \A o \in Threads : o # t => pc'[o] = pc[o]
      BY <1>1, <2>1, Elsewhere DEF Goto
    <3> QED BY <1>2, <2>1, <3>1, <3>2, <3>3 DEF Locals, Mine
  <2>6. Placed(t)'
    BY <1>2, <2>1, <2>3, <2>4, <2>5 DEF Placed, Writing
  <2>7. MainOK'
    BY <2>1 DEF CInv, MainOK
  <2>8. l \in Labels
    BY <2>3 DEF Labels, Reading
  <2> QED BY <1>1, <2>1, <2>3, <2>4, <2>5, <2>6, <2>7, <2>8, CacheSameStep
<1>4. CASE Load(t)
  <2>1. /\ Goto(t, "store") /\ UNCHANGED cachevars /\ pc'[t] = "store" /\ pc[t] = "load"
        /\ loaded' = [loaded EXCEPT ![t] = blocks[cursor[t]].ucount]
        /\ UNCHANGED <<uri, block, cursor, data, size, main, requests>>
    BY <1>1, <1>4 DEF Load, At, Goto
  <2>2. blocks[cursor[t]].ucount \in Nat
    <3>1. blocks[cursor[t]] \in Block
      BY <1>2, <2>1 DEF Placed, Stored
    <3> QED BY <3>1 DEF Block
  <2>3. loaded' \in [Threads -> Nat]
    BY <1>2, <2>1, <2>2, Elsewhere DEF Locals
  <2>4. \A o \in Threads : o # t => pc'[o] = pc[o]
    BY <1>1, <2>1, Elsewhere DEF Goto
  <2>5. Locals' /\ Mine(t)
    BY <1>2, <2>1, <2>3, <2>4 DEF Locals, Mine
  <2>6. Placed(t)'
    BY <1>2, <2>1 DEF Placed, Writing, cachevars
  <2>7. MainOK'
    BY <2>1 DEF CInv, MainOK
  <2> QED BY <1>1, <2>1, <2>5, <2>6, <2>7, QuietStep DEF Labels, Reading
<1>5. CASE Store(t)
  <2> DEFINE n == loaded[t] + 1
             c == cursor[t] - 1
             l == IF cursor[t] > 1 THEN "load" ELSE "leave"
  <2>1. /\ SetUcount(cursor[t], n) /\ cursor' = [cursor EXCEPT ![t] = c]
        /\ loaded' = [loaded EXCEPT ![t] = 0] /\ Goto(t, l) /\ pc[t] = "store"
        /\ UNCHANGED <<total_size, mem, uri, block, data, size, main, requests>>
    BY <1>5 DEF Store, At
  <2>2. cursor[t] \in 1 .. Len(blocks) /\ loaded[t] \in Nat
    BY <1>2, <2>1 DEF Placed, Locals
  <2>3. /\ n \in Nat /\ c \in Nat /\ c \in 0 .. Len(blocks)
        /\ l = "load" => c \in 1 .. Len(blocks)
        /\ l \in {"load", "leave"}
    BY <1>2, <2>2
  <2> HIDE DEF n, c, l
  <2>4. /\ blocks' \in Seq(Block) /\ Len(blocks') = Len(blocks)
        /\ \A k \in 1 .. Len(blocks) : /\ blocks'[k].buf = blocks[k].buf
                                       /\ blocks'[k].size = blocks[k].size
    BY <1>2, <2>1, <2>2, <2>3, UcountSet
  <2>5. Locals' /\ Mine(t) /\ cursor'[t] = c /\ pc'[t] = l
    <3>1. /\ cursor' \in [Threads -> Bufs \cup Nat] /\ cursor'[t] = c
          /\ \A o \in Threads : o # t => cursor'[o] = cursor[o]
      BY <1>2, <2>1, <2>3, Elsewhere DEF Locals
    <3>2. loaded' \in [Threads -> Nat]
      BY <1>2, <2>1, Elsewhere DEF Locals
    <3>3. pc'[t] = l /\ \A o \in Threads : o # t => pc'[o] = pc[o]
      BY <1>1, <2>1, Elsewhere DEF Goto
    <3> QED BY <1>2, <2>1, <3>1, <3>2, <3>3 DEF Locals, Mine
  <2>6. Placed(t)'
    BY <1>2, <2>1, <2>3, <2>4, <2>5 DEF Placed, Writing
  <2>7. MainOK'
    BY <2>1 DEF CInv, MainOK
  <2>8. l \in Labels
    BY <2>3 DEF Labels, Reading
  <2> QED BY <1>1, <2>1, <2>3, <2>4, <2>5, <2>6, <2>7, <2>8, CacheSameStep
<1> QED BY <1>3, <1>4, <1>5

(* A miss, up to the decision of cache_insert.  An object that does not    *)
(* fit beside the others meets a list that is not empty.                   *)
LEMMA MissSteps ==
  ASSUME IInv, CInv, NEW t \in Threads, Parse(t) \/ EndOfResponse(t) \/ LockInsert(t)
  PROVE  CInv'
<1>1. pc \in [Threads -> Labels]
  BY DEF IInv, Labelled
<1>2. Placed(t) /\ Locals /\ Stored
  BY DEF CInv
<1>3. ASSUME NEW l \in {"fetch", "insert", "add", "evict"}, Goto(t, l),
             pc[t] \in {"parse", "fetch", "insert"},
             UNCHANGED cachevars, UNCHANGED locals, UNCHANGED <<main, requests>>,
             uri[t] \in Uris,
             l = "insert" => size[t] <= MAX_OBJECT_SIZE,
             l = "evict" => blocks # << >>
      PROVE  CInv'
  <2>1. pc'[t] = l
    BY <1>1, <1>3 DEF Goto
  <2>2. MainOK'
    BY <1>3 DEF CInv, MainOK
  <2>3. Placed(t)'
    BY <1>2, <1>3, <2>1 DEF Placed, Writing, cachevars, locals
  <2> QED BY <1>1, <1>3, <2>2, <2>3, LabelStep DEF Labels, Writing
<1>4. CASE Parse(t)
  <2>1. CASE uri[t] \in Uris
    BY <1>3, <1>4, <2>1 DEF Parse, At
  <2>2. CASE uri[t] \notin Uris
    <3>1. Return(t) /\ UNCHANGED cachevars /\ pc[t] = "parse" /\ UNCHANGED <<main, requests>>
      BY <1>4, <2>2 DEF Parse, At
    <3> QED BY <3>1, ReturnSteps
  <2> QED BY <2>1, <2>2
<1>5. CASE EndOfResponse(t)
  <2>1. UNCHANGED cachevars /\ pc[t] = "fetch" /\ UNCHANGED <<main, requests>> /\ uri[t] \in Uris
    BY <1>2, <1>5 DEF EndOfResponse, At, Placed
  <2>2. CASE size[t] <= MAX_OBJECT_SIZE
    BY <1>3, <1>5, <2>1, <2>2 DEF EndOfResponse
  <2>3. CASE ~ (size[t] <= MAX_OBJECT_SIZE)
    <3>1. Return(t)
      BY <1>5, <2>3 DEF EndOfResponse
    <3> QED BY <2>1, <3>1, ReturnSteps
  <2> QED BY <2>2, <2>3
<1>6. CASE LockInsert(t)
  <2>1. /\ UNCHANGED cachevars /\ UNCHANGED locals /\ pc[t] = "insert" /\ cache_mut > 0
        /\ UNCHANGED <<main, requests>> /\ uri[t] \in Uris /\ size[t] <= MAX_OBJECT_SIZE
        /\ Goto(t, IF Fits(size[t]) THEN "add" ELSE "evict")
    BY <1>2, <1>6 DEF LockInsert, At, Placed
  <2>2. CASE Fits(size[t])
    <3>1. Goto(t, "add")
      BY <2>1, <2>2
    <3> QED BY <1>3, <2>1, <3>1
  <2>3. CASE ~ Fits(size[t])
    <3>1. Goto(t, "evict")
      BY <2>1, <2>3
    <3>2. blocks # << >>
      <4>1. SUFFICES ASSUME blocks = << >> PROVE FALSE
        OBVIOUS
      <4>2. total_size = SizeSum
        <5>1. Half = {}
          BY <2>1, NoWriter DEF Half, AtOneOf, Writing
        <5> QED BY <5>1 DEF CInv, Ledger
      <4>3. total_size = 0
        BY <4>1, <4>2, SumOfNone DEF SizeSum
      <4>4. size[t] \in Nat /\ ~ (total_size + size[t] <= MAX_CACHE_SIZE)
        BY <1>2, <2>3 DEF Locals, Fits
      <4> QED BY <2>1, <4>3, <4>4, CacheAssumption
    <3> QED BY <1>3, <2>1, <3>1, <3>2
  <2> QED BY <2>2, <2>3
<1> QED BY <1>4, <1>5, <1>6

----------------------------------------------------------------------------
(* The steps of an insertion: the thread that takes them is the only one   *)
(* at a label of Writing, so Half has no other thread in it.               *)

(* What a step of the writer t to the label l leaves.                      *)
LEMMA WriterStep ==
  ASSUME IInv, CInv, NEW t \in Threads, pc[t] \in Writing,
         NEW l \in Writing, Goto(t, l), UNCHANGED <<main, requests>>
  PROVE  /\ pc'[t] = l /\ MainOK'
         /\ \A o \in Threads : o # t => pc'[o] = pc[o] /\ pc[o] \notin Writing
         /\ Half = IF pc[t] \in {"refill", "resize"} THEN {t} ELSE {}
         /\ Half' = IF l \in {"refill", "resize"} THEN {t} ELSE {}
         /\ AtOneOf({"refill"}) = IF pc[t] = "refill" THEN {t} ELSE {}
         /\ AtOneOf({"refill"})' = IF l = "refill" THEN {t} ELSE {}
<1>1. pc \in [Threads -> Labels]
  BY DEF IInv, Labelled
<1>2. pc'[t] = l /\ \A o \in Threads : o # t => pc'[o] = pc[o] /\ pc[o] \notin Writing
  BY <1>1, OneWriter, Elsewhere DEF Goto
<1>3. {"refill", "resize"} \subseteq Writing
  BY DEF Writing
<1>4. /\ Half = IF pc[t] \in {"refill", "resize"} THEN {t} ELSE {}
      /\ AtOneOf({"refill"}) = IF pc[t] = "refill" THEN {t} ELSE {}
  BY <1>2, <1>3 DEF Half, AtOneOf
<1>5. /\ Half' = IF l \in {"refill", "resize"} THEN {t} ELSE {}
      /\ AtOneOf({"refill"})' = IF l = "refill" THEN {t} ELSE {}
  BY <1>2, <1>3 DEF Half, AtOneOf
<1>6. MainOK'
  BY DEF CInv, MainOK
<1> QED BY <1>2, <1>4, <1>5, <1>6

LEMMA AddStep ==
  ASSUME IInv, CInv, NEW t \in Threads, AddBlock(t)
  PROVE  CInv'
<1> DEFINE n == Len(blocks)
<1>1. /\ pc[t] = "add" /\ Goto(t, "inserted") /\ UNCHANGED <<main, requests>>
      /\ UNCHANGED locals /\ pc[t] \in Writing /\ "inserted" \in Writing
  BY DEF AddBlock, At, Writing
<1>2. /\ pc'[t] = "inserted" /\ MainOK' /\ Half = {} /\ Half' = {}
      /\ AtOneOf({"refill"}) = {} /\ AtOneOf({"refill"})' = {}
      /\ \A o \in Threads : o # t => pc'[o] = pc[o]
  BY <1>1, WriterStep
<1>3. Placed(t) /\ Locals /\ Stored
  BY DEF CInv
<1>4. uri[t] \in Uris /\ data[t] \in Content /\ size[t] \in Nat /\ data[t] # NoData
  BY <1>1, <1>3 DEF Placed, Locals
<1>5. PICK b \in FreeBufs :
        /\ blocks' = Append(blocks, [key |-> uri[t], buf |-> b, size |-> size[t], ucount |-> 0])
        /\ mem' = [mem EXCEPT ![b] = data[t]]
        /\ total_size' = total_size + size[t]
  BY DEF AddBlock, new_block
<1> DEFINE new == [key |-> uri[t], buf |-> b, size |-> size[t], ucount |-> 0]
<1>6. b \in Bufs /\ mem[b] = NoData
  BY DEF FreeBufs
<1>7. new \in Block /\ new.buf = b /\ new.size = size[t]
  BY <1>4, <1>6 DEF Block
<1> HIDE DEF new
<1>8. /\ blocks' \in Seq(Block) /\ Len(blocks') = n + 1 /\ blocks'[n + 1] = new /\ n \in Nat
      /\ \A k \in 1 .. n : blocks'[k] = blocks[k]
  BY <1>3, <1>5, <1>7 DEF Stored, new
<1>9. Stored'
  <2>1. total_size' \in Nat
    BY <1>3, <1>4, <1>5 DEF Stored
  <2>2. mem' \in [Bufs -> Content]
    BY <1>3, <1>4, <1>5 DEF Stored
  <2> QED BY <1>8, <2>1, <2>2 DEF Stored
<1>10. Locals' /\ Mine(t)
  <2>1. UNCHANGED <<uri, block, cursor, loaded, data, size>>
    BY <1>1 DEF locals
  <2>2. Locals'
    BY <1>3, <2>1 DEF Locals
  <2> QED BY <1>2, <2>1, <2>2 DEF Mine
<1>11. \A o \in Threads : Placed(o)'
  <2>1. n <= n + 1 /\ 0 .. n \subseteq 0 .. n + 1
    BY <1>8
  <2>2. /\ uri'[t] = uri[t] /\ block'[t] = block[t] /\ cursor'[t] = cursor[t]
        /\ data'[t] = data[t] /\ size'[t] = size[t]
    BY <1>1 DEF locals
  <2>3. block'[t] <= n + 1
    <3>1. block[t] \in Nat /\ block[t] <= n
      BY <1>3 DEF Locals, Placed
    <3> QED BY <1>8, <2>2, <3>1
  <2>4. Placed(t)'
    BY <1>1, <1>2, <1>3, <1>4, <1>8, <2>1, <2>2, <2>3 DEF Placed
  <2> QED BY <1>8, <1>10, <2>1, <2>4, LocalStep
<1>12. Ledger'
  <2>1. total_size = SizeSum
    BY <1>2 DEF CInv, Ledger
  <2>2. SumOfSizes(blocks') = SumOfSizes(blocks) + size[t]
    BY <1>3, <1>5, <1>7, SumOfAppend DEF Stored, new
  <2>3. total_size' = SizeSum'
    BY <1>5, <2>1, <2>2 DEF SizeSum
  <2> QED BY <1>2, <2>3 DEF Ledger
<1>13. \A i : ~ Dangling(i) /\ ~ Dangling(i)'
  BY <1>2 DEF Dangling
<1>14. \A k \in 1 .. n : blocks[k].buf # b /\ blocks[k].buf \in Bufs
  <2>1. \A k \in 1 .. n : blocks[k].buf \in Bufs
    <3>1. \A k \in 1 .. n : blocks[k] \in Block
      BY <1>3 DEF Stored
    <3> QED BY <3>1 DEF Block
  <2> QED BY <1>6, <1>13, <2>1 DEF CInv, Owned
<1>15. \A k \in 1 .. n + 1 : k \in 1 .. n \/ k = n + 1
  BY <1>8
<1>16. \A k \in 1 .. n + 1 : blocks'[k].buf = IF k = n + 1 THEN b ELSE blocks[k].buf
  <2>1. \A k \in 1 .. n : k # n + 1
    BY <1>8
  <2> QED BY <1>7, <1>8, <1>15, <2>1
<1>17. OwnersDiffer'
  <2> SUFFICES ASSUME NEW i \in 1 .. n + 1, NEW k \in 1 .. n + 1, blocks'[i].buf = blocks'[k].buf
               PROVE  i = k
    BY <1>8 DEF OwnersDiffer
  <2>1. CASE i \in 1 .. n /\ k \in 1 .. n
    <3>1. blocks'[i] = blocks[i] /\ blocks'[k] = blocks[k]
      BY <1>8, <2>1
    <3> QED BY <2>1, <3>1 DEF CInv, OwnersDiffer
  <2> QED BY <1>14, <1>15, <1>16, <2>1
<1>18. Owned'
  <2> SUFFICES ASSUME NEW c \in Bufs
               PROVE  mem'[c] # NoData <=> \E i \in 1 .. n + 1 : blocks'[i].buf = c
    BY <1>8, <1>13 DEF Owned
  <2>1. mem'[c] = IF c = b THEN data[t] ELSE mem[c]
    BY <1>3, <1>5 DEF Stored
  <2>2. mem[c] # NoData <=> \E i \in 1 .. n : blocks[i].buf = c
    BY <1>13 DEF CInv, Owned
  <2>3. n + 1 \in 1 .. n + 1 /\ 1 .. n \subseteq 1 .. n + 1
    BY <1>8
  <2>4. CASE c = b
    <3>1. blocks'[n + 1].buf = c
      BY <1>7, <1>8, <2>4
    <3> QED BY <1>4, <2>1, <2>3, <2>4, <3>1
  <2>5. CASE c # b
    <3>1. (\E i \in 1 .. n : blocks[i].buf = c) <=> \E i \in 1 .. n + 1 : blocks'[i].buf = c
      BY <1>7, <1>8, <1>15, <2>3, <2>5
    <3> QED BY <2>1, <2>2, <2>5, <3>1
  <2> QED BY <2>4, <2>5
<1>19. EvictsABlock'
  <2>1. \A o \in Threads : pc'[o] # "evict"
    BY <1>1, <1>2, OneWriter DEF Writing
  <2> QED BY <2>1 DEF EvictsABlock
<1> QED BY <1>2, <1>9, <1>10, <1>11, <1>12, <1>17, <1>18, <1>19 DEF CInv

LEMMA EvictFreeStep ==
  ASSUME IInv, CInv, NEW t \in Threads, EvictFree(t)
  PROVE  CInv'
<1> DEFINE n == Len(blocks)
           i == Victim
<1>1. /\ pc[t] = "evict" /\ Goto(t, "refill") /\ UNCHANGED <<main, requests>>
      /\ block' = [block EXCEPT ![t] = i]
      /\ UNCHANGED <<uri, cursor, loaded, data, size, blocks>>
      /\ mem' = [mem EXCEPT ![blocks[i].buf] = NoData]
      /\ total_size' = total_size - blocks[i].size
      /\ pc[t] \in Writing /\ "refill" \in Writing
  BY DEF EvictFree, FreeVictim, At, Writing
<1>2. /\ pc'[t] = "refill" /\ MainOK' /\ Half = {} /\ Half' = {t}
      /\ AtOneOf({"refill"}) = {} /\ AtOneOf({"refill"})' = {t}
      /\ \A o \in Threads : o # t => pc'[o] = pc[o] /\ pc[o] \notin Writing
  BY <1>1, WriterStep
<1>3. Placed(t) /\ Locals /\ Stored
  BY DEF CInv
<1>4. i \in 1 .. n /\ n \in Nat
  BY <1>1, <1>3, VictimIsBlock DEF CInv, EvictsABlock, Stored
<1> HIDE DEF i
<1>5. \A k \in 1 .. n : blocks[k].buf \in Bufs /\ blocks[k].size \in Nat
  <2>1. \A k \in 1 .. n : blocks[k] \in Block
    BY <1>3 DEF Stored
  <2> QED BY <2>1 DEF Block
<1>6. total_size = SizeSum /\ SizeSum \in Nat /\ SizeSum >= blocks[i].size
  <2>1. total_size = SizeSum
    BY <1>2 DEF CInv, Ledger
  <2> QED BY <1>3, <1>4, <2>1, SumOfChanged DEF Stored, SizeSum
<1>7. Stored'
  <2>1. NoData \in Content
    BY DEF NoData, Content
  <2>2. total_size' \in Nat
    BY <1>1, <1>4, <1>5, <1>6
  <2>3. mem' \in [Bufs -> Content]
    BY <1>1, <1>3, <2>1 DEF Stored
  <2> QED BY <1>1, <1>3, <2>2, <2>3 DEF Stored
<1>8. /\ block' \in [Threads -> Nat] /\ block'[t] = i
      /\ \A o \in Threads : o # t => block'[o] = block[o]
  <2>1. i \in Nat
    BY <1>4
  <2>2. block \in [Threads -> Nat] /\ block' = [block EXCEPT ![t] = i]
    BY <1>1, <1>3 DEF Locals
  <2> QED BY <2>1, <2>2, Elsewhere
<1>9. Locals' /\ Mine(t)
  BY <1>1, <1>2, <1>3, <1>8 DEF Locals, Mine
<1>10. \A o \in Threads : Placed(o)'
  <2>1. Placed(t)'
    BY <1>1, <1>2, <1>3, <1>4, <1>8 DEF Placed, NULL
  <2>2. n <= Len(blocks')
    BY <1>1, <1>4
  <2> QED BY <1>7, <1>9, <2>1, <2>2, LocalStep DEF Stored
<1>11. Ledger'
  <2>1. SizeSum' = SizeSum
    BY <1>1 DEF SizeSum
  <2>2. total_size' + blocks'[block'[t]].size = SizeSum'
    BY <1>1, <1>4, <1>5, <1>6, <1>8, <2>1
  <2> QED BY <1>2, <2>2 DEF Ledger
<1>12. \A k : ~ Dangling(k) /\ (Dangling(k)' <=> k = i)
  BY <1>2, <1>8 DEF Dangling
<1>13. OwnersDiffer'
  BY <1>1 DEF CInv, OwnersDiffer
<1>14. Owned'
  <2> SUFFICES ASSUME NEW c \in Bufs
               PROVE  mem'[c] # NoData <=> \E k \in 1 .. n : blocks[k].buf = c /\ k # i
    BY <1>1, <1>12 DEF Owned
  <2>1. mem'[c] = IF c = blocks[i].buf THEN NoData ELSE mem[c]
    BY <1>1, <1>3 DEF Stored
  <2>2. mem[c] # NoData <=> \E k \in 1 .. n : blocks[k].buf = c
    BY <1>12 DEF CInv, Owned
  <2>3. \A k \in 1 .. n : blocks[k].buf = blocks[i].buf => k = i
    BY <1>4 DEF CInv, OwnersDiffer
  <2> QED BY <1>4, <2>1, <2>2, <2>3
<1>15. EvictsABlock'
  <2>1. \A o \in Threads : pc'[o] # "evict"
    BY <1>2 DEF Writing
  <2> QED BY <2>1 DEF EvictsABlock
<1> QED BY <1>2, <1>7, <1>9, <1>10, <1>11, <1>13, <1>14, <1>15 DEF CInv

LEMMA EvictRefillStep ==
  ASSUME IInv, CInv, NEW t \in Threads, EvictRefill(t)
  PROVE  CInv'
<1> DEFINE n == Len(blocks)
           i == block[t]
<1>1. /\ pc[t] = "refill" /\ Goto(t, "resize") /\ UNCHANGED <<main, requests>>
      /\ UNCHANGED <<uri, block, cursor, loaded, data, size, total_size>>
      /\ pc[t] \in Writing /\ "resize" \in Writing
  BY DEF EvictRefill, RefillVictim, At, Writing, locals
<1>2. /\ pc'[t] = "resize" /\ MainOK' /\ Half = {t} /\ Half' = {t}
      /\ AtOneOf({"refill"}) = {t} /\ AtOneOf({"refill"})' = {}
      /\ \A o \in Threads : o # t => pc'[o] = pc[o] /\ pc[o] \notin Writing
  BY <1>1, WriterStep
<1>3. Placed(t) /\ Locals /\ Stored
  BY DEF CInv
<1>4. i \in 1 .. n /\ n \in Nat
  BY <1>1, <1>3, PointerIsBlock DEF Stored, Placed
<1>5. uri[t] \in Uris /\ data[t] \in Content /\ data[t] # NoData
  BY <1>1, <1>3 DEF Placed, Locals
<1>6. PICK b \in FreeBufs :
        /\ blocks' = [blocks EXCEPT ![i].buf = b, ![i].key = uri[t]]
        /\ mem' = [mem EXCEPT ![b] = data[t]]
  BY DEF EvictRefill, RefillVictim
<1>7. b \in Bufs /\ mem[b] = NoData
  BY DEF FreeBufs
<1> HIDE DEF i
<1>8. /\ blocks' \in Seq(Block) /\ Len(blocks') = n
      /\ \A k \in 1 .. n : /\ blocks'[k].size = blocks[k].size
                           /\ blocks'[k].buf = IF k = i THEN b ELSE blocks[k].buf
  <2>1. \A k \in 1 .. n : blocks[k] \in Block
    BY <1>3 DEF Stored
  <2> DEFINE new == [blocks[i] EXCEPT !.buf = b, !.key = uri[t]]
  <2>2. new \in Block /\ new.size = blocks[i].size /\ new.buf = b
    BY <1>4, <1>5, <1>7, <2>1 DEF Block
  <2>3. blocks' = [blocks EXCEPT ![i] = new]
    BY <1>3, <1>4, <1>6 DEF Stored
  <2> HIDE DEF new
  <2>4. /\ \A k \in 1 .. n : blocks'[k] = IF k = i THEN new ELSE blocks[k]
        /\ blocks' \in Seq(Block) /\ Len(blocks') = n
    BY <1>3, <1>4, <2>2, <2>3, ExceptSeq DEF Stored
  <2> QED BY <2>2, <2>4
<1>9. Stored'
  <2>1. mem' \in [Bufs -> Content]
    BY <1>3, <1>5, <1>6 DEF Stored
  <2> QED BY <1>1, <1>3, <1>8, <2>1 DEF Stored
<1>10. Locals' /\ Mine(t)
  BY <1>1, <1>2, <1>3 DEF Locals, Mine
<1>11. \A o \in Threads : Placed(o)'
  <2>1. Placed(t)'
    BY <1>1, <1>2, <1>3, <1>8 DEF Placed
  <2>2. n <= Len(blocks')
    BY <1>4, <1>8
  <2> QED BY <1>8, <1>10, <2>1, <2>2, LocalStep
<1>12. Ledger'
  <2>1. SizeSum' = SizeSum
    <3>1. SumOfSizes(blocks') = SumOfSizes(blocks)
      BY <1>3, <1>8, SumOfSame DEF Stored
    <3> QED BY <3>1 DEF SizeSum
  <2>2. total_size + blocks[i].size = SizeSum
    BY <1>2 DEF CInv, Ledger, i
  <2>3. total_size' + blocks'[block'[t]].size = SizeSum'
    BY <1>1, <1>4, <1>8, <2>1, <2>2 DEF i
  <2> QED BY <1>2, <2>3 DEF Ledger
<1>13. \A k : (Dangling(k) <=> k = i) /\ ~ Dangling(k)'
  BY <1>2 DEF Dangling, i
<1>14. \A c \in Bufs : mem[c] # NoData <=> \E k \in 1 .. n : blocks[k].buf = c /\ k # i
  BY <1>13 DEF CInv, Owned
<1>15. \A k \in 1 .. n : k # i => blocks[k].buf # b
  BY <1>7, <1>14
<1>16. OwnersDiffer'
  <2> SUFFICES ASSUME NEW j \in 1 .. n, NEW k \in 1 .. n, blocks'[j].buf = blocks'[k].buf
               PROVE  j = k
    BY <1>8 DEF OwnersDiffer
  <2> QED BY <1>8, <1>15 DEF CInv, OwnersDiffer
<1>17. Owned'
  <2> SUFFICES ASSUME NEW c \in Bufs
               PROVE  mem'[c] # NoData <=> \E k \in 1 .. n : blocks'[k].buf = c
    BY <1>8, <1>13 DEF Owned
  <2>1. mem'[c] = IF c = b THEN data[t] ELSE mem[c]
    BY <1>3, <1>6 DEF Stored
  <2>2. CASE c = b
    BY <1>4, <1>5, <1>8, <2>1, <2>2
  <2>3. CASE c # b
    BY <1>8, <1>14, <2>1, <2>3
  <2> QED BY <2>2, <2>3
<1>18. EvictsABlock'
  <2>1. \A o \in Threads : pc'[o] # "evict"
    BY <1>2 DEF Writing
  <2> QED BY <2>1 DEF EvictsABlock
<1> QED BY <1>2, <1>9, <1>10, <1>11, <1>12, <1>16, <1>17, <1>18 DEF CInv

LEMMA EvictResizeStep ==
  ASSUME IInv, CInv, NEW t \in Threads, EvictResize(t)
  PROVE  CInv'
<1> DEFINE n == Len(blocks)
           i == block[t]
<1>1. /\ pc[t] = "resize" /\ Goto(t, "inserted") /\ UNCHANGED <<main, requests>>
      /\ UNCHANGED <<uri, block, cursor, loaded, data, size, mem>>
      /\ blocks' = [blocks EXCEPT ![i].size = size[t], ![i].ucount = 0]
      /\ total_size' = total_size + size[t]
      /\ pc[t] \in Writing /\ "inserted" \in Writing
  BY DEF EvictResize, ResizeVictim, At, Writing, locals
<1>2. /\ pc'[t] = "inserted" /\ MainOK' /\ Half = {t} /\ Half' = {}
      /\ AtOneOf({"refill"}) = {} /\ AtOneOf({"refill"})' = {}
      /\ \A o \in Threads : o # t => pc'[o] = pc[o] /\ pc[o] \notin Writing
  BY <1>1, WriterStep
<1>3. Placed(t) /\ Locals /\ Stored
  BY DEF CInv
<1>4. i \in 1 .. n /\ n \in Nat
  BY <1>1, <1>3, PointerIsBlock DEF Stored, Placed
<1>5. size[t] \in Nat
  BY <1>3 DEF Locals
<1> HIDE DEF i
<1>6. /\ blocks' \in Seq(Block) /\ Len(blocks') = n
      /\ blocks'[i].size = size[t]
      /\ \A k \in 1 .. n : /\ k # i => blocks'[k].size = blocks[k].size
                           /\ blocks'[k].buf = blocks[k].buf
  <2>1. \A k \in 1 .. n : blocks[k] \in Block
    BY <1>3 DEF Stored
  <2> DEFINE new == [blocks[i] EXCEPT !.size = size[t], !.ucount = 0]
  <2>2. new \in Block /\ new.size = size[t] /\ new.buf = blocks[i].buf
    BY <1>4, <1>5, <2>1 DEF Block
  <2>3. blocks' = [blocks EXCEPT ![i] = new]
    BY <1>1, <1>3, <1>4 DEF Stored
  <2> HIDE DEF new
  <2>4. /\ \A k \in 1 .. n : blocks'[k] = IF k = i THEN new ELSE blocks[k]
        /\ blocks' \in Seq(Block) /\ Len(blocks') = n
    BY <1>3, <1>4, <2>2, <2>3, ExceptSeq DEF Stored
  <2> QED BY <1>4, <2>2, <2>4
<1>7. Stored'
  <2>1. total_size' \in Nat
    BY <1>1, <1>3, <1>5 DEF Stored
  <2> QED BY <1>1, <1>3, <1>6, <2>1 DEF Stored
<1>8. Locals' /\ Mine(t)
  BY <1>1, <1>2, <1>3 DEF Locals, Mine
<1>9. \A o \in Threads : Placed(o)'
  <2>1. Placed(t)'
    BY <1>1, <1>2, <1>3, <1>6 DEF Placed
  <2>2. n <= Len(blocks')
    BY <1>4, <1>6
  <2> QED BY <1>6, <1>8, <2>1, <2>2, LocalStep
<1>10. Ledger'
  <2>1. total_size + blocks[i].size = SizeSum
    BY <1>2 DEF CInv, Ledger, i
  <2>2. SumOfSizes(blocks') = SumOfSizes(blocks) - blocks[i].size + blocks'[i].size
    BY <1>3, <1>4, <1>6, SumOfChanged DEF Stored
  <2>3. total_size \in Nat /\ blocks[i].size \in Nat
    BY <1>3, <1>4, BlockSizes DEF Stored
  <2>4. total_size' = SizeSum'
    BY <1>1, <1>5, <1>6, <2>1, <2>2, <2>3 DEF SizeSum
  <2> QED BY <1>2, <2>4 DEF Ledger
<1>11. \A k : ~ Dangling(k) /\ ~ Dangling(k)'
  BY <1>2 DEF Dangling
<1>12. OwnersDiffer' /\ Owned'
  <2>1. OwnersDiffer'
    BY <1>6 DEF CInv, OwnersDiffer
  <2>2. Owned'
    BY <1>1, <1>6, <1>11 DEF CInv, Owned
  <2> QED BY <2>1, <2>2
<1>13. EvictsABlock'
  <2>1. \A o \in Threads : pc'[o] # "evict"
    BY <1>2 DEF Writing
  <2> QED BY <2>1 DEF EvictsABlock
<1> QED BY <1>2, <1>7, <1>8, <1>9, <1>10, <1>12, <1>13 DEF CInv

----------------------------------------------------------------------------
(* The invariant holds *)

LEMMA CacheStarts == Init => CInv
<1> SUFFICES ASSUME Init PROVE CInv
  OBVIOUS
<1>1. /\ blocks = << >> /\ total_size = 0 /\ mem = [b \in Bufs |-> NoData]
      /\ pc = [t \in Threads |-> "idle"] /\ main = "accept" /\ requests = 0
      /\ uri = [t \in Threads |-> ""] /\ block = [t \in Threads |-> 0]
      /\ cursor = [t \in Threads |-> 0] /\ loaded = [t \in Threads |-> 0]
      /\ data = [t \in Threads |-> Junk] /\ size = [t \in Threads |-> 0]
  BY DEF Init, CacheInit, NULL
<1>2. blocks \in Seq(Block) /\ Len(blocks) = 0
  <2>1. << >> \in Seq(Block) /\ Len(<< >>) = 0
    BY EmptySeq
  <2> QED BY <1>1, <2>1
<1>3. NoData \in Content /\ Junk \in Content /\ Junk # NoData
  BY DEF NoData, Junk, Content
<1>4. Stored /\ Locals /\ MainOK
  <2>1. Stored
    BY <1>1, <1>2, <1>3 DEF Stored
  <2>2. Locals
    BY <1>1, <1>3 DEF Locals
  <2>3. MainOK
    <3>1. MaxRequests \in Nat
      BY ProxyAssumption
    <3>2. 0 \in 0 .. MaxRequests
      BY <3>1
    <3> QED BY <1>1, <3>2 DEF MainOK
  <2> QED BY <2>1, <2>2, <2>3
<1>5. \A t \in Threads : Placed(t)
  <2> SUFFICES ASSUME NEW t \in Threads PROVE Placed(t)
    OBVIOUS
  <2>1. pc[t] = "idle" /\ block[t] = 0 /\ cursor[t] = 0 /\ data[t] = Junk
    BY <1>1
  <2> QED BY <1>2, <1>3, <2>1 DEF Placed, Writing
<1>6. Half = {} /\ \A i : ~ Dangling(i)
  BY <1>1 DEF Half, Dangling, AtOneOf
<1>7. Ledger
  BY <1>1, <1>6, SumOfNone DEF Ledger, SizeSum
<1>8. OwnersDiffer /\ Owned /\ EvictsABlock
  <2>1. 1 .. Len(blocks) = {}
    BY <1>2
  <2>2. OwnersDiffer /\ Owned
    BY <1>1, <2>1 DEF OwnersDiffer, Owned
  <2>3. EvictsABlock
    BY <1>1 DEF EvictsABlock
  <2> QED BY <2>2, <2>3
<1> QED BY <1>4, <1>5, <1>7, <1>8 DEF CInv

(* Steps that move no thread and touch neither the cache nor a local.      *)
LEMMA CacheStutter ==
  ASSUME CInv, UNCHANGED <<cachevars, pc, locals>>, MainOK'
  PROVE  CInv'
<1>1. UNCHANGED <<blocks, total_size, mem, pc, uri, block, cursor, loaded, data, size>>
  BY DEF cachevars, locals
<1>2. Stored' /\ Locals'
  BY <1>1 DEF CInv, Stored, Locals
<1>3. \A t \in Threads : Placed(t)'
  BY <1>1 DEF CInv, Placed
<1>4. Ledger' /\ OwnersDiffer' /\ Owned'
  BY <1>1 DEF CInv, Ledger, OwnersDiffer, Owned, Half, Dangling, AtOneOf, SizeSum
<1>5. EvictsABlock'
  BY <1>1 DEF CInv, EvictsABlock
<1> QED BY <1>2, <1>3, <1>4, <1>5 DEF CInv

LEMMA NextCInv == IInv /\ CInv /\ [Next]_vars => CInv'
<1> SUFFICES ASSUME IInv, CInv, [Next]_vars PROVE CInv'
  OBVIOUS
<1>1. CASE Accept
  <2>1. MainOK'
    BY <1>1, ProxyAssumption DEF CInv, MainOK, Accept
  <2> QED BY <1>1, <2>1, CacheStutter DEF Accept
<1>2. CASE Fail
  <2>1. MainOK'
    BY <1>2 DEF CInv, MainOK, Fail
  <2> QED BY <1>2, <2>1, CacheStutter DEF Fail
<1>5. CASE CreateFails
  <2>1. MainOK'
    BY <1>5 DEF CInv, MainOK, CreateFails
  <2> QED BY <1>5, <2>1, CacheStutter DEF CreateFails
<1>3. CASE Over \/ UNCHANGED vars
  <2>1. UNCHANGED <<cachevars, pc, locals>> /\ UNCHANGED <<main, requests>>
    BY <1>3 DEF Over, vars, cachevars, locals
  <2>2. MainOK'
    BY <2>1 DEF CInv, MainOK
  <2> QED BY <2>1, <2>2, CacheStutter
<1>4. ASSUME NEW t \in Threads, Step(t) \/ Client(t) \/ Server(t)
      PROVE  CInv'
  <2>1. CASE \/ Create(t) \/ ThreadStart(t) \/ Enter(t) \/ First(t) \/ Leave(t)
             \/ LockHit(t) \/ LockMiss(t)
    BY <2>1, SemaphoreSteps
  <2>2. CASE ReadRequest(t) \/ ReadPiece(t)
    BY <2>2, ReadSteps
  <2>3. CASE ReadBlock(t) \/ WriteBlock(t)
    BY <2>3, HitSteps
  <2>4. CASE Inquire(t) \/ Load(t) \/ Store(t)
    BY <2>4, LookupSteps
  <2>5. CASE Parse(t) \/ EndOfResponse(t) \/ LockInsert(t)
    BY <2>5, MissSteps
  <2>6. CASE UnlockHit(t) \/ UnlockInsert(t)
    <3>1. /\ Return(t) /\ UNCHANGED cachevars /\ pc[t] \notin {"refill", "resize"}
          /\ UNCHANGED <<main, requests>>
      BY <2>6 DEF UnlockHit, UnlockInsert, At
    <3> QED BY <3>1, ReturnSteps
  <2>7. CASE AddBlock(t)
    BY <2>7, AddStep
  <2>8. CASE EvictFree(t)
    BY <2>8, EvictFreeStep
  <2>9. CASE EvictRefill(t)
    BY <2>9, EvictRefillStep
  <2>10. CASE EvictResize(t)
    BY <2>10, EvictResizeStep
  <2> QED BY <1>4, <2>1, <2>2, <2>3, <2>4, <2>5, <2>6, <2>7, <2>8, <2>9, <2>10
          DEF Step, Client, Server, Lookup, Insert
<1> QED BY <1>1, <1>2, <1>3, <1>4, <1>5 DEF Next

----------------------------------------------------------------------------
(* What the invariant says *)

LEMMA TypesHold == IInv /\ CInv => TypeOK
<1> SUFFICES ASSUME IInv, CInv PROVE TypeOK
  OBVIOUS
<1>1. Stored /\ Locals /\ MainOK /\ Labelled /\ \A t \in Threads : Placed(t)
  BY DEF CInv, IInv
<1>2. mutex \in {0, 1} /\ op_mut \in {0, 1} /\ cache_mut \in {0, 1}
  <2>1. /\ Cnt(InMutex) \in Nat /\ Cnt({"first"}) \in Nat /\ Cnt(Writing) \in Nat
    BY CntType
  <2>2. /\ mutex + Cnt(InMutex) = Kept
        /\ op_mut + Cnt({"first"}) = 1
        /\ cache_mut + Cnt(Writing) + Bit(Cnt(Reading) # 0) = 1
        /\ mutex \in Nat /\ op_mut \in Nat /\ cache_mut \in Nat
    BY CountForm DEF IInv, Labelled
  <2>3. Bit(Cnt(Reading) # 0) \in {0, 1} /\ Kept \in {0, 1}
    BY DEF Bit, Kept
  <2>4. mutex \in {0, 1}
    BY <2>1, <2>2, <2>3
  <2>5. op_mut \in {0, 1}
    BY <2>1, <2>2
  <2>6. cache_mut \in {0, 1}
    <3>1. /\ cache_mut + Cnt(Writing) + Bit(Cnt(Reading) # 0) = 1
          /\ cache_mut \in Nat /\ Cnt(Writing) \in Nat /\ Bit(Cnt(Reading) # 0) \in {0, 1}
      BY <2>1, <2>2, <2>3
    <3> QED BY <3>1
  <2> QED BY <2>4, <2>5, <2>6
<1>3. readcnt \in 0 .. Cardinality(Threads)
  <2> DEFINE A == AtOneOf(Reading \cup {"first"})
  <2>1. readcnt = Cardinality(A)
    BY DEF IInv, SemaphoresCount
  <2>2. A \in SUBSET Threads
    BY DEF AtOneOf
  <2> HIDE DEF A
  <2>3. Cardinality(A) <= Cardinality(Threads) /\ IsFiniteSet(A)
    BY <2>2, FS_Subset, ProxyAssumption
  <2>4. Cardinality(A) \in Nat /\ Cardinality(Threads) \in Nat
    BY <2>3, FS_CardinalityType, ProxyAssumption
  <2> QED BY <2>1, <2>3, <2>4
<1>4. \A t \in Threads : block[t] \in 0 .. Len(blocks)
  <2> SUFFICES ASSUME NEW t \in Threads PROVE block[t] \in 0 .. Len(blocks)
    OBVIOUS
  <2>1. Len(blocks) \in Nat
    BY <1>1 DEF Stored
  <2>2. block[t] \in Nat /\ block[t] <= Len(blocks)
    BY <1>1 DEF Locals, Placed
  <2> QED BY <2>1, <2>2
<1>5. \A t \in Threads : cursor[t] \in Bufs \cup (0 .. Len(blocks))
  BY <1>1 DEF Placed
<1> QED BY <1>1, <1>2, <1>3, <1>4, <1>5 DEF TypeOK, Stored, Locals, MainOK, Labelled

(* Where no block dangles, the blocks are as many as the buffers in use.   *)
LEMMA OneBufferEach ==
  ASSUME CInv, Half = {}
  PROVE  BuffersOwned
<1> DEFINE n == Len(blocks)
           f == [i \in 1 .. n |-> blocks[i].buf]
<1>1. n \in Nat /\ DOMAIN blocks = 1 .. n
  BY DEF CInv, Stored
<1>2. \A i : ~ Dangling(i)
  BY DEF Dangling, Half, AtOneOf
<1>3. \A b \in Bufs : mem[b] # NoData <=> \E i \in 1 .. n : blocks[i].buf = b
  BY <1>2 DEF CInv, Owned
<1>4. LiveBufs \subseteq Bufs
  <2>1. \A i \in 1 .. n : blocks[i] \in Block
    BY DEF CInv, Stored
  <2> QED BY <1>1, <2>1 DEF LiveBufs, Block
<1>5. Bufs \ FreeBufs = LiveBufs
  BY <1>1, <1>3, <1>4 DEF FreeBufs, LiveBufs
<1>6. Cardinality(LiveBufs) = n
  <2>1. f \in Bijection(1 .. n, LiveBufs)
    <3>1. f \in [1 .. n -> LiveBufs]
      BY <1>1 DEF LiveBufs
    <3>2. \A i, k \in 1 .. n : f[i] = f[k] => i = k
      BY DEF CInv, OwnersDiffer
    <3>3. \A b \in LiveBufs : \E i \in 1 .. n : f[i] = b
      BY <1>1 DEF LiveBufs
    <3> HIDE DEF f
    <3> QED BY <3>1, <3>2, <3>3 DEF Bijection, Injection, Surjection, IsInjective
  <2>2. ExistsBijection(1 .. n, LiveBufs)
    BY <2>1 DEF ExistsBijection
  <2>3. IsFiniteSet(1 .. n) /\ Cardinality(1 .. n) = n
    <3>1. n \in Int /\ 1 \in Int /\ n >= 0
      BY <1>1
    <3> HIDE DEF n
    <3>2. IsFiniteSet(1 .. n) /\ Cardinality(1 .. n) = IF 1 > n THEN 0 ELSE n - 1 + 1
      BY <3>1, FS_Interval
    <3>3. (IF 1 > n THEN 0 ELSE n - 1 + 1) = n
      BY <3>1
    <3> QED BY <3>2, <3>3
  <2> HIDE DEF n
  <2> QED BY <2>2, <2>3, FS_Bijection
<1> QED BY <1>5, <1>6 DEF BuffersOwned

(* The cache of the proxy is sound, however lookups and insertions of any  *)
(* number of threads interleave: total_size, the list and the memory agree *)
(* whenever no insertion is under way, and every pointer is good.          *)
THEOREM CacheStaysSound == Spec => []CacheIsSound
<1>1. IInv /\ CInv => CacheIsSound
  <2> SUFFICES ASSUME IInv, CInv PROVE CacheIsSound
    OBVIOUS
  <2>1. TypeOK
    BY TypesHold
  <2>2. EvictsABlock
    BY DEF CInv
  <2>3. ASSUME AtOneOf(Writing) = {} PROVE TotalSizeIsSum /\ BuffersOwned
    <3>1. Half = {}
      BY <2>3 DEF Half, AtOneOf, Writing
    <3>2. BuffersOwned
      BY <3>1, OneBufferEach
    <3> QED BY <3>1, <3>2 DEF CInv, Ledger, TotalSizeIsSum
  <2> QED BY <2>1, <2>2, <2>3 DEF CacheIsSound
<1> QED BY <1>1, InitIInv, NextIInv, CacheStarts, NextCInv, PTL DEF Spec
=============================================================================
