--------------------------- MODULE SDriverProofs ---------------------------
(***************************************************************************)
(* Proofs about SDriver.tla and the RunTrace.tla it runs, for any traces,  *)
(* any number of processes and of iterations.                              *)
(***************************************************************************)
EXTENDS SDriver, FiniteSetTheorems, SequenceTheorems, TLAPS

Phases == {"test", "ref", "diff", "score", "scored", "failed"}

(* The first m traces are graded: each is correct unless one of its        *)
(* iterations showed a difference, and the correct ones are counted.       *)
Earned(m) ==
  /\ \A k \in 1..m : correct[k] <=> k \notin wrong
  /\ num_correct = Cardinality((1..m) \ wrong)

\* where the loops of main() are
Places ==
  /\ tests \in TestLists
  /\ i \in 1..Len(tests)
  /\ phase \in Phases
  /\ correct \in [1..Len(tests) -> BOOLEAN]
  /\ singletrace \in BOOLEAN

(* While trace i is run none of its iterations has shown a difference: the *)
(* first one to do so ends the loop over the iterations.                   *)
UpToHere == phase \in {"test", "ref", "diff"} => wrong \subseteq 1..(i - 1) /\ Earned(i - 1)

AllGraded == phase \in {"score", "scored"} => wrong \subseteq 1..Len(tests) /\ Earned(Len(tests))

Posted ==
  post \in {<<>>, [k \in DOMAIN tests |-> IF correct[k] THEN "y" ELSE "n"]}
Unposted == phase # "scored" => post = <<>>

GInv == Places /\ Unposted /\ Posted /\ (~singletrace => UpToHere /\ AllGraded)

----------------------------------------------------------------------------
LEMMA ListsOfTraces ==
  ASSUME tests \in TestLists
  PROVE  /\ Len(tests) \in Nat \ {0}
         /\ DOMAIN tests = 1..Len(tests)
<1>1. tests \in Seq(DOMAIN Reference \cap Traces) /\ tests # <<>>
  BY SDriverAssumption DEF SDriverAssumption
<1> QED
  BY <1>1

\* a trace more, right or wrong
LEMMA OneMore ==
  ASSUME NEW n \in Nat \ {0}, NEW W, W \subseteq 1..(n - 1)
  PROVE  /\ Cardinality((1..n) \ W) = Cardinality((1..(n - 1)) \ W) + 1
         /\ (1..n) \ (W \cup {n}) = (1..(n - 1)) \ W
<1> DEFINE Before == (1..(n - 1)) \ W
<1>1. IsFiniteSet(1..(n - 1))
  BY FS_Interval
<1>2. IsFiniteSet(Before)
  BY <1>1, FS_Subset
<1>3. n \notin Before
  OBVIOUS
<1>4. (1..n) \ W = Before \cup {n}
  OBVIOUS
<1>5. Cardinality(Before \cup {n}) = Cardinality(Before) + 1
  BY <1>2, <1>3, FS_AddElement
<1> QED
  BY <1>4, <1>5

LEMMA GradesStart == SDInit => GInv
<1> SUFFICES ASSUME SDInit PROVE GInv
  OBVIOUS
<1> USE DEF SDInit
<1>1. Len(tests) \in Nat \ {0} /\ DOMAIN tests = 1..Len(tests)
  BY ListsOfTraces
<1>2. Places
  BY <1>1 DEF Places, Phases
<1>3. Unposted /\ Posted
  BY DEF Unposted, Posted
<1>4. Cardinality((1..0) \ wrong) = 0
  <2>1. (1..0) \ wrong = {}
    OBVIOUS
  <2> QED
    BY <2>1, FS_EmptySet
<1>5. UpToHere /\ AllGraded
  BY <1>1, <1>4 DEF UpToHere, AllGraded, Earned
<1> QED
  BY <1>2, <1>3, <1>5 DEF GInv

\* a difference or none: what one comparison does to the grades
LEMMA DiffGrades ==
  ASSUME GInv, Diff
  PROVE  GInv'
<1>1. /\ phase = "diff"
      /\ correct' = [correct EXCEPT ![i] = Matches]
      /\ wrong' = IF Matches THEN wrong ELSE wrong \cup {i}
      /\ num_correct' = IF Matches /\ (singletrace \/ ~Again(Matches)) THEN num_correct + 1 ELSE num_correct
      /\ UNCHANGED <<singletrace, tests, post>>
  BY DEF Diff
<1>2. /\ Len(tests) \in Nat \ {0} /\ DOMAIN tests = 1..Len(tests)
      /\ i \in 1..Len(tests)
  BY ListsOfTraces DEF GInv, Places
<1>3. Matches \in BOOLEAN
  BY DEF Matches
<1>4. \/ Again(Matches) /\ i' = i /\ phase' = "test"
      \/ ~Again(Matches) /\ i < Len(tests) /\ i' = i + 1 /\ phase' = "test"
      \/ ~Again(Matches) /\ i = Len(tests) /\ i' = i /\ phase' = "score"
  <2>1. CASE Again(Matches)
    BY <2>1 DEF Diff, StartTest
  <2>2. CASE ~Again(Matches) /\ i < Len(tests)
    BY <2>2 DEF Diff, StartTest
  <2>3. CASE ~Again(Matches) /\ ~(i < Len(tests))
    BY <2>3, <1>2 DEF Diff
  <2> QED
    BY <2>1, <2>2, <2>3
<1>5. Places'
  <2>1. (tests \in TestLists /\ singletrace \in BOOLEAN)'
    BY <1>1 DEF GInv, Places
  <2>2. correct' \in [1..Len(tests) -> BOOLEAN]
    BY <1>1, <1>2, <1>3 DEF GInv, Places
  <2>3. phase' \in Phases
    BY <1>4 DEF Phases
  <2>4. i' \in 1..Len(tests)
    <3>1. Len(tests) \in Nat /\ i \in Int /\ 1 <= i /\ i <= Len(tests)
      BY <1>2
    <3>2. i' = i \/ (i < Len(tests) /\ i' = i + 1)
      BY <1>4
    <3> QED
      BY <3>1, <3>2
  <2> QED
    BY <1>1, <2>1, <2>2, <2>3, <2>4 DEF Places
<1>6. (Unposted /\ Posted)'
  BY <1>1, <1>4 DEF GInv, Unposted, Posted
<1>7. ASSUME ~singletrace
      PROVE  (UpToHere /\ AllGraded)'
  <2>1. wrong \subseteq 1..(i - 1) /\ Earned(i - 1)
    BY <1>1, <1>7 DEF GInv, UpToHere
  <2>2. correct \in [1..Len(tests) -> BOOLEAN]
    BY DEF GInv, Places
  <2>3. \A k \in 1..(i - 1) : correct'[k] = correct[k] /\ (k \in wrong' <=> k \in wrong)
    BY <1>1, <1>2, <2>2
  <2>4. correct'[i] = Matches
    BY <1>1, <1>2, <2>2
  <2>5. CASE Again(Matches)
    <3>1. Matches
      BY <1>7, <2>5 DEF Again
    <3>2. wrong' = wrong /\ num_correct' = num_correct
      BY <1>1, <1>7, <2>5, <3>1
    <3>3. i' = i /\ phase' = "test"
      BY <1>4, <2>5
    <3> QED
      BY <2>1, <2>3, <3>2, <3>3 DEF UpToHere, AllGraded, Earned
  <2>6. CASE ~Again(Matches)
    <3>1. wrong' \subseteq 1..i
      BY <1>1, <1>2, <2>1
    <3>2. i \in wrong' <=> ~Matches
      BY <1>1, <1>2, <2>1
    <3>3. \A k \in 1..i : correct'[k] <=> k \notin wrong'
      BY <1>2, <2>1, <2>3, <2>4, <3>2 DEF Earned
    <3>4. num_correct' = Cardinality((1..i) \ wrong')
      <4> /\ Cardinality((1..i) \ wrong) = Cardinality((1..(i - 1)) \ wrong) + 1
          /\ (1..i) \ (wrong \cup {i}) = (1..(i - 1)) \ wrong
        <5>1. i \in Nat \ {0}
          BY <1>2
        <5> QED
          BY <2>1, <5>1, OneMore
      <4>1. CASE Matches
        BY <1>1, <2>1, <2>6, <4>1 DEF Earned
      <4>2. CASE ~Matches
        BY <1>1, <2>1, <4>2 DEF Earned
      <4> QED
        BY <4>1, <4>2
    <3>5. CASE i' = i + 1 /\ phase' = "test"
      BY <1>2, <3>1, <3>3, <3>4, <3>5 DEF UpToHere, AllGraded, Earned
    <3>6. CASE i = Len(tests) /\ i' = i /\ phase' = "score"
      BY <1>1, <1>2, <3>1, <3>3, <3>4, <3>6 DEF UpToHere, AllGraded, Earned
    <3> QED
      BY <1>4, <2>6, <3>5, <3>6
  <2> QED
    BY <2>5, <2>6
<1>8. singletrace' = singletrace
  BY <1>1
<1> QED
  BY <1>5, <1>6, <1>7, <1>8 DEF GInv

LEMMA GradesStep == GInv /\ [SDNext]_allvars => GInv'
<1> SUFFICES ASSUME GInv, [SDNext]_allvars PROVE GInv'
  OBVIOUS
<1> USE DEF GInv, Places, Phases, Unposted, Posted, UpToHere, AllGraded, Earned
<1>1. CASE TestDone
  BY <1>1 DEF TestDone, gradevars
<1>2. CASE RefDone
  BY <1>2 DEF RefDone, gradevars
<1>3. CASE RefGivesUp \/ RefFails
  BY <1>3 DEF RefGivesUp, RefFails, gradevars
<1>4. CASE Diff
  BY <1>4, DiffGrades
<1>5. CASE Score
  <2>1. post' \in {<<>>, [k \in DOMAIN tests |-> IF correct[k] THEN "y" ELSE "n"]}
    BY <1>5 DEF Score, driver_post
  <2> QED
    BY <1>5, <2>1 DEF Score
<1>6. CASE Testing(Next)
  BY <1>6 DEF Testing, sdvars, gradevars
<1>7. CASE UNCHANGED allvars
  BY <1>7 DEF allvars, sdvars, gradevars
<1> QED
  BY <1>1, <1>2, <1>3, <1>4, <1>5, <1>6, <1>7 DEF SDNext, SDStep

LEMMA GradesEarned == GInv => ScoreIsEarned
<1> SUFFICES ASSUME GInv, phase = "scored", ~singletrace
             PROVE  /\ post # <<>> => \A k \in DOMAIN tests : post[k] = "y" <=> k \notin wrong
                    /\ num_correct = Cardinality(DOMAIN tests \ wrong)
  BY DEF ScoreIsEarned
<1>1. DOMAIN tests = 1..Len(tests)
  BY ListsOfTraces DEF GInv, Places
<1>2. Earned(Len(tests))
  BY DEF GInv, AllGraded
<1>3. \A k \in DOMAIN tests : correct[k] <=> k \notin wrong
  BY <1>1, <1>2 DEF Earned
<1>4. ASSUME post # <<>>
      PROVE  \A k \in DOMAIN tests : post[k] = "y" <=> k \notin wrong
  BY <1>3, <1>4 DEF GInv, Posted
<1> QED
  BY <1>1, <1>2, <1>4 DEF Earned

(* Whatever the shells print and however often a trace is run, the posted  *)
(* points are those of the traces none of whose runs showed a difference,  *)
(* and the score counts the same ones (sdriver.c:199-233).                 *)
THEOREM ScoreEarned == SDSpec => []ScoreIsEarned
<1>1. SDInit => GInv
  BY GradesStart
<1>2. GInv /\ [SDNext]_allvars => GInv'
  BY GradesStep
<1>3. GInv => ScoreIsEarned
  BY GradesEarned
<1> QED
  BY <1>1, <1>2, <1>3, PTL DEF SDSpec

----------------------------------------------------------------------------
(* NEXT and the prompts.  First what a datagram does to those in datafd:   *)
(* their pieces are of many kinds, so a sequence is one over its elements. *)

IsSeq(s) == s \in Seq({s[k] : k \in DOMAIN s})

LEMMA EmptyIsSeq == IsSeq(<<>>) /\ Len(<<>>) = 0
BY EmptySeq DEF IsSeq

LEMMA Longer ==
  ASSUME NEW s, IsSeq(s), NEW d
  PROVE  /\ IsSeq(Append(s, d))
         /\ Len(s) \in Nat /\ DOMAIN s = 1..Len(s)
         /\ DOMAIN Append(s, d) = 1..(Len(s) + 1)
         /\ \A k \in 1..Len(s) : Append(s, d)[k] = s[k]
         /\ Append(s, d)[Len(s) + 1] = d
<1> DEFINE S == {s[k] : k \in DOMAIN s} \cup {d}
<1>1. s \in Seq(S)
  BY SeqMonotonic, {s[k] : k \in DOMAIN s} \subseteq S DEF IsSeq
<1>2. d \in S
  OBVIOUS
<1>3. Len(s) \in Nat /\ DOMAIN s = 1..Len(s)
  BY <1>1, LenProperties
<1> HIDE DEF S
<1>4. Append(s, d) \in Seq(S) /\ Len(Append(s, d)) = Len(s) + 1
  BY <1>1, <1>2
<1>5. /\ \A k \in 1..Len(s) : Append(s, d)[k] = s[k]
      /\ Append(s, d)[Len(s) + 1] = d
  BY <1>1, <1>2
<1>6. DOMAIN Append(s, d) = 1..(Len(s) + 1)
  BY <1>4, LenProperties
<1>7. S = {Append(s, d)[k] : k \in DOMAIN Append(s, d)}
  <2>1. ASSUME NEW x \in S PROVE \E k \in 1..(Len(s) + 1) : x = Append(s, d)[k]
    <3>1. CASE x = d
      BY <1>3, <1>5, <3>1
    <3>2. CASE \E k \in 1..Len(s) : x = s[k]
      BY <1>3, <1>5, <3>2
    <3> QED
      BY <1>3, <3>1, <3>2 DEF S
  <2>2. ASSUME NEW k \in 1..(Len(s) + 1) PROVE Append(s, d)[k] \in S
    BY <1>4, <1>6, ElementOfSeq
  <2> QED
    BY <1>6, <2>1, <2>2
<1> QED
  BY <1>3, <1>4, <1>5, <1>6, <1>7 DEF IsSeq

LEMMA Shorter ==
  ASSUME NEW s, IsSeq(s), s # <<>>
  PROVE  /\ IsSeq(Tail(s))
         /\ Len(s) \in Nat \ {0} /\ DOMAIN s = 1..Len(s)
         /\ Len(Tail(s)) = Len(s) - 1
         /\ DOMAIN Tail(s) = 1..(Len(s) - 1)
         /\ \A k \in 1..(Len(s) - 1) : Tail(s)[k] = s[k + 1]
         /\ Head(s) = s[1]
         /\ Len(s) = 1 => Tail(s) = <<>>
<1> DEFINE S == {s[k] : k \in DOMAIN s}
<1>1. s \in Seq(S)
  BY DEF IsSeq
<1> HIDE DEF S
<1>2. Len(s) \in Nat \ {0} /\ DOMAIN s = 1..Len(s)
  BY <1>1, LenProperties, EmptySeq
<1>3. /\ Tail(s) \in Seq(S)
      /\ Len(Tail(s)) = Len(s) - 1
      /\ \A k \in 1..Len(Tail(s)) : Tail(s)[k] = s[k + 1]
  BY <1>1, HeadTailProperties
<1>4. Len(Tail(s)) \in Nat /\ DOMAIN Tail(s) = 1..Len(Tail(s))
  BY <1>3, LenProperties
<1> DEFINE T == {Tail(s)[k] : k \in DOMAIN Tail(s)}
<1>5. Tail(s) \in Seq(T)
  <2>1. Tail(s) \in [1..Len(Tail(s)) -> T]
    BY <1>3, <1>4, LenProperties
  <2> QED
    BY <1>4, <2>1, SeqDef
<1>6. Head(s) = s[1]
  BY <1>1
<1>7. Len(s) = 1 => Tail(s) = <<>>
  <2>1. Tail(s) # <<>> => Len(Tail(s)) \in Nat \ {0}
    BY <1>3, EmptySeq
  <2> QED
    BY <1>3, <2>1
<1> QED
  BY <1>2, <1>3, <1>4, <1>5, <1>6, <1>7 DEF IsSeq

LEMMA Joined ==
  ASSUME NEW s, IsSeq(s), NEW t, IsSeq(t)
  PROVE  /\ IsSeq(s \o t)
         /\ \A k \in DOMAIN (s \o t) : \/ \E l \in DOMAIN s : (s \o t)[k] = s[l]
                                       \/ \E l \in DOMAIN t : (s \o t)[k] = t[l]
<1> DEFINE S == {s[k] : k \in DOMAIN s}
           T == {t[k] : k \in DOMAIN t}
           R == {(s \o t)[k] : k \in DOMAIN (s \o t)}
<1>1. s \in Seq(S \cup T) /\ t \in Seq(S \cup T)
  BY SeqMonotonic DEF IsSeq
<1> HIDE DEF S, T
<1>2. /\ s \o t \in Seq(S \cup T)
      /\ Len(s \o t) = Len(s) + Len(t)
      /\ \A k \in 1..(Len(s) + Len(t)) : (s \o t)[k] = IF k <= Len(s) THEN s[k] ELSE t[k - Len(s)]
  BY <1>1, ConcatProperties
<1>3. /\ Len(s) \in Nat /\ DOMAIN s = 1..Len(s)
      /\ Len(t) \in Nat /\ DOMAIN t = 1..Len(t)
  BY <1>1, LenProperties
<1>4. DOMAIN (s \o t) = 1..(Len(s) + Len(t)) /\ s \o t \in [1..(Len(s) + Len(t)) -> S \cup T]
  BY <1>2, LenProperties
<1>5. s \o t \in Seq(R)
  <2>1. s \o t \in [1..(Len(s) + Len(t)) -> R]
    BY <1>4
  <2>2. Len(s) + Len(t) \in Nat
    BY <1>3
  <2> HIDE DEF R
  <2> QED
    BY <2>1, <2>2, SeqDef
<1>6. ASSUME NEW k \in 1..(Len(s) + Len(t))
      PROVE  \/ \E l \in 1..Len(s) : (s \o t)[k] = s[l]
             \/ \E l \in 1..Len(t) : (s \o t)[k] = t[l]
  <2>1. CASE k <= Len(s)
    BY <1>2, <1>3, <2>1
  <2>2. CASE k > Len(s)
    <3>1. k - Len(s) \in 1..Len(t)
      BY <1>3, <2>2
    <3>2. (s \o t)[k] = t[k - Len(s)]
      BY <1>2, <1>3, <2>2
    <3> QED
      BY <3>1, <3>2
  <2> QED
    BY <1>3, <2>1, <2>2
<1> QED
  BY <1>3, <1>4, <1>5, <1>6 DEF IsSeq

\* a piece with two parts is no prompt, nor is another word
LEMMA OtherPieces ==
  ASSUME NEW a, NEW b
  PROVE  /\ IsSeq(<< <<a, b>> >>) /\ ~HasPrompt(<< <<a, b>> >>)
         /\ IsSeq(<< <<a>> >>) /\ (a # "tsh> " => ~HasPrompt(<< <<a>> >>))
<1>1. <<a, b>> # <<"tsh> ">>
  BY Len(<<a, b>>) = 2, Len(<<"tsh> ">>) = 1
<1>2. a # "tsh> " => <<a>> # <<"tsh> ">>
  OBVIOUS
<1>3. ASSUME NEW c PROVE IsSeq(<<c>>) /\ DOMAIN <<c>> = {1} /\ <<c>>[1] = c
  <2>1. DOMAIN <<c>> = {1} /\ <<c>>[1] = c
    OBVIOUS
  <2>2. {<<c>>[k] : k \in DOMAIN <<c>>} = {c}
    BY <2>1
  <2> QED
    BY <2>1, <2>2 DEF IsSeq
<1> QED
  BY <1>1, <1>2, <1>3 DEF HasPrompt, PROMPT

\* no datagram of td has a prompt, at most one has
Quiet(td) == \A k \in DOMAIN td : ~HasPrompt(td[k])
AtMostOne(td) == \A k, l \in DOMAIN td : HasPrompt(td[k]) /\ HasPrompt(td[l]) => k = l

LEMMA OneMoreDatagram ==
  ASSUME NEW td, IsSeq(td), NEW d
  PROVE  /\ IsSeq(Append(td, d))
         /\ Quiet(td) => AtMostOne(Append(td, d))
         /\ Quiet(td) /\ ~HasPrompt(d) => Quiet(Append(td, d))
         /\ AtMostOne(td) /\ ~HasPrompt(d) => AtMostOne(Append(td, d))
<1> DEFINE T == Append(td, d)
<1>1. /\ Len(td) \in Nat /\ DOMAIN td = 1..Len(td) /\ DOMAIN T = 1..(Len(td) + 1)
      /\ \A k \in 1..Len(td) : T[k] = td[k]
      /\ T[Len(td) + 1] = d
      /\ IsSeq(T)
  BY Longer
<1> HIDE DEF T
<1>2. Quiet(td) => AtMostOne(T)
  BY <1>1 DEF Quiet, AtMostOne
<1>3. Quiet(td) /\ ~HasPrompt(d) => Quiet(T)
  BY <1>1 DEF Quiet
<1>4. AtMostOne(td) /\ ~HasPrompt(d) => AtMostOne(T)
  BY <1>1 DEF AtMostOne
<1> QED
  BY <1>1, <1>2, <1>3, <1>4 DEF T

LEMMA OneDatagramLess ==
  ASSUME NEW td, IsSeq(td), td # <<>>
  PROVE  /\ IsSeq(Tail(td))
         /\ Quiet(td) => Quiet(Tail(td)) /\ ~HasPrompt(Head(td))
         /\ AtMostOne(td) => AtMostOne(Tail(td))
         /\ AtMostOne(td) /\ HasPrompt(Head(td)) => Quiet(Tail(td))
<1> DEFINE T == Tail(td)
<1>1. /\ IsSeq(T)
      /\ Len(td) \in Nat \ {0} /\ DOMAIN td = 1..Len(td)
      /\ DOMAIN T = 1..(Len(td) - 1)
      /\ \A k \in 1..(Len(td) - 1) : T[k] = td[k + 1]
      /\ Head(td) = td[1]
  BY Shorter
<1> HIDE DEF T
<1>2. \A k \in DOMAIN T : k + 1 \in DOMAIN td /\ k \in Int /\ k + 1 # 1 /\ T[k] = td[k + 1]
  BY <1>1
<1>3. 1 \in DOMAIN td
  BY <1>1
<1>4. Quiet(td) => Quiet(T) /\ ~HasPrompt(Head(td))
  BY <1>1, <1>2, <1>3 DEF Quiet
<1>5. AtMostOne(td) => AtMostOne(T)
  <2> SUFFICES ASSUME AtMostOne(td), NEW k \in DOMAIN T, NEW l \in DOMAIN T,
                      HasPrompt(T[k]), HasPrompt(T[l])
               PROVE  k = l
    BY DEF AtMostOne
  <2>1. k + 1 = l + 1
    BY <1>2 DEF AtMostOne
  <2> QED
    BY <1>2, <2>1
<1>6. AtMostOne(td) /\ HasPrompt(Head(td)) => Quiet(T)
  BY <1>1, <1>2, <1>3 DEF AtMostOne, Quiet
<1> QED
  BY <1>1, <1>4, <1>5, <1>6 DEF T

----------------------------------------------------------------------------
(* What the steps do to the datagrams and to the shell's place.            *)

Datagrams ==
  /\ IsSeq(toDriver) /\ IsSeq(toShell)
  /\ IsSeq(sh.buf) /\ ~HasPrompt(sh.buf)
  /\ {"pc", "buf"} \subseteq DOMAIN sh

\* nothing is sent to runtrace, or something without a prompt
Plain == toDriver' = toDriver \/ \E d : ~HasPrompt(d) /\ toDriver' = Append(toDriver, d)

\* a datagram is read at most
TakesOne == toShell' = toShell \/ (toShell # <<>> /\ toShell' = Tail(toShell))

SameShell == sh'.pc = sh.pc /\ sh'.buf = sh.buf /\ DOMAIN sh' = DOMAIN sh

LEMMA DeliveredPlain ==
  ASSUME NEW d, ~HasPrompt(d), Delivered(d)
  PROVE  Plain
BY DEF Delivered, Plain

LEMMA WrittenPlain ==
  ASSUME NEW p, NEW d, ~HasPrompt(d), Written(p, d)
  PROVE  Plain
BY DeliveredPlain DEF Written, Plain

LEMMA EndKeepsShell ==
  ASSUME Datagrams, NEW p, NEW how, End(p, how)
  PROVE  SameShell
BY DEF End, TellShell, SameShell, Datagrams

LEMMA JobsArePlain ==
  ASSUME Datagrams, NEW p \in Procs, JobNext(p) \/ JobAlarm(p)
  PROVE  /\ Plain /\ TakesOne /\ SameShell
         /\ UNCHANGED <<trace, next, drv>>
         /\ hasty => hasty'
<1> USE DEF drvvars, datavars, syncvars
<1>1. CASE Deliver(p)
  <2>1. SameShell
    <3>1. PICK s \in proc[p].sigs :
             CASE s = "TSTP" -> sh' = IF proc[p].par = Shell
                                      THEN [sh EXCEPT !.sigs = @ \cup {"CHLD"}, !.stopped = @ \cup {p}]
                                      ELSE sh
               [] s = "TERM" /\ proc[p].prog = "myspin1" -> sh' = sh
               [] OTHER -> End(p, "killed")
      BY <1>1 DEF Deliver
    <3>2. CASE s = "TSTP"
      BY <3>1, <3>2 DEF SameShell, Datagrams
    <3>3. CASE s # "TSTP" /\ s = "TERM" /\ proc[p].prog = "myspin1"
      BY <3>1, <3>3 DEF SameShell
    <3>4. CASE s # "TSTP" /\ ~(s = "TERM" /\ proc[p].prog = "myspin1")
      BY <3>1, <3>4, EndKeepsShell
    <3> QED
      BY <3>2, <3>3, <3>4
  <2> QED
    BY <1>1, <2>1 DEF Deliver, Plain, TakesOne
<1>2. CASE JobSend(p) \/ JobRecv(p) \/ JobFork(p) \/ JobWait(p) \/ JobKill(p)
  <2>1. UNCHANGED <<drvvars, datavars, sh, hasty>>
    BY <1>2 DEF JobSend, JobRecv, JobFork, JobWait, JobKill
  <2> QED
    BY <2>1 DEF Plain, TakesOne, SameShell
<1>3. CASE JobPrint(p)
  BY <1>3, OtherPieces, WrittenPlain DEF JobPrint, TakesOne, SameShell
<1>4. CASE JobCat(p)
  <2>1. Plain
    <3>1. ~HasPrompt(<< <<"file">> >>) /\ ~HasPrompt(<< <<"input">> >>)
      BY OtherPieces
    <3> QED
      BY <1>4, <3>1, WrittenPlain DEF JobCat, Plain
  <2>2. TakesOne
    BY <1>4 DEF JobCat, TakesOne
  <2> QED
    BY <1>4, <2>1, <2>2 DEF JobCat, SameShell
<1>5. CASE JobList(p)
  <2>1. Plain
    BY <1>5, OtherPieces, WrittenPlain DEF JobList, Plain
  <2> QED
    BY <1>5, <2>1 DEF JobList, TakesOne, SameShell
<1>6. CASE JobKillsShell(p)
  <2>1. SameShell
    BY <1>6 DEF JobKillsShell, SameShell, Datagrams
  <2> QED
    BY <1>6, <2>1 DEF JobKillsShell, Plain, TakesOne
<1>7. CASE JobExit(p)
  BY <1>7, EndKeepsShell DEF JobExit, Plain, TakesOne
<1>8. CASE JobAlarm(p)
  BY <1>8, EndKeepsShell DEF JobAlarm, Plain, TakesOne
<1> QED
  BY <1>1, <1>2, <1>3, <1>4, <1>5, <1>6, <1>7, <1>8 DEF JobNext

(* A step of the shell writes the prompt, reads a line, or does something  *)
(* else that neither reads nor prompts.                                    *)
Prompts ==
  /\ sh.pc = "prompt" /\ sh'.pc = "read"
  /\ toDriver' = toDriver \/ \E d : toDriver' = Append(toDriver, d)
  /\ toShell' = toShell
Reads ==
  /\ sh.pc = "read" /\ toShell # <<>> /\ toShell' = Tail(toShell)
  /\ Plain
Works ==
  /\ sh'.pc = sh.pc \/ sh.pc \notin {"prompt", "read", "dead"}
  /\ toShell' = toShell
  /\ Plain
BufferOK == IsSeq(sh.buf) /\ ~HasPrompt(sh.buf) /\ {"pc", "buf"} \subseteq DOMAIN sh

LEMMA BufferGrows ==
  ASSUME Datagrams, NEW said, IsSeq(said), ~HasPrompt(said)
  PROVE  IsSeq(sh.buf \o said) /\ ~HasPrompt(sh.buf \o said)
BY Joined DEF Datagrams, HasPrompt

LEMMA BufferAppends ==
  ASSUME Datagrams, NEW d, d # PROMPT
  PROVE  IsSeq(Append(sh.buf, d)) /\ ~HasPrompt(Append(sh.buf, d))
<1>1. /\ Len(sh.buf) \in Nat /\ DOMAIN sh.buf = 1..Len(sh.buf)
      /\ DOMAIN Append(sh.buf, d) = 1..(Len(sh.buf) + 1)
      /\ \A k \in 1..Len(sh.buf) : Append(sh.buf, d)[k] = sh.buf[k]
      /\ Append(sh.buf, d)[Len(sh.buf) + 1] = d
      /\ IsSeq(Append(sh.buf, d))
  BY Longer DEF Datagrams
<1>2. ASSUME NEW k \in 1..(Len(sh.buf) + 1) PROVE Append(sh.buf, d)[k] # PROMPT
  <2>1. CASE k = Len(sh.buf) + 1
    BY <1>1, <2>1
  <2>2. CASE k \in 1..Len(sh.buf)
    BY <1>1, <2>2 DEF Datagrams, HasPrompt
  <2> QED
    BY <1>1, <2>1, <2>2
<1> QED
  BY <1>1, <1>2 DEF HasPrompt

LEMMA AfterStaysOrGoes ==
  ASSUME NEW table
  PROVE  After(table) = sh.pc \/ sh.pc \in {"evalwait", "fgwait"}
BY DEF After

LEMMA ShellSteps ==
  ASSUME Datagrams, ShellNext
  PROVE  /\ Prompts \/ Reads \/ Works
         /\ BufferOK'
         /\ UNCHANGED <<trace, next, drv, hasty>>
<1> USE DEF drvvars, datavars, syncvars
<1>0. BufferOK
  BY DEF Datagrams, BufferOK
<1>1. CASE Prompt
  <2>1. Prompts
    BY <1>1 DEF Prompt, Prompts, Delivered, Datagrams
  <2>2. BufferOK'
    <3>1. ~HasPrompt(<<>>)
      BY DEF HasPrompt
    <3>2. sh'.buf = <<>> /\ DOMAIN sh' = DOMAIN sh
      BY <1>1 DEF Prompt, Datagrams
    <3> QED
      BY <3>1, <3>2, EmptyIsSeq DEF BufferOK, Datagrams
  <2> QED
    BY <1>1, <2>1, <2>2 DEF Prompt
<1>2. CASE Fgets
  <2>1. ~HasPrompt(Append(sh.buf, <<"newline">>))
    BY BufferAppends DEF PROMPT
  <2>2. Plain
    BY <1>2, <2>1, DeliveredPlain DEF Fgets, Plain
  <2>3. sh'.buf = sh.buf /\ DOMAIN sh' = DOMAIN sh
    BY <1>2 DEF Fgets, ShellEnds, Datagrams
  <2> QED
    BY <1>0, <1>2, <2>2, <2>3 DEF Fgets, Reads, BufferOK
<1>3. CASE EvalNothing
  <2>1. Plain
    BY <1>3, OtherPieces, DeliveredPlain DEF EvalNothing, Plain
  <2>2. sh'.buf = sh.buf /\ DOMAIN sh' = DOMAIN sh
    BY <1>3 DEF EvalNothing, Datagrams
  <2> QED
    BY <1>0, <1>3, <2>1, <2>2 DEF EvalNothing, Works, BufferOK
<1>4. CASE EvalQuit
  <2>1. ~HasPrompt(sh.buf) /\ ~HasPrompt(Append(sh.buf, <<"no such job">>))
    BY BufferAppends DEF PROMPT, Datagrams
  <2>2. Plain
    BY <1>4, <2>1, DeliveredPlain DEF EvalQuit, Plain
  <2>3. sh'.buf = sh.buf /\ DOMAIN sh' = DOMAIN sh
    BY <1>4 DEF EvalQuit, ShellEnds, Datagrams
  <2>4. sh.pc = "eval"
    BY <1>4 DEF EvalQuit, NoSuchJob, Evaluates
  <2> QED
    BY <1>0, <1>4, <2>2, <2>3, <2>4 DEF EvalQuit, Works, BufferOK
<1>5. CASE EvalJobs
  <2>1. Plain
    BY <1>5, OtherPieces, DeliveredPlain DEF EvalJobs, Plain
  <2>2. sh'.buf = sh.buf /\ DOMAIN sh' = DOMAIN sh
    BY <1>5 DEF EvalJobs, Datagrams
  <2> QED
    BY <1>0, <1>5, <2>1, <2>2 DEF EvalJobs, Evaluates, Works, BufferOK
<1>6. CASE EvalBgFg \/ SetState
  <2>1. CASE EvalBgFg
    <3>1. sh'.buf = sh.buf /\ DOMAIN sh' = DOMAIN sh
      BY <2>1 DEF EvalBgFg, Datagrams
    <3> QED
      BY <1>0, <2>1, <3>1 DEF EvalBgFg, Evaluates, Works, Plain, BufferOK
  <2>2. CASE SetState
    <3>1. <<"job", sh.jid[sh.cur]>> # PROMPT
      BY Len(<<"job", sh.jid[sh.cur]>>) = 2, Len(<<"tsh> ">>) = 1 DEF PROMPT
    <3>2. DOMAIN sh' = DOMAIN sh /\ sh'.buf \in {sh.buf, Append(sh.buf, <<"job", sh.jid[sh.cur]>>)}
      BY <2>2 DEF SetState, Datagrams
    <3>3. BufferOK'
      BY <1>0, <3>1, <3>2, BufferAppends DEF BufferOK
    <3> QED
      BY <2>2, <3>3 DEF SetState, Works, Plain
  <2> QED
    BY <1>6, <2>1, <2>2
<1>7. CASE EvalRun
  <2>1. PICK p : sh' = IF Cmd.bg = 1
                THEN [sh EXCEPT !.pc = "flush", !.job[p] = "BG", !.jid[p] = NextJid,
                                !.buf = Append(@, <<"job", NextJid>>)]
                ELSE [sh EXCEPT !.pc = "evalwait", !.job[p] = "FG", !.jid[p] = NextJid, !.cur = p]
    BY <1>7 DEF EvalRun
  <2>2. <<"job", NextJid>> # PROMPT
    BY Len(<<"job", NextJid>>) = 2, Len(<<"tsh> ">>) = 1 DEF PROMPT
  <2>3. DOMAIN sh' = DOMAIN sh /\ sh'.buf \in {sh.buf, Append(sh.buf, <<"job", NextJid>>)}
    BY <2>1 DEF Datagrams
  <2>4. BufferOK'
    BY <1>0, <2>2, <2>3, BufferAppends DEF BufferOK
  <2> QED
    BY <1>7, <2>4 DEF EvalRun, Works, Plain
<1>8. CASE FgTest \/ FgSuspend
  <2>1. sh'.buf = sh.buf /\ DOMAIN sh' = DOMAIN sh
    BY <1>8 DEF FgTest, FgSuspend, Datagrams
  <2> QED
    BY <1>0, <1>8, <2>1 DEF FgTest, FgSuspend, Works, Plain, BufferOK
<1>9. CASE Flush
  <2>1. Plain
    BY <1>9, DeliveredPlain DEF Flush, Plain, Datagrams
  <2>2. BufferOK'
    <3>1. ~HasPrompt(<<>>)
      BY DEF HasPrompt
    <3>2. sh'.buf = <<>> /\ DOMAIN sh' = DOMAIN sh
      BY <1>9 DEF Flush, Datagrams
    <3> QED
      BY <3>1, <3>2, EmptyIsSeq DEF BufferOK, Datagrams
  <2> QED
    BY <1>9, <2>1, <2>2 DEF Flush, Works
<1>10. CASE sigchld_handler
  <2>1. PICK lost, j1, said :
           /\ Reaped(lost, j1, said)
           /\ said = <<>> \/ \E a \in {"ended", "stopped"} : \E b : said = << <<a, b>> >>
    BY <1>10 DEF sigchld_handler
  <2>2. IsSeq(said) /\ ~HasPrompt(said)
    <3>1. CASE said = <<>>
      BY <3>1, EmptyIsSeq DEF HasPrompt
    <3> QED
      BY <2>1, <3>1, OtherPieces
  <2>3. sh'.buf = sh.buf \o said /\ DOMAIN sh' = DOMAIN sh /\ sh'.pc = After(j1)
    BY <2>1 DEF Reaped, Datagrams
  <2>4. BufferOK'
    BY <1>0, <2>2, <2>3, BufferGrows DEF BufferOK
  <2> QED
    BY <1>10, <2>3, <2>4, AfterStaysOrGoes DEF sigchld_handler, Works, Plain
<1>11. CASE \E s \in {"INT", "TSTP"} : Forward(s)
  <2>1. sh'.buf = sh.buf /\ DOMAIN sh' = DOMAIN sh /\ sh'.pc = After(sh.job)
    BY <1>11 DEF Forward, Datagrams
  <2> QED
    BY <1>0, <1>11, <2>1, AfterStaysOrGoes DEF Forward, Works, Plain, BufferOK
<1> QED
  BY <1>1, <1>2, <1>3, <1>4, <1>5, <1>6, <1>7, <1>8, <1>9, <1>10, <1>11 DEF ShellNext

----------------------------------------------------------------------------
(* runtrace and the shell in step.  A line that has had no NEXT yet is     *)
(* answered by one prompt at most; with no such line nothing is under way. *)

\* the lines sent since the last NEXT
Sent == {k \in 1..(next - 1) : trace[k].op = "line" /\ \A m \in k..(next - 1) : trace[m].op # "NEXT"}

\* the first prompt is still to come or on its way
Starting ==
  /\ toShell = <<>>
  /\ \/ sh.pc = "prompt" /\ Quiet(toDriver)
     \/ sh.pc = "read" /\ AtMostOne(toDriver)

Resting == toShell = <<>> /\ Quiet(toDriver) /\ sh.pc \in {"read", "dead"}

\* the line is unread, has no prompt yet, or has had it
Answering ==
  \/ Quiet(toDriver) /\ Len(toShell) <= 1 /\ sh.pc \in {"read", "dead"}
  \/ Quiet(toDriver) /\ toShell = <<>>
  \/ AtMostOne(toDriver) /\ toShell = <<>> /\ sh.pc = "read"

AtTheStart == drv = "start" => next = 1 /\ (~hasty => Starting)
UnderWay ==
  drv = "run" /\ ~hasty =>
    /\ Sent = {} => Resting
    /\ (\A a, b \in Sent : a = b) => Answering

NInv ==
  /\ Datagrams
  /\ trace \in Traces /\ next \in Nat \ {0}
  /\ phase # "test" => drv = "exited"
  /\ AtTheStart /\ UnderWay

LEMMA NoneIsQuiet == Quiet(<<>>) /\ AtMostOne(<<>>)
BY DEF Quiet, AtMostOne

LEMMA PlainKeeps ==
  ASSUME Datagrams, Plain
  PROVE  /\ IsSeq(toDriver')
         /\ Quiet(toDriver) => Quiet(toDriver')
         /\ AtMostOne(toDriver) => AtMostOne(toDriver')
<1>1. CASE toDriver' = toDriver
  BY <1>1 DEF Datagrams
<1>2. ASSUME NEW d, ~HasPrompt(d), toDriver' = Append(toDriver, d)
      PROVE  /\ IsSeq(toDriver')
             /\ Quiet(toDriver) => Quiet(toDriver')
             /\ AtMostOne(toDriver) => AtMostOne(toDriver')
  BY <1>2, OneMoreDatagram DEF Datagrams
<1> QED
  BY <1>1, <1>2 DEF Plain

LEMMA TakesOneKeeps ==
  ASSUME Datagrams, TakesOne
  PROVE  /\ IsSeq(toShell')
         /\ toShell = <<>> => toShell' = <<>>
         /\ Len(toShell) <= 1 => Len(toShell') <= 1
         /\ Len(toShell) <= 1 /\ toShell # <<>> /\ toShell' = Tail(toShell) => toShell' = <<>>
<1>1. CASE toShell' = toShell /\ toShell = <<>>
  BY <1>1, EmptyIsSeq DEF Datagrams
<1>2. CASE toShell # <<>>
  <2>1. /\ IsSeq(Tail(toShell))
        /\ Len(toShell) \in Nat \ {0}
        /\ Len(Tail(toShell)) = Len(toShell) - 1
        /\ Len(toShell) = 1 => Tail(toShell) = <<>>
    BY <1>2, Shorter DEF Datagrams
  <2>2. CASE toShell' = toShell
    <3>1. Len(toShell) <= 1 /\ toShell' = Tail(toShell) => toShell' = <<>>
      BY <2>1
    <3> QED
      BY <1>2, <2>2, <3>1 DEF Datagrams
  <2>3. CASE toShell' = Tail(toShell)
    <3>1. Len(toShell) <= 1 => Len(toShell') <= 1
      BY <2>1, <2>3
    <3>2. Len(toShell) <= 1 => toShell' = <<>>
      BY <2>1, <2>3
    <3> QED
      BY <1>2, <2>1, <2>3, <3>1, <3>2
  <2> QED
    BY <1>2, <2>2, <2>3 DEF TakesOne
<1> QED
  BY <1>1, <1>2 DEF TakesOne

\* a step of the shell or of a job
LEMMA OthersKeepStep ==
  ASSUME Datagrams, \/ Prompts \/ Reads \/ Works
                    \/ Plain /\ TakesOne /\ sh'.pc = sh.pc
  PROVE  /\ IsSeq(toDriver') /\ IsSeq(toShell')
         /\ Starting => Starting'
         /\ Resting => Resting'
         /\ Answering => Answering'
<1>1. CASE Prompts
  <2>1. /\ IsSeq(toDriver')
        /\ Quiet(toDriver) => AtMostOne(toDriver')
    <3>1. CASE toDriver' = toDriver
      BY <3>1 DEF Datagrams, Quiet, AtMostOne
    <3>2. ASSUME NEW d, toDriver' = Append(toDriver, d)
          PROVE  /\ IsSeq(toDriver')
                 /\ Quiet(toDriver) => AtMostOne(toDriver')
      BY <3>2, OneMoreDatagram DEF Datagrams
    <3> QED
      BY <1>1, <3>1, <3>2 DEF Prompts
  <2> QED
    BY <1>1, <2>1 DEF Prompts, Starting, Resting, Answering, Datagrams
<1>2. CASE Reads
  <2>1. TakesOne
    BY <1>2 DEF Reads, TakesOne
  <2> QED
    BY <1>2, <2>1, PlainKeeps, TakesOneKeeps DEF Reads, Starting, Resting, Answering
<1>3. CASE Works
  BY <1>3, PlainKeeps DEF Works, Starting, Resting, Answering, Datagrams
<1>4. CASE Plain /\ TakesOne /\ sh'.pc = sh.pc
  BY <1>4, PlainKeeps, TakesOneKeeps DEF Starting, Resting, Answering
<1> QED
  BY <1>1, <1>2, <1>3, <1>4

LEMMA OthersKeepNInv ==
  ASSUME NInv, phase' = phase,
         ShellNext \/ \E p \in Procs : JobNext(p) \/ JobAlarm(p)
  PROVE  NInv'
<1>1. Datagrams
  BY DEF NInv
<1>2. /\ \/ Prompts \/ Reads \/ Works
         \/ Plain /\ TakesOne /\ sh'.pc = sh.pc
      /\ BufferOK'
      /\ UNCHANGED <<trace, next, drv>>
      /\ hasty => hasty'
  <2>1. CASE ShellNext
    BY <1>1, <2>1, ShellSteps
  <2>2. ASSUME NEW p \in Procs, JobNext(p) \/ JobAlarm(p)
        PROVE  /\ Plain /\ TakesOne /\ SameShell
               /\ UNCHANGED <<trace, next, drv>>
               /\ hasty => hasty'
    BY <1>1, <2>2, JobsArePlain
  <2>3. ASSUME SameShell PROVE sh'.pc = sh.pc /\ BufferOK'
    BY <1>1, <2>3 DEF SameShell, BufferOK, Datagrams
  <2> QED
    BY <2>1, <2>2, <2>3
<1>3. /\ IsSeq(toDriver') /\ IsSeq(toShell')
      /\ Starting => Starting'
      /\ Resting => Resting'
      /\ Answering => Answering'
  BY <1>1, <1>2, OthersKeepStep
<1>4. Datagrams'
  BY <1>2, <1>3 DEF Datagrams, BufferOK
<1>5. Sent' = Sent
  BY <1>2 DEF Sent
<1>6. AtTheStart'
  BY <1>2, <1>3 DEF NInv, AtTheStart
<1>7. UnderWay'
  BY <1>2, <1>3, <1>5 DEF NInv, UnderWay
<1> QED
  BY <1>2, <1>4, <1>6, <1>7 DEF NInv

----------------------------------------------------------------------------
(* The steps of runtrace.                                                  *)

\* a command that is no line, or a line, adds to what was sent
LEMMA SentGrows ==
  ASSUME next \in Nat \ {0}, next' = next + 1, trace' = trace
  PROVE  /\ trace[next].op = "NEXT" => Sent' = {}
         /\ trace[next].op = "line" => Sent' = Sent \cup {next}
         /\ trace[next].op \notin {"NEXT", "line"} => Sent' = Sent
<1>1. Sent' = {k \in 1..next : trace[k].op = "line" /\ \A m \in k..next : trace[m].op # "NEXT"}
  BY DEF Sent
<1>2. \A k \in 1..next : next \in k..next /\ (k = next \/ k \in 1..(next - 1))
  OBVIOUS
<1>3. \A k \in 1..(next - 1) : /\ k \in 1..next /\ k # next
                               /\ \A m \in k..next : m = next \/ m \in k..(next - 1)
                               /\ \A m \in k..(next - 1) : m \in k..next
  OBVIOUS
<1>4. next \in 1..next /\ (\A m \in next..next : m = next) /\ next \notin 1..(next - 1)
  OBVIOUS
<1>5. trace[next].op = "NEXT" => Sent' = {}
  BY <1>1, <1>2
<1>6. trace[next].op = "line" => Sent' = Sent \cup {next}
  BY <1>1, <1>2, <1>3, <1>4, "line" # "NEXT" DEF Sent
<1>7. trace[next].op \notin {"NEXT", "line"} => Sent' = Sent
  BY <1>1, <1>2, <1>3, <1>4 DEF Sent
<1> QED
  BY <1>5, <1>6, <1>7

\* at a NEXT there is one line at most that has had none
LEMMA AtMostOneSent ==
  ASSUME \A t \in Traces : OneLineAtATime(t), NInv, Command("NEXT")
  PROVE  \A a, b \in Sent : a = b
<1> SUFFICES ASSUME NEW a \in Sent, NEW b \in Sent, a < b PROVE FALSE
  <2>1. \A a, b \in Sent : a \in Int /\ b \in Int
    BY DEF Sent, NInv
  <2> QED
    BY <2>1
<1>1. trace \in Seq([op : Ops, line : Seq(STRING)])
  BY RunTraceAssumption DEF RunTraceAssumption, NInv
<1>2. Len(trace) \in Nat /\ next \in 1..Len(trace) /\ trace[next].op = "NEXT"
  BY <1>1 DEF Command, More, NInv
<1>3. /\ a \in 1..(next - 1) /\ b \in 1..(next - 1)
      /\ trace[a].op = "line" /\ trace[b].op = "line"
      /\ \A m \in a..(next - 1) : trace[m].op # "NEXT"
  BY DEF Sent
<1>4. a \in 1..Len(trace) /\ b \in 1..Len(trace) /\ b < next
  BY <1>2, <1>3
<1>5. PICK k \in a..b : trace[k].op = "NEXT"
  BY <1>2, <1>3, <1>4 DEF OneLineAtATime, NInv
<1>6. k \in a..(next - 1)
  BY <1>2, <1>3
<1> QED
  BY <1>3, <1>5, <1>6

\* a NEXT that returns finds the shell waiting
LEMMA NextReturns ==
  ASSUME \A t \in Traces : OneLineAtATime(t), NInv, NextPrompt, ~hasty, IsPrompt(Head(toDriver))
  PROVE  sh.pc = "read" /\ toShell = <<>> /\ Quiet(Tail(toDriver))
<1>1. Command("NEXT") /\ toDriver # <<>>
  BY DEF NextPrompt
<1>2. Answering
  BY <1>1, AtMostOneSent DEF NInv, UnderWay, Command, More
<1>3. HasPrompt(Head(toDriver))
  <2>1. DOMAIN <<PROMPT>> = {1} /\ <<PROMPT>>[1] = PROMPT
    OBVIOUS
  <2> QED
    BY <2>1 DEF IsPrompt, HasPrompt
<1>4. /\ Quiet(toDriver) => ~HasPrompt(Head(toDriver))
      /\ AtMostOne(toDriver) /\ HasPrompt(Head(toDriver)) => Quiet(Tail(toDriver))
  BY <1>1, OneDatagramLess DEF NInv, Datagrams
<1> QED
  BY <1>2, <1>3, <1>4 DEF Answering

LEMMA NoneSentAtFirst == next = 1 => Sent = {}
BY DEF Sent

LEMMA RestingAnswers == Resting => Answering
BY DEF Resting, Answering

LEMMA DriverKeepsNInv ==
  ASSUME \A t \in Traces : OneLineAtATime(t), NInv, DriverNext, phase' = phase, phase = "test"
  PROVE  NInv'
<1> USE DEF datavars, syncvars
<1>1. /\ Datagrams /\ AtTheStart /\ UnderWay /\ next \in Nat \ {0} /\ trace \in Traces
      /\ trace' = trace
  <2>1. trace' = trace
    BY DEF DriverNext, FirstPrompt, Wait, NextPrompt, Signal, KillShell, SendLine, SendEof, Reap,
           FirstPromptTimeout, ReadTimeout, sigalrm_handler, Done, Ends
  <2> QED
    BY <2>1 DEF NInv
<1>2. ASSUME drv' \in {"reap", "exited"}, next' = next, Datagrams'
      PROVE  NInv'
  BY <1>1, <1>2 DEF NInv, AtTheStart, UnderWay
<1>3. toDriver # <<>> =>
        /\ IsSeq(Tail(toDriver))
        /\ Quiet(toDriver) => Quiet(Tail(toDriver)) /\ ~HasPrompt(Head(toDriver))
        /\ AtMostOne(toDriver) => AtMostOne(Tail(toDriver))
        /\ AtMostOne(toDriver) /\ HasPrompt(Head(toDriver)) => Quiet(Tail(toDriver))
  BY <1>1, OneDatagramLess DEF Datagrams
<1>4. CASE FirstPrompt
  <2>1. /\ drv = "start" /\ toDriver # <<>> /\ next' = next /\ toDriver' = Tail(toDriver)
        /\ UNCHANGED <<toShell, sh, hasty>>
    BY <1>4 DEF FirstPrompt, Ends
  <2>2. Datagrams'
    BY <1>1, <1>3, <2>1 DEF Datagrams
  <2>3. CASE ~IsPrompt(Head(toDriver))
    BY <1>2, <1>4, <2>1, <2>2, <2>3 DEF FirstPrompt, Ends
  <2>4. CASE IsPrompt(Head(toDriver))
    <3>1. drv' = "run" /\ next = 1
      BY <1>1, <1>4, <2>1, <2>4 DEF FirstPrompt, AtTheStart
    <3>2. HasPrompt(Head(toDriver))
      <4>1. DOMAIN <<PROMPT>> = {1} /\ <<PROMPT>>[1] = PROMPT
        OBVIOUS
      <4> QED
        BY <2>4, <4>1 DEF IsPrompt, HasPrompt
    <3>3. ~hasty => Resting'
      BY <1>1, <1>3, <2>1, <3>2 DEF AtTheStart, Starting, Resting
    <3>4. Resting' => Answering'
      BY DEF Resting, Answering
    <3> QED
      BY <1>1, <2>1, <2>2, <3>1, <3>3, <3>4 DEF NInv, AtTheStart, UnderWay
  <2> QED
    BY <2>3, <2>4
<1>5. CASE FirstPromptTimeout
  <2>1. /\ drv = "start" /\ drv' = "run" /\ toDriver = <<>>
        /\ UNCHANGED <<next, toDriver, toShell, sh>>
        /\ hasty' = (hasty \/ Busy)
    BY <1>5 DEF FirstPromptTimeout, Expire
  <2>2. ~hasty' => sh.pc # "prompt"
    BY <2>1 DEF Busy, ShellBusy
  <2>3. ~hasty' => Resting'
    BY <1>1, <2>1, <2>2, NoneIsQuiet DEF AtTheStart, Starting, Resting
  <2>4. Resting' => Answering'
    BY DEF Resting, Answering
  <2>5. Datagrams'
    BY <1>1, <2>1 DEF Datagrams
  <2> QED
    BY <1>1, <2>1, <2>3, <2>4, <2>5 DEF NInv, AtTheStart, UnderWay
<1>6. CASE Wait \/ Signal \/ KillShell("SIGINT", "INT") \/ KillShell("SIGTSTP", "TSTP")
  <2>1. /\ drv = "run" /\ drv' = "run" /\ trace[next].op \notin {"NEXT", "line"}
        /\ next' = next + 1
        /\ UNCHANGED <<toDriver, toShell, hasty>>
    BY <1>6 DEF Wait, Signal, KillShell, Command, More, Done
  <2>2. SameShell
    BY <1>1, <1>6 DEF Wait, Signal, KillShell, SameShell, Datagrams
  <2>3. Sent' = Sent
    BY <1>1, <2>1, SentGrows
  <2>4. Datagrams'
    BY <1>1, <2>1, <2>2 DEF Datagrams, SameShell
  <2>5. UnderWay'
    BY <1>1, <2>1, <2>2, <2>3 DEF UnderWay, Resting, Answering, SameShell
  <2> QED
    BY <1>1, <2>1, <2>4, <2>5 DEF NInv, AtTheStart
<1>7. CASE NextPrompt
  <2>1. /\ drv = "run" /\ trace[next].op = "NEXT" /\ drv' = "run"
        /\ toDriver # <<>> /\ toDriver' = Tail(toDriver)
        /\ UNCHANGED <<toShell, sh, hasty>>
    BY <1>7 DEF NextPrompt, Command, More, Done
  <2>2. Datagrams'
    BY <1>1, <1>3, <2>1 DEF Datagrams
  <2>3. CASE IsPrompt(Head(toDriver))
    <3>1. next' = next + 1
      BY <1>7, <2>3 DEF NextPrompt, Done
    <3>2. Sent' = {}
      BY <1>1, <2>1, <3>1, SentGrows
    <3>3. ~hasty => Resting'
      BY <1>7, <2>1, <2>3, NextReturns DEF Resting
    <3>4. Resting' => Answering'
      BY DEF Resting, Answering
    <3> QED
      BY <1>1, <2>1, <2>2, <3>1, <3>3, <3>4 DEF NInv, AtTheStart, UnderWay
  <2>4. CASE ~IsPrompt(Head(toDriver))
    <3>1. next' = next
      BY <1>7, <2>4 DEF NextPrompt
    <3>2. Sent' = Sent
      BY <1>1, <3>1 DEF Sent
    <3>3. UnderWay'
      BY <1>1, <1>3, <2>1, <3>2 DEF UnderWay, Resting, Answering
    <3> QED
      BY <1>1, <2>1, <2>2, <3>1, <3>3 DEF NInv, AtTheStart
  <2> QED
    BY <2>3, <2>4
<1>8. CASE SendLine
  <2>1. /\ drv = "run" /\ drv' = "run" /\ trace[next].op = "line" /\ next' = next + 1
        /\ toShell' = Append(toShell, trace[next])
        /\ UNCHANGED <<toDriver, sh, hasty>>
    BY <1>8 DEF SendLine, Command, More, Done
  <2>2. IsSeq(toShell') /\ (toShell = <<>> => Len(toShell') = 1)
    <3>1. IsSeq(toShell')
      BY <1>1, <2>1, Longer DEF Datagrams
    <3>2. ASSUME toShell = <<>> PROVE Len(toShell') = 1
      <4>1. toShell' = <<trace[next]>>
        BY <2>1, <3>2
      <4> QED
        BY <4>1
    <3> QED
      BY <3>1, <3>2
  <2>3. Datagrams'
    BY <1>1, <2>1, <2>2 DEF Datagrams
  <2>4. Sent' = Sent \cup {next} /\ next \notin Sent
    BY <1>1, <2>1, SentGrows DEF Sent
  <2>5. ASSUME ~hasty, \A a, b \in Sent' : a = b
        PROVE  Answering'
    <3>1. Sent = {}
      BY <2>4, <2>5
    <3>2. Resting
      BY <1>1, <2>1, <2>5, <3>1 DEF UnderWay
    <3> QED
      BY <2>1, <2>2, <3>2 DEF Resting, Answering
  <2>6. Sent' # {}
    BY <2>4
  <2>7. UnderWay'
    BY <2>1, <2>5, <2>6 DEF UnderWay
  <2> QED
    BY <1>1, <2>1, <2>3, <2>7 DEF NInv, AtTheStart
<1>9. CASE SendEof
  <2>1. IsSeq(toShell')
    BY <1>1, <1>9, Longer DEF SendEof, Datagrams
  <2>2. Datagrams'
    BY <1>1, <1>9, <2>1 DEF SendEof, Datagrams
  <2> QED
    BY <1>2, <1>9, <2>2 DEF SendEof
<1>10. CASE Reap \/ ReadTimeout \/ sigalrm_handler
  <2>1. Datagrams'
    BY <1>1, <1>10 DEF Reap, ReadTimeout, sigalrm_handler, clean, Datagrams
  <2> QED
    BY <1>2, <1>10, <2>1 DEF Reap, ReadTimeout, sigalrm_handler, Ends
<1> QED
  BY <1>4, <1>5, <1>6, <1>7, <1>8, <1>9, <1>10 DEF DriverNext

LEMMA FreshIsStarting ==
  ASSUME toShell = <<>>, toDriver = <<>>, sh = Fresh.sh
  PROVE  Datagrams /\ Starting
<1>1. sh.pc = "prompt" /\ sh.buf = <<>> /\ {"pc", "buf"} \subseteq DOMAIN sh
  BY DEF Fresh
<1>2. ~HasPrompt(<<>>)
  BY DEF HasPrompt
<1> QED
  BY <1>1, <1>2, EmptyIsSeq, NoneIsQuiet DEF Datagrams, Starting

LEMMA FreshDatagrams ==
  ASSUME toShell' = <<>>, toDriver' = <<>>, sh' = Fresh.sh
  PROVE  Datagrams'
<1>1. sh'.buf = <<>> /\ {"pc", "buf"} \subseteq DOMAIN sh'
  BY DEF Fresh
<1>2. ~HasPrompt(<<>>)
  BY DEF HasPrompt
<1> QED
  BY <1>1, <1>2, EmptyIsSeq DEF Datagrams

LEMMA StepKeepsNInv ==
  ASSUME \A t \in Traces : OneLineAtATime(t), GInv, NInv, [SDNext]_allvars
  PROVE  NInv'
<1>1. CASE TestDone \/ RefDone \/ RefGivesUp
  <2>1. UNCHANGED <<trace, next, drv, hasty>> /\ drv = "exited"
    BY <1>1 DEF TestDone, RefDone, RefGivesUp, runvars, outcome, NInv
  <2>2. Datagrams'
    <3>1. CASE TestDone
      <4>1. toShell' = <<>> /\ toDriver' = <<>> /\ sh' = Fresh.sh
        BY <3>1 DEF TestDone, NewShell
      <4> QED
        BY <4>1, FreshDatagrams
    <3>2. CASE RefDone \/ RefGivesUp
      BY <3>2 DEF RefDone, RefGivesUp, runvars, datavars, NInv, Datagrams
    <3> QED
      BY <1>1, <3>1, <3>2
  <2> QED
    BY <2>1, <2>2 DEF NInv, AtTheStart, UnderWay
<1>2. CASE RefFails \/ Score
  <2>1. UNCHANGED <<trace, next, drv, toDriver, toShell, sh, hasty>> /\ drv = "exited"
    BY <1>2 DEF RefFails, Score, vars, drvvars, datavars, NInv
  <2> QED
    BY <2>1 DEF NInv, Datagrams, AtTheStart, UnderWay
<1>3. CASE Diff
  <2>1. \/ StartTest(trace)
        \/ i < Len(tests) /\ StartTest(tests[i + 1])
        \/ phase' = "score" /\ UNCHANGED vars
    BY <1>3 DEF Diff
  <2>2. CASE phase' = "score" /\ UNCHANGED vars
    <3>1. UNCHANGED <<trace, next, drv, toDriver, toShell, sh, hasty>> /\ drv = "exited"
      BY <1>3, <2>2 DEF Diff, vars, drvvars, datavars, NInv
    <3> QED
      BY <3>1 DEF NInv, Datagrams, AtTheStart, UnderWay
  <2>3. ASSUME NEW t \in Traces, StartTest(t) PROVE NInv'
    <3>1. /\ trace' = t /\ next' = 1 /\ drv' = "start" /\ phase' = "test"
          /\ toShell' = <<>> /\ toDriver' = <<>> /\ sh' = Fresh.sh
      BY <2>3 DEF StartTest, NewShell
    <3>2. sh'.pc = "prompt" /\ sh'.buf = <<>> /\ {"pc", "buf"} \subseteq DOMAIN sh'
      BY <3>1 DEF Fresh
    <3>3. ~HasPrompt(<<>>)
      BY DEF HasPrompt
    <3>4. (Datagrams /\ Starting)'
      BY <3>1, <3>2, <3>3, EmptyIsSeq, NoneIsQuiet DEF Datagrams, Starting
    <3> QED
      BY <3>1, <3>4 DEF NInv, AtTheStart, UnderWay
  <2>4. ASSUME i < Len(tests) PROVE tests[i + 1] \in Traces
    <3>1. tests \in Seq(DOMAIN Reference \cap Traces) /\ i \in 1..Len(tests)
      BY SDriverAssumption DEF SDriverAssumption, GInv, Places
    <3>2. i + 1 \in 1..Len(tests)
      BY <2>4, <3>1
    <3> QED
      BY <3>1, <3>2, ElementOfSeq
  <2> QED
    BY <2>1, <2>2, <2>3, <2>4 DEF NInv
<1>4. CASE Testing(Next)
  <2>1. phase = "test" /\ phase' = phase /\ Next
    BY <1>4 DEF Testing, sdvars
  <2> QED
    BY <2>1, OthersKeepNInv, DriverKeepsNInv DEF Next, Running
<1>5. CASE UNCHANGED allvars
  BY <1>5 DEF allvars, vars, drvvars, datavars, sdvars, NInv, Datagrams, AtTheStart, UnderWay,
              Sent, Starting, Resting, Answering
<1> QED
  BY <1>1, <1>2, <1>3, <1>4, <1>5 DEF SDNext, SDStep

LEMMA StepIsInStep ==
  ASSUME \A t \in Traces : OneLineAtATime(t), GInv, NInv, [SDNext]_allvars,
         Command("NEXT"), next' = next + 1, ~hasty
  PROVE  sh.pc = "read" /\ toShell = <<>> /\ \A k \in DOMAIN toDriver' : ~HasPrompt(toDriver'[k])
<1>1. drv = "run" /\ next <= Len(trace) /\ trace[next].op = "NEXT" /\ phase = "test"
      /\ next' # next
  BY DEF Command, More, NInv
<1>2. Next
  BY <1>1 DEF SDNext, SDStep, Testing, TestDone, RefDone, RefGivesUp, RefFails, Diff, Score,
              runvars, outcome, allvars, vars, drvvars
<1>3. ~ShellNext
  BY <1>1, ShellSteps DEF NInv
<1>4. \A p \in Procs : ~(JobNext(p) \/ JobAlarm(p))
  BY <1>1, JobsArePlain DEF NInv
<1>5. DriverNext
  BY <1>2, <1>3, <1>4 DEF Next, Running
<1>6. NextPrompt /\ IsPrompt(Head(toDriver))
  BY <1>1, <1>5 DEF DriverNext, FirstPrompt, Wait, NextPrompt, Signal, KillShell, SendLine,
         SendEof, Reap, FirstPromptTimeout, ReadTimeout, sigalrm_handler, Done, Ends, Command
<1>7. toDriver' = Tail(toDriver)
  BY <1>6 DEF NextPrompt
<1> QED
  BY <1>6, <1>7, NextReturns DEF Quiet

(* In a trace that waits with NEXT for the answer to a line before it      *)
(* sends another, as those of the repository do, every NEXT that returns   *)
(* without a hasty timer finds the shell waiting for its next line, with   *)
(* no line unread and no prompt on its way: however the jobs, the signals  *)
(* and the handlers of the shell are interleaved (runtrace.c:246-252).     *)
THEOREM InStep ==
  ASSUME \A t \in Traces : OneLineAtATime(t)
  PROVE  SDSpec => NextIsInStep
<1>1. SDInit => GInv /\ NInv
  <2> SUFFICES ASSUME SDInit PROVE GInv /\ NInv
    OBVIOUS
  <2>1. Datagrams /\ Starting
    BY FreshIsStarting DEF SDInit, Init
  <2> QED
    BY <2>1, GradesStart DEF SDInit, Init, NInv, AtTheStart, UnderWay
<1>2. GInv /\ NInv /\ [SDNext]_allvars => (GInv /\ NInv)'
  BY GradesStep, StepKeepsNInv
<1>3. GInv /\ NInv /\ [SDNext]_allvars =>
        [Command("NEXT") /\ next' = next + 1 /\ ~hasty =>
           sh.pc = "read" /\ toShell = <<>> /\ \A k \in DOMAIN toDriver' : ~HasPrompt(toDriver'[k])]_vars
  BY StepIsInStep
<1> QED
  BY <1>1, <1>2, <1>3, PTL DEF SDSpec, NextIsInStep
=============================================================================
