------------------------------ MODULE TshProofs ------------------------------
(***************************************************************************)
(* The shell of Tsh.tla, for every number of slots, set of pids, choice of *)
(* builtins, keys and fates: the helpers of JobList, and that the table of *)
(* jobs and the processes agree, whatever handlers interrupt the shell and *)
(* each other.                                                             *)
(***************************************************************************)
EXTENDS Tsh, SequenceTheorems, FiniteSetTheorems, WellFoundedInduction, TLAPS

----------------------------------------------------------------------------
(* The table of jobs and its helpers                                       *)

(* A loop that stops at the first matching slot stops at a slot that       *)
(* matches, and at none before it (every lookup of tsh.c:569-688).         *)
LEMMA FirstIsLeast ==
  ASSUME NEW S, S \subseteq Nat, S # {}
  PROVE  /\ First(S) \in S
         /\ \A k \in S : First(S) <= k
<1>1. PICK x \in S : \A y \in S : ~ (<<y, x>> \in OpToRel(<, Nat))
  BY NatLessThanWellFounded, WFMin
<1>2. \A y \in S : x <= y
  <2>1. SUFFICES ASSUME NEW y \in S PROVE x <= y
    OBVIOUS
  <2>2. x \in Nat /\ y \in Nat
    OBVIOUS
  <2>3. ~ (y < x)
    BY <1>1, <2>2 DEF OpToRel
  <2> QED BY <2>2, <2>3
<1> QED BY <1>1, <1>2 DEF First

(* The greatest job number exists: maxjid() returns it (tsh.c:577-587).    *)
LEMMA MaxjidIsMax ==
  ASSUME NEW list, NEW cap \in Nat, \A i \in Slots : list[i].jid \in 0 .. cap
  PROVE  /\ maxjid(list) \in 0 .. cap
         /\ \A i \in Slots : list[i].jid <= maxjid(list)
         /\ maxjid(list) \in {list[i].jid : i \in Slots} \cup {0}
<1> DEFINE J == {list[i].jid : i \in Slots} \cup {0}
           B == {b \in Nat : \A i \in Slots : list[i].jid <= b}
<1>1. cap \in B /\ B \subseteq Nat
  OBVIOUS
<1>2. First(B) \in B /\ \A k \in B : First(B) <= k
  BY <1>1, FirstIsLeast
<1>3. First(B) \in J
  <2>1. SUFFICES ASSUME First(B) \notin J PROVE FALSE
    OBVIOUS
  <2>2. First(B) \in Nat /\ First(B) # 0
    BY <1>2, <2>1
  <2>3. ASSUME NEW i \in Slots PROVE list[i].jid <= First(B) - 1
    <3>1. list[i].jid \in Nat /\ list[i].jid <= First(B)
      BY <1>2
    <3>2. list[i].jid # First(B)
      BY <2>1
    <3> QED BY <2>2, <3>1, <3>2
  <2>4. First(B) - 1 \in B
    BY <2>2, <2>3
  <2>5. First(B) <= First(B) - 1
    BY <1>2, <2>4
  <2> HIDE DEF B
  <2> QED BY <2>2, <2>5
<1>4. \E m \in J : \A i \in Slots : list[i].jid <= m
  BY <1>2, <1>3
<1>5. maxjid(list) \in J /\ \A i \in Slots : list[i].jid <= maxjid(list)
  BY <1>4 DEF maxjid
<1> QED BY <1>5
(* What the three updates do, in the terms the shell's proofs use: the     *)
(* type of the table, the pids it lists and their uniqueness.              *)

(* addjob() lists the pid exactly if it is a pid and a slot is free, and   *)
(* a pid that was not listed is then in one slot only (tsh.c:589-617).     *)
LEMMA AddjobEffect ==
  ASSUME JobListTypeOK, nextjid <= JidCap,
         NEW pid \in Pids \cup {0, -1}, NEW state \in {"FG", "BG"},
         addjob(pid, state)
  PROVE  /\ JobListTypeOK'
         /\ Listed' \subseteq Listed \cup {pid}
         /\ Listed \subseteq Listed'
         /\ pid \in Pids /\ FreeSlots # {} => pid \in Listed'
         /\ PidsUnique /\ pid \notin Listed => PidsUnique'
         /\ \A i \in Slots : job_list'[i].pid # pid => job_list'[i] = job_list[i]
         /\ \/ UNCHANGED jobvars
            \/ /\ pid \in Pids
               /\ \E i \in Slots : job_list' = [job_list EXCEPT ![i] =
                                      [pid |-> pid, jid |-> nextjid, state |-> state]]
               /\ nextjid' = BumpJid(nextjid)
<1> USE JobListAssumption
<1>1. CASE pid < 1 \/ FreeSlots = {}
  <2>1. UNCHANGED jobvars /\ (pid \in Pids /\ FreeSlots # {} => FALSE)
    BY <1>1 DEF addjob
  <2> QED BY <2>1 DEF jobvars, JobListTypeOK, Listed, PidsUnique
<1>2. CASE ~ (pid < 1 \/ FreeSlots = {})
  <2> DEFINE n == First(FreeSlots)
             entry == [pid |-> pid, jid |-> nextjid, state |-> state]
  <2>1. FreeSlots \subseteq Nat
    BY DEF FreeSlots, Slots
  <2>2. n \in Slots /\ job_list[n].pid = 0
    BY <1>2, <2>1, FirstIsLeast DEF FreeSlots
  <2>3. /\ job_list' = [job_list EXCEPT ![n] = entry]
        /\ nextjid' = BumpJid(nextjid)
    BY <1>2 DEF addjob
  <2> HIDE DEF n
  <2>4. pid \in Pids /\ pid # 0
    BY <1>2
  <2>5. /\ job_list'[n] = entry
        /\ \A i \in Slots : i # n => job_list'[i] = job_list[i]
    BY <2>2, <2>3 DEF JobListTypeOK
  <2>6. nextjid \in 0 .. JidCap /\ nextjid' \in 1 .. MAXJOBS
    BY <2>3 DEF JobListTypeOK, BumpJid
  <2>7. entry \in [pid : Pids \cup {0}, jid : 0 .. JidCap, state : States]
    BY <2>4, <2>6 DEF States
  <2>8. JobListTypeOK'
    BY <2>2, <2>3, <2>6, <2>7 DEF JobListTypeOK
  <2>9. Listed' \subseteq Listed \cup {pid} /\ Listed \subseteq Listed' /\ pid \in Listed'
    BY <2>2, <2>4, <2>5 DEF Listed
  <2>10. ASSUME PidsUnique, pid \notin Listed PROVE PidsUnique'
    BY <2>2, <2>4, <2>5, <2>10 DEF PidsUnique, Listed
  <2>11. \E i \in Slots : job_list' = [job_list EXCEPT ![i] = entry]
    BY <2>2, <2>3
  <2>12. \A i \in Slots : job_list'[i].pid # pid => job_list'[i] = job_list[i]
    BY <2>5
  <2> HIDE DEF entry
  <2>13. \/ UNCHANGED jobvars
         \/ /\ pid \in Pids
            /\ \E i \in Slots : job_list' = [job_list EXCEPT ![i] =
                                   [pid |-> pid, jid |-> nextjid, state |-> state]]
            /\ nextjid' = BumpJid(nextjid)
    BY <2>3, <2>4, <2>11 DEF entry
  <2> QED BY <2>8, <2>9, <2>10, <2>12, <2>13
<1> QED BY <1>1, <1>2

(* deletejob() unlists the pid, if pids are unique, and nothing else       *)
(* (tsh.c:619-636).                                                        *)
LEMMA DeletejobEffect ==
  ASSUME JobListTypeOK, NEW pid \in Pids \cup {0}, deletejob(pid)
  PROVE  /\ JobListTypeOK'
         /\ Listed' \subseteq Listed
         /\ PidsUnique => PidsUnique' /\ Listed' = Listed \ {pid}
         /\ \A i \in Slots : job_list'[i].pid # 0 => job_list'[i] = job_list[i]
         /\ \A i \in Slots : job_list'[i] = job_list[i] \/ job_list'[i] = clearjob
         /\ UNCHANGED jobvars \/ nextjid' = maxjid(job_list') + 1
<1> USE JobListAssumption
<1>1. CASE getjobpid(pid) = {}
  <2>1. UNCHANGED jobvars
    BY <1>1 DEF deletejob
  <2>2. ASSUME pid # 0 PROVE \A i \in Slots : job_list[i].pid # pid
    <3>1. pid >= 1
      BY <2>2
    <3> QED BY <1>1, <3>1 DEF getjobpid
  <2>3. pid \notin Listed
    BY <2>2 DEF Listed
  <2> QED BY <2>1, <2>3, <2>2 DEF jobvars, JobListTypeOK, Listed, PidsUnique
<1>2. CASE getjobpid(pid) # {}
  <2> DEFINE n == First(getjobpid(pid))
  <2>1. getjobpid(pid) \subseteq Nat
    BY DEF getjobpid, Slots
  <2>2. n \in Slots /\ job_list[n].pid = pid /\ pid # 0
    BY <1>2, <2>1, FirstIsLeast DEF getjobpid
  <2>3. /\ job_list' = [job_list EXCEPT ![n] = clearjob]
        /\ nextjid' = maxjid(job_list') + 1
    BY <1>2 DEF deletejob, JidAfterDelete
  <2> HIDE DEF n
  <2>4. /\ job_list'[n] = clearjob
        /\ \A i \in Slots : i # n => job_list'[i] = job_list[i]
    BY <2>2, <2>3 DEF JobListTypeOK
  <2>5. job_list' \in [Slots -> [pid : Pids \cup {0}, jid : 0 .. JidCap, state : States]]
    BY <2>2, <2>3 DEF JobListTypeOK, clearjob, States
  <2>6. \A i \in Slots : job_list'[i].jid \in 0 .. JidCap
    BY <2>5
  <2>7. maxjid(job_list') \in 0 .. JidCap
    BY <2>6, MaxjidIsMax
  <2>8. JobListTypeOK'
    BY <2>3, <2>5, <2>7 DEF JobListTypeOK
  <2>9. Listed' \subseteq Listed /\ \A i \in Slots : job_list'[i].pid # 0 => job_list'[i] = job_list[i]
    BY <2>4 DEF Listed, clearjob
  <2>10. ASSUME PidsUnique PROVE PidsUnique' /\ Listed' = Listed \ {pid}
    <3>1. PidsUnique'
      BY <2>4, <2>10 DEF PidsUnique, clearjob
    <3>2. \A i \in Slots : i # n => job_list[i].pid # pid
      BY <2>2, <2>10 DEF PidsUnique
    <3>3. Listed' = Listed \ {pid}
      BY <2>2, <2>4, <3>2 DEF Listed, clearjob
    <3> QED BY <3>1, <3>3
  <2> QED BY <2>3, <2>4, <2>8, <2>9, <2>10
<1> QED BY <1>1, <1>2

(* "bjob->state = ..." lists and unlists nobody (tsh.c:222, 229, 506).     *)
LEMMA SetStateEffect ==
  ASSUME JobListTypeOK, NEW i \in Slots, NEW state \in States, SetState(i, state)
  PROVE  /\ JobListTypeOK'
         /\ Listed' = Listed
         /\ PidsUnique => PidsUnique'
         /\ \A k \in Slots : job_list'[k].pid = job_list[k].pid
         /\ \A k \in Slots : job_list'[k].jid = job_list[k].jid
         /\ \A k \in Slots : k # i => job_list'[k] = job_list[k]
         /\ job_list'[i].state = state
<1>1. /\ \A k \in Slots : job_list'[k].jid = job_list[k].jid
      /\ \A k \in Slots : job_list'[k].pid = job_list[k].pid
      /\ \A k \in Slots : k # i => job_list'[k] = job_list[k]
      /\ job_list'[i].state = state
  BY DEF SetState, JobListTypeOK
<1>2. JobListTypeOK'
  BY DEF SetState, JobListTypeOK
<1> QED BY <1>1, <1>2 DEF Listed, PidsUnique

(* fgpid() and a lookup by pid, typed (tsh.c:638-660).                     *)
LEMMA LookupTypes ==
  ASSUME JobListTypeOK
  PROVE  /\ fgpid \in Pids \cup {0}
         /\ fgpid # 0 => \E i \in Slots : job_list[i].pid = fgpid /\ job_list[i].state = "FG"
         /\ \A pid \in Pids : getjobpid(pid) # {} =>
               First(getjobpid(pid)) \in Slots /\ job_list[First(getjobpid(pid))].pid = pid
         /\ \A jid : getjobjid(jid) # {} => First(getjobjid(jid)) \in Slots
<1> USE JobListAssumption
<1>1. /\ fgpid \in Pids \cup {0}
      /\ fgpid # 0 => \E i \in Slots : job_list[i].pid = fgpid /\ job_list[i].state = "FG"
  <2> DEFINE fg == {i \in Slots : job_list[i].state = "FG"}
  <2>1. CASE fg = {}
    BY <2>1 DEF fgpid
  <2>2. CASE fg # {}
    <3>1. fg \subseteq Nat
      BY DEF Slots
    <3>2. First(fg) \in Slots /\ job_list[First(fg)].state = "FG"
      BY <2>2, <3>1, FirstIsLeast
    <3> QED BY <2>2, <3>2 DEF fgpid, JobListTypeOK
  <2> QED BY <2>1, <2>2
<1>2. ASSUME NEW pid \in Pids, getjobpid(pid) # {}
      PROVE  First(getjobpid(pid)) \in Slots /\ job_list[First(getjobpid(pid))].pid = pid
  <2>1. getjobpid(pid) \subseteq Nat
    BY DEF getjobpid, Slots
  <2>2. First(getjobpid(pid)) \in getjobpid(pid)
    BY <1>2, <2>1, FirstIsLeast
  <2> QED BY <2>2 DEF getjobpid
<1>3. ASSUME NEW jid, getjobjid(jid) # {} PROVE First(getjobjid(jid)) \in Slots
  <2>1. getjobjid(jid) \subseteq Nat
    BY DEF getjobjid, Slots
  <2>2. First(getjobjid(jid)) \in getjobjid(jid)
    BY <1>3, <2>1, FirstIsLeast
  <2> QED BY <2>2 DEF getjobjid
<1> QED BY <1>1, <1>2, <1>3

----------------------------------------------------------------------------
(* The stack of handlers as a set of frames                                *)

OnePerSignal(s) == \A j, k \in DOMAIN s : s[j].sig = s[k].sig => j = k

(* Entering a handler adds its frame; the kernel blocks the signal of an   *)
(* active handler, so there is one frame per signal (tsh.c:783-787).       *)
LEMMA PushFrame ==
  ASSUME NEW s \in Seq(Frames), NEW f \in Frames
  PROVE  /\ <<f>> \o s \in Seq(Frames)
         /\ <<f>> \o s # << >>
         /\ FramesOf(<<f>> \o s) = {f} \cup FramesOf(s)
         /\ OnePerSignal(s) /\ (\A g \in FramesOf(s) : g.sig # f.sig)
              => OnePerSignal(<<f>> \o s)
<1> DEFINE t == <<f>> \o s
<1>1. <<f>> \in Seq(Frames) /\ Len(<<f>>) = 1 /\ <<f>>[1] = f
  OBVIOUS
<1>2. t \in Seq(Frames) /\ Len(t) = 1 + Len(s)
  BY <1>1, ConcatProperties
<1>3. \A k \in 1 .. Len(t) : t[k] = IF k = 1 THEN f ELSE s[k - 1]
  <2>1. SUFFICES ASSUME NEW k \in 1 .. Len(t)
                 PROVE  t[k] = IF k = 1 THEN f ELSE s[k - 1]
    OBVIOUS
  <2>2. t[k] = IF k <= 1 THEN <<f>>[k] ELSE s[k - 1]
    BY <1>1, <1>2, ConcatProperties
  <2> QED BY <1>1, <2>2
<1>4. DOMAIN t = 1 .. Len(s) + 1 /\ DOMAIN s = 1 .. Len(s) /\ Len(s) \in Nat
  BY <1>2
<1> HIDE DEF t
<1>5. FramesOf(t) = {f} \cup FramesOf(s)
  <2>1. ASSUME NEW g \in FramesOf(t) PROVE g \in {f} \cup FramesOf(s)
    <3>1. PICK k \in 1 .. Len(s) + 1 : g = t[k]
      BY <1>4 DEF FramesOf
    <3>2. CASE k = 1
      BY <1>2, <1>3, <1>4, <3>1, <3>2
    <3>3. CASE k # 1
      <4>1. k - 1 \in DOMAIN s /\ g = s[k - 1]
        BY <1>2, <1>3, <1>4, <3>1, <3>3
      <4> QED BY <4>1 DEF FramesOf
    <3> QED BY <3>2, <3>3
  <2>2. f \in FramesOf(t)
    <3>1. 1 \in DOMAIN t /\ t[1] = f
      BY <1>2, <1>3, <1>4
    <3> QED BY <3>1 DEF FramesOf
  <2>3. ASSUME NEW g \in FramesOf(s) PROVE g \in FramesOf(t)
    <3>1. PICK k \in 1 .. Len(s) : g = s[k]
      BY <1>4 DEF FramesOf
    <3>2. k + 1 \in DOMAIN t /\ t[k + 1] = g
      BY <1>2, <1>3, <1>4, <3>1
    <3> QED BY <3>2 DEF FramesOf
  <2> QED BY <2>1, <2>2, <2>3
<1>6. ASSUME OnePerSignal(s), \A g \in FramesOf(s) : g.sig # f.sig
      PROVE  OnePerSignal(t)
  <2>1. SUFFICES ASSUME NEW j \in DOMAIN t, NEW k \in DOMAIN t, t[j].sig = t[k].sig
                 PROVE  j = k
    BY DEF OnePerSignal
  <2>2. \A i \in DOMAIN t : i # 1 => /\ i - 1 \in DOMAIN s
                                     /\ t[i] = s[i - 1]
                                     /\ t[i].sig # f.sig
    BY <1>2, <1>3, <1>4, <1>6 DEF FramesOf
  <2>3. t[1] = f
    BY <1>2, <1>3, <1>4
  <2>4. CASE j = 1 \/ k = 1
    BY <2>1, <2>2, <2>3, <2>4
  <2>5. CASE j # 1 /\ k # 1
    <3>1. j - 1 = k - 1
      BY <1>6, <2>1, <2>2, <2>5 DEF OnePerSignal
    <3> QED BY <1>4, <3>1
  <2> QED BY <2>4, <2>5
<1>7. t # << >>
  BY <1>2, <1>4
<1> QED BY <1>2, <1>5, <1>6, <1>7 DEF t

(* Returning from the running handler removes its frame only.              *)
LEMMA PopFrame ==
  ASSUME NEW s \in Seq(Frames), s # << >>
  PROVE  /\ Head(s) \in Frames
         /\ Tail(s) \in Seq(Frames)
         /\ FramesOf(s) = {Head(s)} \cup FramesOf(Tail(s))
         /\ OnePerSignal(s) => /\ OnePerSignal(Tail(s))
                               /\ \A g \in FramesOf(Tail(s)) : g.sig # Head(s).sig
<1>1. /\ Head(s) \in Frames /\ Head(s) = s[1] /\ Len(s) \in Nat /\ Len(s) >= 1
      /\ Tail(s) \in Seq(Frames) /\ Len(Tail(s)) = Len(s) - 1
      /\ \A k \in 1 .. Len(Tail(s)) : Tail(s)[k] = s[k + 1]
  BY HeadTailProperties, EmptySeq
<1>2. DOMAIN s = 1 .. Len(s) /\ DOMAIN Tail(s) = 1 .. Len(s) - 1
  BY <1>1
<1> DEFINE t == Tail(s)
           h == Head(s)
<1> HIDE DEF t, h
<1>3. FramesOf(s) = {h} \cup FramesOf(t)
  <2>1. ASSUME NEW g \in FramesOf(s) PROVE g \in {h} \cup FramesOf(t)
    <3>1. PICK k \in 1 .. Len(s) : g = s[k]
      BY <1>2 DEF FramesOf
    <3>2. CASE k = 1
      BY <1>1, <3>1, <3>2 DEF h
    <3>3. CASE k # 1
      <4>1. k - 1 \in DOMAIN t /\ g = t[k - 1]
        BY <1>1, <1>2, <3>1, <3>3 DEF t
      <4> QED BY <4>1 DEF FramesOf
    <3> QED BY <3>2, <3>3
  <2>2. h \in FramesOf(s)
    BY <1>1, <1>2 DEF FramesOf, h
  <2>3. ASSUME NEW g \in FramesOf(t) PROVE g \in FramesOf(s)
    <3>1. PICK k \in 1 .. Len(s) - 1 : g = t[k]
      BY <1>2 DEF FramesOf, t
    <3>2. k + 1 \in DOMAIN s /\ g = s[k + 1]
      BY <1>1, <1>2, <3>1 DEF t
    <3> QED BY <3>2 DEF FramesOf
  <2> QED BY <2>1, <2>2, <2>3
<1>4. ASSUME OnePerSignal(s)
      PROVE  OnePerSignal(t) /\ \A g \in FramesOf(t) : g.sig # h.sig
  <2>1. \A k \in DOMAIN t : k + 1 \in DOMAIN s /\ t[k] = s[k + 1] /\ k \in Nat /\ k + 1 # 1
    BY <1>1, <1>2 DEF t
  <2>2. 1 \in DOMAIN s /\ s[1] = h
    BY <1>1, <1>2 DEF h
  <2>3. OnePerSignal(t)
    <3>1. SUFFICES ASSUME NEW j \in DOMAIN t, NEW k \in DOMAIN t, t[j].sig = t[k].sig
                   PROVE  j = k
      BY DEF OnePerSignal
    <3>2. j + 1 = k + 1
      BY <1>4, <2>1, <3>1 DEF OnePerSignal
    <3> QED BY <2>1, <3>2
  <2>4. ASSUME NEW g \in FramesOf(t) PROVE g.sig # h.sig
    <3>1. PICK k \in DOMAIN t : g = t[k]
      BY DEF FramesOf
    <3> QED BY <1>4, <2>1, <2>2, <3>1 DEF OnePerSignal
  <2> QED BY <2>3, <2>4
<1> QED BY <1>1, <1>3, <1>4 DEF t, h
(* The three things a handler or the kernel does to the stack.             *)
LEMMA ReturnEffect ==
  ASSUME TypeOK, stack # << >>, HandlerReturns
  PROVE  /\ stack' \in Seq(Frames)
         /\ Active = {Head(stack)} \cup Active'
         /\ Head(stack) \in Frames
         /\ OnePerSignal(stack) => OnePerSignal(stack)'
         /\ OnePerSignal(stack) => \A g \in Active' : g.sig # Head(stack).sig
         /\ pc' \in MainLabels
         /\ pc' = "add" => pc = "add"
<1>1. stack \in Seq(Frames) /\ stack' = Tail(stack)
  BY DEF TypeOK, HandlerReturns
<1>2. pc' \in {pc, Wake(pc)}
  BY DEF HandlerReturns
<1>3. pc' \in MainLabels /\ (pc' = "add" => pc = "add")
  <2>1. Wake(pc) \in {pc, "evalcheck", "fgcheck"}
    BY DEF Wake
  <2> QED BY <1>2, <2>1 DEF TypeOK, MainLabels
<1>4. OnePerSignal(stack)' <=> OnePerSignal(Tail(stack))
  BY <1>1 DEF OnePerSignal
<1> QED BY <1>1, <1>3, <1>4, PopFrame DEF Active

LEMMA GoesToEffect ==
  ASSUME TypeOK, stack # << >>, OnePerSignal(stack),
         NEW at \in {"start", "kill", "act"}, NEW p \in Pids \cup {0},
         NEW how \in {"none", "stopped", "exited", "killed"},
         GoesTo(at, p, how)
  PROVE  /\ stack' \in Seq(Frames)
         /\ stack' # << >>
         /\ OnePerSignal(stack)'
         /\ Head(stack) \in Frames
         /\ Active = {Head(stack)} \cup FramesOf(Tail(stack))
         /\ Active' = {[sig |-> Head(stack).sig, at |-> at, pid |-> p, how |-> how]}
                        \cup FramesOf(Tail(stack))
         /\ \A g \in FramesOf(Tail(stack)) : g.sig # Head(stack).sig
<1> DEFINE f == [sig |-> Head(stack).sig, at |-> at, pid |-> p, how |-> how]
           rest == FramesOf(Tail(stack))
<1>1. stack \in Seq(Frames)
  BY DEF TypeOK
<1>2. /\ Head(stack) \in Frames /\ Tail(stack) \in Seq(Frames)
      /\ Active = {Head(stack)} \cup rest
      /\ OnePerSignal(Tail(stack)) /\ \A g \in rest : g.sig # Head(stack).sig
  BY <1>1, PopFrame DEF Active
<1>3. f \in Frames /\ f.sig = Head(stack).sig
  BY <1>2 DEF Frames
<1>4. stack' = <<f>> \o Tail(stack)
  BY DEF GoesTo
<1> HIDE DEF f
<1>5. /\ stack' \in Seq(Frames) /\ stack' # << >>
      /\ FramesOf(stack') = {f} \cup rest
      /\ OnePerSignal(stack')
  BY <1>2, <1>3, <1>4, PushFrame
<1>6. Active' = FramesOf(stack') /\ (OnePerSignal(stack)' <=> OnePerSignal(stack'))
  BY DEF Active, FramesOf, OnePerSignal
<1> QED BY <1>2, <1>5, <1>6 DEF f

----------------------------------------------------------------------------
(* The inductive invariant.  NoStaleJob and PidsUnique are not inductive   *)
(* by themselves: that a new child's pid is not listed needs that no       *)
(* handler runs while the shell forks and adds (AddingOK), and that an     *)
(* entry is deleted with the last handler that vouches for it needs what   *)
(* the active handlers remember (FramesOK).                                *)

FramesOK ==
  /\ OnePerSignal(stack)
  /\ \A f \in Active :
       /\ f.at = "act" => /\ f.sig = "SIGCHLD"
                          /\ f.pid \in Pids
                          /\ f.how \in {"stopped", "exited", "killed"}
                          /\ f.how # "stopped" => proc[f.pid] = "none"
       /\ f.at = "kill" => f.sig # "SIGCHLD" /\ f.pid \in Pids

AddingOK ==
  pc = "add" => /\ stack = << >>
                /\ mask = Signals
                /\ nextjid <= JidCap
                /\ cur \in Pids => cur \notin Listed /\ proc[cur] # "none"

IInv == TypeOK /\ FramesOK /\ AddingOK /\ PidsUnique /\ NoStaleJob /\ ForwardSparesBackground

(* Steps that touch neither the table nor the stack, and neither start nor *)
(* reap a child: what the children do by themselves, the shell's tests and *)
(* its kill(-pid, SIGCONT).                                                *)
LEMMA QuietStep ==
  ASSUME IInv, TypeOK', UNCHANGED <<job_list, nextjid, stack>>,
         \A p \in Pids : proc'[p] = "none" <=> proc[p] = "none",
         pc' # "add" \/ UNCHANGED <<pc, cur, mask>>
  PROVE  IInv'
<1>1. Active' = Active /\ Listed' = Listed
  BY DEF Active, FramesOf, Listed
<1>2. FramesOK'
  BY <1>1 DEF IInv, FramesOK, OnePerSignal
<1>3. AddingOK'
  BY <1>1 DEF IInv, AddingOK
<1>4. PidsUnique'
  BY DEF IInv, PidsUnique
<1>5. Listed \subseteq Pids
  BY DEF IInv, TypeOK, JobListTypeOK, Listed
<1>6. NoStaleJob'
  BY <1>1, <1>5 DEF IInv, NoStaleJob, InFlight
<1>7. ForwardSparesBackground'
  BY <1>1 DEF IInv, ForwardSparesBackground
<1> QED BY <1>2, <1>3, <1>4, <1>6, <1>7 DEF IInv

(* A child changes state, and the shell is told (tsh.c:487-491).           *)
LEMMA BecomeEffect ==
  ASSUME TypeOK, NEW p \in Pids, NEW st \in ProcStates, Become(p, st)
  PROVE  /\ proc' \in [Pids -> ProcStates]
         /\ stopnew' \subseteq Pids
         /\ proc[p] # "none" /\ st # "none" =>
              \A q \in Pids : proc'[q] = "none" <=> proc[q] = "none"
         /\ st # "none" => \A q \in Pids : proc[q] # "none" => proc'[q] # "none"
         /\ proc'[p] = st
BY DEF TypeOK, Become

LEMMA KillEffect ==
  ASSUME TypeOK, NEW p, NEW sig \in {"SIGINT", "SIGTSTP", "SIGCONT"}, Kill(p, sig)
  PROVE  /\ proc' \in [Pids -> ProcStates] /\ stopnew' \subseteq Pids /\ pending' \subseteq Signals
         /\ \A q \in Pids : proc'[q] = "none" <=> proc[q] = "none"
<1>1. CASE p \in Pids /\ SignalEffect(p, sig) # proc[p]
  <2>1. /\ SignalEffect(p, sig) \in ProcStates /\ SignalEffect(p, sig) # "none"
        /\ proc[p] # "none"
    BY <1>1 DEF SignalEffect, ProcStates
  <2>2. Become(p, SignalEffect(p, sig)) /\ Raise("SIGCHLD")
    BY <1>1 DEF Kill
  <2>3. pending' \subseteq Signals
    BY <2>2 DEF Raise, TypeOK, Signals
  <2> QED BY <1>1, <2>1, <2>2, <2>3, BecomeEffect
<1>2. CASE ~ (p \in Pids /\ SignalEffect(p, sig) # proc[p])
  BY <1>2 DEF Kill, TypeOK
<1> QED BY <1>1, <1>2
----------------------------------------------------------------------------
(* The steps                                                               *)

LEMMA InitInv == Init => IInv
<1> USE JobListAssumption
<1> SUFFICES ASSUME Init PROVE IInv
  OBVIOUS
<1>1. \A i \in Slots : job_list[i] = clearjob
  BY DEF Init, JobListInit, initjobs
<1>2. Active = {} /\ Listed = {}
  BY <1>1 DEF Init, Active, FramesOf, Listed, clearjob
<1>3. JobListTypeOK
  BY DEF Init, JobListInit, initjobs, clearjob, JobListTypeOK, States
<1>4. TypeOK
  BY <1>3 DEF Init, TypeOK, ProcStates, MainLabels, Slots
<1>5. FramesOK
  BY <1>2 DEF Init, FramesOK, OnePerSignal
<1>6. AddingOK
  BY DEF Init, AddingOK
<1>7. PidsUnique
  BY <1>1 DEF PidsUnique, clearjob
<1> QED BY <1>2, <1>4, <1>5, <1>6, <1>7 DEF IInv, NoStaleJob, ForwardSparesBackground

(* Children and keys.                                                      *)
LEMMA EnvironmentStep ==
  ASSUME IInv,
         \/ \E p \in Pids : Exec(p) \/ ExitChild(p) \/ KillChild(p) \/ StopChild(p) \/ ContChild(p)
         \/ \E s \in Keys : Key(s)
  PROVE  IInv'
<1>1. TypeOK
  BY DEF IInv
<1>2. ASSUME NEW p \in Pids, NEW from \in SUBSET (ProcStates \ {"none"}),
             NEW st \in ProcStates \ {"none"}, ChildStep(p, from, st)
      PROVE  IInv'
  <2>1. Become(p, st) /\ Raise("SIGCHLD") /\ proc[p] # "none"
        /\ UNCHANGED <<job_list, nextjid, mask, pc, cur, mode, slot, stack>>
    BY <1>2 DEF ChildStep
  <2>2. TypeOK'
    BY <1>1, <2>1, BecomeEffect DEF TypeOK, Raise, Signals, JobListTypeOK
  <2>3. \A q \in Pids : proc'[q] = "none" <=> proc[q] = "none"
    BY <1>1, <2>1, BecomeEffect
  <2> QED BY <2>1, <2>2, <2>3, QuietStep
<1>3. ASSUME NEW p \in Pids, Exec(p) PROVE IInv'
  <2>1. Become(p, "running") /\ proc[p] = "starting"
        /\ UNCHANGED <<job_list, nextjid, pending, mask, pc, cur, mode, slot, stack>>
    BY <1>3 DEF Exec
  <2>2. "running" \in ProcStates
    BY DEF ProcStates
  <2>3. TypeOK'
    BY <1>1, <2>1, <2>2, BecomeEffect DEF TypeOK, JobListTypeOK
  <2>4. \A q \in Pids : proc'[q] = "none" <=> proc[q] = "none"
    BY <1>1, <2>1, <2>2, BecomeEffect
  <2> QED BY <2>1, <2>3, <2>4, QuietStep
<1>4. ASSUME NEW p \in Pids,
             ExitChild(p) \/ KillChild(p) \/ StopChild(p) \/ ContChild(p)
      PROVE  IInv'
  <2>1. \E from \in SUBSET (ProcStates \ {"none"}), st \in ProcStates \ {"none"} :
           ChildStep(p, from, st)
    BY <1>4 DEF ExitChild, KillChild, StopChild, ContChild, ProcStates
  <2> QED BY <1>2, <2>1
<1>5. ASSUME NEW s \in Keys, Key(s) PROVE IInv'
  <2>1. TypeOK'
    BY <1>1, <1>5, TshAssumption DEF Key, Raise, TypeOK, JobListTypeOK, Signals
  <2> QED BY <1>5, <2>1, QuietStep DEF Key
<1> QED BY <1>3, <1>4, <1>5

(* A command that forks: only here may a pid come (back) to life, and no   *)
(* handler is active that could vouch for an entry of that pid.            *)
LEMMA ForkStep ==
  ASSUME IInv, NEW p \in Pids \cup {-1}, NEW m \in {"FG", "BG"}, Fork(p, m)
  PROVE  IInv'
<1>1. /\ stack = << >> /\ stack' = << >>
      /\ UNCHANGED <<job_list, nextjid, pending, slot>>
      /\ nextjid <= JidCap /\ mask' = mask \cup EvalMask
      /\ mode' = m /\ cur' = p /\ pc' = "add"
  BY DEF Fork, MainAt
<1>2. Active = {} /\ Active' = {}
  BY <1>1 DEF Active, FramesOf
<1>3. mask' = Signals
  BY <1>1 DEF IInv, TypeOK, EvalMask, Signals
<1>4. Listed' = Listed /\ Listed \subseteq Pids
  BY <1>1 DEF Listed, IInv, TypeOK, JobListTypeOK
<1>5. \A q \in Listed : proc[q] # "none"
  BY <1>2 DEF IInv, NoStaleJob, InFlight
<1>6. /\ proc' \in [Pids -> ProcStates] /\ stopnew' \subseteq Pids
      /\ \A q \in Pids : proc[q] # "none" => proc'[q] # "none"
      /\ p \in Pids => proc[p] = "none" /\ proc'[p] # "none"
  <2>1. CASE p \in Pids /\ proc[p] = "none" /\ Become(p, "starting")
    <3>1. "starting" \in ProcStates
      BY DEF ProcStates
    <3> QED BY <2>1, <3>1, BecomeEffect DEF IInv
  <2>2. CASE p = -1 /\ UNCHANGED procvars
    BY <2>2, JobListAssumption DEF procvars, IInv, TypeOK
  <2> QED BY <2>1, <2>2 DEF Fork
<1>7. TypeOK'
  BY <1>1, <1>3, <1>6 DEF IInv, TypeOK, JobListTypeOK, MainLabels
<1>8. FramesOK'
  BY <1>1, <1>2 DEF FramesOK, OnePerSignal
<1>9. AddingOK'
  BY <1>1, <1>3, <1>4, <1>5, <1>6 DEF AddingOK
<1>10. PidsUnique' /\ NoStaleJob'
  BY <1>1, <1>4, <1>5, <1>6 DEF IInv, PidsUnique, NoStaleJob
<1>11. ForwardSparesBackground'
  BY <1>2 DEF ForwardSparesBackground
<1> QED BY <1>7, <1>8, <1>9, <1>10, <1>11 DEF IInv
(* fg, bg and quit as the user types them.                                 *)
LEMMA BuiltinStep ==
  ASSUME IInv,
         \/ \E m \in Modes : \/ \E jid \in 1 .. JidCap : BgfgJid(m, jid)
                             \/ \E p \in Pids : BgfgPid(m, p)
         \/ Quit
  PROVE  IInv'
<1>1. TypeOK /\ JobListTypeOK
  BY DEF IInv, TypeOK
<1>2. ASSUME Exits PROVE IInv'
  <2>1. TypeOK'
    BY <1>1, <1>2 DEF Exits, TypeOK, JobListTypeOK, jobvars, procvars, mainvars, MainLabels
  <2> QED BY <1>2, <2>1, QuietStep DEF Exits, jobvars, procvars
<1>3. ASSUME NEW m \in Modes, NEW jid \in 1 .. JidCap, BgfgJid(m, jid) PROVE IInv'
  <2>1. CASE getjobjid(jid) = {}
    BY <1>2, <1>3, <2>1 DEF BgfgJid
  <2>2. CASE getjobjid(jid) # {}
    <3>1. First(getjobjid(jid)) \in Slots
      BY <1>1, <2>2, LookupTypes
    <3>2. TypeOK'
      BY <1>1, <1>3, <2>2, <3>1
      DEF BgfgJid, Modes, TypeOK, JobListTypeOK, jobvars, procvars, MainLabels
    <3> QED BY <1>3, <2>2, <3>2, QuietStep DEF BgfgJid, jobvars, procvars
  <2> QED BY <2>1, <2>2
<1>4. ASSUME NEW m \in Modes, NEW p \in Pids, BgfgPid(m, p) PROVE IInv'
  <2>1. CASE getjobpid(p) = {}
    BY <1>2, <1>4, <2>1 DEF BgfgPid
  <2>2. CASE getjobpid(p) # {}
    <3>1. First(getjobpid(p)) \in Slots
      BY <1>1, <2>2, LookupTypes
    <3>2. TypeOK'
      BY <1>1, <1>4, <2>2, <3>1
      DEF BgfgPid, Modes, TypeOK, JobListTypeOK, jobvars, procvars, MainLabels
    <3> QED BY <1>4, <2>2, <3>2, QuietStep DEF BgfgPid, jobvars, procvars
  <2> QED BY <2>1, <2>2
<1> QED BY <1>2, <1>3, <1>4 DEF Quit

(* eval() lists the new child.                                             *)
LEMMA AddJobStep == ASSUME IInv, AddJob PROVE IInv'
<1>1. /\ pc = "add" /\ stack = << >> /\ stack' = << >> /\ addjob(cur, mode)
      /\ UNCHANGED <<proc, stopnew, pending, mask, cur, mode, slot>>
      /\ pc' \in {"evalcheck", "unblock"}
  BY DEF AddJob, MainAt
<1>2. /\ JobListTypeOK /\ nextjid <= JidCap /\ cur \in Pids \cup {0, -1} /\ mode \in {"FG", "BG"}
      /\ cur \in Pids => cur \notin Listed /\ proc[cur] # "none"
  BY <1>1 DEF IInv, TypeOK, AddingOK
<1>3. CASE cur = 0
  <2>1. UNCHANGED <<job_list, nextjid>>
    BY <1>1, <1>3 DEF addjob, jobvars
  <2>2. TypeOK'
    BY <1>1, <2>1 DEF IInv, TypeOK, JobListTypeOK, MainLabels
  <2> QED BY <1>1, <2>1, <2>2, QuietStep
<1>4. CASE cur # 0
  <2>1. /\ JobListTypeOK' /\ Listed' \subseteq Listed \cup {cur}
        /\ PidsUnique /\ cur \notin Listed => PidsUnique'
    BY <1>1, <1>2, <1>4, AddjobEffect
  <2>2. 0 \notin Listed' /\ -1 \notin Listed' /\ -1 \notin Listed
    BY <1>2, <2>1, JobListAssumption DEF Listed, JobListTypeOK
  <2>3. cur \notin Listed
    BY <1>2, <1>4, <2>2
  <2>4. TypeOK'
    BY <1>1, <2>1 DEF IInv, TypeOK, MainLabels
  <2>5. Active = {} /\ Active' = {}
    BY <1>1 DEF Active, FramesOf
  <2>6. FramesOK' /\ AddingOK' /\ ForwardSparesBackground'
    BY <1>1, <2>5 DEF FramesOK, OnePerSignal, AddingOK, ForwardSparesBackground
  <2>7. NoStaleJob'
    BY <1>1, <1>2, <1>4, <2>1, <2>2, <2>5 DEF IInv, NoStaleJob, InFlight
  <2> QED BY <2>1, <2>3, <2>4, <2>6, <2>7 DEF IInv
<1> QED BY <1>3, <1>4

(* fg and bg write a state into the slot they found: no pid moves.         *)
LEMMA AssignStep == ASSUME IInv, Assign PROVE IInv'
<1>1. /\ stack = << >> /\ stack' = << >> /\ SetState(slot, mode)
      /\ UNCHANGED <<proc, stopnew, pending, mask>>
      /\ pc' \in {"read", "fgcheck"} /\ cur' \in {cur, 0}
      /\ mode' \in {mode, "FG"} /\ slot' \in {slot, 0}
  BY DEF Assign, MainAt, Return, mainvars, procvars
<1>2. JobListTypeOK /\ slot \in Slots /\ mode \in States /\ 0 \in Slots
  BY JobListAssumption DEF IInv, TypeOK, States, Slots
<1>3. JobListTypeOK' /\ Listed' = Listed /\ PidsUnique'
  BY <1>1, <1>2, SetStateEffect DEF IInv
<1>4. TypeOK'
  BY <1>1, <1>2, <1>3 DEF IInv, TypeOK, MainLabels
<1>5. Active = {} /\ Active' = {}
  BY <1>1 DEF Active, FramesOf
<1>6. FramesOK' /\ AddingOK' /\ ForwardSparesBackground'
  BY <1>1, <1>5 DEF FramesOK, OnePerSignal, AddingOK, ForwardSparesBackground
<1>7. NoStaleJob'
  BY <1>1, <1>3, <1>5 DEF IInv, NoStaleJob, InFlight
<1> QED BY <1>3, <1>4, <1>6, <1>7 DEF IInv

(* The rest of eval() and bgfg_command() moves only the main program.      *)
LEMMA MainStep == ASSUME IInv, Main PROVE IInv'
<1>1. TypeOK /\ JobListTypeOK /\ 0 \in Slots
  BY JobListAssumption DEF IInv, TypeOK, Slots
<1>2. ASSUME NEW test, NEW enter \in MainLabels \ {"add"},
             MainAt(test) /\ pc' \in {enter, "unblock", "read"},
             UNCHANGED <<jobvars, procvars, pending, stack, mask>>,
             cur' \in {cur, 0}, mode' \in {mode, "FG"}, slot' \in {slot, 0}
      PROVE  IInv'
  <2>1. TypeOK'
    BY <1>1, <1>2 DEF TypeOK, JobListTypeOK, jobvars, procvars, MainLabels
  <2> QED BY <1>2, <2>1, QuietStep DEF jobvars, procvars
<1>3. CASE EvalCheck
  BY <1>2, <1>3 DEF EvalCheck, WaitTest, mainvars, MainLabels
<1>4. CASE EvalEnter
  BY <1>2, <1>4 DEF EvalEnter, Suspend, mainvars, MainLabels
<1>5. CASE FgCheck
  BY <1>2, <1>5 DEF FgCheck, WaitTest, Return, mainvars, MainLabels
<1>6. CASE FgEnter
  BY <1>2, <1>6 DEF FgEnter, Suspend, mainvars, MainLabels
<1>7. CASE Unblock
  <2>1. TypeOK'
    BY <1>1, <1>7 DEF Unblock, Return, TypeOK, JobListTypeOK, jobvars, procvars, MainLabels
  <2> QED BY <1>7, <2>1, QuietStep DEF Unblock, Return, jobvars, procvars
<1>8. CASE ReadPid
  <2>1. TypeOK'
    BY <1>1, <1>8 DEF ReadPid, TypeOK, JobListTypeOK, jobvars, procvars, MainLabels
  <2> QED BY <1>8, <2>1, QuietStep DEF ReadPid, jobvars, procvars
<1>9. CASE Continue
  <2>1. /\ Kill(cur, "SIGCONT") /\ pc' = "assign"
        /\ UNCHANGED <<job_list, nextjid, mask, cur, mode, slot, stack>>
    BY <1>9 DEF Continue, jobvars, mainvars
  <2>2. /\ proc' \in [Pids -> ProcStates] /\ stopnew' \subseteq Pids /\ pending' \subseteq Signals
        /\ \A q \in Pids : proc'[q] = "none" <=> proc[q] = "none"
    BY <1>1, <2>1, KillEffect
  <2>3. TypeOK'
    BY <1>1, <2>1, <2>2 DEF TypeOK, JobListTypeOK, MainLabels
  <2> QED BY <2>1, <2>2, <2>3, QuietStep
<1> QED BY <1>3, <1>4, <1>5, <1>6, <1>7, <1>8, <1>9, AddJobStep, AssignStep DEF Main
(* A signal is delivered: never between fork and addjob, where eval()      *)
(* blocks all three.                                                       *)
LEMMA DeliverStep == ASSUME IInv, NEW s \in Signals, Deliver(s) PROVE IInv'
<1>1. /\ s \notin Blocked /\ pending' = pending \ {s} /\ stack' = <<Frame(s)>> \o stack
      /\ UNCHANGED <<job_list, nextjid, proc, stopnew, mask, cur, mode, slot, pc>>
  BY DEF Deliver, jobvars, procvars, mainvars
<1>2. stack \in Seq(Frames) /\ Frame(s) \in Frames
  BY DEF IInv, TypeOK, Frame, Frames
<1>3. Frame(s).sig = s /\ Frame(s).at = "start"
  BY DEF Frame
<1>4. \A g \in Active : g.sig # s
  BY <1>1 DEF Blocked
<1>5. /\ stack' \in Seq(Frames) /\ stack' # << >>
      /\ Active' = {Frame(s)} \cup Active
      /\ OnePerSignal(stack)'
  <2>1. OnePerSignal(stack)
    BY DEF IInv, FramesOK
  <2>2. /\ stack' \in Seq(Frames) /\ stack' # << >>
        /\ FramesOf(stack') = {Frame(s)} \cup FramesOf(stack)
        /\ OnePerSignal(stack')
    BY <1>1, <1>2, <1>3, <1>4, <2>1, PushFrame DEF Active
  <2>3. Active' = FramesOf(stack') /\ (OnePerSignal(stack)' <=> OnePerSignal(stack'))
    BY DEF Active, FramesOf, OnePerSignal
  <2> QED BY <2>2, <2>3 DEF Active
<1>6. TypeOK'
  BY <1>1, <1>5 DEF IInv, TypeOK, JobListTypeOK
<1>7. FramesOK'
  BY <1>1, <1>3, <1>5 DEF IInv, FramesOK
<1>8. pc # "add"
  BY <1>1 DEF IInv, AddingOK, Blocked, Suspended
<1>9. AddingOK'
  BY <1>1, <1>8 DEF AddingOK
<1>10. PidsUnique' /\ Listed' = Listed
  BY <1>1 DEF IInv, PidsUnique, Listed
<1>11. NoStaleJob'
  BY <1>1, <1>5, <1>10 DEF IInv, NoStaleJob, InFlight
<1>12. ForwardSparesBackground'
  BY <1>1, <1>3, <1>5 DEF IInv, ForwardSparesBackground
<1> QED BY <1>6, <1>7, <1>9, <1>10, <1>11, <1>12 DEF IInv

(* sigint_handler and sigtstp_handler                                      *)
LEMMA ForwardStep ==
  ASSUME IInv, NEW s \in {"SIGINT", "SIGTSTP"}, ForwardRead(s) \/ ForwardKill(s)
  PROVE  IInv'
<1> DEFINE h == Head(stack)
<1>1. /\ stack # << >> /\ h.sig = s /\ h.at # "act"
      /\ UNCHANGED <<job_list, nextjid, mask, cur, mode, slot>>
      /\ UNCHANGED <<proc, stopnew, pending>> \/ Kill(h.pid, s)
  BY DEF ForwardRead, ForwardKill, Running, jobvars, procvars, mainvars
<1>2. TypeOK /\ JobListTypeOK /\ OnePerSignal(stack) /\ PidsUnique /\ pc # "add"
  BY <1>1 DEF IInv, TypeOK, FramesOK, AddingOK
<1>3. /\ proc' \in [Pids -> ProcStates] /\ stopnew' \subseteq Pids /\ pending' \subseteq Signals
      /\ \A q \in Pids : proc'[q] = "none" <=> proc[q] = "none"
  <2>1. CASE UNCHANGED <<proc, stopnew, pending>>
    BY <1>2, <2>1 DEF TypeOK
  <2>2. CASE Kill(h.pid, s)
    BY <1>2, <2>2, KillEffect
  <2> QED BY <1>1, <2>1, <2>2
<1>4. Listed' = Listed /\ PidsUnique' /\ JobListTypeOK' /\ Listed \subseteq Pids
  BY <1>1, <1>2 DEF Listed, PidsUnique, JobListTypeOK
<1>5. CASE HandlerReturns
  <2>1. /\ stack' \in Seq(Frames) /\ Active = {h} \cup Active'
        /\ OnePerSignal(stack)' /\ pc' \in MainLabels /\ pc' # "add"
    BY <1>1, <1>2, <1>5, ReturnEffect
  <2>2. TypeOK'
    BY <1>1, <1>2, <1>3, <1>4, <2>1 DEF TypeOK
  <2>3. FramesOK'
    <3>1. \A f \in Active' : f \in Active
      BY <2>1
    <3> QED BY <1>3, <2>1, <3>1 DEF IInv, FramesOK
  <2>4. NoStaleJob'
    BY <1>1, <1>3, <1>4, <2>1 DEF IInv, NoStaleJob, InFlight
  <2>5. AddingOK' /\ ForwardSparesBackground'
    BY <1>1, <2>1 DEF IInv, AddingOK, ForwardSparesBackground
  <2> QED BY <1>4, <2>2, <2>3, <2>4, <2>5 DEF IInv
<1>6. CASE fgpid > 0 /\ GoesTo("kill", fgpid, "none") /\ UNCHANGED <<proc, stopnew, pending>>
  <2> DEFINE new == [sig |-> h.sig, at |-> "kill", pid |-> fgpid, how |-> "none"]
             rest == FramesOf(Tail(stack))
  <2>1. fgpid \in Pids /\ fgpid # 0
    BY <1>2, <1>6, LookupTypes
  <2>2. /\ stack' \in Seq(Frames) /\ OnePerSignal(stack)'
        /\ Active = {h} \cup rest /\ Active' = {new} \cup rest
    BY <1>1, <1>2, <1>6, <2>1, GoesToEffect
  <2>3. pc' = pc
    BY <1>6 DEF GoesTo
  <2>4. TypeOK'
    BY <1>1, <1>2, <1>3, <1>4, <2>2, <2>3 DEF TypeOK
  <2>5. FramesOK'
    BY <1>1, <1>6, <2>1, <2>2 DEF IInv, FramesOK
  <2>6. NoStaleJob'
    BY <1>1, <1>4, <1>6, <2>2 DEF IInv, NoStaleJob, InFlight
  <2>7. \A i \in Slots : job_list[i].pid = fgpid => job_list[i].state # "BG"
    BY <1>2, <2>1, LookupTypes DEF PidsUnique
  <2>8. AddingOK' /\ ForwardSparesBackground'
    BY <1>1, <1>2, <2>2, <2>3, <2>7 DEF IInv, AddingOK, ForwardSparesBackground
  <2> QED BY <1>4, <2>4, <2>5, <2>6, <2>8 DEF IInv
<1> QED BY <1>5, <1>6 DEF ForwardRead, ForwardKill, procvars

(* sigchld_handler: waitpid() frees the pid of a child that ended, and the *)
(* handler remembers it until it has deleted the entry.                    *)
LEMMA WaitPidStep == ASSUME IInv, WaitPid PROVE IInv'
<1> DEFINE h == Head(stack)
<1>1. /\ stack # << >> /\ h.sig = "SIGCHLD" /\ h.at = "start"
      /\ UNCHANGED <<job_list, nextjid, pending, mask, cur, mode, slot>>
  BY DEF WaitPid, Running, jobvars, mainvars
<1>2. TypeOK /\ JobListTypeOK /\ OnePerSignal(stack) /\ pc # "add"
  BY <1>1 DEF IInv, TypeOK, FramesOK, AddingOK
<1>3. Listed' = Listed /\ PidsUnique' /\ JobListTypeOK' /\ Listed \subseteq Pids
  BY <1>1, <1>2 DEF Listed, PidsUnique, JobListTypeOK, IInv
<1>4. ASSUME HandlerReturns, UNCHANGED procvars PROVE IInv'
  <2>1. /\ stack' \in Seq(Frames) /\ Active = {h} \cup Active'
        /\ OnePerSignal(stack)' /\ pc' \in MainLabels /\ pc' # "add"
    BY <1>1, <1>2, <1>4, ReturnEffect
  <2>2. TypeOK'
    BY <1>1, <1>2, <1>3, <1>4, <2>1 DEF TypeOK, procvars
  <2>3. FramesOK' /\ NoStaleJob'
    BY <1>1, <1>3, <1>4, <2>1 DEF IInv, FramesOK, NoStaleJob, InFlight, procvars
  <2>4. AddingOK' /\ ForwardSparesBackground'
    BY <1>1, <2>1 DEF IInv, AddingOK, ForwardSparesBackground
  <2> QED BY <1>3, <2>2, <2>3, <2>4 DEF IInv
<1>5. ASSUME NEW p \in Pids, Waitable(p),
             proc' = [proc EXCEPT ![p] = IF Zombie(p) THEN "none" ELSE @],
             stopnew' = stopnew \ {p}, GoesTo("act", p, proc[p])
      PROVE  IInv'
  <2> DEFINE new == [sig |-> h.sig, at |-> "act", pid |-> p, how |-> proc[p]]
             rest == FramesOf(Tail(stack))
  <2>1. proc[p] \in {"stopped", "exited", "killed"} /\ (proc[p] # "stopped" <=> Zombie(p))
    BY <1>5 DEF Waitable, Zombie
  <2>2. /\ stack' \in Seq(Frames) /\ OnePerSignal(stack)'
        /\ Active = {h} \cup rest /\ Active' = {new} \cup rest
        /\ \A g \in rest : g.sig # h.sig
    BY <1>1, <1>2, <1>5, <2>1, GoesToEffect
  <2>3. pc' = pc
    BY <1>5 DEF GoesTo
  <2>4. /\ proc' \in [Pids -> ProcStates]
        /\ \A q \in Pids : q # p => proc'[q] = proc[q]
        /\ proc[p] # "stopped" => proc'[p] = "none"
        /\ proc[p] = "stopped" => proc'[p] = proc[p]
    BY <1>2, <1>5, <2>1 DEF TypeOK, ProcStates
  <2>5. TypeOK'
    BY <1>1, <1>2, <1>3, <1>5, <2>2, <2>3, <2>4 DEF TypeOK
  <2>6. FramesOK'
    BY <1>1, <2>1, <2>2, <2>4 DEF IInv, FramesOK
  <2>7. NoStaleJob'
    <3>1. SUFFICES ASSUME NEW q \in Listed', proc'[q] = "none"
                   PROVE  InFlight(q, {"exited", "killed"})'
      BY DEF NoStaleJob
    <3>2. CASE q = p
      <4>1. proc[p] \in {"exited", "killed"}
        BY <2>1, <2>4, <3>1, <3>2
      <4>2. new \in Active'
        BY <2>2
      <4> QED BY <3>2, <4>1, <4>2 DEF InFlight
    <3>3. CASE q # p
      BY <1>1, <1>3, <2>2, <2>4, <3>1, <3>3 DEF IInv, NoStaleJob, InFlight
    <3> QED BY <3>2, <3>3
  <2>8. AddingOK' /\ ForwardSparesBackground'
    BY <1>1, <1>2, <2>2, <2>3 DEF IInv, AddingOK, ForwardSparesBackground
  <2> QED BY <1>3, <2>5, <2>6, <2>7, <2>8 DEF IInv
<1> QED BY <1>4, <1>5 DEF WaitPid
(* ... and then acts on what it was told.                                  *)
LEMMA ActStep == ASSUME IInv, Act PROVE IInv'
<1> DEFINE h == Head(stack)
           p == Head(stack).pid
           rest == FramesOf(Tail(stack))
<1>1. /\ stack # << >> /\ h.sig = "SIGCHLD" /\ h.at = "act" /\ pc # "dead"
      /\ UNCHANGED <<proc, stopnew, pending, mask, cur, mode, slot>>
  BY DEF Act, Running, Alive, procvars, mainvars
<1>2. TypeOK /\ JobListTypeOK /\ OnePerSignal(stack) /\ PidsUnique /\ pc # "add"
  BY <1>1 DEF IInv, TypeOK, FramesOK, AddingOK
<1>3. Active = {h} \cup rest /\ \A g \in rest : g.sig # "SIGCHLD"
  <2>1. stack \in Seq(Frames)
    BY <1>2 DEF TypeOK
  <2> QED BY <1>1, <1>2, <2>1, PopFrame DEF Active
<1>4. h \in Active /\ p \in Pids /\ \A g \in rest : g.at # "act"
  BY <1>1, <1>3 DEF IInv, FramesOK
<1>5. \A q \in Listed : proc[q] # "none" \/ (q = p /\ h.how \in {"exited", "killed"})
  BY <1>3, <1>4 DEF IInv, NoStaleJob, InFlight
\* What is left to show once the table and the stack are known to be right.
<1>6. ASSUME JobListTypeOK', PidsUnique',
             stack' \in Seq(Frames), OnePerSignal(stack)',
             \A f \in Active' : f \in rest \/ (f.at = "start" /\ f.sig = "SIGCHLD"),
             pc' \in MainLabels, pc' # "add",
             Listed' \subseteq Listed, p \in Listed' => h.how = "stopped",
             \A i \in Slots : job_list'[i].pid # 0 =>
                job_list'[i] = job_list[i] \/ job_list'[i].state = "ST"
      PROVE  IInv'
  <2>1. TypeOK'
    BY <1>1, <1>2, <1>6 DEF TypeOK
  <2>2. FramesOK'
    BY <1>1, <1>3, <1>6 DEF IInv, FramesOK
  <2>3. NoStaleJob'
    BY <1>1, <1>5, <1>6 DEF NoStaleJob
  <2>4. ForwardSparesBackground'
    <3>1. SUFFICES ASSUME NEW f \in Active', f.at = "kill", NEW i \in Slots,
                          job_list'[i].pid = f.pid
                   PROVE  job_list'[i].state # "BG"
      BY DEF ForwardSparesBackground
    <3>2. f \in Active
      BY <1>3, <1>6, <3>1
    <3>3. f.pid \in Pids /\ f.pid # 0
      BY <3>1, <3>2, JobListAssumption DEF IInv, FramesOK
    <3>4. job_list'[i] = job_list[i] \/ job_list'[i].state = "ST"
      BY <1>6, <3>1, <3>3
    <3> QED BY <3>1, <3>2, <3>4 DEF IInv, ForwardSparesBackground
  <2>5. AddingOK'
    BY <1>6 DEF AddingOK
  <2> QED BY <1>6, <2>1, <2>2, <2>3, <2>4, <2>5 DEF IInv
<1>7. CASE h.how = "stopped" /\ ActStopped(p)
  <2>1. CASE getjobpid(p) = {}
    <3>1. pc' = "dead" /\ UNCHANGED <<job_list, nextjid, stack>>
      BY <1>7, <2>1 DEF ActStopped, jobvars
    <3>2. TypeOK'
      BY <1>1, <1>2, <3>1 DEF TypeOK, JobListTypeOK, MainLabels
    <3> QED BY <1>1, <3>1, <3>2, QuietStep
  <2>2. CASE getjobpid(p) # {}
    <3>1. SetState(First(getjobpid(p)), "ST") /\ HandlerReturns
      BY <1>7, <2>2 DEF ActStopped
    <3>2. First(getjobpid(p)) \in Slots /\ "ST" \in States
      BY <1>2, <1>4, <2>2, LookupTypes DEF States
    <3>3. /\ JobListTypeOK' /\ PidsUnique' /\ Listed' = Listed
          /\ \A i \in Slots : job_list'[i] = job_list[i] \/ job_list'[i].state = "ST"
      BY <1>2, <3>1, <3>2, SetStateEffect
    <3>4. /\ stack' \in Seq(Frames) /\ OnePerSignal(stack)' /\ pc' \in MainLabels /\ pc' # "add"
          /\ Active' = rest
      BY <1>1, <1>2, <3>1, ReturnEffect DEF HandlerReturns, Active
    <3> QED BY <1>6, <1>7, <3>3, <3>4
  <2> QED BY <2>1, <2>2
<1>8. CASE deletejob(p)
  <2>1. /\ JobListTypeOK' /\ PidsUnique' /\ Listed' = Listed \ {p}
        /\ \A i \in Slots : job_list'[i].pid # 0 => job_list'[i] = job_list[i]
    BY <1>2, <1>4, <1>8, DeletejobEffect
  <2>2. CASE HandlerReturns
    <3>1. /\ stack' \in Seq(Frames) /\ OnePerSignal(stack)' /\ pc' \in MainLabels /\ pc' # "add"
          /\ Active' = rest
      BY <1>1, <1>2, <2>2, ReturnEffect DEF HandlerReturns, Active
    <3> QED BY <1>6, <2>1, <3>1
  <2>3. CASE GoesTo("start", 0, "none")
    <3>1. /\ stack' \in Seq(Frames) /\ OnePerSignal(stack)'
          /\ Active' = {[sig |-> h.sig, at |-> "start", pid |-> 0, how |-> "none"]} \cup rest
      BY <1>1, <1>2, <2>3, GoesToEffect
    <3>2. pc' = pc /\ pc \in MainLabels
      BY <1>2, <2>3 DEF GoesTo, TypeOK
    <3>3. \A f \in Active' : f \in rest \/ (f.at = "start" /\ f.sig = "SIGCHLD")
      BY <1>1, <3>1
    <3> QED BY <1>2, <1>6, <2>1, <3>1, <3>2, <3>3
  <2> QED BY <1>1, <1>2, <1>7, <2>2, <2>3 DEF Act, ActKilled, ActExited
<1> QED BY <1>7, <1>8 DEF Act, ActKilled, ActExited

LEMMA StepInv == IInv /\ [Next]_vars => IInv'
<1> SUFFICES ASSUME IInv, [Next]_vars PROVE IInv'
  OBVIOUS
<1>1. CASE UNCHANGED vars
  <2>1. UNCHANGED <<job_list, nextjid, proc, stopnew, pending, mask, pc, cur, mode, slot, stack>>
    BY <1>1 DEF vars
  <2>2. TypeOK'
    BY <2>1 DEF IInv, TypeOK, JobListTypeOK
  <2> QED BY <2>1, <2>2, QuietStep
<1>2. CASE Environment
  BY <1>2, EnvironmentStep, ForkStep, BuiltinStep DEF Environment, Command
<1>3. CASE Main
  BY <1>3, MainStep
<1>4. CASE Handler
  BY <1>4, ForwardStep, WaitPidStep, ActStep DEF Handler
<1>5. CASE \E s \in Signals : Deliver(s)
  BY <1>5, DeliverStep
<1> QED BY <1>1, <1>2, <1>3, <1>4, <1>5 DEF Next, Terminated

THEOREM ShellInvariant == Spec => []IInv
BY InitInv, StepInv, PTL DEF Spec

----------------------------------------------------------------------------
(* The results                                                             *)

(* Every variable of the shell keeps its type; in particular the stack of  *)
(* handlers holds well-formed frames (tsh.c:493-549).                      *)
THEOREM TypeCorrect == Spec => []TypeOK
<1>1. IInv => TypeOK
  BY DEF IInv
<1> QED BY <1>1, ShellInvariant, PTL

(* An entry of the job table never outlives its process, whatever handlers *)
(* interrupt the shell and each other (tsh.c:292-323, 500-519).            *)
THEOREM JobsAreAlive == Spec => []NoStaleJob
<1>1. IInv => NoStaleJob
  BY DEF IInv
<1> QED BY <1>1, ShellInvariant, PTL

(* A pid, reused or not, is in one slot at most (tsh.c:589-660).           *)
THEOREM OneSlotPerPid == Spec => []PidsUnique
<1>1. IInv => PidsUnique
  BY DEF IInv
<1> QED BY <1>1, ShellInvariant, PTL

(* ctrl-c and ctrl-z are never sent to a job the table shows in the        *)
(* background (tsh.c:529-549).                                             *)
THEOREM BackgroundIsSpared == Spec => []ForwardSparesBackground
<1>1. IInv => ForwardSparesBackground
  BY DEF IInv
<1> QED BY <1>1, ShellInvariant, PTL

----------------------------------------------------------------------------
(* With a slot for every pid, every child is in the table.                 *)

Room == IsFiniteSet(Pids) /\ Cardinality(Pids) <= MAXJOBS

(* A table whose slots hold different pids is not full while some pid is   *)
(* not listed: addjob() finds a slot (tsh.c:598-599).                      *)
LEMMA SlotIsFree ==
  ASSUME Room, JobListTypeOK, PidsUnique, NEW p \in Pids, p \notin Listed
  PROVE  FreeSlots # {}
<1> SUFFICES ASSUME FreeSlots = {} PROVE FALSE
  OBVIOUS
<1> DEFINE Others == Pids \ {p}
           f == [i \in Slots |-> job_list[i].pid]
<1>1. \A i \in Slots : job_list[i].pid \in Others
  BY DEF FreeSlots, JobListTypeOK, Listed
<1>2. f \in Injection(Slots, Others)
  BY <1>1 DEF Injection, IsInjective, PidsUnique, FreeSlots
<1>3. IsFiniteSet(Others) /\ Cardinality(Others) = Cardinality(Pids) - 1
  BY FS_RemoveElement DEF Room
<1>4. Cardinality(Slots) <= Cardinality(Others)
  BY <1>2, <1>3, FS_Injection
<1>5. Cardinality(Slots) = MAXJOBS
  BY FS_Interval, JobListAssumption DEF Slots
<1>6. Cardinality(Pids) \in Nat
  BY FS_CardinalityType DEF Room
<1> QED BY <1>3, <1>4, <1>5, <1>6, JobListAssumption DEF Room

LEMMA TrackedStep ==
  ASSUME Room, IInv, EveryChildTracked, [Next]_vars
  PROVE  EveryChildTracked'
<1> DEFINE p == Head(stack).pid
<1>1. TypeOK /\ JobListTypeOK /\ PidsUnique
  BY DEF IInv, TypeOK
\* Whoever is listed stays listed, nobody is born, and nobody is being added.
<1>2. ASSUME UNCHANGED job_list,
             \A q \in Pids : proc[q] = "none" => proc'[q] = "none",
             pc # "add" \/ UNCHANGED <<pc, cur>>
      PROVE  EveryChildTracked'
  <2>1. Listed' = Listed
    BY <1>2 DEF Listed
  <2> QED BY <1>2, <2>1 DEF EveryChildTracked
<1>3. CASE UNCHANGED vars
  BY <1>2, <1>3 DEF vars
<1>4. CASE \E q \in Pids : Exec(q) \/ ExitChild(q) \/ KillChild(q) \/ StopChild(q) \/ ContChild(q)
  <2>1. PICK q \in Pids, st \in ProcStates \ {"none"} :
           Become(q, st) /\ proc[q] # "none" /\ UNCHANGED <<job_list, pc, cur>>
    BY <1>4 DEF Exec, ExitChild, KillChild, StopChild, ContChild, ChildStep, ProcStates
  <2> QED BY <1>1, <1>2, <2>1, BecomeEffect
<1>5. CASE \E s \in Keys : Key(s)
  BY <1>2, <1>5 DEF Key
<1>6. ASSUME NEW q \in Pids \cup {-1}, NEW m \in {"FG", "BG"}, Fork(q, m) PROVE EveryChildTracked'
  <2>1. pc = "read" /\ pc' = "add" /\ cur' = q /\ Listed' = Listed
    BY <1>6 DEF Fork, MainAt, Listed
  <2>2. CASE q \in Pids /\ Become(q, "starting")
    <3>1. \A r \in Pids : r # q => proc'[r] = proc[r]
      BY <1>1, <2>2 DEF Become, TypeOK
    <3> QED BY <2>1, <3>1 DEF EveryChildTracked
  <2>3. CASE UNCHANGED procvars
    BY <2>1, <2>3 DEF EveryChildTracked, procvars
  <2> QED BY <1>6, <2>2, <2>3 DEF Fork
<1>7. CASE (\E m \in Modes : \/ \E jid \in 1 .. JidCap : BgfgJid(m, jid)
                             \/ \E q \in Pids : BgfgPid(m, q)) \/ Quit
  BY <1>2, <1>7 DEF BgfgJid, BgfgPid, Quit, Exits, MainAt, jobvars, procvars
<1>8. CASE AddJob
  <2>1. /\ addjob(cur, mode) /\ pc = "add" /\ UNCHANGED <<proc, cur>>
        /\ nextjid <= JidCap /\ cur \in Pids \cup {0, -1} /\ mode \in {"FG", "BG"}
        /\ cur \in Pids => cur \notin Listed
    BY <1>8 DEF AddJob, MainAt, IInv, TypeOK, AddingOK
  <2>2. Listed \subseteq Listed' /\ (cur \in Pids => cur \in Listed')
    <3>1. CASE cur = 0
      BY <2>1, <3>1, JobListAssumption DEF addjob, jobvars, Listed
    <3>2. CASE cur # 0
      BY <1>1, <2>1, <3>2, SlotIsFree, AddjobEffect
    <3> QED BY <3>1, <3>2
  <2> QED BY <2>1, <2>2 DEF EveryChildTracked
<1>9. CASE Assign
  <2>1. SetState(slot, mode) /\ slot \in Slots /\ mode \in States /\ pc # "add" /\ UNCHANGED proc
    BY <1>1, <1>9 DEF Assign, MainAt, TypeOK, States, procvars
  <2>2. Listed' = Listed
    BY <1>1, <2>1, SetStateEffect
  <2> QED BY <2>1, <2>2 DEF EveryChildTracked
<1>10. CASE Continue
  BY <1>1, <1>2, <1>10, KillEffect DEF Continue, MainAt, jobvars
<1>11. CASE EvalCheck \/ EvalEnter \/ Unblock \/ ReadPid \/ FgCheck \/ FgEnter
  BY <1>2, <1>11 DEF EvalCheck, EvalEnter, Unblock, ReadPid, FgCheck, FgEnter, WaitTest, Suspend,
                     MainAt, jobvars, procvars
<1>12. ASSUME Handler PROVE pc # "add"
  BY <1>12 DEF Handler, ForwardRead, ForwardKill, WaitPid, Act, Running, IInv, AddingOK
<1>13. ASSUME NEW s \in {"SIGINT", "SIGTSTP"}, ForwardRead(s) \/ ForwardKill(s)
       PROVE  EveryChildTracked'
  <2>1. pc # "add"
    BY <1>12, <1>13 DEF Handler
  <2>2. CASE ForwardRead(s)
    BY <1>2, <2>1, <2>2 DEF ForwardRead, jobvars, procvars
  <2>3. CASE ForwardKill(s)
    BY <1>1, <1>2, <2>1, <2>3, KillEffect DEF ForwardKill, jobvars
  <2> QED BY <1>13, <2>2, <2>3
<1>14. CASE WaitPid
  <2>1. pc # "add" /\ UNCHANGED job_list
    BY <1>12, <1>14 DEF Handler, WaitPid, jobvars
  <2>2. \A q \in Pids : proc[q] = "none" => proc'[q] = "none"
    BY <1>1, <1>14 DEF WaitPid, procvars, TypeOK, Waitable, Zombie
  <2> QED BY <1>2, <2>1, <2>2
<1>15. CASE Act
  <2>1. /\ pc # "add" /\ UNCHANGED proc /\ p \in Pids
        /\ Head(stack).how # "stopped" => proc[p] = "none"
    <3>1. Head(stack) \in Active
      <4>1. stack \in Seq(Frames) /\ stack # << >>
        BY <1>1, <1>15 DEF Act, Running, TypeOK
      <4> QED BY <4>1, PopFrame DEF Active
    <3> QED BY <1>12, <1>15, <3>1 DEF Handler, Act, Running, procvars, IInv, FramesOK
  <2>2. CASE Head(stack).how = "stopped" /\ ActStopped(p)
    <3>1. CASE getjobpid(p) = {}
      BY <1>2, <2>1, <2>2, <3>1 DEF ActStopped, jobvars
    <3>2. CASE getjobpid(p) # {}
      <4>1. SetState(First(getjobpid(p)), "ST") /\ First(getjobpid(p)) \in Slots /\ "ST" \in States
        BY <1>1, <2>1, <2>2, <3>2, LookupTypes DEF ActStopped, States
      <4>2. Listed' = Listed
        BY <1>1, <4>1, SetStateEffect
      <4> QED BY <2>1, <4>2 DEF EveryChildTracked
    <3> QED BY <3>1, <3>2
  <2>3. CASE Head(stack).how # "stopped" /\ deletejob(p)
    <3>1. Listed' = Listed \ {p}
      BY <1>1, <2>1, <2>3, DeletejobEffect
    <3> QED BY <2>1, <2>3, <3>1 DEF EveryChildTracked
  <2> QED BY <1>15, <2>2, <2>3 DEF Act, ActKilled, ActExited
<1>16. ASSUME NEW s \in Signals, Deliver(s) PROVE EveryChildTracked'
  BY <1>2, <1>16 DEF Deliver, jobvars, procvars, mainvars
<1> QED
  BY <1>3, <1>4, <1>5, <1>6, <1>7, <1>8, <1>9, <1>10, <1>11, <1>13, <1>14, <1>15, <1>16
  DEF Next, Environment, Command, Main, Handler, Terminated

(* When the table has a slot for every pid, every child a handler can hear *)
(* of is listed: "bjob->state = ST" (tsh.c:505-506) has a job to mark.     *)
THEOREM ChildrenAreListed == ASSUME Room PROVE Spec => []EveryChildTracked
<1>1. Init => EveryChildTracked
  BY DEF Init, EveryChildTracked
<1>2. IInv /\ EveryChildTracked /\ [Next]_vars => EveryChildTracked'
  BY TrackedStep
<1> QED BY <1>1, <1>2, ShellInvariant, PTL DEF Spec
==============================================================================
