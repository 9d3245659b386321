-------------------------- MODULE JobControlProofs --------------------------
(***************************************************************************)
(* What the shell of Tsh.tla promises its user, for every number of slots, *)
(* set of pids and choice of keys and programs: it implements JobControl,  *)
(* eval() waits for its foreground job, and "jobs" prints the truth.       *)
(* It rests on the invariant of TshProofs.                                 *)
(***************************************************************************)
EXTENDS TshProofs

----------------------------------------------------------------------------
(* The running frame and what a SIGCHLD handler remembers                  *)

(* A handler acts on the child that waitpid() reported, and no other       *)
(* handler remembers a report (tsh.c:500-519).                             *)
LEMMA ActingFrame ==
  ASSUME IInv, Act
  PROVE  /\ Head(stack) \in Active
         /\ Head(stack).pid \in Pids
         /\ Head(stack).how # "stopped" => proc[Head(stack).pid] = "none"
         /\ \A f \in Active : f.at = "act" => f = Head(stack)
         /\ \A f \in Active' : f.at # "act" \/ (f = Head(stack) /\ stack' = stack)
         /\ UNCHANGED <<proc, stopnew, cur, mode, mask, slot>>
         /\ pc # "add" /\ pc' # "add"
<1> DEFINE h == Head(stack)
           rest == FramesOf(Tail(stack))
<1>1. /\ stack # << >> /\ h.sig = "SIGCHLD" /\ h.at = "act"
      /\ UNCHANGED <<proc, stopnew, cur, mode, mask, slot>>
  BY DEF Act, Running, procvars, mainvars
<1>2. TypeOK /\ OnePerSignal(stack) /\ stack \in Seq(Frames) /\ pc # "add"
  BY <1>1 DEF IInv, TypeOK, FramesOK, AddingOK
<1>3. Active = {h} \cup rest /\ \A g \in rest : g.sig # "SIGCHLD"
  BY <1>1, <1>2, PopFrame DEF Active
<1>4. /\ \A g \in rest : g.at # "act"
      /\ h.pid \in Pids /\ (h.how # "stopped" => proc[h.pid] = "none")
  BY <1>1, <1>3 DEF IInv, FramesOK
<1>5. CASE HandlerReturns
  <2>1. Active' = rest /\ pc' # "add"
    BY <1>1, <1>2, <1>5, ReturnEffect DEF HandlerReturns, Active
  <2> QED BY <1>1, <1>2, <1>3, <1>4, <2>1
<1>6. CASE GoesTo("start", 0, "none")
  <2>1. /\ Active' = {[sig |-> h.sig, at |-> "start", pid |-> 0, how |-> "none"]} \cup rest
        /\ pc' # "add"
    BY <1>1, <1>2, <1>6, GoesToEffect DEF GoesTo
  <2> QED BY <1>1, <1>2, <1>3, <1>4, <2>1
<1>7. CASE stack' = stack /\ pc' = "dead"
  <2>1. Active' = Active
    BY <1>7 DEF Active, FramesOf
  <2> QED BY <1>1, <1>2, <1>3, <1>4, <1>7, <2>1
<1>8. HandlerReturns \/ GoesTo("start", 0, "none") \/ (stack' = stack /\ pc' = "dead")
  BY DEF Act, ActStopped, ActKilled, ActExited
<1> QED BY <1>5, <1>6, <1>7, <1>8

(* waitpid() without a child to report changes nothing but the stack; with *)
(* one it leaves a report and reaps the child if it has ended.             *)
LEMMA WaitingFrame ==
  ASSUME IInv, WaitPid
  PROVE  /\ UNCHANGED <<job_list, nextjid, cur, mode, mask, slot>>
         /\ pc # "add" /\ pc' # "add"
         /\ \A f \in Active : f.at # "act"
         /\ \/ /\ UNCHANGED <<proc, stopnew>>
               /\ \A f \in Active' : f \in Active
            \/ \E p \in Pids, f \in Active' :
                 /\ Waitable(p)
                 /\ f.at = "act" /\ f.pid = p /\ f.how = proc[p]
                 /\ \A g \in Active' : g = f \/ g \in Active
                 /\ proc' = [proc EXCEPT ![p] = IF Zombie(p) THEN "none" ELSE @]
                 /\ stopnew' = stopnew \ {p}
                 /\ pc' = pc
<1> DEFINE h == Head(stack)
           rest == FramesOf(Tail(stack))
<1>1. /\ stack # << >> /\ h.sig = "SIGCHLD" /\ h.at = "start"
      /\ UNCHANGED <<job_list, nextjid, cur, mode, mask, slot>>
  BY DEF WaitPid, Running, jobvars, mainvars
<1>2. TypeOK /\ OnePerSignal(stack) /\ stack \in Seq(Frames) /\ pc # "add"
  BY <1>1 DEF IInv, TypeOK, FramesOK, AddingOK
<1>3. Active = {h} \cup rest /\ \A g \in rest : g.sig # "SIGCHLD"
  BY <1>1, <1>2, PopFrame DEF Active
<1>4. \A f \in Active : f.at # "act"
  BY <1>1, <1>3 DEF IInv, FramesOK
<1>5. CASE HandlerReturns /\ UNCHANGED procvars
  <2>1. Active = {h} \cup Active' /\ pc' # "add"
    BY <1>1, <1>2, <1>5, ReturnEffect
  <2> QED BY <1>1, <1>2, <1>4, <1>5, <2>1 DEF procvars
<1>6. ASSUME NEW p \in Pids, Waitable(p),
             proc' = [proc EXCEPT ![p] = IF Zombie(p) THEN "none" ELSE @],
             stopnew' = stopnew \ {p}, GoesTo("act", p, proc[p])
      PROVE  \E f \in Active' :
                 /\ f.at = "act" /\ f.pid = p /\ f.how = proc[p]
                 /\ \A g \in Active' : g = f \/ g \in Active
                 /\ pc' = pc
  <2> DEFINE new == [sig |-> h.sig, at |-> "act", pid |-> p, how |-> proc[p]]
  <2>1. proc[p] \in {"stopped", "exited", "killed"}
    BY <1>6 DEF Waitable, Zombie
  <2>2. Active' = {new} \cup rest /\ pc' = pc
    BY <1>1, <1>2, <1>6, <2>1, GoesToEffect DEF GoesTo
  <2>3. new \in Active' /\ new.at = "act" /\ new.pid = p /\ new.how = proc[p]
    BY <2>2
  <2> HIDE DEF new
  <2> QED BY <1>3, <2>2, <2>3
<1> QED BY <1>1, <1>2, <1>4, <1>5, <1>6 DEF WaitPid

(* Delivering or forwarding a signal leaves the reports as they are.       *)
LEMMA OtherFrames ==
  ASSUME IInv,
         \/ \E s \in Signals : Deliver(s)
         \/ \E s \in {"SIGINT", "SIGTSTP"} : ForwardRead(s) \/ ForwardKill(s)
  PROVE  /\ UNCHANGED <<job_list, nextjid, cur, mode, mask, slot>>
         /\ pc # "add" /\ pc' # "add"
         /\ \A f \in Active' : f.at = "act" => f \in Active
         /\ \A f \in Active : f.at = "act" => f \in Active'
<1>1. ASSUME NEW s \in Signals, Deliver(s)
      PROVE  /\ pc # "add" /\ pc' # "add" /\ Active' = {Frame(s)} \cup Active
  <2>1. s \notin Blocked /\ stack' = <<Frame(s)>> \o stack /\ pc' = pc
    BY <1>1 DEF Deliver
  <2>2. Frame(s) \in Frames /\ stack \in Seq(Frames)
    BY DEF Frame, Frames, IInv, TypeOK
  <2>3. FramesOf(stack') = {Frame(s)} \cup FramesOf(stack)
    BY <2>1, <2>2, PushFrame
  <2>4. pc # "add"
    BY <2>1 DEF IInv, AddingOK, Blocked, Suspended
  <2> QED BY <2>1, <2>3, <2>4 DEF Active, FramesOf
<1>2. ASSUME NEW s \in {"SIGINT", "SIGTSTP"}, ForwardRead(s) \/ ForwardKill(s)
      PROVE  /\ pc # "add" /\ pc' # "add"
             /\ \A f \in Active' : f.at = "act" => f \in Active
             /\ \A f \in Active : f.at = "act" => f \in Active'
  <2> DEFINE h == Head(stack)
             rest == FramesOf(Tail(stack))
  <2>1. stack # << >> /\ h.at # "act"
    BY <1>2 DEF ForwardRead, ForwardKill, Running
  <2>2. TypeOK /\ JobListTypeOK /\ OnePerSignal(stack) /\ pc # "add"
    BY <2>1 DEF IInv, FramesOK, AddingOK, TypeOK
  <2>3. CASE HandlerReturns
    BY <2>1, <2>2, <2>3, ReturnEffect
  <2>4. CASE fgpid > 0 /\ GoesTo("kill", fgpid, "none")
    <3>1. fgpid \in Pids \cup {0}
      BY <2>2, LookupTypes
    <3>2. /\ Active = {h} \cup rest
          /\ Active' = {[sig |-> h.sig, at |-> "kill", pid |-> fgpid, how |-> "none"]} \cup rest
          /\ pc' = pc
      BY <2>1, <2>2, <2>4, <3>1, GoesToEffect DEF GoesTo
    <3> QED BY <2>1, <2>2, <3>2
  <2> QED BY <1>2, <2>3, <2>4 DEF ForwardRead, ForwardKill
<1>3. UNCHANGED <<job_list, nextjid, cur, mode, mask, slot>>
  BY DEF Deliver, ForwardRead, ForwardKill, jobvars, mainvars
<1>4. \A s \in Signals : Frame(s).at = "start"
  BY DEF Frame
<1> QED BY <1>1, <1>2, <1>3, <1>4

----------------------------------------------------------------------------
(* The shell implements JobControl                                         *)

\* the refinement mapping of Tsh!Abstract
Live == {p \in Pids : \/ proc[p] # "none" /\ ~ (pc = "add" /\ cur = p)
                      \/ InFlight(p, {"exited", "killed"})}
Tab  == [p \in Pids |-> IF getjobpid(p) = {} THEN "none"
                        ELSE job_list[First(getjobpid(p))].state]

\* A child whose stop is being reported has not been reaped.
StopsAlive == \A f \in Active : f.at = "act" /\ f.how = "stopped" => proc[f.pid] # "none"

\* Everything the mapping of a state depends on.
Shown == /\ JobListTypeOK /\ PidsUnique
Pictured == \A p \in Pids :
              /\ \A i \in Slots : job_list[i].pid = p => Tab[p] = job_list[i].state
              /\ p \notin Listed => Tab[p] = "none"

(* With one slot per pid, what "jobs" shows of a pid is what its slot says *)
(* (getjobpid, tsh.c:649-660).                                             *)
LEMMA FirstMatch ==
  ASSUME NEW list, NEW p \in Pids, NEW i \in Slots, list[i].pid = p,
         \A j, k \in Slots : list[j].pid # 0 /\ list[j].pid = list[k].pid => j = k
  PROVE  First({k \in Slots : p >= 1 /\ list[k].pid = p}) = i
<1> DEFINE S == {k \in Slots : p >= 1 /\ list[k].pid = p}
<1>1. p >= 1 /\ p # 0 /\ S \subseteq Nat
  BY JobListAssumption DEF Slots
<1>2. i \in S
  BY <1>1
<1>3. First(S) \in S
  BY <1>1, <1>2, FirstIsLeast
<1> HIDE DEF S
<1>4. First(S) \in Slots /\ list[First(S)].pid = p
  BY <1>3 DEF S
<1>5. First(S) = i
  BY <1>1, <1>4
<1> QED BY <1>5 DEF S

LEMMA TabShows == Shown => Pictured
<1> SUFFICES ASSUME Shown, NEW p \in Pids
             PROVE  /\ \A i \in Slots : job_list[i].pid = p => Tab[p] = job_list[i].state
                    /\ p \notin Listed => Tab[p] = "none"
  BY DEF Pictured
<1>1. ASSUME NEW i \in Slots, job_list[i].pid = p PROVE Tab[p] = job_list[i].state
  <2>1. First(getjobpid(p)) = i
    BY <1>1, FirstMatch DEF getjobpid, Shown, PidsUnique
  <2>2. i \in getjobpid(p)
    BY <1>1, JobListAssumption DEF getjobpid
  <2> QED BY <2>1, <2>2 DEF Tab
<1>2. ASSUME p \notin Listed PROVE Tab[p] = "none"
  <2>1. getjobpid(p) = {}
    BY <1>2, JobListAssumption DEF getjobpid, Listed
  <2> QED BY <2>1 DEF Tab
<1> QED BY <1>1, <1>2

LEMMA TabShowsPrime == Shown' => Pictured'
<1> SUFFICES ASSUME Shown', NEW p \in Pids
             PROVE  /\ \A i \in Slots : job_list'[i].pid = p => Tab'[p] = job_list'[i].state
                    /\ p \notin Listed' => Tab'[p] = "none"
  BY DEF Pictured
<1>1. ASSUME NEW i \in Slots, job_list'[i].pid = p PROVE Tab'[p] = job_list'[i].state
  <2>1. First(getjobpid(p)') = i
    BY <1>1, FirstMatch DEF getjobpid, Shown, PidsUnique
  <2>2. i \in getjobpid(p)'
    BY <1>1, JobListAssumption DEF getjobpid
  <2> QED BY <2>1, <2>2 DEF Tab, First
<1>2. ASSUME p \notin Listed' PROVE Tab'[p] = "none"
  <2>1. getjobpid(p)' = {}
    BY <1>2, JobListAssumption DEF getjobpid, Listed
  <2> QED BY <2>1 DEF Tab
<1> QED BY <1>1, <1>2

\* A step of the abstract specification, in the terms of the mapping.
AbstractStep ==
  \/ UNCHANGED <<Live, Tab>>
  \/ \E p \in Pids :
       \/ \E s \in {"FG", "BG"} :
            \/ p \notin Live /\ Live' = Live \cup {p} /\ Tab' = [Tab EXCEPT ![p] = s]
            \/ p \in Live /\ Live' = Live /\ Tab' = [Tab EXCEPT ![p] = s]
       \/ p \in Live /\ Live' = Live /\ Tab' = [Tab EXCEPT ![p] = "ST"]
       \/ p \in Live /\ Live' = Live \ {p} /\ Tab' = [Tab EXCEPT ![p] = "none"]

LEMMA AbstractStepIsStep == AbstractStep => [Abstract!Next]_<<Live, Tab>>
BY DEF AbstractStep, Abstract!Next, Abstract!Launch, Abstract!Resume, Abstract!Stop,
       Abstract!End, Live, Tab

(* Handlers and children that start, stop, continue or end, and every step *)
(* of the main program but addjob() and the assignment of a state, are not *)
(* seen by who reads "jobs".                                               *)
LEMMA StutterStep ==
  ASSUME UNCHANGED job_list,
         \A p \in Pids : (proc[p] # "none" /\ ~ (pc = "add" /\ cur = p))
                           <=> (proc'[p] # "none" /\ ~ (pc' = "add" /\ cur' = p)),
         \A p \in Pids : InFlight(p, {"exited", "killed"})'
                           <=> InFlight(p, {"exited", "killed"})
  PROVE  AbstractStep
<1>1. Tab' = Tab
  BY DEF Tab, getjobpid, First
<1>2. Live' = Live
  BY DEF Live
<1> QED BY <1>1, <1>2 DEF AbstractStep

(* When only the slot of p is filled, written or cleared, only what "jobs" *)
(* says of p changes.                                                      *)
LEMMA OneRowChanges ==
  ASSUME Shown, Shown', NEW p \in Pids, NEW s,
         \A k \in Slots : job_list'[k].pid \notin {0, p} =>
            /\ job_list[k].pid = job_list'[k].pid
            /\ job_list[k].state = job_list'[k].state,
         Listed \ {p} \subseteq Listed',
         \/ s = "none" /\ p \notin Listed'
         \/ \E i \in Slots : job_list'[i].pid = p /\ job_list'[i].state = s
  PROVE  Tab' = [Tab EXCEPT ![p] = s]
<1>1. Pictured /\ Pictured'
  BY TabShows, TabShowsPrime
<1>2. Tab'[p] = s
  BY <1>1 DEF Pictured
<1>3. ASSUME NEW q \in Pids, q # p PROVE Tab'[q] = Tab[q]
  <2>1. CASE q \in Listed'
    <3>1. PICK k \in Slots : job_list'[k].pid = q
      BY <2>1 DEF Listed
    <3>2. job_list[k].pid = q /\ job_list[k].state = job_list'[k].state
      BY <1>3, <3>1, JobListAssumption
    <3> QED BY <1>1, <3>1, <3>2 DEF Pictured
  <2>2. CASE q \notin Listed'
    <3>1. q \notin Listed
      BY <1>3, <2>2
    <3> QED BY <1>1, <2>2, <3>1 DEF Pictured
  <2> QED BY <2>1, <2>2
<1>4. Tab \in [Pids -> {Tab[q] : q \in Pids}] /\ Tab' = [q \in Pids |-> Tab'[q]]
  BY DEF Tab
<1> HIDE DEF Tab
<1> QED BY <1>2, <1>3, <1>4

(* addjob() launches the child, once its parent is back from it.           *)
LEMMA LaunchStep == ASSUME Room, IInv, IInv', AddJob PROVE AbstractStep
<1>1. /\ pc = "add" /\ pc' # "add" /\ stack = << >> /\ stack' = << >> /\ addjob(cur, mode)
      /\ UNCHANGED <<proc, cur, mode>> /\ nextjid <= JidCap
      /\ cur \in Pids \cup {0, -1} /\ mode \in {"FG", "BG"}
      /\ cur \in Pids => cur \notin Listed /\ proc[cur] # "none"
  BY DEF AddJob, MainAt, IInv, TypeOK, AddingOK
<1>2. \A q : ~ InFlight(q, {"exited", "killed"}) /\ ~ InFlight(q, {"exited", "killed"})'
  BY <1>1 DEF InFlight, Active, FramesOf
<1>3. CASE cur \notin Pids
  <2>1. UNCHANGED job_list
    BY <1>1, <1>3 DEF addjob, jobvars
  <2> QED BY <1>1, <1>2, <1>3, <2>1, StutterStep
<1>4. CASE cur \in Pids
  <2>1. JobListTypeOK /\ PidsUnique /\ Shown /\ Shown'
    BY DEF IInv, TypeOK, Shown
  <2>2. FreeSlots # {}
    BY <1>1, <1>4, <2>1, SlotIsFree
  <2>3. cur # 0 /\ ~ (cur < 1)
    BY <1>4, JobListAssumption
  <2>4. First(FreeSlots) \in Slots
    BY <2>2, FirstIsLeast DEF FreeSlots, Slots
  <2>5. \E i \in Slots : /\ job_list'[i].pid = cur /\ job_list'[i].state = mode
                         /\ \A k \in Slots : k # i => job_list'[k] = job_list[k]
    <3>1. job_list' = [job_list EXCEPT ![First(FreeSlots)] =
                         [pid |-> cur, jid |-> nextjid, state |-> mode]]
      BY <1>1, <2>2, <2>3 DEF addjob
    <3> HIDE DEF First
    <3> QED BY <2>1, <2>4, <3>1 DEF JobListTypeOK
  <2>6. Listed \subseteq Listed'
    BY <1>1, <1>4, <2>1, AddjobEffect
  <2>7. Tab' = [Tab EXCEPT ![cur] = mode]
    BY <1>4, <2>1, <2>5, <2>6, OneRowChanges
  <2>8. cur \notin Live /\ Live' = Live \cup {cur}
    BY <1>1, <1>2, <1>4 DEF Live
  <2> QED BY <1>1, <1>4, <2>7, <2>8 DEF AbstractStep
<1> QED BY <1>3, <1>4

(* "bjob->state = ..." resumes the job whose slot it still is, and nobody  *)
(* when a handler has cleared the slot (tsh.c:217-229).                    *)
LEMMA ResumeStep == ASSUME IInv, IInv', Assign PROVE AbstractStep
<1>1. /\ pc # "add" /\ pc' # "add" /\ SetState(slot, mode) /\ UNCHANGED <<proc, stack>>
      /\ mode \in {"FG", "BG"} /\ mode \in States /\ slot \in Slots
  BY DEF Assign, MainAt, Return, mainvars, procvars, IInv, TypeOK, States
<1>2. JobListTypeOK /\ Shown /\ Shown'
  BY DEF IInv, TypeOK, Shown
<1>3. /\ Listed' = Listed
      /\ \A k \in Slots : job_list'[k].pid = job_list[k].pid
      /\ \A k \in Slots : k # slot => job_list'[k] = job_list[k]
      /\ job_list'[slot].state = mode
  BY <1>1, <1>2, SetStateEffect
<1>4. Live' = Live
  BY <1>1 DEF Live, InFlight, Active, FramesOf
<1> DEFINE p == job_list[slot].pid
<1>5. CASE p = 0
  <2>1. \A k \in Slots : job_list'[k].pid # 0 => job_list'[k] = job_list[k]
    BY <1>3, <1>5
  <2>2. Pictured /\ Pictured'
    BY <1>2, TabShows, TabShowsPrime
  <2>3. ASSUME NEW q \in Pids PROVE Tab'[q] = Tab[q]
    <3>1. q # 0
      BY JobListAssumption
    <3> QED BY <1>3, <2>1, <2>2, <3>1 DEF Pictured, Listed
  <2>4. Tab = [q \in Pids |-> Tab[q]] /\ Tab' = [q \in Pids |-> Tab'[q]]
    BY DEF Tab
  <2>5. Tab' = Tab
    <3> HIDE DEF Tab
    <3> QED BY <2>3, <2>4
  <2> QED BY <1>4, <2>5 DEF AbstractStep
<1>6. CASE p # 0
  <2>1. p \in Pids /\ p \in Listed
    BY <1>1, <1>2, <1>6 DEF JobListTypeOK, Listed
  <2>2. p \in Live
    BY <1>1, <2>1 DEF Live, IInv, NoStaleJob
  <2>3. Tab' = [Tab EXCEPT ![p] = mode]
    <3>1. \A k \in Slots : job_list'[k].pid \notin {0, p} => k # slot
      BY <1>3
    <3> QED BY <1>1, <1>2, <1>3, <2>1, <3>1, OneRowChanges
  <2> QED BY <1>1, <1>4, <2>1, <2>2, <2>3 DEF AbstractStep
<1> QED BY <1>5, <1>6

(* A report the SIGCHLD handler acts on stops or ends a live child.        *)
LEMMA ReportStep == ASSUME IInv, IInv', StopsAlive, Act PROVE AbstractStep
<1> DEFINE h == Head(stack)
           p == Head(stack).pid
<1>1. /\ h \in Active /\ p \in Pids /\ h.at = "act"
      /\ h.how # "stopped" => proc[p] = "none"
      /\ \A f \in Active : f.at = "act" => f = h
      /\ \A f \in Active' : f.at # "act" \/ (f = h /\ stack' = stack)
      /\ UNCHANGED <<proc, cur>> /\ pc # "add" /\ pc' # "add"
  BY ActingFrame DEF Act, Running
<1>2. JobListTypeOK /\ PidsUnique /\ Shown /\ Shown' /\ \A f \in Active : f.at = "act" =>
         f.how \in {"stopped", "exited", "killed"}
  BY DEF IInv, TypeOK, Shown, FramesOK
<1>3. CASE h.how = "stopped" /\ ActStopped(p)
  <2>1. proc[p] # "none"
    BY <1>1, <1>3 DEF StopsAlive
  <2>2. \A q : ~ InFlight(q, {"exited", "killed"})
    BY <1>1, <1>3 DEF InFlight
  <2>3. \A q : ~ InFlight(q, {"exited", "killed"})'
    BY <1>1, <1>3 DEF InFlight
  <2>4. CASE getjobpid(p) = {}
    <3>1. UNCHANGED job_list
      BY <1>3, <2>4 DEF ActStopped, jobvars
    <3> QED BY <1>1, <2>2, <2>3, <3>1, StutterStep
  <2>5. CASE getjobpid(p) # {}
    <3> DEFINE i == First(getjobpid(p))
    <3>1. i \in Slots /\ job_list[i].pid = p /\ SetState(i, "ST") /\ "ST" \in States
      BY <1>1, <1>2, <1>3, <2>5, LookupTypes DEF ActStopped, States
    <3> HIDE DEF i
    <3>2. /\ Listed' = Listed
          /\ \A k \in Slots : job_list'[k].pid = job_list[k].pid
          /\ \A k \in Slots : k # i => job_list'[k] = job_list[k]
          /\ job_list'[i].state = "ST"
      BY <1>2, <3>1, SetStateEffect
    <3>3. Tab' = [Tab EXCEPT ![p] = "ST"]
      <4>1. job_list'[i].pid = p
        BY <3>1, <3>2
      <4>2. \A k \in Slots : job_list'[k].pid \notin {0, p} => job_list'[k] = job_list[k]
        BY <3>2, <4>1
      <4> QED BY <1>1, <1>2, <3>1, <3>2, <4>1, <4>2, OneRowChanges
    <3>4. p \in Live /\ Live' = Live
      BY <1>1, <2>1, <2>2, <2>3 DEF Live
    <3> QED BY <1>1, <3>3, <3>4 DEF AbstractStep
  <2> QED BY <2>4, <2>5
<1>4. CASE h.how \in {"exited", "killed"} /\ deletejob(p)
       /\ (HandlerReturns \/ GoesTo("start", 0, "none"))
  <2>1. /\ Listed' = Listed \ {p}
        /\ \A k \in Slots : job_list'[k].pid # 0 => job_list'[k] = job_list[k]
    BY <1>1, <1>2, <1>4, DeletejobEffect
  <2>2. Tab' = [Tab EXCEPT ![p] = "none"]
    <3>1. p \notin Listed'
      BY <2>1
    <3> QED BY <1>1, <1>2, <2>1, <3>1, OneRowChanges
  <2>3. stack' # stack
    <3>1. stack \in Seq(Frames) /\ stack # << >>
      BY DEF IInv, TypeOK, Act, Running
    <3>2. stack' = Tail(stack) \/ h.at # "act" \/ Head(stack').at = "start"
      BY <1>1, <1>4, <3>1 DEF HandlerReturns, GoesTo
    <3>3. Tail(stack) # stack
      BY <3>1, HeadTailProperties
    <3> QED BY <1>1, <3>2, <3>3
  <2>4. \A q : InFlight(q, {"exited", "killed"}) <=> q = p
    BY <1>1, <1>4 DEF InFlight
  <2>5. \A q : ~ InFlight(q, {"exited", "killed"})'
    BY <1>1, <2>3 DEF InFlight
  <2>6. p \in Live /\ Live' = Live \ {p}
    <3>1. proc[p] = "none"
      BY <1>1, <1>4
    <3> QED BY <1>1, <2>4, <2>5, <3>1 DEF Live
  <2> QED BY <1>1, <2>2, <2>6 DEF AbstractStep
<1> QED BY <1>3, <1>4 DEF Act, ActKilled, ActExited

----------------------------------------------------------------------------
(* The other steps, as far as the table, the children and the reports go   *)

\* a child that a continue could set running again
Halted(p) == proc[p] \notin {"starting", "running"}

Quiet ==
  /\ UNCHANGED <<job_list, nextjid>>
  /\ \A p \in Pids : proc'[p] = "none" <=> proc[p] = "none"
  /\ \A p \in Pids : proc'[p] = "stopped" =>
        p \in stopnew' \/ (proc[p] = "stopped" /\ p \notin stopnew)
  /\ \A f : f.at = "act" => (f \in Active <=> f \in Active')
  /\ pc = "add" \/ pc' = "add" => UNCHANGED <<pc, cur>>

\* The shell or another process sends SIGCONT.
Continued == \/ \E p \in Pids : ContChild(p)
             \/ Continue

LEMMA BecomeQuiet ==
  ASSUME TypeOK, NEW p \in Pids, NEW st \in ProcStates \ {"none"}, proc[p] # "none", Become(p, st)
  PROVE  /\ \A q \in Pids : proc'[q] = "none" <=> proc[q] = "none"
         /\ \A q \in Pids : proc'[q] = "stopped" =>
               q \in stopnew' \/ (proc[q] = "stopped" /\ q \notin stopnew)
         /\ st \notin {"starting", "running"} =>
               \A q \in Pids : Halted(q) => Halted(q)'
         /\ proc[p] \in {"starting", "running"} =>
               \A q \in Pids : Halted(q) => Halted(q)'
<1>1. proc'[p] = st /\ \A q \in Pids : q # p => proc'[q] = proc[q]
  BY DEF TypeOK, Become
<1>2. /\ st = "stopped" => p \in stopnew'
      /\ \A q \in Pids : q # p => (q \in stopnew <=> q \in stopnew')
  BY DEF Become
<1> QED BY <1>1, <1>2 DEF Halted

LEMMA KillQuiet ==
  ASSUME TypeOK, NEW p, NEW sig \in {"SIGINT", "SIGTSTP", "SIGCONT"}, Kill(p, sig)
  PROVE  /\ \A q \in Pids : proc'[q] = "none" <=> proc[q] = "none"
         /\ \A q \in Pids : proc'[q] = "stopped" =>
               q \in stopnew' \/ (proc[q] = "stopped" /\ q \notin stopnew)
         /\ sig # "SIGCONT" => \A q \in Pids : Halted(q) => Halted(q)'
<1>1. CASE p \in Pids /\ SignalEffect(p, sig) # proc[p]
  <2>1. /\ SignalEffect(p, sig) \in ProcStates \ {"none"} /\ proc[p] # "none"
        /\ sig # "SIGCONT" => SignalEffect(p, sig) \notin {"starting", "running"}
    BY <1>1 DEF SignalEffect, ProcStates
  <2>2. Become(p, SignalEffect(p, sig))
    BY <1>1 DEF Kill
  <2> QED BY <1>1, <2>1, <2>2, BecomeQuiet
<1>2. CASE ~ (p \in Pids /\ SignalEffect(p, sig) # proc[p])
  BY <1>2 DEF Kill, Halted
<1> QED BY <1>1, <1>2

(* Apart from fork, addjob, the assignment of a state, waitpid() and what  *)
(* the handler does with its report, no step touches the table, creates or *)
(* reaps a child, hides a stop or changes a report; and only a continue    *)
(* sets a stopped child running.                                           *)
LEMMA QuietSteps ==
  ASSUME IInv, [Next]_vars
  PROVE  \/ \E p \in Pids \cup {-1}, m \in {"FG", "BG"} : Fork(p, m)
         \/ AddJob \/ Assign \/ WaitPid \/ Act
         \/ Quiet /\ (Continued \/ \A p \in Pids : Halted(p) => Halted(p)')
<1>1. TypeOK
  BY DEF IInv
\* Steps that leave the stack of handlers alone.
<1>2. ASSUME UNCHANGED <<job_list, nextjid, proc, stopnew, stack>>, pc # "add", pc' # "add"
      PROVE  Quiet /\ \A p \in Pids : Halted(p) => Halted(p)'
  BY <1>2 DEF Quiet, Halted, Active, FramesOf
<1>3. CASE UNCHANGED vars
  BY <1>3 DEF vars, Quiet, Halted, Active, FramesOf
<1>4. CASE \E p \in Pids : Exec(p) \/ ExitChild(p) \/ KillChild(p) \/ StopChild(p) \/ ContChild(p)
  <2>1. PICK p \in Pids, st \in ProcStates \ {"none"} :
           /\ Become(p, st) /\ proc[p] # "none" /\ UNCHANGED <<job_list, nextjid, pc, cur, stack>>
           /\ \/ st \notin {"starting", "running"}
              \/ proc[p] \in {"starting", "running"}
              \/ ContChild(p)
    BY <1>4 DEF Exec, ExitChild, KillChild, StopChild, ContChild, ChildStep, ProcStates
  <2>2. Active' = Active
    BY <2>1 DEF Active, FramesOf
  <2> QED BY <1>1, <2>1, <2>2, BecomeQuiet DEF Quiet, Continued
<1>5. CASE \E s \in Keys : Key(s)
  BY <1>5 DEF Key, Quiet, Halted, Active, FramesOf
<1>6. CASE (\E m \in Modes : \/ \E jid \in 1 .. JidCap : BgfgJid(m, jid)
                             \/ \E q \in Pids : BgfgPid(m, q)) \/ Quit
  BY <1>2, <1>6 DEF BgfgJid, BgfgPid, Quit, Exits, MainAt, jobvars, procvars
<1>7. CASE EvalCheck \/ EvalEnter \/ Unblock \/ ReadPid \/ FgCheck \/ FgEnter
  BY <1>2, <1>7 DEF EvalCheck, EvalEnter, Unblock, ReadPid, FgCheck, FgEnter, WaitTest, Suspend,
                    MainAt, jobvars, procvars, Return
<1>8. CASE Continue
  <2>1. /\ UNCHANGED <<job_list, nextjid, stack>> /\ pc # "add" /\ pc' # "add"
        /\ Kill(cur, "SIGCONT")
    BY <1>8 DEF Continue, MainAt, jobvars
  <2>2. Active' = Active
    BY <2>1 DEF Active, FramesOf
  <2> QED BY <1>1, <1>8, <2>1, <2>2, KillQuiet DEF Quiet, Continued
<1>9. ASSUME NEW s \in {"SIGINT", "SIGTSTP"}, ForwardRead(s) \/ ForwardKill(s)
      PROVE  Quiet /\ \A p \in Pids : Halted(p) => Halted(p)'
  <2>1. UNCHANGED <<proc, stopnew>> \/ Kill(Head(stack).pid, s)
    BY <1>9 DEF ForwardRead, ForwardKill, procvars
  <2>2. CASE UNCHANGED <<proc, stopnew>>
    BY <1>9, <2>2, OtherFrames DEF Quiet, Halted
  <2>3. CASE Kill(Head(stack).pid, s)
    BY <1>1, <1>9, <2>3, OtherFrames, KillQuiet DEF Quiet
  <2> QED BY <2>1, <2>2, <2>3
<1>10. ASSUME NEW s \in Signals, Deliver(s)
       PROVE  Quiet /\ \A p \in Pids : Halted(p) => Halted(p)'
  <2>1. UNCHANGED <<proc, stopnew>>
    BY <1>10 DEF Deliver, procvars
  <2> QED BY <1>10, <2>1, OtherFrames DEF Quiet, Halted
<1> QED
  BY <1>3, <1>4, <1>5, <1>6, <1>7, <1>8, <1>9, <1>10
  DEF Next, Environment, Command, Main, Handler, Terminated

(* A stop that is being reported is that of a child nobody has reaped: the *)
(* one SIGCHLD handler there can be is busy with the report.               *)
LEMMA StopsAliveStep == ASSUME IInv, IInv', StopsAlive, [Next]_vars PROVE StopsAlive'
<1>1. TypeOK
  BY DEF IInv
<1>2. CASE \E p \in Pids \cup {-1}, m \in {"FG", "BG"} : Fork(p, m)
  BY <1>2 DEF Fork, MainAt, StopsAlive, Active, FramesOf
<1>3. CASE AddJob \/ Assign
  BY <1>3 DEF AddJob, Assign, MainAt, StopsAlive, Active, FramesOf
<1>4. CASE Act
  BY <1>4, ActingFrame DEF StopsAlive
<1>5. CASE WaitPid
  <2>1. CASE \A f \in Active' : f \in Active
    BY <1>5, <2>1, WaitingFrame DEF StopsAlive
  <2>2. CASE \E p \in Pids, f \in Active' :
               /\ f.at = "act" /\ f.pid = p /\ f.how = proc[p]
               /\ \A g \in Active' : g = f \/ g \in Active
               /\ proc' = [proc EXCEPT ![p] = IF Zombie(p) THEN "none" ELSE @]
    <3>1. PICK p \in Pids, f \in Active' :
               /\ f.at = "act" /\ f.pid = p /\ f.how = proc[p]
               /\ \A g \in Active' : g = f \/ g \in Active
               /\ proc' = [proc EXCEPT ![p] = IF Zombie(p) THEN "none" ELSE @]
      BY <2>2
    <3>2. \A g \in Active' : g.at = "act" => g = f
      BY <1>5, <3>1, WaitingFrame
    <3>3. f.how = "stopped" => proc'[p] = "stopped"
      BY <1>1, <3>1 DEF TypeOK, Zombie
    <3> QED BY <3>1, <3>2, <3>3 DEF StopsAlive
  <2> QED BY <1>5, <2>1, <2>2, WaitingFrame
<1>6. CASE Quiet
  <2>1. \A f \in Active' : f.at = "act" => f \in Active /\ f.pid \in Pids
    BY <1>6 DEF Quiet, IInv, FramesOK
  <2> QED BY <1>6, <2>1 DEF Quiet, StopsAlive
<1> QED BY <1>2, <1>3, <1>4, <1>5, <1>6, QuietSteps

LEMMA RefinementStep ==
  ASSUME Room, IInv, IInv', StopsAlive, [Next]_vars
  PROVE  AbstractStep
<1>1. TypeOK
  BY DEF IInv
<1>2. ASSUME NEW p \in Pids \cup {-1}, NEW m \in {"FG", "BG"}, Fork(p, m)
      PROVE  AbstractStep
  <2>1. /\ pc # "add" /\ pc' = "add" /\ cur' = p /\ UNCHANGED <<job_list, stack>>
        /\ stack = << >>
    BY <1>2 DEF Fork, MainAt
  <2>2. \A q : InFlight(q, {"exited", "killed"})' <=> InFlight(q, {"exited", "killed"})
    BY <2>1 DEF InFlight, Active, FramesOf
  <2>3. \A q \in Pids : proc[q] # "none" <=> proc'[q] # "none" /\ q # p
    <3>1. CASE p \in Pids /\ proc[p] = "none" /\ Become(p, "starting")
      BY <1>1, <3>1 DEF TypeOK, Become
    <3>2. CASE p = -1 /\ UNCHANGED procvars
      BY <3>2, JobListAssumption DEF procvars
    <3> QED BY <1>2, <3>1, <3>2 DEF Fork
  <2> QED BY <2>1, <2>2, <2>3, StutterStep
<1>3. CASE WaitPid
  <2>1. /\ UNCHANGED job_list /\ pc # "add" /\ pc' # "add"
        /\ \A f \in Active : f.at # "act"
    BY <1>3, WaitingFrame
  <2>2. CASE UNCHANGED proc /\ \A f \in Active' : f \in Active
    <3>1. \A q : ~ InFlight(q, {"exited", "killed"})' /\ ~ InFlight(q, {"exited", "killed"})
      BY <2>1, <2>2 DEF InFlight
    <3> QED BY <2>1, <2>2, <3>1, StutterStep
  <2>3. CASE \E p \in Pids, f \in Active' :
               /\ Waitable(p)
               /\ f.at = "act" /\ f.pid = p /\ f.how = proc[p]
               /\ \A g \in Active' : g = f \/ g \in Active
               /\ proc' = [proc EXCEPT ![p] = IF Zombie(p) THEN "none" ELSE @]
    <3>1. PICK p \in Pids, f \in Active' :
               /\ Waitable(p)
               /\ f.at = "act" /\ f.pid = p /\ f.how = proc[p]
               /\ \A g \in Active' : g = f \/ g \in Active
               /\ proc' = [proc EXCEPT ![p] = IF Zombie(p) THEN "none" ELSE @]
      BY <2>3
    <3>2. \A q \in Pids : InFlight(q, {"exited", "killed"})' <=> q = p /\ Zombie(p)
      BY <2>1, <3>1 DEF InFlight, Zombie
    <3>3. \A q \in Pids : ~ InFlight(q, {"exited", "killed"})
      BY <2>1 DEF InFlight
    <3>4. /\ \A q \in Pids : q # p => proc'[q] = proc[q]
          /\ proc'[p] = IF Zombie(p) THEN "none" ELSE proc[p]
          /\ proc[p] # "none"
      BY <1>1, <3>1 DEF TypeOK, Waitable, Zombie
    <3>5. Live' = Live
      BY <2>1, <3>2, <3>3, <3>4 DEF Live
    <3>6. Tab' = Tab
      BY <2>1 DEF Tab, getjobpid, First
    <3> QED BY <3>5, <3>6 DEF AbstractStep
  <2> QED BY <1>3, <2>2, <2>3, WaitingFrame
<1>4. CASE Quiet
  <2>1. \A q \in Pids : InFlight(q, {"exited", "killed"})' <=> InFlight(q, {"exited", "killed"})
    BY <1>4 DEF Quiet, InFlight
  <2>2. \A q \in Pids : (proc[q] # "none" /\ ~ (pc = "add" /\ cur = q))
                          <=> (proc'[q] # "none" /\ ~ (pc' = "add" /\ cur' = q))
    BY <1>4 DEF Quiet
  <2> QED BY <1>4, <2>1, <2>2, StutterStep DEF Quiet
<1> QED BY <1>2, <1>3, <1>4, LaunchStep, ResumeStep, ReportStep, QuietSteps

LEMMA InitAbstract == Init => Abstract!Init /\ StopsAlive
<1> SUFFICES ASSUME Init PROVE Abstract!Init /\ StopsAlive
  OBVIOUS
<1>1. Active = {} /\ \A p \in Pids : proc[p] = "none"
  BY DEF Init, Active, FramesOf
<1>2. Live = {}
  BY <1>1 DEF Live, InFlight
<1>3. \A p \in Pids : getjobpid(p) = {}
  BY JobListAssumption DEF Init, JobListInit, initjobs, clearjob, getjobpid
<1>4. Tab = [p \in Pids |-> "none"]
  BY <1>3 DEF Tab
<1> QED BY <1>1, <1>2, <1>4 DEF Abstract!Init, Live, Tab, StopsAlive

(* The list "jobs" prints changes only by a launch, a stop, a resume or an *)
(* end of one live child at a time, whatever handlers interrupt the shell: *)
(* Tsh implements JobControl, when the table has a slot for every pid      *)
(* (tsh.c:245-331, 486-549).                                               *)
THEOREM ShellImplementsJobControl == ASSUME Room PROVE Spec => ImplementsJobControl
<1>1. Init => Abstract!Init /\ StopsAlive
  BY InitAbstract
<1>2. IInv /\ IInv' /\ StopsAlive /\ [Next]_vars => StopsAlive'
  BY StopsAliveStep
<1>3. IInv /\ IInv' /\ StopsAlive /\ [Next]_vars => [Abstract!Next]_<<Live, Tab>>
  BY RefinementStep, AbstractStepIsStep
<1>4. Spec => []IInv
  BY ShellInvariant
<1> QED BY <1>1, <1>2, <1>3, <1>4, PTL DEF Spec, ImplementsJobControl, Abstract!Spec, Live, Tab

----------------------------------------------------------------------------
(* eval() waits for its foreground job                                     *)

\* Without fg, a job in state FG is the one eval() is waiting for; "dead"
\* when the shell ends meanwhile.
FgIsAwaited ==
  /\ \A i \in Slots : job_list[i].state = "FG" =>
        /\ job_list[i].pid = cur /\ cur # 0
        /\ pc \in {"evalcheck", "evalenter", "evalsuspend", "dead"}
  /\ pc \in {"readpid", "cont", "assign"} => mode \in Modes

\* The main program's moves between its labels.
Moves ==
  \/ /\ UNCHANGED <<cur, mode>>
     /\ pc' \in {pc, "dead"} \/ <<pc, pc'>> \in {<<"evalenter", "evalsuspend">>,
          <<"evalsuspend", "evalcheck">>, <<"fgenter", "fgsuspend">>, <<"fgsuspend", "fgcheck">>}
  \/ pc = "read" /\ pc' \in {"readpid", "cont"} /\ mode' \in Modes
  \/ pc = "readpid" /\ pc' = "cont" /\ mode' = mode
  \/ pc = "cont" /\ pc' = "assign" /\ UNCHANGED <<cur, mode>>
  \/ pc = "fgcheck" /\ pc' \in {"fgenter", "read"}
  \/ pc = "unblock" /\ pc' = "read"

LEMMA MainMoves ==
  ASSUME [Next]_vars
  PROVE  \/ \E p \in Pids \cup {-1}, m \in {"FG", "BG"} : Fork(p, m)
         \/ AddJob \/ EvalCheck \/ Assign
         \/ Moves
<1>1. HandlerReturns => pc' = pc \/ <<pc, pc'>> \in {<<"evalsuspend", "evalcheck">>,
                                                      <<"fgsuspend", "fgcheck">>}
  BY DEF HandlerReturns, Wake
<1>2. ASSUME NEW m \in Modes, NEW jid, BgfgJid(m, jid) \/ BgfgPid(m, jid) PROVE Moves
  BY <1>2 DEF BgfgJid, BgfgPid, Exits, MainAt, mainvars, Moves
<1>3. ASSUME Handler PROVE Moves
  <2>1. UNCHANGED <<cur, mode>>
    BY <1>3 DEF Handler, ForwardRead, ForwardKill, WaitPid, Act, mainvars
  <2>2. pc' \in {pc, "dead"} \/ HandlerReturns
    BY <1>3 DEF Handler, ForwardRead, ForwardKill, WaitPid, Act, ActStopped, ActKilled, ActExited,
                GoesTo
  <2> QED BY <1>1, <2>1, <2>2 DEF Moves
<1>4. CASE EvalEnter \/ Unblock \/ ReadPid \/ Continue \/ FgCheck \/ FgEnter
  BY <1>4 DEF EvalEnter, Unblock, ReadPid, Continue, FgCheck, FgEnter, WaitTest, Suspend, MainAt,
              Return, mainvars, Moves
<1>5. CASE \/ UNCHANGED vars \/ Quit \/ \E s \in Keys : Key(s)
           \/ \E s \in Signals : Deliver(s)
           \/ \E p \in Pids : Exec(p) \/ ExitChild(p) \/ KillChild(p) \/ StopChild(p) \/ ContChild(p)
  BY <1>5 DEF vars, Quit, Exits, MainAt, Key, Deliver, Exec, ExitChild, KillChild, StopChild,
              ContChild, ChildStep, mainvars, Moves
<1> QED BY <1>2, <1>3, <1>4, <1>5 DEF Next, Environment, Command, Main, Terminated

(* fgpid() finds the job eval() waits for (tsh.c:638-647).                 *)
LEMMA FgpidIsCur ==
  ASSUME FgIsAwaited, NEW i \in Slots, job_list[i].state = "FG"
  PROVE  fgpid = cur
<1> DEFINE fg == {k \in Slots : job_list[k].state = "FG"}
<1>1. First(fg) \in fg
  BY FirstIsLeast DEF Slots
<1> QED BY <1>1 DEF fgpid, FgIsAwaited

\* What the handler makes of the table: a slot is cleared, marked ST or left.
LEMMA ActedTable ==
  ASSUME IInv, Act
  PROVE  \A i \in Slots : \/ job_list'[i] = job_list[i]
                          \/ /\ job_list[i].pid = Head(stack).pid
                             /\ \/ job_list'[i] = clearjob
                                \/ /\ Head(stack).how = "stopped" /\ job_list'[i].state = "ST"
                                   /\ job_list'[i].pid = job_list[i].pid
<1> DEFINE p == Head(stack).pid
<1>1. JobListTypeOK /\ p \in Pids
  BY ActingFrame DEF IInv, TypeOK
<1>2. getjobpid(p) # {} => First(getjobpid(p)) \in Slots /\ job_list[First(getjobpid(p))].pid = p
  BY <1>1, LookupTypes
<1> HIDE DEF First
<1>3. CASE getjobpid(p) = {}
  BY <1>3 DEF Act, ActStopped, ActKilled, ActExited, deletejob, jobvars
<1>4. CASE getjobpid(p) # {} /\ Head(stack).how = "stopped" /\ ActStopped(p)
  <2>1. SetState(First(getjobpid(p)), "ST") /\ "ST" \in States
    BY <1>4 DEF ActStopped, States
  <2> QED BY <1>1, <1>2, <1>4, <2>1, SetStateEffect
<1>5. CASE getjobpid(p) # {} /\ deletejob(p)
  <2>1. job_list' = [job_list EXCEPT ![First(getjobpid(p))] = clearjob]
    BY <1>5 DEF deletejob
  <2> QED BY <1>1, <1>2, <1>5, <2>1 DEF JobListTypeOK
<1> QED BY <1>3, <1>4, <1>5 DEF Act, ActKilled, ActExited

(* The table does not change unless by addjob, an assignment or a report.  *)
LEMMA TableStep ==
  ASSUME IInv, [Next]_vars
  PROVE  AddJob \/ Assign \/ Act \/ UNCHANGED <<job_list, nextjid>>
<1>1. (\E p \in Pids \cup {-1}, m \in {"FG", "BG"} : Fork(p, m)) => UNCHANGED <<job_list, nextjid>>
  BY DEF Fork
<1>2. WaitPid => UNCHANGED <<job_list, nextjid>>
  BY WaitingFrame
<1> QED BY <1>1, <1>2, QuietSteps DEF Quiet

LEMMA FgIsAwaitedStep ==
  ASSUME "fg" \notin Builtins, IInv, FgIsAwaited, [Next]_vars
  PROVE  FgIsAwaited'
<1> DEFINE Waiting == {"evalcheck", "evalenter", "evalsuspend", "dead"}
<1>1. JobListTypeOK /\ mode \in {"FG", "BG"} /\ slot \in Slots /\ Modes \subseteq {"BG"}
  BY DEF IInv, TypeOK, Modes
<1>2. CASE \E p \in Pids \cup {-1}, m \in {"FG", "BG"} : Fork(p, m)
  BY <1>2 DEF Fork, MainAt, FgIsAwaited
<1>3. CASE AddJob
  <2>1. /\ pc = "add" /\ addjob(cur, mode) /\ UNCHANGED <<cur, mode>> /\ nextjid <= JidCap
        /\ cur \in Pids \cup {0, -1}
        /\ pc' = IF mode = "FG" THEN "evalcheck" ELSE "unblock"
    BY <1>3 DEF AddJob, MainAt, IInv, TypeOK, AddingOK
  <2>2. \A i \in Slots : job_list[i].state # "FG"
    BY <2>1 DEF FgIsAwaited
  <2>3. CASE UNCHANGED job_list
    BY <2>1, <2>2, <2>3 DEF FgIsAwaited
  <2>4. CASE cur \in Pids /\ \E i \in Slots : job_list' = [job_list EXCEPT ![i] =
                                     [pid |-> cur, jid |-> nextjid, state |-> mode]]
    <3>1. \A i \in Slots : job_list'[i].state = "FG" => job_list'[i].pid = cur /\ mode = "FG"
      BY <1>1, <2>2, <2>4 DEF JobListTypeOK
    <3> QED BY <2>1, <2>4, <3>1, JobListAssumption DEF FgIsAwaited
  <2>5. cur = 0 => UNCHANGED job_list
    BY <2>1 DEF addjob, jobvars
  <2> QED BY <1>1, <2>1, <2>3, <2>4, <2>5, AddjobEffect DEF jobvars
<1>4. CASE Assign
  <2>1. /\ pc = "assign" /\ mode = "BG" /\ SetState(slot, mode) /\ pc' = "read" /\ mode \in States
    BY <1>1, <1>4 DEF Assign, MainAt, Return, FgIsAwaited, States
  <2>2. \A i \in Slots : job_list'[i].state # "FG"
    BY <1>1, <2>1, SetStateEffect DEF FgIsAwaited
  <2> QED BY <2>1, <2>2 DEF FgIsAwaited
<1>5. CASE EvalCheck
  <2>1. /\ pc = "evalcheck" /\ UNCHANGED <<job_list, cur, mode>>
        /\ pc' = IF cur = fgpid THEN "evalenter" ELSE "unblock"
    BY <1>5 DEF EvalCheck, WaitTest, MainAt, mainvars, jobvars
  <2> QED BY <2>1, FgpidIsCur DEF FgIsAwaited
<1>6. CASE Moves /\ (Act \/ UNCHANGED job_list)
  <2>1. \A i \in Slots : job_list'[i].state = "FG" => job_list'[i] = job_list[i]
    BY <1>6, ActedTable DEF clearjob
  <2>2. pc \in Waiting => pc' \in Waiting /\ cur' = cur
    BY <1>6 DEF Moves
  <2>3. pc' \in {"readpid", "cont", "assign"} => mode' \in Modes
    BY <1>6 DEF Moves, FgIsAwaited
  <2> QED BY <2>1, <2>2, <2>3 DEF FgIsAwaited
<1> QED BY <1>2, <1>3, <1>4, <1>5, <1>6, MainMoves, TableStep

LEMMA InitForeground == Init => FgIsAwaited
BY DEF Init, JobListInit, initjobs, clearjob, FgIsAwaited

(* "At most 1 job can be in the FG state." (tsh.c:45), as long as the user *)
(* does not type fg, in whose window a handler may clear the slot that is  *)
(* then marked FG.                                                         *)
THEOREM OneForegroundJob == ASSUME "fg" \notin Builtins PROVE Spec => []AtMostOneFG
<1>1. IInv /\ FgIsAwaited /\ [Next]_vars => FgIsAwaited'
  BY FgIsAwaitedStep
<1>2. IInv /\ FgIsAwaited => AtMostOneFG
  BY DEF IInv, PidsUnique, FgIsAwaited, AtMostOneFG
<1> QED BY <1>1, <1>2, InitForeground, ShellInvariant, PTL DEF Spec

\* eval() gives up waiting only for a job that does not run any more, ...
AwaitedUntilHalted ==
  /\ pc \in {"evalcheck", "evalenter", "evalsuspend", "unblock"} /\ mode = "FG" /\ cur \in Pids
       => \/ \E i \in Slots : job_list[i].pid = cur /\ job_list[i].state = "FG"
          \/ Halted(cur)
\* ... because a report of a stop or an end stays true until it is acted on.
  /\ \A f \in Active : f.at = "act" => Halted(f.pid)

LEMMA AwaitedStep ==
  ASSUME Room, "fg" \notin Builtins, "cont" \notin Fates,
         IInv, FgIsAwaited, AwaitedUntilHalted, [Next]_vars
  PROVE  AwaitedUntilHalted'
<1> DEFINE Waits == {"evalcheck", "evalenter", "evalsuspend", "unblock"}
           FgIn(list, p) == \E i \in Slots : list[i].pid = p /\ list[i].state = "FG"
<1>1. TypeOK /\ JobListTypeOK /\ PidsUnique
  BY DEF IInv, TypeOK
<1>2. CASE \E p \in Pids \cup {-1}, m \in {"FG", "BG"} : Fork(p, m)
  BY <1>2 DEF Fork, MainAt, AwaitedUntilHalted, Active, FramesOf
<1>3. CASE AddJob
  <2>1. /\ addjob(cur, mode) /\ UNCHANGED <<cur, mode>> /\ nextjid <= JidCap
        /\ cur \in Pids \cup {0, -1} /\ mode \in {"FG", "BG"}
        /\ cur \in Pids => cur \notin Listed
    BY <1>3 DEF AddJob, MainAt, IInv, TypeOK, AddingOK
  <2>2. Active' = {}
    BY <1>3 DEF AddJob, MainAt, Active, FramesOf
  <2>3. ASSUME cur \in Pids PROVE FgIn(job_list', cur) \/ mode # "FG"
    <3>1. FreeSlots # {} /\ ~ (cur < 1)
      BY <1>1, <2>1, <2>3, SlotIsFree, JobListAssumption
    <3>2. First(FreeSlots) \in Slots
      BY <3>1, FirstIsLeast DEF FreeSlots, Slots
    <3>3. job_list' = [job_list EXCEPT ![First(FreeSlots)] =
                         [pid |-> cur, jid |-> nextjid, state |-> mode]]
      BY <2>1, <3>1 DEF addjob
    <3> HIDE DEF First
    <3>4. /\ job_list'[First(FreeSlots)].pid = cur
          /\ job_list'[First(FreeSlots)].state = mode
      BY <1>1, <3>2, <3>3 DEF JobListTypeOK
    <3> QED BY <3>2, <3>4
  <2> QED BY <2>1, <2>2, <2>3 DEF AwaitedUntilHalted
<1>4. CASE Assign
  BY <1>4 DEF Assign, MainAt, Return, mainvars, AwaitedUntilHalted, Active, FramesOf
<1>5. CASE Continue
  BY <1>5 DEF Continue, MainAt, mainvars, AwaitedUntilHalted, Active, FramesOf
<1>6. \A p : ~ ContChild(p)
  BY DEF ContChild
\* What is left: no step sets a stopped child running.
<1>7. ASSUME \A p \in Pids : Halted(p) => Halted(p)',
             \A f \in Active' : f.at = "act" => f.pid \in Pids /\ (f \in Active \/ Halted(f.pid)'),
             \A p \in Pids : FgIn(job_list, p) => FgIn(job_list', p) \/ Halted(p)',
             EvalCheck \/ Moves
      PROVE  AwaitedUntilHalted'
  <2>1. \A f \in Active' : f.at = "act" => Halted(f.pid)'
    BY <1>7 DEF AwaitedUntilHalted
  <2>2. ASSUME pc' \in Waits, mode' = "FG", cur' \in Pids PROVE FgIn(job_list', cur') \/ proc'[cur'] \notin {"starting", "running"}
    <3>1. CASE pc \in Waits /\ UNCHANGED <<cur, mode>> /\ pc' # "unblock"
      BY <1>7, <2>2, <3>1 DEF AwaitedUntilHalted, Halted
    <3>2. CASE pc = "unblock" /\ UNCHANGED <<cur, mode>>
      BY <1>7, <2>2, <3>2 DEF AwaitedUntilHalted, Halted
    <3>3. CASE EvalCheck /\ pc' = "unblock"
      <4>1. cur # fgpid /\ UNCHANGED <<cur, mode>> /\ pc = "evalcheck"
        BY <3>3 DEF EvalCheck, WaitTest, MainAt, mainvars
      <4>2. ~ FgIn(job_list, cur)
        BY <4>1, FgpidIsCur
      <4> QED BY <1>7, <2>2, <4>1, <4>2 DEF AwaitedUntilHalted, Halted
    <3>4. EvalCheck => pc = "evalcheck" /\ UNCHANGED <<cur, mode>>
      BY DEF EvalCheck, WaitTest, MainAt, mainvars
    <3> QED BY <1>7, <2>2, <3>1, <3>2, <3>3, <3>4 DEF Moves
  <2> QED BY <2>1, <2>2 DEF AwaitedUntilHalted, Halted
<1>8. CASE WaitPid
  <2>1. Moves \/ EvalCheck
    BY <1>8, MainMoves DEF WaitPid, Running, Fork, AddJob, Assign, MainAt
  <2>2. UNCHANGED job_list /\ \A f \in Active : f.at # "act"
    BY <1>8, WaitingFrame
  <2>3. CASE UNCHANGED proc /\ \A f \in Active' : f \in Active
    BY <1>7, <2>1, <2>2, <2>3 DEF Halted
  <2>4. CASE \E p \in Pids, f \in Active' :
               /\ Waitable(p)
               /\ f.pid = p
               /\ \A g \in Active' : g = f \/ g \in Active
               /\ proc' = [proc EXCEPT ![p] = IF Zombie(p) THEN "none" ELSE @]
    <3>1. PICK p \in Pids, f \in Active' :
               /\ Waitable(p)
               /\ f.pid = p
               /\ \A g \in Active' : g = f \/ g \in Active
               /\ proc' = [proc EXCEPT ![p] = IF Zombie(p) THEN "none" ELSE @]
      BY <2>4
    <3>2. Halted(p)' /\ \A q \in Pids : Halted(q) => Halted(q)'
      BY <1>1, <3>1 DEF TypeOK, Halted, Waitable, Zombie
    <3>3. \A g \in Active' : g.at = "act" => g.pid \in Pids /\ Halted(g.pid)'
      BY <2>2, <3>1, <3>2
    <3> QED BY <1>7, <2>1, <2>2, <3>2, <3>3
  <2> QED BY <1>8, <2>3, <2>4, WaitingFrame
<1>9. CASE Act
  <2>1. Moves \/ EvalCheck
    BY <1>9, MainMoves DEF Act, Running, Fork, AddJob, Assign, MainAt
  <2>2. /\ UNCHANGED proc /\ Head(stack) \in Active /\ Head(stack).pid \in Pids
        /\ \A f \in Active' : f.at = "act" => f = Head(stack)
        /\ Halted(Head(stack).pid)
    BY <1>9, ActingFrame DEF AwaitedUntilHalted, Act, Running
  <2>3. \A p \in Pids : FgIn(job_list, p) => FgIn(job_list', p) \/ p = Head(stack).pid
    BY <1>9, ActedTable
  <2> QED BY <1>7, <2>1, <2>2, <2>3 DEF Halted
<1>10. CASE Quiet /\ (\A p \in Pids : Halted(p) => Halted(p)') /\ (EvalCheck \/ Moves)
  <2>1. \A f \in Active' : f.at = "act" => f \in Active /\ f.pid \in Pids
    BY <1>10 DEF Quiet, IInv, FramesOK
  <2> QED BY <1>7, <1>10, <2>1 DEF Quiet
<1> QED
  BY <1>2, <1>3, <1>4, <1>5, <1>6, <1>8, <1>9, <1>10, QuietSteps, MainMoves DEF Continued

(* "if foreground, wait for the foreground process to terminate"           *)
(* (tsh.c:324-330): when eval() gives the prompt back, its process has     *)
(* ended or is stopped, whatever signals came at any point of its wait.    *)
(* For a table with room for every pid, a user who does not type fg, and   *)
(* programs nobody but the shell continues.                                *)
THEOREM EvalAwaitsForeground ==
  ASSUME Room, "fg" \notin Builtins, "cont" \notin Fates
  PROVE  Spec => []ForegroundAwaited
<1>1. IInv /\ FgIsAwaited /\ [Next]_vars => FgIsAwaited'
  BY FgIsAwaitedStep
<1>2. IInv /\ FgIsAwaited /\ AwaitedUntilHalted /\ [Next]_vars => AwaitedUntilHalted'
  BY AwaitedStep
<1>3. Init => AwaitedUntilHalted
  BY DEF Init, AwaitedUntilHalted, Active, FramesOf
<1>4. IInv /\ FgIsAwaited /\ AwaitedUntilHalted => ForegroundAwaited
  <2> SUFFICES ASSUME IInv, FgIsAwaited, AwaitedUntilHalted PROVE ForegroundAwaited
    OBVIOUS
  <2>1. AtMostOneFG
    BY DEF IInv, PidsUnique, FgIsAwaited, AtMostOneFG
  <2>2. pc = "unblock" => \A i \in Slots : job_list[i].state # "FG"
    BY DEF FgIsAwaited
  <2> QED BY <2>1, <2>2 DEF ForegroundAwaited, AwaitedUntilHalted, Halted
<1> QED BY <1>1, <1>2, <1>3, <1>4, InitForeground, ShellInvariant, PTL DEF Spec

----------------------------------------------------------------------------
(* "jobs" prints the truth                                                 *)

\* A child that stops before it is listed has its stop still to be reported.
NewStops == pc = "add" /\ cur \in Pids /\ proc[cur] = "stopped" => cur \in stopnew

LEMMA StoppedStep ==
  ASSUME Modes = {}, IInv, IInv', FgIsAwaited, StoppedIsShown, NewStops, [Next]_vars
  PROVE  StoppedIsShown' /\ NewStops'
<1>1. TypeOK /\ JobListTypeOK /\ PidsUnique
  BY DEF IInv, TypeOK
<1>2. \A i \in Slots : job_list'[i].pid # 0 => job_list'[i].pid \in Pids
  BY DEF IInv, TypeOK, JobListTypeOK
\* Steps that leave every row of a stopped, reported job alone.
<1>3. ASSUME UNCHANGED job_list,
             \A p \in Pids : /\ proc'[p] = "stopped" /\ p \notin stopnew'
                             /\ ~ InFlight(p, {"stopped"})'
                             => /\ proc[p] = "stopped" /\ p \notin stopnew
                                /\ ~ InFlight(p, {"stopped"})
      PROVE  StoppedIsShown'
  BY <1>2, <1>3 DEF StoppedIsShown
<1>4. CASE \E p \in Pids \cup {-1}, m \in {"FG", "BG"} : Fork(p, m)
  <2>1. PICK p \in Pids \cup {-1}, m \in {"FG", "BG"} : Fork(p, m)
    BY <1>4
  <2>2. UNCHANGED <<job_list, stack>> /\ cur' = p
    BY <2>1 DEF Fork
  <2>3. /\ p \in Pids => proc'[p] = "starting"
        /\ \A q \in Pids : q # p => proc'[q] = proc[q] /\ (q \in stopnew' <=> q \in stopnew)
    <3>1. CASE p \in Pids /\ Become(p, "starting")
      BY <1>1, <3>1 DEF TypeOK, Become
    <3>2. CASE p = -1 /\ UNCHANGED procvars
      BY <3>2, JobListAssumption DEF procvars
    <3> QED BY <2>1, <3>1, <3>2 DEF Fork
  <2>4. \A q : InFlight(q, {"stopped"})' <=> InFlight(q, {"stopped"})
    BY <2>2 DEF InFlight, Active, FramesOf
  <2> QED BY <1>3, <2>2, <2>3, <2>4 DEF NewStops
<1>5. CASE AddJob
  <2>1. /\ addjob(cur, mode) /\ pc = "add" /\ pc' # "add" /\ UNCHANGED <<proc, stopnew, stack>>
        /\ nextjid <= JidCap /\ cur \in Pids \cup {0, -1} /\ mode \in {"FG", "BG"}
    BY <1>5 DEF AddJob, MainAt, IInv, TypeOK, AddingOK
  <2>2. \A q : InFlight(q, {"stopped"})' <=> InFlight(q, {"stopped"})
    BY <2>1 DEF InFlight, Active, FramesOf
  <2>3. \A i \in Slots : job_list'[i].pid # cur => job_list'[i] = job_list[i]
    <3>1. CASE cur = 0
      BY <2>1, <3>1 DEF addjob, jobvars
    <3>2. CASE cur # 0
      BY <1>1, <2>1, <3>2, AddjobEffect
    <3> QED BY <3>1, <3>2
  <2>4. StoppedIsShown'
    BY <1>2, <2>1, <2>2, <2>3 DEF StoppedIsShown, NewStops
  <2> QED BY <2>1, <2>4 DEF NewStops
<1>6. CASE Assign
  BY <1>6 DEF Assign, MainAt, FgIsAwaited
<1>7. CASE WaitPid
  <2>1. /\ UNCHANGED job_list /\ pc' # "add"
        /\ \A q : ~ InFlight(q, {"stopped"})
    BY <1>7, WaitingFrame DEF InFlight
  <2>2. CASE UNCHANGED <<proc, stopnew>>
    BY <1>3, <2>1, <2>2 DEF NewStops
  <2>3. CASE \E p \in Pids, f \in Active' :
               /\ f.at = "act" /\ f.pid = p /\ f.how = proc[p]
               /\ proc' = [proc EXCEPT ![p] = IF Zombie(p) THEN "none" ELSE @]
               /\ stopnew' = stopnew \ {p}
    <3>1. PICK p \in Pids, f \in Active' :
               /\ f.at = "act" /\ f.pid = p /\ f.how = proc[p]
               /\ proc' = [proc EXCEPT ![p] = IF Zombie(p) THEN "none" ELSE @]
               /\ stopnew' = stopnew \ {p}
      BY <2>3
    <3>2. proc'[p] = "stopped" => InFlight(p, {"stopped"})'
      BY <1>1, <3>1 DEF TypeOK, Zombie, InFlight
    <3>3. \A q \in Pids : q # p => proc'[q] = proc[q] /\ (q \in stopnew' <=> q \in stopnew)
      BY <1>1, <3>1 DEF TypeOK
    <3> QED BY <1>3, <2>1, <3>2, <3>3 DEF NewStops
  <2> QED BY <1>7, <2>2, <2>3, WaitingFrame
<1>8. CASE Act
  <2> DEFINE h == Head(stack)
             p == Head(stack).pid
  <2>1. /\ UNCHANGED <<proc, stopnew>> /\ pc' # "add" /\ p \in Pids
        /\ h.how # "stopped" => proc[p] = "none"
        /\ \A f \in Active : f.at = "act" => f = h
    BY <1>8, ActingFrame
  <2>2. \A q : q # p \/ h.how # "stopped" => ~ InFlight(q, {"stopped"})
    BY <2>1 DEF InFlight
  <2>3. ASSUME NEW i \in Slots, job_list'[i].pid # 0, proc[job_list'[i].pid] = "stopped",
               job_list'[i].pid \notin stopnew
        PROVE  job_list'[i].state = "ST"
    <3>1. job_list'[i].pid \in Pids
      BY <1>2, <2>3
    <3>2. CASE job_list'[i].pid # p
      <4>1. job_list'[i] = job_list[i]
        BY <1>8, <2>3, <3>2, ActedTable DEF clearjob
      <4> QED BY <2>2, <2>3, <3>2, <4>1 DEF StoppedIsShown
    <3>3. CASE job_list'[i].pid = p
      <4>1. h.how = "stopped" /\ ActStopped(p)
        BY <1>8, <2>1, <2>3, <3>3 DEF Act, ActKilled, ActExited
      <4>2. job_list[i].pid = p
        BY <1>8, <2>3, <3>3, ActedTable DEF clearjob
      <4>3. \A q \in Pids : q >= 1
        BY JobListAssumption
      <4>4. SetState(First(getjobpid(p)), "ST") /\ First(getjobpid(p)) = i /\ "ST" \in States
        BY <1>1, <2>1, <4>1, <4>2, <4>3, FirstMatch DEF ActStopped, getjobpid, PidsUnique, States
      <4> QED BY <1>1, <4>4, SetStateEffect
    <3> QED BY <3>2, <3>3
  <2>4. StoppedIsShown'
    <3> SUFFICES ASSUME NEW i \in Slots, job_list'[i].pid # 0,
                        proc'[job_list'[i].pid] = "stopped", job_list'[i].pid \notin stopnew'
                 PROVE  job_list'[i].state = "ST"
      BY DEF StoppedIsShown
    <3> QED BY <2>1, <2>3
  <2> QED BY <2>1, <2>4 DEF NewStops
<1>9. CASE Quiet
  <2>1. \A q : InFlight(q, {"stopped"})' <=> InFlight(q, {"stopped"})
    BY <1>9 DEF Quiet, InFlight
  <2>2. StoppedIsShown'
    BY <1>3, <1>9, <2>1 DEF Quiet
  <2> QED BY <1>9, <2>2 DEF Quiet, NewStops
<1> QED BY <1>4, <1>5, <1>6, <1>7, <1>8, <1>9, QuietSteps

\* A free slot has no number, so that maxjid() of an empty table is 0.
FreeIsBlank == \A i \in Slots : job_list[i].pid = 0 => job_list[i].jid = 0

LEMMA NumbersRestart ==
  ASSUME IInv, IInv', FreeIsBlank, EmptyTableRestartsAtOne, [Next]_vars
  PROVE  FreeIsBlank' /\ EmptyTableRestartsAtOne'
<1>1. JobListTypeOK
  BY DEF IInv, TypeOK
<1>2. CASE UNCHANGED <<job_list, nextjid>>
  BY <1>2 DEF FreeIsBlank, EmptyTableRestartsAtOne
<1>3. CASE AddJob
  <2>1. /\ addjob(cur, mode) /\ nextjid <= JidCap
        /\ cur \in Pids \cup {0, -1} /\ mode \in {"FG", "BG"}
    BY <1>3 DEF AddJob, MainAt, IInv, TypeOK, AddingOK
  <2>2. CASE cur \in Pids /\ \E i \in Slots : job_list' = [job_list EXCEPT ![i] =
                                     [pid |-> cur, jid |-> nextjid, state |-> mode]]
    <3>1. PICK i \in Slots : job_list' = [job_list EXCEPT ![i] =
                                     [pid |-> cur, jid |-> nextjid, state |-> mode]]
      BY <2>2
    <3>2. job_list'[i].pid # 0 /\ \A k \in Slots : k # i => job_list'[k] = job_list[k]
      BY <1>1, <2>2, <3>1, JobListAssumption DEF JobListTypeOK
    <3> QED BY <3>2 DEF FreeIsBlank, EmptyTableRestartsAtOne
  <2>3. CASE cur = 0
    BY <1>2, <2>1, <2>3 DEF addjob, jobvars
  <2> QED BY <1>1, <1>2, <2>1, <2>2, <2>3, AddjobEffect DEF jobvars
<1>4. ASSUME NEW i \in Slots, NEW state \in States, SetState(i, state)
      PROVE  FreeIsBlank' /\ EmptyTableRestartsAtOne'
  BY <1>1, <1>4, SetStateEffect DEF SetState, FreeIsBlank, EmptyTableRestartsAtOne
<1>5. CASE Assign
  BY <1>4, <1>5 DEF Assign, IInv, TypeOK, States
<1>6. CASE Act
  <2> DEFINE p == Head(stack).pid
  <2>1. p \in Pids
    BY <1>6, ActingFrame
  <2>2. CASE ActStopped(p) /\ getjobpid(p) # {}
    BY <1>1, <1>4, <2>1, <2>2, LookupTypes DEF ActStopped, States
  <2>3. CASE deletejob(p)
    <3>1. /\ \A i \in Slots : job_list'[i] = job_list[i] \/ job_list'[i] = clearjob
          /\ UNCHANGED jobvars \/ nextjid' = maxjid(job_list') + 1
      BY <1>1, <2>1, <2>3, DeletejobEffect
    <3>2. FreeIsBlank'
      BY <3>1 DEF FreeIsBlank, clearjob
    <3>3. ASSUME \A i \in Slots : job_list'[i].pid = 0 PROVE maxjid(job_list') = 0
      <4>1. \A i \in Slots : job_list'[i].jid = 0
        BY <3>2, <3>3 DEF FreeIsBlank
      <4> QED BY <4>1, MaxjidIsMax
    <3>4. UNCHANGED jobvars => EmptyTableRestartsAtOne'
      BY DEF jobvars, EmptyTableRestartsAtOne
    <3> QED BY <3>1, <3>2, <3>3, <3>4 DEF EmptyTableRestartsAtOne
  <2> QED BY <1>2, <1>6, <2>2, <2>3 DEF Act, ActStopped, ActKilled, ActExited, jobvars
<1> QED BY <1>2, <1>3, <1>5, <1>6, TableStep

LEMMA InitListing ==
  Init => FreeIsBlank /\ EmptyTableRestartsAtOne /\ StoppedIsShown /\ NewStops
<1> SUFFICES ASSUME Init
             PROVE  FreeIsBlank /\ EmptyTableRestartsAtOne /\ StoppedIsShown /\ NewStops
  OBVIOUS
<1>1. /\ nextjid = 1 /\ pc = "read"
      /\ \A i \in Slots : job_list[i] = [pid |-> 0, jid |-> 0, state |-> "UNDEF"]
  BY DEF Init, JobListInit, initjobs, clearjob
<1> QED
  BY <1>1 DEF FreeIsBlank, EmptyTableRestartsAtOne, StoppedIsShown, NewStops

(* Whatever jobs came and went, wrapped numbers included, an empty table   *)
(* counts from 1 again (tsh.c:577-587, 619-636).                           *)
THEOREM NumberingRestarts == Spec => []EmptyTableRestartsAtOne
<1>1. IInv /\ IInv' /\ FreeIsBlank /\ EmptyTableRestartsAtOne /\ [Next]_vars
        => FreeIsBlank' /\ EmptyTableRestartsAtOne'
  BY NumbersRestart
<1>2. Init => FreeIsBlank /\ EmptyTableRestartsAtOne
  BY InitListing
<1> QED BY <1>1, <1>2, ShellInvariant, PTL DEF Spec

(* What "jobs" prints is what fg and bg would act on: no stopped job is    *)
(* shown as running, and an empty table counts from 1 again (tsh.c:500-510,*)
(* 577-646), however often numbers wrapped.  For a user who types neither  *)
(* fg nor bg: with them the code does print other things.                  *)
THEOREM ListingTellsTheTruth ==
  ASSUME Modes = {}
  PROVE  Spec => []ListingIsTrue
<1>1. "fg" \notin Builtins
  BY DEF Modes
<1>2. IInv /\ FgIsAwaited /\ [Next]_vars => FgIsAwaited'
  BY <1>1, FgIsAwaitedStep
<1>3. IInv /\ IInv' /\ FgIsAwaited /\ StoppedIsShown /\ NewStops /\ [Next]_vars
        => StoppedIsShown' /\ NewStops'
  BY StoppedStep
<1>4. Init => StoppedIsShown /\ NewStops
  BY InitListing
<1>5. StoppedIsShown /\ EmptyTableRestartsAtOne => ListingIsTrue
  BY DEF ListingIsTrue
<1> QED
  BY <1>2, <1>3, <1>4, <1>5, InitForeground, NumberingRestarts, ShellInvariant, PTL DEF Spec
=============================================================================
