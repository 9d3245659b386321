-------------------------------- MODULE Tsh --------------------------------
(***************************************************************************)
(* The tiny shell of src/tshlab/tsh.c: the read/eval loop, the builtins fg *)
(* and bg, the three signal handlers that interrupt them, and the child    *)
(* processes the shell starts.                                             *)
(*                                                                         *)
(* The shell is one thread.  Its main program is at pc; a handler that     *)
(* interrupts it is a frame on top of stack, and only the top frame (or,   *)
(* with an empty stack, the main program) runs.  A handler may itself be   *)
(* interrupted by the two other signals: Signal() installs every handler   *)
(* with an empty sa_mask.  One step is the code between two places where a *)
(* handler can change what the code reads next.                            *)
(***************************************************************************)
EXTENDS JobList, Sequences

CONSTANTS Fates,     \* what programs do: some of "exit" "kill" "stop" "cont"
          Builtins,  \* builtins the user types: some of "fg" "bg" "quit"
          Keys       \* what the user presses: some of "SIGINT" "SIGTSTP"

Signals == {"SIGCHLD", "SIGINT", "SIGTSTP"}

\* A stopped program a SIGINT was sent to dies when it is continued.
ASSUME TshAssumption == /\ Fates \subseteq {"exit", "kill", "stop", "cont"}
                        /\ Builtins \subseteq {"fg", "bg", "quit"}
                        /\ Keys \subseteq {"SIGINT", "SIGTSTP"}
                        /\ "SIGINT" \in Keys => "kill" \in Fates

VARIABLES
  proc,     \* what each pid is: no child, or a child in this state
  stopnew,  \* children whose stop waitpid() has not reported yet
  pending,  \* signals pending for the shell
  mask,     \* signals the main program blocks
  pc,       \* where the main program is
  cur,      \* pid in eval() and bgfg_command()
  mode,     \* FG or BG: eval's bg + 1, bgfg_command's bgfg
  slot,     \* bjob in bgfg_command
  stack     \* active handlers, the running one first

procvars == <<proc, stopnew>>
mainvars == <<mask, cur, mode, slot>>
vars == <<job_list, nextjid, proc, stopnew, pending, mask, pc, cur, mode, slot, stack>>

ProcStates == {"none", "starting", "running", "stopped", "exited", "killed"}
Zombie(p)  == proc[p] \in {"exited", "killed"}

\* the handlers that have been entered and have not returned
FramesOf(s) == {s[k] : k \in DOMAIN s}
Active == FramesOf(stack)

\* the signals eval() blocks from before fork() until it returns
EvalMask == {"SIGCHLD", "SIGTSTP", "SIGINT"}
NeverOpened == FALSE  \* mutant: sigsuspend() is given the blocking mask

Suspended == pc \in {"evalsuspend", "fgsuspend"}

\* sigsuspend() waits with an empty mask; a handler blocks its own signal
Blocked == (IF Suspended THEN {} ELSE mask) \cup {f.sig : f \in Active}

MainAt(l) == pc = l /\ stack = <<>>

\* eval() and bgfg_command() return, and their locals are gone
Return == pc' = "read" /\ cur' = 0 /\ mode' = "FG" /\ slot' = 0

----------------------------------------------------------------------------
(* Children.  Their steps are the environment's.                           *)

Raise(s) == pending' = pending \cup {s}

Become(p, st) ==
  /\ proc' = [proc EXCEPT ![p] = st]
  /\ stopnew' = IF st = "stopped" THEN stopnew \cup {p} ELSE stopnew \ {p}

Alive == pc # "dead"
ChildStep(p, from, st) ==
  /\ Alive
  /\ proc[p] \in from
  /\ Become(p, st)
  /\ Raise("SIGCHLD")
  /\ UNCHANGED <<job_list, nextjid, mask, pc, cur, mode, slot, stack>>

(* The child has its own process group and default handlers from here on. *)
Exec(p) == /\ Alive
           /\ proc[p] = "starting"
           /\ Become(p, "running")
           /\ UNCHANGED <<job_list, nextjid, pending, mask, pc, cur, mode, slot, stack>>

ExitChild(p) == "exit" \in Fates /\ ChildStep(p, {"starting", "running"}, "exited")
KillChild(p) == "kill" \in Fates /\ ChildStep(p, {"starting", "running", "stopped"}, "killed")
StopChild(p) == "stop" \in Fates /\ ChildStep(p, {"running"}, "stopped")
ContChild(p) == "cont" \in Fates /\ ChildStep(p, {"stopped"}, "running")

(* kill(-pid, sig) by the shell.  A child that has not called setpgid and  *)
(* execve yet has no group to hit, or its copy of the shell's handler      *)
(* swallows the signal.                                                    *)
SignalEffect(p, sig) ==
  CASE sig = "SIGINT"  /\ proc[p] = "running" -> "killed"
    [] sig = "SIGTSTP" /\ proc[p] = "running" -> "stopped"
    [] sig = "SIGCONT" /\ proc[p] = "stopped" -> "running"
    [] OTHER -> proc[p]

Kill(p, sig) ==
  IF p \in Pids /\ SignalEffect(p, sig) # proc[p]
  THEN Become(p, SignalEffect(p, sig)) /\ Raise("SIGCHLD")
  ELSE UNCHANGED <<proc, stopnew, pending>>

(* The terminal sends the shell ctrl-c or ctrl-z. *)
Key(s) == /\ Alive
          /\ s \in Keys
          /\ Raise(s)
          /\ UNCHANGED <<job_list, nextjid, proc, stopnew, mask, pc, cur, mode, slot, stack>>

----------------------------------------------------------------------------
(* eval() of a command that is not a builtin                               *)

(* sigprocmask(SIG_BLOCK, &mask) and fork(), which may fail (pid = -1).    *)
Fork(p, m) ==
  /\ MainAt("read")
  /\ nextjid <= JidCap
  /\ mask' = mask \cup EvalMask
  /\ mode' = m
  /\ cur' = p
  /\ pc' = "add"
  /\ \/ p \in Pids /\ proc[p] = "none" /\ Become(p, "starting")
     \/ p = -1 /\ UNCHANGED procvars
  /\ UNCHANGED <<job_list, nextjid, pending, slot, stack>>

AddJob ==
  /\ MainAt("add")
  /\ addjob(cur, mode)
  /\ pc' = IF mode = "FG" THEN "evalcheck" ELSE "unblock"
  /\ UNCHANGED <<proc, stopnew, pending, mask, cur, mode, slot, stack>>

(* while (pid == fgpid(job_list)) sigsuspend(...): the test, then the call.*)
WaitTest(test, enter, after) ==
  /\ MainAt(test)
  /\ IF cur = fgpid THEN pc' = enter /\ UNCHANGED mainvars ELSE after
  /\ UNCHANGED <<jobvars, procvars, pending, stack>>
Suspend(enter, suspended) ==
  /\ MainAt(enter)
  /\ pc' = suspended
  /\ UNCHANGED <<jobvars, procvars, pending, mainvars, stack>>

EvalCheck == WaitTest("evalcheck", "evalenter", pc' = "unblock" /\ UNCHANGED mainvars)
EvalEnter == Suspend("evalenter", "evalsuspend")

Unblock ==
  /\ MainAt("unblock")
  /\ mask' = mask \ EvalMask
  /\ Return
  /\ UNCHANGED <<jobvars, procvars, pending, stack>>

----------------------------------------------------------------------------
(* bgfg_command(), with every signal unblocked                             *)

Exits == pc' = "dead" /\ UNCHANGED <<jobvars, procvars, pending, mainvars, stack>>

Modes == {m \in {"FG", "BG"} : \/ m = "FG" /\ "fg" \in Builtins
                               \/ m = "BG" /\ "bg" \in Builtins}

(* fg %jid and bg %jid: "No such job" ends the shell (app_error). *)
BgfgJid(m, jid) ==
  /\ MainAt("read")
  /\ m \in Modes
  /\ IF getjobjid(jid) = {}
     THEN Exits
     ELSE /\ slot' = First(getjobjid(jid))
          /\ mode' = m
          /\ pc' = "readpid"
          /\ UNCHANGED <<jobvars, procvars, pending, mask, cur, stack>>

(* pid = bjob->pid, after a handler may have cleared the slot *)
ReadPid ==
  /\ MainAt("readpid")
  /\ cur' = job_list[slot].pid
  /\ pc' = "cont"
  /\ UNCHANGED <<jobvars, procvars, pending, mask, mode, slot, stack>>

(* fg pid and bg pid *)
BgfgPid(m, pid) ==
  /\ MainAt("read")
  /\ m \in Modes
  /\ IF getjobpid(pid) = {}
     THEN Exits
     ELSE /\ slot' = First(getjobpid(pid))
          /\ cur' = pid
          /\ mode' = m
          /\ pc' = "cont"
          /\ UNCHANGED <<jobvars, procvars, pending, mask, stack>>

Continue ==
  /\ MainAt("cont")
  /\ Kill(cur, "SIGCONT")
  /\ pc' = "assign"
  /\ UNCHANGED <<jobvars, mainvars, stack>>

Assign ==
  /\ MainAt("assign")
  /\ SetState(slot, mode)
  /\ \/ mode = "BG" /\ Return /\ UNCHANGED mask
     \/ mode = "FG" /\ pc' = "fgcheck" /\ UNCHANGED mainvars
  /\ UNCHANGED <<procvars, pending, stack>>

FgCheck == WaitTest("fgcheck", "fgenter", Return /\ UNCHANGED mask)
FgEnter == Suspend("fgenter", "fgsuspend")

(* quit, end of file, or fg/bg without an argument *)
Quit == MainAt("read") /\ "quit" \in Builtins /\ Exits

----------------------------------------------------------------------------
(* Signal handlers                                                         *)

Running(s, at) == /\ Alive
                  /\ stack # <<>>
                  /\ Head(stack).sig = s
                  /\ Head(stack).at = at

Frame(s) == [sig |-> s, at |-> "start", pid |-> 0, how |-> "none"]

Deliver(s) ==
  /\ Alive
  /\ s \in pending \ Blocked
  /\ pending' = pending \ {s}
  /\ stack' = <<Frame(s)>> \o stack
  /\ UNCHANGED <<jobvars, procvars, mainvars, pc>>

\* mutant: "if" for "while" around sigsuspend()
WakeOnce(l) == CASE l = "evalsuspend" -> "unblock"
                 [] l = "fgsuspend"   -> "read"
                 [] OTHER -> l

\* the first handler to return to sigsuspend() makes it return
Wake(l) == IF l = "evalsuspend" THEN "evalcheck"
           ELSE IF l = "fgsuspend" THEN "fgcheck" ELSE l

HandlerReturns ==
  /\ stack' = Tail(stack)
  /\ pc' = IF Tail(stack) = <<>> THEN Wake(pc) ELSE pc

GoesTo(at, p, how) ==
  /\ stack' = <<[sig |-> Head(stack).sig, at |-> at, pid |-> p, how |-> how]>> \o Tail(stack)
  /\ UNCHANGED pc

(* sigint_handler and sigtstp_handler: fgpid(), then kill() *)
ForwardRead(s) ==
  /\ Running(s, "start")
  /\ IF fgpid > 0 THEN GoesTo("kill", fgpid, "none") ELSE HandlerReturns
  /\ UNCHANGED <<jobvars, procvars, pending, mainvars>>

ForwardKill(s) ==
  /\ Running(s, "kill")
  /\ Kill(Head(stack).pid, s)
  /\ HandlerReturns
  /\ UNCHANGED <<jobvars, mainvars>>

(* sigchld_handler: waitpid(-1, &status, WNOHANG | WUNTRACED) reports one  *)
(* child that ended, which frees its pid, or that newly stopped.           *)
Waitable(p) == Zombie(p) \/ (proc[p] = "stopped" /\ p \in stopnew)

WaitPid ==
  /\ Running("SIGCHLD", "start")
  /\ \/ \E p \in Pids :
          /\ Waitable(p)
          /\ proc' = [proc EXCEPT ![p] = IF Zombie(p) THEN "none" ELSE @]
          /\ stopnew' = stopnew \ {p}
          /\ GoesTo("act", p, proc[p])
     \/ /\ \A p \in Pids : ~ Waitable(p)
        /\ HandlerReturns
        /\ UNCHANGED procvars
  /\ UNCHANGED <<jobvars, pending, mainvars>>

\* Mutants: a stop forgets the job; a stop goes unrecorded; a kill leaves
\* the entry.
StopDeletes(p)   == deletejob(p) /\ HandlerReturns
StopUnseen(p)    == UNCHANGED jobvars /\ HandlerReturns
KillKeeps(p)     == UNCHANGED jobvars /\ HandlerReturns

(* WIFSTOPPED: mark the job and return; without a job the shell crashes. *)
ActStopped(p) ==
  IF getjobpid(p) = {}
  THEN pc' = "dead" /\ UNCHANGED <<jobvars, stack>>
  ELSE SetState(First(getjobpid(p)), "ST") /\ HandlerReturns

(* WIFSIGNALED: delete the job and return. *)
ActKilled(p) == deletejob(p) /\ HandlerReturns

\* mutant: the handler returns after the first child that exited
ExitReturns(p) == deletejob(p) /\ HandlerReturns

(* otherwise: delete the job and go round the loop *)
ActExited(p) == deletejob(p) /\ GoesTo("start", 0, "none")

Act ==
  /\ Running("SIGCHLD", "act")
  /\ LET p == Head(stack).pid
     IN  \/ Head(stack).how = "stopped" /\ ActStopped(p)
         \/ Head(stack).how = "killed"  /\ ActKilled(p)
         \/ Head(stack).how = "exited"  /\ ActExited(p)
  /\ UNCHANGED <<procvars, pending, mainvars>>

----------------------------------------------------------------------------
Init ==
  /\ JobListInit
  /\ proc = [p \in Pids |-> "none"]
  /\ stopnew = {}
  /\ pending = {}
  /\ mask = {}
  /\ pc = "read"
  /\ cur = 0
  /\ mode = "FG"
  /\ slot = 0
  /\ stack = <<>>

(* The user at the prompt, and the children: nothing forces these. *)
Command ==
  \/ \E p \in Pids \cup {-1}, m \in {"FG", "BG"} : Fork(p, m)
  \/ \E m \in Modes : \/ \E jid \in 1 .. JidCap : BgfgJid(m, jid)
                      \/ \E p \in Pids : BgfgPid(m, p)
  \/ Quit

Environment ==
  \/ Command
  \/ \E p \in Pids : Exec(p) \/ ExitChild(p) \/ KillChild(p) \/ StopChild(p) \/ ContChild(p)
  \/ \E s \in Keys : Key(s)

(* What the shell does by itself once a command was read. *)
Main == \/ AddJob \/ EvalCheck \/ EvalEnter \/ Unblock
        \/ ReadPid \/ Continue \/ Assign \/ FgCheck \/ FgEnter

Handler == \/ \E s \in {"SIGINT", "SIGTSTP"} : ForwardRead(s) \/ ForwardKill(s)
           \/ WaitPid
           \/ Act

Terminated == pc = "dead" /\ UNCHANGED vars

Next == \/ Environment
        \/ Main
        \/ Handler
        \/ \E s \in Signals : Deliver(s)
        \/ Terminated

Spec == Init /\ [][Next]_vars

(* The kernel runs the shell, and unblocking a pending signal delivers it  *)
(* before sigprocmask() or sigsuspend() returns.  Strong fairness: main    *)
(* program and handlers are preempted by later signals, again and again    *)
(* but never for ever, and a signal may be blocked again after each chance.*)
(* Nothing is assumed of the user or of the children.                      *)
FairSpec == /\ Spec
            /\ WF_vars(Main)
            /\ SF_vars(WaitPid \/ Act)
            /\ \A s \in {"SIGINT", "SIGTSTP"} : SF_vars(ForwardRead(s) \/ ForwardKill(s))
            /\ \A s \in Signals : SF_vars(Deliver(s))

----------------------------------------------------------------------------
(* Properties                                                              *)

MainLabels == {"read", "add", "evalcheck", "evalenter", "evalsuspend", "unblock",
               "readpid", "cont", "assign", "fgcheck", "fgenter", "fgsuspend", "dead"}
Frames == [sig : Signals, at : {"start", "kill", "act"}, pid : Pids \cup {0},
           how : {"none", "stopped", "exited", "killed"}]

(* Type invariant of the shell's variables and of its handler stack.       *)
TypeOK ==
  /\ JobListTypeOK
  /\ proc \in [Pids -> ProcStates]
  /\ stopnew \subseteq Pids
  /\ pending \subseteq Signals
  /\ mask \subseteq Signals
  /\ pc \in MainLabels
  /\ cur \in Pids \cup {0, -1}
  /\ mode \in {"FG", "BG"}
  /\ slot \in Slots
  /\ stack \in Seq(Frames)

\* A SIGCHLD handler has taken this report and not acted on it yet.
InFlight(p, hows) == \E f \in Active : f.at = "act" /\ f.pid = p /\ f.how \in hows

(* No entry of the table outlives its process: a listed pid is a child     *)
(* that was not reaped, or one whose entry the SIGCHLD handler is about to *)
(* delete (tsh.c:500-519).  This is why eval() blocks SIGCHLD around fork  *)
(* and addjob (tsh.c:292-323): a child reaped before it is added would     *)
(* leave an entry nothing ever deletes, and a reused pid would match it.   *)
NoStaleJob ==
  \A p \in Listed : proc[p] # "none" \/ InFlight(p, {"exited", "killed"})

(* Every child is in the table from the moment a handler can hear of it.   *)
(* With room for every child this is why "bjob->state = ST" (tsh.c:505)    *)
(* never dereferences NULL.                                                *)
EveryChildTracked ==
  \A p \in Pids : \/ proc[p] = "none"
                  \/ p \in Listed
                  \/ pc = "add" /\ cur = p

(* ctrl-c and ctrl-z never hit a background job: whatever handlers run     *)
(* between fgpid() and kill() (tsh.c:531-533), the target is not a job the *)
(* table shows in the background (tsh.c:241-243).                          *)
ForwardSparesBackground ==
  \A f \in Active : f.at = "kill" =>
     \A i \in Slots : job_list[i].pid = f.pid => job_list[i].state # "BG"

(* "At most 1 job can be in the FG state." (tsh.c:45)                      *)
AtMostOneFG ==
  \A i, k \in Slots : /\ job_list[i].pid # 0 /\ job_list[i].state = "FG"
                      /\ job_list[k].pid # 0 /\ job_list[k].state = "FG"
                      => i = k

(* "if foreground, wait for the foreground process to terminate"           *)
(* (tsh.c:324): when eval() is done with a foreground command its process  *)
(* is not running any more, so that no second job gets into the foreground *)
(* beside it.                                                              *)
ForegroundAwaited ==
  /\ pc = "unblock" /\ mode = "FG" /\ cur \in Pids
       => proc[cur] \notin {"starting", "running"}
  /\ AtMostOneFG

(* "jobs" does not show a stopped job as running ("BG: running in          *)
(* background", tsh.c:34-36) once the shell has taken the report of the    *)
(* stop and acted on it.                                                   *)
StoppedIsShown ==
  \A i \in Slots : LET p == job_list[i].pid IN
     /\ p # 0
     /\ proc[p] = "stopped"
     /\ p \notin stopnew
     /\ ~ InFlight(p, {"stopped"})
     => job_list[i].state = "ST"

(* What "jobs" prints is what "fg" and "bg" act on: no stopped job is      *)
(* shown as running (tsh.c:227, 500-510), and after any history an empty   *)
(* table counts from 1 again (603-646).  That a number stands for one job  *)
(* is not among it: JidNamesJob fails when nextjid wraps.                  *)
ListingIsTrue == StoppedIsShown /\ EmptyTableRestartsAtOne

(* "The handler reaps all available zombie children" (tsh.c:488-490): a    *)
(* zombie is left behind only while a SIGCHLD is pending or being handled. *)
NoForgottenZombie ==
  \A p \in Pids : Zombie(p) => \/ "SIGCHLD" \in pending
                               \/ \E f \in Active : f.sig = "SIGCHLD"

\* No child is ever stopped or killed by a signal, after whose report the
\* handler returns and leaves the other children unreaped.
OnlyExitsHappen == [](\A p \in Pids : proc[p] \notin {"stopped", "killed"})

(* eval() waits no longer than its job lives: once the foreground child    *)
(* has ended the prompt comes back (tsh.c:324-330), whichever of its test  *)
(* and its sigsuspend() the SIGCHLD arrives at.  And although the SIGCHLDs *)
(* of several children are one, each child that ended is reaped and the    *)
(* table forgets it, unless the shell itself exits (tsh.c:500-519).        *)
EndsAreNoticed ==
  OnlyExitsHappen =>
    /\ (pc \in {"evalcheck", "evalenter", "evalsuspend"} /\ cur \in Pids /\ Zombie(cur))
         ~> (pc \in {"read", "dead"})
    /\ \A p \in Pids : Zombie(p) ~> (p \notin Listed \/ pc = "dead")

(* ctrl-c pressed while a foreground job runs ends that job, unless the    *)
(* job leaves the foreground first: the pending SIGINT reaches the handler *)
(* although eval() blocks it, and the handler finds the job                *)
(* (tsh.c:255-257, 325, 529-535).                                          *)
InterruptEndsForeground ==
  \A p \in Pids : ("SIGINT" \in pending /\ fgpid = p /\ proc[p] = "running")
                     ~> (proc[p] # "running" \/ fgpid # p)

\* live: children but the one that is being added, and the ended ones whose
\* entry is about to be deleted
Abstract == INSTANCE JobControl WITH
  live <- {p \in Pids : \/ proc[p] # "none" /\ ~ (pc = "add" /\ cur = p)
                        \/ InFlight(p, {"exited", "killed"})},
  tab  <- [p \in Pids |-> IF getjobpid(p) = {} THEN "none"
                          ELSE job_list[First(getjobpid(p))].state]

(* The shell implements JobControl: the list "jobs" prints changes only by *)
(* a launch, a stop, a resume or an end of one live child at a time.       *)
ImplementsJobControl == Abstract!Spec
============================================================================
