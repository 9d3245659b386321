------------------------------ MODULE RunTrace ------------------------------
(***************************************************************************)
(* src/tshlab/runtrace.c: the interpreter that runs a trace file against   *)
(* the shell of tsh.c, together with that shell and the test programs the  *)
(* traces start.  Everything they tell each other is a datagram or a       *)
(* signal:                                                                 *)
(*                                                                         *)
(*   datafd  lines from runtrace to the shell, and one datagram for every  *)
(*           fflush() of the shell and of its jobs the other way;          *)
(*   syncfd  empty datagrams from a job that is ready ("WAIT" takes one),  *)
(*           and "signal" datagrams to whichever job receives them first.  *)
(*                                                                         *)
(* Module Tsh has the shell statement by statement.  Here a handler of the *)
(* shell is one step, and what counts is when its output is flushed: the   *)
(* interpreter knows the prompt only when it is all a datagram holds.  A   *)
(* text is a sequence of pieces, of which a process id is never a part,    *)
(* nor the number of a signal.                                             *)
(***************************************************************************)
EXTENDS Integers, Sequences, FiniteSets

CONSTANTS Traces,  \* the trace files: sequences of commands
          Graded,  \* the ones among them that the repository's traces hold
          MAXARGS, \* of tsh.c
          MaxProcs \* bound: how many processes the shell and its jobs start

\* the commands of a trace file
Ops == {"line", "WAIT", "NEXT", "SIGNAL", "SIGINT", "SIGTSTP"}
ASSUME RunTraceAssumption ==
  /\ Traces \subseteq Seq([op : Ops, line : Seq(STRING)])
  /\ Graded \subseteq Traces
  /\ MaxProcs \in Nat

Procs == 1..MaxProcs
Parser == INSTANCE ParseLine

VARIABLES
  trace,     \* the trace file
  next,      \* number of the command to run next
  drv,       \* where runtrace is
  verdict,   \* why it ended: "none" so far, "finished", or which wait gave up
  toShell,   \* datagrams in datafd for the shell: lines and "EOF"
  toDriver,  \* datagrams in datafd for runtrace: texts
  syncUp,    \* datagrams in syncfd for runtrace, a number
  syncDown,  \* datagrams in syncfd for the jobs, a number
  sh,        \* the shell
  proc,      \* the processes the shell started and their children
  out,       \* what runtrace has printed of them
  stray,     \* programs that an earlier run of runtrace has left running
  mixed,     \* ghost: runtrace has taken a prompt that came with other text
  hasty,     \* ghost: a timer expired although somebody could still move
  early      \* ghost: ps has listed a process that a signal was yet to reach

drvvars == <<trace, next, drv, verdict, out, stray, mixed>>
datavars == <<toShell, toDriver>>
syncvars == <<syncUp, syncDown>>
vars == <<drvvars, datavars, syncvars, sh, proc, hasty, early>>

----------------------------------------------------------------------------
(* The test programs: what each does, in order.                            *)

myspin1 == <<"send", "recv", "exit">>
sigterm_handler == <<"print", "recv", "send", "exit">>
WaitFirst == <<"recv", "send", "exit">>  \* mutant: the two halves of the handshake swapped
myspin2 == <<"send", "recv", "exit">>
mysplit == <<"fork", "wait", "exit">>
mysplit_child == <<"send", "recv", "exit">>
mysplitp == <<"fork", "stop child", "stop self", "term child", "exit">>
mysplitp_child == <<"spin">>
myints == <<"int self", "spin">>
myintp == <<"int shell", "spin">>
mytstps == <<"stop self", "exit">>
mytstpp == <<"stop shell", "spin">>
mycat == <<"cat", "exit">>
myenv == <<"print", "exit">>
bin_echo == <<"print", "exit">>
bin_kill == <<"term job", "exit">>
bin_ps == <<"list", "exit">>  \* ps h | fgrep mysplit

Code == [myspin1 |-> myspin1, sigterm_handler |-> sigterm_handler, myspin2 |-> myspin2,
         mysplit |-> mysplit, mysplit_child |-> mysplit_child, mysplitp |-> mysplitp,
         mysplitp_child |-> mysplitp_child, myints |-> myints, myintp |-> myintp,
         mytstps |-> mytstps, mytstpp |-> mytstpp, mycat |-> mycat, myenv |-> myenv,
         bin_echo |-> bin_echo, bin_kill |-> bin_kill, bin_ps |-> bin_ps]
Child == [mysplit |-> "mysplit_child", mysplitp |-> "mysplitp_child"]

\* programs that end after JOB_TIMEOUT seconds, the default action or exit(0)
Timed == {"myspin1", "sigterm_handler", "myspin2", "mysplit", "mysplit_child",
          "myints", "myintp", "mytstpp"}

\* the commands of a trace; a line goes to the shell as it is
Word(op) == [op |-> op, line |-> <<>>]
Line(text) == [op |-> "line", line |-> text]
EOF == Word("EOF")

----------------------------------------------------------------------------
(* Processes and signals                                                   *)

NoProc == [prog |-> "none", at |-> 1, st |-> "none", lead |-> 0, par |-> 0, sigs |-> {},
           infile |-> FALSE, outfile |-> FALSE]
Alive(p) == proc[p].st \in {"run", "stop"}
Running == {p \in Procs : proc[p].st = "run"}
Zombie(p) == proc[p].st \in {"exited", "killed"}
Op(p) == Code[proc[p].prog][proc[p].at]
Shell == 0  \* the parent of the jobs the shell starts
Leaders == {p \in Procs : proc[p].st # "none" /\ proc[p].par = Shell}

\* fork() of a process that runs prog, in its own group (lead = itself) or not
Free(p) == proc[p].st = "none" /\ \A q \in Procs : q < p => proc[q].st # "none"
NewProc(prog, lead, par) ==
  [NoProc EXCEPT !.prog = prog, !.st = "run", !.lead = lead, !.par = par]

(* kill() of one process: SIGCONT takes effect at once and undoes a        *)
(* SIGTSTP, the others wait until the process runs.                        *)
Hit(r, s) ==
  IF s = "CONT" THEN [r EXCEPT !.st = IF @ = "stop" THEN "run" ELSE @, !.sigs = @ \ {"TSTP"}]
  ELSE [r EXCEPT !.sigs = @ \cup {s}]
HitEach(ps, s) == proc' = [p \in Procs |-> IF p \in ps /\ Alive(p) THEN Hit(proc[p], s) ELSE proc[p]]
Group(l) == {p \in Procs : proc[p].lead = l}

\* what a process that ends leaves: the shell must wait for its own jobs
Remains(p, how) == IF proc[p].par = Shell /\ sh.pc # "dead" THEN how ELSE "gone"
TellShell(p) == sh' = IF proc[p].par = Shell THEN [sh EXCEPT !.sigs = @ \cup {"CHLD"}] ELSE sh
End(p, how) ==
  /\ proc' = [proc EXCEPT ![p].st = Remains(p, how)]
  /\ TellShell(p)

(* A signal reaches the process.  Only myspin1 handles SIGTERM.            *)
Deliver(p) ==
  /\ proc[p].st = "run"
  /\ \E s \in proc[p].sigs :
       CASE s = "TSTP" -> /\ proc' = [proc EXCEPT ![p].st = "stop", ![p].sigs = @ \ {s}]
                          /\ IF proc[p].par = Shell
                             THEN sh' = [sh EXCEPT !.sigs = @ \cup {"CHLD"}, !.stopped = @ \cup {p}]
                             ELSE UNCHANGED sh
         [] s = "TERM" /\ proc[p].prog = "myspin1" ->
              /\ proc' = [proc EXCEPT ![p].prog = "sigterm_handler", ![p].at = 1, ![p].sigs = @ \ {s}]
              /\ UNCHANGED sh
         [] OTHER -> End(p, "killed")
  /\ UNCHANGED <<drvvars, datavars, syncvars, hasty, early>>

\* the next operation of p is one of ops and nothing interrupts it
At(p, ops) == proc[p].st = "run" /\ proc[p].sigs = {} /\ Op(p) \in ops
Past(p) == [proc EXCEPT ![p].at = @ + 1]

JobSend(p) ==
  /\ At(p, {"send"})
  /\ syncUp' = syncUp + 1
  /\ proc' = Past(p)
  /\ UNCHANGED <<drvvars, datavars, syncDown, sh, hasty, early>>

(* recv() may return a datagram with a signal still to be handled.         *)
JobRecv(p) ==
  /\ proc[p].st = "run" /\ proc[p].sigs \subseteq {"TERM"} /\ Op(p) = "recv"
  /\ syncDown > 0
  /\ syncDown' = syncDown - 1
  /\ proc' = Past(p)
  /\ UNCHANGED <<drvvars, datavars, syncUp, sh, hasty, early>>

Delivered(d) == toDriver' = IF drv = "exited" THEN toDriver ELSE Append(toDriver, d)
Written(p, text) == IF proc[p].outfile THEN UNCHANGED toDriver ELSE Delivered(text)

JobPrint(p) ==
  /\ At(p, {"print"})
  /\ Written(p, << <<"from", proc[p].prog>> >>)
  /\ proc' = Past(p)
  /\ UNCHANGED <<drvvars, toShell, syncvars, sh, hasty, early>>

(* It copies its file; without one it reads what is meant for the shell.   *)
JobCat(p) ==
  /\ At(p, {"cat"})
  /\ IF proc[p].infile
     THEN Written(p, << <<"file">> >>) /\ proc' = Past(p) /\ UNCHANGED toShell
     ELSE /\ toShell # <<>>
          /\ toShell' = Tail(toShell)
          /\ IF Head(toShell) = EOF THEN Written(p, << <<"input">> >>) /\ proc' = Past(p)
             ELSE UNCHANGED <<toDriver, proc>>
  /\ UNCHANGED <<drvvars, syncvars, sh, hasty, early>>

(* The processes called mysplit..., with their states; a zombie is one too.*)
Split == {"mysplit", "mysplit_child", "mysplitp", "mysplitp_child"}
Listed == {q \in Procs : proc[q].prog \in Split /\ proc[q].st # "gone"}
Lines == {<<proc[q].prog, proc[q].st>> : q \in Listed} \cup {<<s, "stray">> : s \in stray \cap Split}
JobList(p) ==
  /\ At(p, {"list"})
  /\ IF Lines = {} THEN UNCHANGED toDriver ELSE Written(p, << <<"list", Lines>> >>)
  /\ early' = (early \/ \E q \in Listed : proc[q].sigs # {})
  /\ proc' = Past(p)
  /\ UNCHANGED <<drvvars, toShell, syncvars, sh, hasty>>

JobFork(p) ==
  /\ At(p, {"fork"})
  /\ \E c \in Procs : /\ Free(c)
                      /\ proc' = [Past(p) EXCEPT ![c] = NewProc(Child[proc[p].prog], proc[p].lead, p)]
  /\ UNCHANGED <<drvvars, datavars, syncvars, sh, hasty, early>>

JobWait(p) ==
  /\ At(p, {"wait"})
  /\ \A c \in Procs : proc[c].par = p => ~Alive(c)
  /\ proc' = Past(p)
  /\ UNCHANGED <<drvvars, datavars, syncvars, sh, hasty, early>>

\* whom an operation of p signals, and with what
Targets(p) == CASE Op(p) \in {"stop self", "int self"} -> {p}
                [] Op(p) \in {"stop child", "term child"} -> {c \in Procs : proc[c].par = p}
                [] OTHER -> {q \in Procs : proc[q].prog \in {"myspin1", "myspin2"}}
SignalOf(p) == CASE Op(p) \in {"stop self", "stop child"} -> "TSTP"
                 [] Op(p) = "int self" -> "INT"
                 [] OTHER -> "TERM"
JobKill(p) ==
  /\ At(p, {"stop self", "int self", "stop child", "term child", "term job"})
  /\ proc' = [q \in Procs |->
                LET r == IF q = p THEN [proc[q] EXCEPT !.at = @ + 1] ELSE proc[q]
                IN IF q \in Targets(p) /\ Alive(q) THEN Hit(r, SignalOf(p)) ELSE r]
  /\ UNCHANGED <<drvvars, datavars, syncvars, sh, hasty, early>>

(* kill(getppid(), ...) of myintp and mytstpp                              *)
JobKillsShell(p) ==
  /\ At(p, {"int shell", "stop shell"})
  /\ sh' = [sh EXCEPT !.sigs = @ \cup {IF Op(p) = "int shell" THEN "INT" ELSE "TSTP"}]
  /\ proc' = Past(p)
  /\ UNCHANGED <<drvvars, datavars, syncvars, hasty, early>>

JobExit(p) ==
  /\ At(p, {"exit"})
  /\ End(p, "exited")
  /\ UNCHANGED <<drvvars, datavars, syncvars, hasty, early>>

(* alarm(JOB_TIMEOUT) expires.  No wait of runtrace is half as long.       *)
JobAlarm(p) ==
  /\ proc[p].st = "run" /\ proc[p].prog \in Timed
  /\ End(p, "exited")
  /\ hasty' = (hasty \/ drv # "exited")
  /\ UNCHANGED <<drvvars, datavars, syncvars, early>>

----------------------------------------------------------------------------
(* The shell.  A job is in its table while job[p] is not "none".           *)

Foreground == {p \in Procs : sh.job[p] = "FG"}

\* the process groups that lose their shell: a stopped one gets a SIGHUP
Orphaned(p) == \/ Zombie(p) /\ proc[p].par = Shell
               \/ \E q \in Group(proc[p].lead) : proc[q].st = "stop"
ShellEnds ==
  /\ sh' = [sh EXCEPT !.pc = "dead"]
  /\ proc' = [p \in Procs |-> IF proc[p].st # "none" /\ Orphaned(p)
                             THEN [proc[p] EXCEPT !.st = "gone"] ELSE proc[p]]

PROMPT == <<"tsh> ">>
Prompt ==
  /\ sh.pc = "prompt"
  /\ Delivered(Append(sh.buf, PROMPT))
  /\ sh' = [sh EXCEPT !.pc = "read", !.buf = <<>>]
  /\ UNCHANGED <<drvvars, toShell, syncvars, proc, hasty, early>>

(* fgets() and, at the end of the file, the newline and exit(0).           *)
Fgets ==
  /\ sh.pc = "read"
  /\ toShell # <<>>
  /\ toShell' = Tail(toShell)
  /\ IF Head(toShell) = EOF
     THEN Delivered(Append(sh.buf, <<"newline">>)) /\ ShellEnds
     ELSE sh' = [sh EXCEPT !.pc = "eval", !.line = Head(toShell).line] /\ UNCHANGED <<toDriver, proc>>
  /\ UNCHANGED <<drvvars, syncvars, hasty, early>>

\* eval() of the line
CommandLines == UNION {{t[k].line : k \in DOMAIN t} : t \in Traces}
Parsed == [line \in CommandLines |-> Parser!parseline(line)]
Cmd == Parsed[sh.line]
Evaluates(builtins) ==
  sh.pc = "eval" /\ Cmd.bg # -1 /\ Cmd.tok.argv # <<>> /\ Cmd.builtins \cap builtins # {}
Arg(k) == Cmd.tok.argv[k]
Redirected(file) == Cmd.tok[file] # <<>>

(* A malformed line has its message, an empty one nothing.                 *)
EvalNothing ==
  /\ sh.pc = "eval" /\ (Cmd.bg = -1 \/ Cmd.tok.argv = <<>>)
  /\ IF Cmd.bg = -1 THEN Delivered(<< <<"error">> >>) ELSE UNCHANGED toDriver
  /\ sh' = [sh EXCEPT !.pc = "flush"]
  /\ UNCHANGED <<drvvars, toShell, syncvars, proc, hasty, early>>

\* the job that %1 or %2 names; bg and fg without one end the shell
JobsCalled(arg) == {p \in Procs : sh.jid[p] = (CASE arg = <<"%1">> -> 1 [] arg = <<"%2">> -> 2)}
NoSuchJob == Evaluates({"bg", "fg"}) /\ JobsCalled(Arg(2)) = {}
EvalQuit ==
  /\ Evaluates({"quit"}) \/ NoSuchJob
  /\ LET said == IF NoSuchJob THEN Append(sh.buf, <<"no such job">>) ELSE sh.buf
     IN IF said = <<>> THEN UNCHANGED toDriver ELSE Delivered(said)
  /\ ShellEnds
  /\ UNCHANGED <<drvvars, toShell, syncvars, hasty, early>>

(* listjobs() writes past the buffer of stdout.                            *)
Table == {<<sh.jid[p], sh.job[p], proc[p].prog>> : p \in {p \in Procs : sh.job[p] # "none"}}
EvalJobs ==
  /\ Evaluates({"jobs"})
  /\ IF Table = {} \/ Redirected("outfile") THEN UNCHANGED toDriver ELSE Delivered(<< <<"jobs", Table>> >>)
  /\ sh' = [sh EXCEPT !.pc = "flush"]
  /\ UNCHANGED <<drvvars, toShell, syncvars, proc, hasty, early>>

EvalBgFg ==
  /\ Evaluates({"bg", "fg"}) /\ ~NoSuchJob
  /\ \E p \in JobsCalled(Arg(2)) :
       /\ HitEach(Group(p), "CONT")
       /\ sh' = [sh EXCEPT !.pc = "resumed", !.cur = p]
  /\ UNCHANGED <<drvvars, datavars, syncvars, hasty, early>>

(* bjob->state = BG or FG.  SIGCHLD is unblocked: the job may have ended   *)
(* since, and what is written into its old entry is overwritten by the     *)
(* next addjob(), which in the traces takes that entry.                    *)
SetState ==
  /\ sh.pc = "resumed"
  /\ LET table(state) == [sh.job EXCEPT ![sh.cur] = IF @ = "none" THEN @ ELSE state]
     IN sh' = IF Cmd.builtins = {"bg"}
              THEN [sh EXCEPT !.pc = "flush", !.job = table("BG"),
                              !.buf = Append(@, <<"job", sh.jid[sh.cur]>>)]
              ELSE [sh EXCEPT !.pc = "fgtest", !.job = table("FG")]
  /\ UNCHANGED <<drvvars, datavars, syncvars, proc, hasty, early>>

\* the number addjob() gives: one more than the largest in use
NextJid == CHOOSE n \in 1..(MaxProcs + 1) :
             /\ \A p \in Procs : sh.jid[p] < n
             /\ n = 1 \/ \E p \in Procs : sh.jid[p] = n - 1
EvalRun ==
  /\ sh.pc = "eval" /\ Cmd.bg # -1 /\ Cmd.tok.argv # <<>> /\ Cmd.builtins = {}
  /\ \E p \in Procs :
       /\ Free(p)
       /\ proc' = [proc EXCEPT ![p] = [NewProc(Arg(1)[1], p, Shell) EXCEPT
                       !.infile = Redirected("infile"), !.outfile = Redirected("outfile")]]
       /\ sh' = IF Cmd.bg = 1
                THEN [sh EXCEPT !.pc = "flush", !.job[p] = "BG", !.jid[p] = NextJid,
                                !.buf = Append(@, <<"job", NextJid>>)]
                ELSE [sh EXCEPT !.pc = "evalwait", !.job[p] = "FG", !.jid[p] = NextJid, !.cur = p]
  /\ UNCHANGED <<drvvars, datavars, syncvars, hasty, early>>

(* while (pid == fgpid(job_list)) sigsuspend(&mask); of bgfg_command()     *)
FgTest ==
  /\ sh.pc = "fgtest"
  /\ sh' = [sh EXCEPT !.pc = IF sh.cur \in Foreground THEN "fgcall" ELSE "flush"]
  /\ UNCHANGED <<drvvars, datavars, syncvars, proc, hasty, early>>
FgSuspend ==
  /\ sh.pc = "fgcall"
  /\ sh' = [sh EXCEPT !.pc = "fgwait"]
  /\ UNCHANGED <<drvvars, datavars, syncvars, proc, hasty, early>>

Flush ==
  /\ sh.pc = "flush"
  /\ IF sh.buf # <<>> THEN Delivered(sh.buf) ELSE UNCHANGED toDriver
  /\ sh' = [sh EXCEPT !.pc = "prompt", !.buf = <<>>]
  /\ UNCHANGED <<drvvars, toShell, syncvars, proc, hasty, early>>

\* where a handler returns to when the table is j
After(j) == CASE sh.pc = "evalwait" /\ j[sh.cur] # "FG" -> "flush"
              [] sh.pc = "fgwait" -> "fgtest"
              [] OTHER -> sh.pc
Interruptible == sh.pc \in {"prompt", "read", "flush", "resumed", "fgtest", "fgcall", "fgwait", "evalwait"}

Ended(how) == {p \in Leaders : proc[p].st = how}
HaltedJobs == {p \in sh.stopped : proc[p].st = "stop"}

\* waitpid() reports the jobs in lost as ended; the table is then j
Reaped(lost, j, said) ==
  /\ proc' = [q \in Procs |-> IF q \in lost THEN [proc[q] EXCEPT !.st = "gone"] ELSE proc[q]]
  /\ sh' = [sh EXCEPT !.pc = After(j), !.job = j, !.buf = @ \o said, !.sigs = @ \ {"CHLD"},
                      !.jid = [p \in Procs |-> IF j[p] = "none" THEN 0 ELSE @[p]],
                      !.stopped = {p \in HaltedJobs : j[p] # "ST"}]
Without(lost) == [p \in Procs |-> IF p \in lost THEN "none" ELSE sh.job[p]]

(* It deletes the jobs that exited until it meets one that a signal ended  *)
(* or stopped; that one it reports, and returns without looking further.   *)
sigchld_handler ==
  /\ Interruptible /\ "CHLD" \in sh.sigs
  /\ \/ \E done \in SUBSET Ended("exited"), p \in Ended("killed") :
          Reaped(done \cup {p}, Without(done \cup {p}), << <<"ended", sh.jid[p]>> >>)
     \/ \E done \in SUBSET Ended("exited"), p \in HaltedJobs :
          Reaped(done, [Without(done) EXCEPT ![p] = "ST"], << <<"stopped", sh.jid[p]>> >>)
     \/ /\ Ended("killed") \cup HaltedJobs = {}
        /\ Reaped(Ended("exited"), Without(Ended("exited")), <<>>)
  /\ UNCHANGED <<drvvars, datavars, syncvars, hasty, early>>

(* sigint_handler and sigtstp_handler                                      *)
Forward(s) ==
  /\ Interruptible /\ s \in sh.sigs
  /\ HitEach(UNION {Group(p) : p \in Foreground}, s)
  /\ sh' = [sh EXCEPT !.pc = After(sh.job), !.sigs = @ \ {s}]
  /\ UNCHANGED <<drvvars, datavars, syncvars, hasty, early>>

ShellNext == \/ Prompt \/ Fgets \/ EvalNothing \/ EvalQuit \/ EvalJobs \/ EvalBgFg
             \/ SetState \/ EvalRun \/ FgTest \/ FgSuspend \/ Flush \/ sigchld_handler
             \/ \E s \in {"INT", "TSTP"} : Forward(s)
JobNext(p) == \/ Deliver(p) \/ JobSend(p) \/ JobRecv(p) \/ JobPrint(p) \/ JobCat(p)
              \/ JobList(p) \/ JobFork(p)
              \/ JobWait(p) \/ JobKill(p) \/ JobKillsShell(p) \/ JobExit(p)

----------------------------------------------------------------------------
(* runtrace                                                                *)

More == drv = "run" /\ next <= Len(trace)
Command(op) == More /\ trace[next].op = op
Done == next' = next + 1 /\ UNCHANGED <<trace, drv, verdict>>
Ends(why) == drv' = "exited" /\ verdict' = why /\ UNCHANGED <<trace, next>>

\* mutant: the first datagram is taken for the prompt
AnyDatagram(d) == TRUE
IsPrompt(d) == d = <<PROMPT>>
HasPrompt(d) == \E k \in DOMAIN d : d[k] = PROMPT
Buried(d) == HasPrompt(d) /\ ~IsPrompt(d)

(* The first datagram must be the prompt; without one it goes on all the   *)
(* same.                                                                   *)
FirstPrompt ==
  /\ drv = "start"
  /\ toDriver # <<>>
  /\ IF IsPrompt(Head(toDriver))
     THEN drv' = "run" /\ UNCHANGED <<trace, next, verdict>> ELSE Ends("no prompt")
  /\ toDriver' = Tail(toDriver)
  /\ UNCHANGED <<out, stray, mixed, toShell, syncvars, sh, proc, hasty, early>>

Wait ==
  /\ Command("WAIT")
  /\ syncUp > 0
  /\ syncUp' = syncUp - 1
  /\ Done
  /\ UNCHANGED <<out, stray, mixed, datavars, syncDown, sh, proc, hasty, early>>

(* One datagram of next_prompt()'s loop.                                   *)
NextPrompt ==
  /\ Command("NEXT")
  /\ toDriver # <<>>
  /\ toDriver' = Tail(toDriver)
  /\ IF IsPrompt(Head(toDriver)) THEN Done /\ UNCHANGED out
     ELSE out' = out \o Head(toDriver) /\ UNCHANGED <<trace, next, drv, verdict>>
  /\ mixed' = (mixed \/ Buried(Head(toDriver)))
  /\ UNCHANGED <<stray, toShell, syncvars, sh, proc, hasty, early>>

Signal ==
  /\ Command("SIGNAL")
  /\ syncDown' = syncDown + 1
  /\ Done
  /\ UNCHANGED <<out, stray, mixed, datavars, syncUp, sh, proc, hasty, early>>

KillShell(op, s) ==
  /\ Command(op)
  /\ sh' = [sh EXCEPT !.sigs = @ \cup {s}]
  /\ Done
  /\ UNCHANGED <<out, stray, mixed, datavars, syncvars, proc, hasty, early>>

SendLine ==
  /\ Command("line")
  /\ toShell' = Append(toShell, trace[next])
  /\ Done
  /\ UNCHANGED <<out, stray, mixed, toDriver, syncvars, sh, proc, hasty, early>>

SendEof ==
  /\ drv = "run" /\ next > Len(trace)
  /\ toShell' = Append(toShell, EOF)
  /\ drv' = "reap"
  /\ UNCHANGED <<trace, next, verdict, out, stray, mixed, toDriver, syncvars, sh, proc, hasty, early>>

\* mutant: the jobs of the shell are left alone
ShellOnly == {}
Names == {"tsh", "tshref", "mytstpp", "mytstps", "mycat", "myenv", "myintp", "myints", "myspin1", "sigterm_handler",
          "myspin2", "mysplit", "mysplit_child"}
Swept == {p \in Procs : proc[p].prog \in Names}

(* /bin/kill -9 of the programs by name, whoever started them; mysplitp is *)
(* not among the names.                                                    *)
clean ==
  /\ sh' = [sh EXCEPT !.pc = "dead"]
  /\ proc' = [p \in Procs |-> IF p \in Swept THEN [proc[p] EXCEPT !.st = "gone"] ELSE proc[p]]
  /\ stray' = stray \ Names

Reap ==
  /\ drv = "reap" /\ sh.pc = "dead"
  /\ clean
  /\ Ends("finished")
  /\ UNCHANGED <<out, mixed, datavars, syncvars, hasty, early>>

\* somebody could still do something while a timer runs
ShellBusy == \/ sh.pc \in {"prompt", "eval", "resumed", "fgtest", "fgcall", "flush"}
             \/ sh.pc = "read" /\ toShell # <<>>
             \/ Interruptible /\ sh.sigs # {}
JobBusy(p) == /\ proc[p].st = "run"
              /\ \/ proc[p].sigs # {}
                 \/ Op(p) \notin {"recv", "wait", "cat", "spin"}
                 \/ Op(p) = "recv" /\ syncDown > 0
                 \/ Op(p) = "wait" /\ \A c \in Procs : proc[c].par = p => ~Alive(c)
                 \/ Op(p) = "cat" /\ (proc[p].infile \/ toShell # <<>>)
Busy == ShellBusy \/ \E p \in Procs : JobBusy(p)
Expire == hasty' = (hasty \/ Busy)

FirstPromptTimeout ==
  /\ drv = "start" /\ toDriver = <<>>
  /\ drv' = "run"
  /\ Expire
  /\ UNCHANGED <<trace, next, verdict, out, stray, mixed, datavars, syncvars, sh, proc, early>>

\* readable() returns 0: neither exit calls clean()
ReadTimeout ==
  /\ \/ Command("WAIT") /\ syncUp = 0 /\ Ends("no sync")
     \/ Command("NEXT") /\ toDriver = <<>> /\ Ends("no prompt")
  /\ out' = Append(out, <<"timed out">>)
  /\ Expire
  /\ UNCHANGED <<stray, mixed, datavars, syncvars, sh, proc, early>>

\* mutant: no alarm(DRIVER_TIMEOUT) before waitpid()
NoAlarm == FALSE
Armed == drv = "reap"
sigalrm_handler ==
  /\ Armed /\ sh.pc # "dead"
  /\ clean
  /\ Ends("no exit")
  /\ out' = Append(out, <<"timed out">>)
  /\ Expire
  /\ UNCHANGED <<mixed, datavars, syncvars, early>>

DriverNext == \/ FirstPrompt \/ Wait \/ NextPrompt \/ Signal \/ SendLine \/ SendEof \/ Reap
              \/ KillShell("SIGINT", "INT") \/ KillShell("SIGTSTP", "TSTP")
              \/ FirstPromptTimeout \/ ReadTimeout \/ sigalrm_handler

\* a new shell, and nothing under way
Fresh ==
  [sh |-> [pc |-> "prompt", cur |-> 0, buf |-> <<>>, sigs |-> {}, stopped |-> {}, line |-> <<>>,
           job |-> [p \in Procs |-> "none"], jid |-> [p \in Procs |-> 0]],
   proc |-> [p \in Procs |-> NoProc]]
Init ==
  /\ trace \in Traces /\ next = 1 /\ drv = "start" /\ verdict = "none" /\ out = <<>> /\ stray = {}
  /\ toShell = <<>> /\ toDriver = <<>> /\ syncUp = 0 /\ syncDown = 0
  /\ sh = Fresh.sh /\ proc = Fresh.proc
  /\ mixed = FALSE /\ hasty = FALSE /\ early = FALSE

Next == DriverNext \/ ShellNext \/ \E p \in Running : JobNext(p) \/ JobAlarm(p)

----------------------------------------------------------------------------
(* When NEXT returns 1 the shell waits for the next line: runtrace has     *)
(* read every prompt, none is on its way, and no line is still unread, if  *)
(* every timer gave the others their time.                                 *)
NextIsInStep ==
  [][Command("NEXT") /\ next' = next + 1 /\ ~hasty =>
       sh.pc = "read" /\ toShell = <<>> /\ \A k \in DOMAIN toDriver' : ~HasPrompt(toDriver'[k])]_vars

\* the trace sends no two lines without a NEXT in between, unless none comes after them
OneLineAtATime(t) ==
  \A a, b, c \in 1..Len(t) :
    a < b /\ b < c /\ t[a].op = "line" /\ t[b].op = "line" /\ t[c].op = "NEXT"
      => \E k \in a..b : t[k].op = "NEXT"

\* the shell sleeps although its foreground job has ended or stopped
Asleep == /\ sh.pc \in {"evalwait", "fgwait"}
          /\ sh.sigs = {}
          /\ sh.cur \notin Foreground \/ ~Alive(sh.cur)

\* a job in the foreground reads what is meant for the shell
Reading == \E p \in Foreground : proc[p].st = "run" /\ Op(p) = "cat"

(* A wait that gave up although nobody could move any more has one of      *)
(* three causes: a prompt reached runtrace together with what a handler    *)
(* printed, the shell missed the end of its foreground job, or that job    *)
(* reads the shell's input.  In the traces of the repository only the      *)
(* second can happen, and only to the builtin fg.                          *)
TimeoutHasCause ==
  [][verdict = "none" /\ verdict' # "none" /\ verdict' # "finished" /\ ~hasty' =>
       /\ mixed \/ Asleep \/ Reading
       /\ trace \in Graded => Asleep /\ ~mixed /\ sh.pc = "fgwait"]_vars

(* A run that ends in the regular way leaves none of its jobs behind,      *)
(* whatever they were doing when the shell was told to quit: what is still *)
(* there has its SIGTERM already or is a program that ends by itself.      *)
NothingLeftBehind ==
  verdict = "finished" =>
    \A p \in Procs : Alive(p) => \/ proc[p].st = "run" /\ "TERM" \in proc[p].sigs
                               \/ proc[p].prog \in {"bin_echo", "bin_kill", "bin_ps"}
=============================================================================
