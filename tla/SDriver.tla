------------------------------ MODULE SDriver ------------------------------
(***************************************************************************)
(* src/tshlab/sdriver.c: the driver that grades a shell.  It runs every    *)
(* trace a number of times with runtrace against the test shell (module    *)
(* RunTrace, all of whose interleavings are kept) and against the          *)
(* reference shell, and compares what the two runs printed.                *)
(*                                                                         *)
(* ./tshref is a binary; of it the model says what it prints.  That takes  *)
(* one step, in which its run may also fail.                               *)
(***************************************************************************)
EXTENDS RunTrace, Functions

CONSTANTS TestLists,   \* the possible lists of trace files: all of them, or the one of -t
          Reference,   \* what runtrace prints of each with ./tshref
          ITERS        \* how many times each is run

ASSUME SDriverAssumption ==
  /\ TestLists \subseteq Seq(DOMAIN Reference \cap Traces) \ {<<>>}
  /\ ITERS \in Nat \ {0}

VARIABLES
  singletrace, \* is only one trace to be run (-t)?
  tests,       \* the traces
  i, j,        \* the trace and the iteration
  phase,       \* "test", "ref", "diff", "score", "scored" or "failed"
  refout,      \* what the reference shell printed
  correct,     \* per trace, whether its last run was
  num_correct,
  post,        \* the autoresult string: per trace "y" or "n"
  wrong        \* ghost: the traces that had a run with a difference

gradevars == <<singletrace, tests, i, j, correct, num_correct, post, wrong>>
sdvars == <<gradevars, phase, refout>>
allvars == <<vars, sdvars>>
outcome == <<trace, next, drv, verdict, out, mixed, hasty, early>>
runvars == <<outcome, datavars, syncvars, sh, proc>>

\* what this run of runtrace leaves behind
LeftNow == {proc[p].prog : p \in {p \in Procs : Alive(p)}}
             \cup (IF sh.pc = "dead" THEN {} ELSE {"tsh"})

\* no process and nothing under way
NewShell ==
  /\ toShell' = <<>> /\ toDriver' = <<>> /\ syncUp' = 0 /\ syncDown' = 0
  /\ sh' = Fresh.sh /\ proc' = Fresh.proc

(* system("./runtrace -s tsh -f trace > file"): when it returns, the shell *)
(* and the jobs may still be there, and the next program starts.  Its exit *)
(* status is only remarked on.  From here on the processes are strays.     *)
TestDone ==
  /\ phase = "test" /\ drv = "exited"
  /\ phase' = "ref"
  /\ stray' = stray \cup LeftNow
  /\ NewShell
  /\ UNCHANGED <<outcome, gradevars, refout>>

(* The same with ./tshref.  Its runtrace may miss the first prompt, is one *)
(* prompt behind then and does not read the end of the output; and if a    *)
(* stray is called mysplit the reference may print it.                     *)
Prefixes == {SubSeq(Reference[trace], 1, n) : n \in 0..Len(Reference[trace])}
Disturbed == << <<"list", {<<"mysplit", "stray">>}>> >>
RefOutputs == Prefixes \cup (IF stray \cap Split = {} THEN {} ELSE {Disturbed})

(* It ends with clean(), which finds the strays of the other run too ...   *)
RefDone ==
  /\ phase = "ref"
  /\ phase' = "diff"
  /\ refout' \in RefOutputs
  /\ stray' = stray \ Names
  /\ UNCHANGED <<runvars, gradevars>>

\* the programs a trace may start, and their children
Programs == DOMAIN Code \cap UNION {Range(trace[k].line) : k \in DOMAIN trace}
Startable == Programs \cup {Child[prog] : prog \in Programs \cap DOMAIN Child}

(* ... or waits in vain for a prompt: that ends it without clean() and     *)
(* with status 0 (runtrace.c:249-250), so that the driver goes on.  The    *)
(* shell stays and what it started, of which the model has everything.     *)
RefGivesUp ==
  /\ phase = "ref" /\ \E k \in DOMAIN trace : trace[k].op = "NEXT"
  /\ phase' = "diff"
  /\ \E said \in RefOutputs : refout' = Append(said, <<"timed out">>)
  /\ stray' = stray \cup {"tshref"} \cup Startable
  /\ UNCHANGED <<runvars, gradevars>>

(* Any other failure has a status that ends the driver.                    *)
RefFails ==
  /\ phase = "ref"
  /\ phase' = "failed"
  /\ UNCHANGED <<vars, gradevars, refout>>

\* a new runtrace, shell and sockets
StartTest(t) ==
  /\ trace' = t /\ next' = 1 /\ drv' = "start" /\ verdict' = "none" /\ out' = <<>>
  /\ NewShell
  /\ mixed' = FALSE /\ hasty' = FALSE /\ early' = FALSE
  /\ phase' = "test"
  /\ UNCHANGED stray

(* The outputs are filtered, each into a single line, and compared.        *)
Matches == out = refout

\* mutant: a trace that failed is run again all the same
KeepsGoing(ok) == j < ITERS
Again(ok) == j < ITERS /\ (ok \/ singletrace)

(* diff, and the two loops of main().                                      *)
Diff ==
  /\ phase = "diff"
  /\ correct' = [correct EXCEPT ![i] = Matches]
  /\ wrong' = IF Matches THEN wrong ELSE wrong \cup {i}
  /\ num_correct' = IF Matches /\ (singletrace \/ ~Again(Matches)) THEN num_correct + 1 ELSE num_correct
  /\ CASE Again(Matches) -> j' = j + 1 /\ StartTest(trace) /\ UNCHANGED i
       [] ~Again(Matches) /\ i < Len(tests) -> i' = i + 1 /\ j' = 1 /\ StartTest(tests[i + 1])
       [] OTHER -> phase' = "score" /\ UNCHANGED <<i, j, vars>>
  /\ refout' = <<>>  \* not read again
  /\ UNCHANGED <<singletrace, tests, post>>

\* the autoresult string is printed for -A; main() names no user, and
\* without one nothing is submitted
driver_post(result, autograded) == IF autograded THEN result ELSE <<>>
(* With -t there is a summary only.                                        *)
Score ==
  /\ phase = "score"
  /\ phase' = "scored"
  /\ \E autograded \in IF singletrace THEN {FALSE} ELSE BOOLEAN :
       post' = driver_post([k \in DOMAIN tests |-> IF correct[k] THEN "y" ELSE "n"], autograded)
  /\ UNCHANGED <<vars, singletrace, tests, i, j, correct, num_correct, wrong, refout>>

SDInit ==
  /\ Init
  /\ tests \in TestLists /\ trace = tests[1]
  /\ singletrace \in BOOLEAN /\ (singletrace => Len(tests) = 1)
  /\ i = 1 /\ j = 1 /\ phase = "test" /\ refout = <<>>
  /\ correct = [k \in DOMAIN tests |-> FALSE]
  /\ num_correct = 0 /\ post = <<>> /\ wrong = {}

Testing(A) == phase = "test" /\ A /\ UNCHANGED sdvars
SDStep == TestDone \/ RefDone \/ RefGivesUp \/ RefFails \/ Diff \/ Score
SDNext == SDStep \/ Testing(Next)

(* Nothing is asked of the shell or the jobs, which may hang; only that    *)
(* runtrace itself runs and its timers expire, and that the driver runs.   *)
SDSpec == SDInit /\ [][SDNext]_allvars /\ WF_allvars(SDStep) /\ WF_allvars(Testing(DriverNext))

----------------------------------------------------------------------------
(* A correct shell gets its points: the outputs of a repository's trace    *)
(* differ only if a timer was hasty or runtrace gave up (TimeoutHasCause   *)
(* says why it may), ps was faster than a signal sent before it or listed  *)
(* a stray of an earlier run, or the reference did not run its course.     *)
StrayListed == \E k \in DOMAIN out : out[k][1] = "list" /\ \E l \in out[k][2] : l[2] = "stray"
DifferenceHasCause ==
  [][phase = "diff" /\ trace \in Graded /\ ~Matches =>
       \/ hasty \/ verdict # "finished"
       \/ early \/ StrayListed
       \/ refout # Reference[trace]]_allvars

(* The posted points are those of the traces none of whose iterations      *)
(* showed a difference, and the printed score counts the same ones.        *)
ScoreIsEarned ==
  phase = "scored" /\ ~singletrace =>
    /\ post # <<>> => \A k \in DOMAIN tests : post[k] = "y" <=> k \notin wrong
    /\ num_correct = Cardinality(DOMAIN tests \ wrong)

(* A run that ends in the regular way leaves none of its jobs behind, and  *)
(* what other runs leave is gone when the same or the next trace is tried: *)
(* there remains at most mysplitp, which clean() does not know, and what   *)
(* ends by itself.  The exception is a reference whose runtrace gave up,   *)
(* with its shell among the strays; the next test that ends in the regular *)
(* way clears them (runtrace.c:249-250, 302-322, sdriver.c:256-276).       *)
Unknown == {"mysplitp", "mysplitp_child", "bin_echo", "bin_kill", "bin_ps"}
RunsDoNotMeet ==
  /\ NothingLeftBehind
  /\ phase = "test" =>
       \/ stray \subseteq Unknown
       \/ (verdict \notin {"finished", "no exit"} /\ "tshref" \in stray)

(* The driver ends, with a score or without, however the shell hangs.      *)
GradingEnds == <>(phase \in {"scored", "failed"})
=============================================================================
