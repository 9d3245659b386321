----------------------------- MODULE MCSDriver -----------------------------
(***************************************************************************)
(* Trace files for SDriver.tla: all those of src/tshlab (trace00 has no    *)
(* command), without the lines with which most of them echo the next       *)
(* command; two that kill a job in the background, which none of them      *)
(* does; two with lines as nobody writes them; and one that does not wait. *)
(***************************************************************************)
EXTENDS SDriver, TLC

Quit == Line(<<"quit">>)
Jobs == Line(<<"jobs">>)
WAIT == Word("WAIT")
NEXT == Word("NEXT")
SIGNAL == Word("SIGNAL")
Run(prog) == Line(<<prog>>)
RunInBackground(prog) == Line(<<prog, " ", "&">>)
Fg(jid) == Line(<<"fg", " ", jid>>)
Bg(jid) == Line(<<"bg", " ", jid>>)

trace00 == <<>>
trace01 == <<Quit>>
trace02 == <<Run("myenv"), NEXT>>
trace03 == <<Run("myspin1"), WAIT, SIGNAL, Quit>>
trace04 == <<Run("bin_echo"), NEXT, Quit>>
trace05 == <<Run("bin_echo"), NEXT, RunInBackground("myspin1"), NEXT, WAIT, SIGNAL,
             Run("bin_echo"), NEXT, Quit>>
trace06 == <<RunInBackground("myspin1"), NEXT, Run("myspin2"), WAIT, WAIT,
             SIGNAL, SIGNAL, NEXT, Quit>>
trace07 == <<RunInBackground("myspin1"), NEXT, RunInBackground("myspin2"), NEXT,
             WAIT, WAIT, Jobs, NEXT, Quit>>
trace08 == <<Run("myintp"), NEXT, Quit>>
trace09 == <<Run("mytstpp"), NEXT, Jobs, NEXT, Quit>>
trace10 == <<RunInBackground("myspin1"), NEXT, WAIT, Run("bin_kill"), NEXT,
             SIGNAL, SIGNAL, WAIT, Run("bin_echo"), NEXT, Quit>>
trace11 == <<Run("myints"), NEXT, Quit>>
trace12 == <<Run("mytstps"), NEXT, Jobs, NEXT, Quit>>
trace13 == <<RunInBackground("myspin1"), NEXT, WAIT, Run("myintp"), NEXT, Jobs, NEXT,
             SIGNAL, Quit>>
trace14 == <<RunInBackground("myspin1"), NEXT, WAIT, Run("mytstpp"), NEXT, Jobs, NEXT,
             SIGNAL, Quit>>
trace15 == <<Run("mytstpp"), NEXT, Bg("%1"), NEXT, Jobs, NEXT, Quit>>
trace16 == <<RunInBackground("myspin1"), NEXT, WAIT, Run("mytstpp"), NEXT, Jobs, NEXT,
             Bg("%2"), NEXT, Jobs, NEXT, SIGNAL, Quit>>
trace17 == <<Run("mytstps"), NEXT, Jobs, NEXT, Fg("%1"), NEXT, Quit>>
trace18 == <<RunInBackground("myspin1"), WAIT, NEXT, Run("mytstps"), NEXT, Jobs, NEXT,
             Fg("%2"), NEXT, SIGNAL, Quit>>
\* ps is run by a shell of its own, with the pipeline in quotes
Ps == Line(<<"bin_ps", " ", "-c", " ", "'", "ps h", " ", "|", " ", "fgrep mysplit", "'">>)
trace19 == <<Line(<<"mysplit", " ", "10", " ">>), WAIT, Word("SIGINT"), NEXT, Ps, NEXT, Quit>>
trace20 == <<Line(<<"mysplit", " ", "10", " ">>), WAIT, Word("SIGTSTP"), NEXT, Ps, NEXT, Quit>>
trace21 == <<Run("mysplitp"), NEXT, Ps, NEXT, Fg("%1"), NEXT, Ps, NEXT, Quit>>
trace22 == <<Line(<<"mycat", " ", "<", " ", "mycat.c">>), NEXT, Quit>>
trace23 == <<Line(<<"mycat", " ", "<", " ", "mycat.c", " ", ">", " ", "/dev/null">>), NEXT,
             RunInBackground("myspin1"), NEXT, WAIT,
             Line(<<"jobs", " ", ">", " ", "/dev/null">>), NEXT, Quit>>
trace24 == <<Line(<<"mycat", " ", ">", " ", "/dev/null", " ", "<", " ", "mycat.c", " ">>), NEXT,
             RunInBackground("myspin1"), NEXT, WAIT,
             Line(<<"jobs", " ", ">", " ", "/dev/null">>), NEXT, Quit>>

Repository == {trace00, trace01, trace02, trace03, trace04, trace05, trace06, trace07, trace08,
               trace09, trace10, trace11, trace12, trace13, trace14, trace15, trace16, trace17,
               trace18, trace19, trace20, trace21, trace22, trace23, trace24}

killed == <<RunInBackground("myspin2"), NEXT, WAIT, Run("bin_kill"), NEXT, Quit>>
killedLate == <<RunInBackground("myspin2"), NEXT, RunInBackground("bin_kill"), NEXT, Quit>>

\* lines as nobody writes them
Odd(line) == <<Line(line), NEXT>>
layouts ==
  Odd(<<"<", "mycat.c", " ", "mycat">>) \o Odd(<<"mycat", " ", "<", " ", "'", "mycat.c", "'", ">", "log">>)
    \o Odd(<<" ", "&">>) \o Odd(<<"mycat", " ", "a", " ", "<", "mycat.c", " ", "b", " ", "c", " ", ">", "log">>)
    \o <<Quit>>
malformed ==
  Odd(<<"mycat", " ", "<", " ", "mycat.c", " ", "<", " ", "mycat.c">>) \o Odd(<<"mycat", " ", ">">>)
    \o Odd(<<"mycat", " ", "<", ">", "log">>) \o Odd(<<"'", "mycat">>) \o <<Quit>>
\* a job that reads the terminal
reader == <<Run("mycat"), Jobs, NEXT, Quit>>

job(n) == <<"job", n>>
stopped(n) == <<"stopped", n>>
ended(n) == <<"ended", n>>
listing(jobs) == <<"jobs", jobs>>
echo == <<"from", "bin_echo">>
file == <<"file">>
error == <<"error">>
MCReference ==
     trace00 :> <<>>
  @@ trace01 :> <<>>
  @@ trace02 :> << <<"from", "myenv">> >>
  @@ trace03 :> <<>>
  @@ trace04 :> <<echo>>
  @@ trace05 :> <<echo, job(1), echo>>
  @@ trace06 :> <<job(1)>>
  @@ trace07 :> <<job(1), job(2), listing({<<1, "BG", "myspin1">>, <<2, "BG", "myspin2">>})>>
  @@ trace08 :> <<ended(1)>>
  @@ trace09 :> <<stopped(1), listing({<<1, "ST", "mytstpp">>})>>
  @@ trace10 :> <<job(1), <<"from", "sigterm_handler">>, echo>>
  @@ trace11 :> <<ended(1)>>
  @@ trace12 :> <<stopped(1), listing({<<1, "ST", "mytstps">>})>>
  @@ trace13 :> <<job(1), ended(2), listing({<<1, "BG", "myspin1">>})>>
  @@ trace14 :> <<job(1), stopped(2), listing({<<1, "BG", "myspin1">>, <<2, "ST", "mytstpp">>})>>
  @@ trace15 :> <<stopped(1), job(1), listing({<<1, "BG", "mytstpp">>})>>
  @@ trace16 :> <<job(1), stopped(2), listing({<<1, "BG", "myspin1">>, <<2, "ST", "mytstpp">>}),
                  job(2), listing({<<1, "BG", "myspin1">>, <<2, "BG", "mytstpp">>})>>
  @@ trace17 :> <<stopped(1), listing({<<1, "ST", "mytstps">>})>>
  @@ trace18 :> <<job(1), stopped(2), listing({<<1, "BG", "myspin1">>, <<2, "ST", "mytstps">>})>>
  @@ trace19 :> <<ended(1)>>
  @@ trace20 :> <<stopped(1), <<"list", {<<"mysplit", "stop">>, <<"mysplit_child", "stop">>}>> >>
  @@ trace21 :> <<stopped(1), <<"list", {<<"mysplitp", "stop">>, <<"mysplitp_child", "stop">>}>> >>
  @@ trace22 :> <<file>>
  @@ trace23 :> <<job(1)>>
  @@ trace24 :> <<job(1)>>
  @@ killed :> <<job(1), ended(1)>>
  @@ killedLate :> <<job(1), job(2), ended(1)>>
  @@ layouts :> <<file, file>>  \* a redirection past MAXARGS is not seen
  @@ malformed :> <<error, error, error, error>>
  @@ reader :> <<>>

MCTraces == DOMAIN MCReference
MCGraded == Repository \cup {layouts, malformed}
\* what the theorem about NEXT asks of a trace; reader does not do so
ASSUME GradedWait == \A t \in MCGraded : OneLineAtATime(t)
\* the longer trace first: what a run leaves behind meets a short one
MCTestLists ==
  {<<trace16, trace01>>, <<trace13, trace00>>, <<trace14, trace02>>, <<trace18, trace04>>,
   <<trace17, trace09>>, <<trace07, trace01>>, <<trace19, trace12>>, <<trace20, trace03>>,
   <<trace15, trace23>>, <<trace21, trace01>>, <<trace24, trace22>>, <<trace10, trace01>>,
   <<trace06, trace08>>, <<trace05, trace11>>, <<killedLate, killed>>, <<layouts, malformed>>,
   <<trace04>>, <<reader>>}
=============================================================================
