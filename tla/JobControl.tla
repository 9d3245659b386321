----------------------------- MODULE JobControl -----------------------------
(***************************************************************************)
(* What job control promises to the user of the shell, without signals,    *)
(* handlers or a job array: "jobs" lists exactly the children that have    *)
(* not ended, a listed job was launched once and disappears only by        *)
(* ending, and its state changes only by stopping and resuming.            *)
(* Tsh.tla implements it (Tsh!ImplementsJobControl).                       *)
(***************************************************************************)
CONSTANT Pids

VARIABLES live,  \* children launched and not yet ended, as the shell knows
          tab    \* what "jobs" says of each pid, "none" when not listed

Launch(p, s) == /\ p \notin live
                /\ live' = live \cup {p}
                /\ tab' = [tab EXCEPT ![p] = s]

Stop(p)      == /\ p \in live
                /\ tab' = [tab EXCEPT ![p] = "ST"]
                /\ UNCHANGED live

Resume(p, s) == /\ p \in live
                /\ tab' = [tab EXCEPT ![p] = s]
                /\ UNCHANGED live

End(p)       == /\ p \in live
                /\ live' = live \ {p}
                /\ tab' = [tab EXCEPT ![p] = "none"]

Init == live = {} /\ tab = [p \in Pids |-> "none"]

Next == \E p \in Pids : \/ \E s \in {"FG", "BG"} : Launch(p, s) \/ Resume(p, s)
                        \/ Stop(p)
                        \/ End(p)

Spec == Init /\ [][Next]_<<live, tab>>
============================================================================
