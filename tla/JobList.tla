------------------------------ MODULE JobList ------------------------------
(***************************************************************************)
(* The job table of the tiny shell (src/tshlab/tsh.c, "Helper routines     *)
(* that manipulate the job list"): an array of MAXJOBS slots and the       *)
(* counter nextjid from which job numbers are handed out.                  *)
(*                                                                         *)
(* The helpers keep their C names.  cmdline[] is left out: nothing the     *)
(* shell decides depends on it.  Names are PIDs; a free slot has pid 0.    *)
(***************************************************************************)
EXTENDS Integers

CONSTANTS MAXJOBS,   \* slots of job_list (16 in the code)
          Pids,      \* the process ids fork() may return
          JidCap     \* bound on nextjid: no job is added beyond it

ASSUME JobListAssumption == /\ MAXJOBS \in Nat \ {0}
                            /\ Pids \subseteq Nat \ {0}
                            /\ JidCap \in Nat \ {0}

VARIABLES job_list,  \* struct job_t job_list[MAXJOBS]
          nextjid    \* next job ID to allocate

jobvars == <<job_list, nextjid>>

Slots  == 0 .. MAXJOBS - 1
States == {"UNDEF", "FG", "BG", "ST"}

\* The slot a loop "for (i = 0; i < MAXJOBS; i++) if (...)" stops at.
First(S) == CHOOSE i \in S : \A k \in S : i <= k

(* The cleared slot, and the table initjobs() leaves. *)
clearjob == [pid |-> 0, jid |-> 0, state |-> "UNDEF"]
initjobs == [i \in Slots |-> clearjob]

(* Largest allocated job ID, 0 for an empty table. *)
maxjid(list) ==
  CHOOSE m \in {list[i].jid : i \in Slots} \cup {0} :
     \A i \in Slots : list[i].jid <= m

----------------------------------------------------------------------------
(* Lookups.  getjobpid and getjobjid return the set of slots that match;   *)
(* the code's pointer is the First of it, NULL when it is empty.           *)
getjobpid(pid) == {i \in Slots : pid >= 1 /\ job_list[i].pid = pid}
getjobjid(jid) == {i \in Slots : jid >= 1 /\ job_list[i].jid = jid}

pid2jid(pid) == IF getjobpid(pid) = {} THEN 0
                ELSE job_list[First(getjobpid(pid))].jid

\* Mutant: any listed job is taken for the foreground job.
AnyPid == LET used == {i \in Slots : job_list[i].state # "UNDEF"}
          IN  IF used = {} THEN 0 ELSE job_list[First(used)].pid

(* PID of the first slot in state FG (0 when none is). *)
fgpid == LET fg == {i \in Slots : job_list[i].state = "FG"}
         IN  IF fg = {} THEN 0 ELSE job_list[First(fg)].pid

----------------------------------------------------------------------------
(* Updates *)

FreeSlots == {i \in Slots : job_list[i].pid = 0}

\* nextjid++ and the wrap to 1 beyond MAXJOBS
BumpJid(jid) == IF jid + 1 > MAXJOBS THEN 1 ELSE jid + 1

addjob(pid, state) ==
  IF pid < 1 \/ FreeSlots = {}
  THEN UNCHANGED jobvars
  ELSE /\ job_list' = [job_list EXCEPT ![First(FreeSlots)] =
                         [pid |-> pid, jid |-> nextjid, state |-> state]]
       /\ nextjid' = BumpJid(nextjid)

\* nextjid = maxjid(job_list) + 1, on the table the job was removed from
JidAfterDelete(list) == maxjid(list) + 1

deletejob(pid) ==
  IF getjobpid(pid) = {}
  THEN UNCHANGED jobvars
  ELSE /\ job_list' = [job_list EXCEPT ![First(getjobpid(pid))] = clearjob]
       /\ nextjid' = JidAfterDelete(job_list')

SetState(i, state) ==
  /\ job_list' = [job_list EXCEPT ![i].state = state]
  /\ UNCHANGED nextjid

JobListInit == job_list = initjobs /\ nextjid = 1

----------------------------------------------------------------------------
(* Type invariant of the table: every slot holds a pid (or 0), a jid       *)
(* within the bound and one of the four states, and the counter is a       *)
(* positive number (tsh.c:60-73).                                          *)
JobListTypeOK ==
  /\ job_list \in [Slots -> [pid : Pids \cup {0}, jid : 0 .. JidCap, state : States]]
  /\ nextjid \in 1 .. (IF JidCap < MAXJOBS THEN MAXJOBS ELSE JidCap + 1)

Listed == {job_list[i].pid : i \in Slots} \ {0}

(* A pid is in at most one slot, so that the first match of getjobpid and  *)
(* deletejob is the job (tsh.c:628, 656), although pids are reused.        *)
PidsUnique ==
  \A i, k \in Slots :
     job_list[i].pid # 0 /\ job_list[i].pid = job_list[k].pid => i = k

(* Numbering restarts at 1 whenever the table is empty, whatever sequence  *)
(* of wraps and deletions came before: the trace files (trace05.txt and    *)
(* later) start jobs one after the other and name them %1, %2.             *)
EmptyTableRestartsAtOne ==
  (\A i \in Slots : job_list[i].pid = 0) => nextjid = 1

(* "%id" names a job (tsh.c:7-8, 662): no two jobs in the table share a    *)
(* number, so that getjobjid of a listed job's number finds that job.  A   *)
(* number that has wrapped (603) breaks it.                                *)
JidNamesJob ==
  \A i, k \in Slots : /\ job_list[i].pid # 0
                      /\ job_list[k].pid # 0
                      /\ job_list[i].jid = job_list[k].jid
                      => i = k
============================================================================
