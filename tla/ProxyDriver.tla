----------------------------- MODULE ProxyDriver -----------------------------
(***************************************************************************)
(* src/proxylab/driver.sh, the script that grades a proxy, with the two    *)
(* servers it sets up around it, Tiny and nop-server.py.  The script is a  *)
(* sequence of instructions; what makes it hard to trust is everything     *)
(* that runs beside it: servers that start and store in their own time, a  *)
(* fetch in the background, and other programs that want ports too.        *)
(*                                                                         *)
(* The proxy is whatever program is being graded, known by its abilities.  *)
(* A file is named by its content's name; what a download leaves is only   *)
(* compared.                                                               *)
(***************************************************************************)
EXTENDS Integers, Sequences, FiniteSets

Seqs == INSTANCE SequencesExt

CONSTANTS BASIC_LIST, CACHE_LIST, FETCH_FILE,
          PORT_START, PORT_MAX, MAX_RAND,
          StrayPorts, \* where a server of an earlier run may still be
          Proxies,   \* the proxies to grade
          MaxOthers  \* bound: how often a program of somebody else takes a port

Files == {BASIC_LIST[i] : i \in DOMAIN BASIC_LIST} \cup {CACHE_LIST[i] : i \in DOMAIN CACHE_LIST}

ASSUME ProxyDriverAssumption ==
  /\ BASIC_LIST # <<>> /\ FETCH_FILE \in Files
  /\ PORT_START \in Nat \ {0} /\ PORT_MAX >= PORT_START + MAX_RAND - 1 /\ MAX_RAND \in Nat \ {0}
  /\ MaxOthers \in Nat /\ StrayPorts \subseteq PORT_START .. PORT_MAX
  \* relays: the files it hands on unchanged; caches: "never", or as soon as
  \* a reply ends ("early"), or some time after it ("late", as in proxy.c);
  \* quits: a SIGTERM ends it
  /\ \A k \in Proxies : /\ k.relays \subseteq Files
                        /\ k.concurrent \in BOOLEAN /\ k.quits \in BOOLEAN
                        /\ k.caches \in {"never", "early", "late"}

MAX_BASIC == 40
MAX_CONCURRENCY == 15
MAX_CACHE == 15

Ports == PORT_START .. PORT_MAX
Servers == {"tiny", "proxy", "nop"}
Dirs == {"PROXY_DIR", "NOPROXY_DIR"}

----------------------------------------------------------------------------
(* The script                                                              *)

Do(op, on, to) == [op |-> op, on |-> on, to |-> to]
Boot(s) == << Do("free_port", s, ""), Do("start", s, ""), Do("wait_for_port_use", s, "") >>
Stop(s) == << Do("kill", s, ""), Do("wait", s, "") >>
Through(f, d) == << Do("download_proxy", f, d) >>
Direct(f) == << Do("download_noproxy", f, "NOPROXY_DIR") >>
Clear == << Do("clear_dirs", "", "") >>
Diff(f, test) == << Do("diff", f, test) >>

BasicTest(f) == Clear \o Through(f, "PROXY_DIR") \o Direct(f) \o Diff(f, "Basic")

Basic == Boot("tiny") \o Boot("proxy")
         \o Seqs!FlattenSeq([i \in DOMAIN BASIC_LIST |-> BasicTest(BASIC_LIST[i])])
         \o Stop("tiny") \o Stop("proxy")

Concurrency ==
  Boot("tiny") \o Boot("proxy") \o Boot("nop") \o Clear
  \o << Do("fetch from nop-server &", "", "") >>
  \o Direct(FETCH_FILE) \o Through(FETCH_FILE, "PROXY_DIR") \o Diff(FETCH_FILE, "Concurrency")
  \o Stop("tiny") \o Stop("proxy") \o Stop("nop")

Fetches(n) == Seqs!FlattenSeq([i \in 1 .. n |-> Through(CACHE_LIST[i], "PROXY_DIR")])
OnlyFirst == Fetches(1)  \* mutant: the loop ends after one file
FetchCacheList == Fetches(Len(CACHE_LIST))

Cache == Boot("tiny") \o Boot("proxy") \o Clear \o FetchCacheList
         \o Stop("tiny")
         \o Through(FETCH_FILE, "NOPROXY_DIR") \o Diff(FETCH_FILE, "Cache")
         \o Stop("proxy")

Script == << Do("killall", "", ""), Do("check files", "", "") >> \o Basic \o Concurrency \o Cache

----------------------------------------------------------------------------
VARIABLES
  proxy,     \* the proxy being graded
  step,      \* the next instruction
  verdict,   \* "none" until the script ends: "done", "missing file", "no server"
  port,      \* the port the script has chosen for each server, 0 before that
  used,      \* who has a port: "none", a server, a "stray" one, or some "other"
  starting,  \* servers that were started and have not called bind() yet
  nopcurl,   \* the background fetch: "none", "sent", or "taken" by the proxy
  held,      \* the proxy waits for the answer of nop-server
  cache,     \* the files the proxy can serve by itself
  storing,   \* the files it has sent and is about to store
  dir,       \* what the download directories hold
  points,    \* successes of each test
  others,    \* counts the ports that programs of others have taken
  grabbed, hasty, overtook, rushed  \* ghosts, explained at the properties

scriptvars == <<proxy, step, verdict, port, points>>
proxyvars == <<nopcurl, held, cache, storing>>
ghosts == <<grabbed, hasty, overtook, rushed>>
vars == <<scriptvars, others, used, starting, proxyvars, dir, ghosts>>

Runs(s) == \E p \in Ports : used[p] = s
At(s) == IF port[s] \in Ports THEN used[port[s]] ELSE "none"  \* who answers there

Op(op) == verdict = "none" /\ step <= Len(Script) /\ Script[step].op = op
This == Script[step]
Goes == step' = step + 1 /\ UNCHANGED <<proxy, verdict>>
Ends(why) == verdict' = why /\ UNCHANGED <<proxy, step>>

----------------------------------------------------------------------------
(* Setting up                                                              *)

(* killall proxy tiny nop-server.py: what it hits goes some time later.    *)
killall == Op("killall") /\ Goes
           /\ UNCHANGED <<port, points, others, used, starting, proxyvars, dir, ghosts>>

CheckFiles == /\ Op("check files")
              /\ Goes \/ Ends("missing file")
              /\ UNCHANGED <<port, points, others, used, starting, proxyvars, dir, ghosts>>

\* The first unused port from a random one on; -1 when there is none.
FirstFree(r) ==
  LET free == {p \in r .. PORT_MAX : used[p] = "none"}
  IN IF free = {} THEN -1 ELSE CHOOSE p \in free : \A q \in free : p <= q

free_port ==
  /\ Op("free_port")
  /\ \E r \in PORT_START .. PORT_START + MAX_RAND - 1 :
       port' = [port EXCEPT ![This.on] = FirstFree(r)]
  /\ Goes
  /\ UNCHANGED <<points, others, used, starting, proxyvars, dir, ghosts>>

Start ==
  /\ Op("start")
  /\ starting' = starting \cup {This.on}
  /\ Goes
  /\ UNCHANGED <<port, points, others, used, proxyvars, dir, ghosts>>

(* bind() in the server.  One that does not get its port exits.            *)
Bind(s) ==
  /\ s \in starting
  /\ starting' = starting \ {s}
  /\ used' = IF port[s] \in Ports /\ used[port[s]] = "none"
             THEN [used EXCEPT ![port[s]] = s] ELSE used
  /\ UNCHANGED <<scriptvars, others, proxyvars, dir, ghosts>>

PortInUse(s) == At(s) # "none"

(* It looks for anybody at the port, and signals ALRM to the script after  *)
(* MAX_PORT_TRIES looks; the trap kills the script.                        *)
wait_for_port_use ==
  /\ Op("wait_for_port_use")
  /\ \/ PortInUse(This.on) /\ Goes /\ UNCHANGED hasty
     \/ ~PortInUse(This.on) /\ Ends("no server")
        /\ hasty' = (hasty \/ This.on \in starting)
  /\ grabbed' = (grabbed \/ At(This.on) \notin {This.on, "none"})
  /\ UNCHANGED <<port, points, others, used, starting, proxyvars, dir, overtook, rushed>>

Empty == [f \in Files |-> "none"]
Kept == dir  \* mutant: nothing is removed
Cleared == [d \in Dirs |-> Empty]
clear_dirs ==
  /\ Op("clear_dirs")
  /\ dir' = Cleared
  /\ Goes
  /\ UNCHANGED <<port, points, others, used, starting, proxyvars, ghosts>>

----------------------------------------------------------------------------
(* Downloads.  What one leaves in its directory: "good", the file as Tiny  *)
(* has it, "bad", anything else made of it, "part" of it, or an answer of  *)
(* some "other" program; "none" is no file.  curl opens the file when the  *)
(* first data comes, so that a download without any leaves what was there. *)

Nothing == UNCHANGED dir
Leaves(content) == dir' = [dir EXCEPT ![This.to][This.on] = content]

(* curl, when somebody who is not one of the servers, or nobody, answers   *)
(* at the port of s.                                                       *)
Elsewhere(s) ==
  /\ At(s) # s
  /\ \/ Nothing
     \/ At(s) = "other" /\ Leaves("other")
  /\ UNCHANGED <<used, proxyvars, overtook, rushed>>

\* a proxy that serves one client at a time serves nobody else meanwhile
Ready == proxy.concurrent \/ (~held /\ storing = {})

Copy(f) == IF f \in proxy.relays THEN "good" ELSE "bad"
Keeps(f) ==
  /\ cache' = IF proxy.caches = "early" THEN cache \cup {f} ELSE cache
  /\ storing' = IF proxy.caches = "late" THEN storing \cup {f} ELSE storing

(* The proxy answers, with its own copy or with what it gets at the port   *)
(* of Tiny.  Nobody there, it sends an error or nothing, and may end, as   *)
(* proxy.c does.                                                           *)
ProxyAnswers ==
  /\ At("proxy") = "proxy" /\ Ready
  /\ overtook' = (overtook \/ nopcurl = "sent")
  /\ rushed' = (rushed \/ This.on \in storing)
  /\ \/ /\ This.on \in cache
        /\ Leaves(Copy(This.on))
        /\ UNCHANGED <<used, proxyvars>>
     \/ /\ This.on \notin cache /\ At("tiny") = "tiny"
        /\ Leaves(Copy(This.on))
        /\ Keeps(This.on)
        /\ UNCHANGED <<used, nopcurl, held>>
     \/ /\ This.on \notin cache /\ At("tiny") # "tiny"
        /\ Nothing \/ Leaves("bad") \/ (At("tiny") = "other" /\ Leaves("other"))
        /\ \/ UNCHANGED <<used, proxyvars>>
           \/ /\ used' = [used EXCEPT ![port["proxy"]] = "none"]
              /\ cache' = {} /\ storing' = {} /\ held' = FALSE /\ UNCHANGED nopcurl

\* mutant: curl without --max-time
NoMaxTime == FALSE
MaxTime == Op("download_proxy") \/ Op("download_noproxy")

(* curl gives up after TIMEOUT seconds.  Bound: on a program that is only  *)
(* slow to answer it does so once in a run of the script.                  *)
TimesOut(stuck) ==
  /\ MaxTime
  /\ stuck \/ ~hasty \/ ~Ready
  /\ Nothing \/ (~stuck /\ Leaves("part"))
  /\ hasty' = (hasty \/ ~stuck)
  /\ UNCHANGED <<used, proxyvars, overtook, rushed>>

download_proxy ==
  /\ Op("download_proxy")
  /\ \/ Elsewhere("proxy") /\ UNCHANGED hasty
     \/ ProxyAnswers /\ UNCHANGED hasty
     \/ TimesOut(At("proxy") = "other" \/ (At("proxy") = "proxy" /\ held /\ ~proxy.concurrent))
  /\ Goes
  /\ UNCHANGED <<port, points, others, starting, grabbed>>

download_noproxy ==
  /\ Op("download_noproxy")
  /\ \/ Elsewhere("tiny") /\ UNCHANGED hasty
     \/ At("tiny") = "tiny" /\ Leaves("good")
        /\ UNCHANGED <<used, proxyvars, hasty, overtook, rushed>>
     \/ TimesOut(At("tiny") = "other")
  /\ Goes
  /\ UNCHANGED <<port, points, others, starting, grabbed>>

(* The fetch through the proxy that nop-server never answers.  That it     *)
(* times out itself changes nothing the script looks at.                   *)
FetchInBackground ==
  /\ Op("fetch from nop-server &")
  /\ nopcurl' = "sent"
  /\ Goes
  /\ UNCHANGED <<port, points, others, used, starting, held, cache, storing, dir, ghosts>>

(* nop-server accepts a connection and spins.                              *)
TakeNop ==
  /\ nopcurl = "sent" /\ At("proxy") = "proxy" /\ Ready
  /\ nopcurl' = "taken"
  /\ held' = (At("nop") = "nop")
  /\ UNCHANGED <<scriptvars, others, used, starting, cache, storing, dir, ghosts>>

Store(f) ==
  /\ f \in storing
  /\ storing' = storing \ {f}
  /\ cache' = cache \cup {f}
  /\ UNCHANGED <<scriptvars, others, used, starting, nopcurl, held, dir, ghosts>>

----------------------------------------------------------------------------
(* Comparing and cleaning up                                               *)

\* diff -q, with exit status 0; two parts of a file may be the same
Agrees(a, b) == (a = b /\ a # "none") \/ (a = "part" /\ b = "part")
Differs(a, b) == a # b \/ a \in {"none", "part"}
Compared == IF This.to = "Cache" THEN "good" ELSE dir["PROXY_DIR"][This.on]

Diffs ==
  /\ Op("diff")
  /\ \/ /\ Agrees(Compared, dir["NOPROXY_DIR"][This.on])
        /\ points' = [points EXCEPT ![This.to] = @ + 1]
     \/ /\ Differs(Compared, dir["NOPROXY_DIR"][This.on])
        /\ UNCHANGED points
  /\ Goes
  /\ UNCHANGED <<port, others, used, starting, proxyvars, dir, ghosts>>

Dies(s) == s = "proxy" => proxy.quits

Kill ==
  /\ Op("kill")
  /\ IF Dies(This.on)
     THEN /\ used' = [p \in Ports |-> IF used[p] = This.on THEN "none" ELSE used[p]]
          /\ starting' = starting \ {This.on}
          /\ IF This.on = "proxy"
             THEN nopcurl' = "none" /\ held' = FALSE /\ cache' = {} /\ storing' = {}
             ELSE UNCHANGED proxyvars
     ELSE UNCHANGED <<used, starting, proxyvars>>
  /\ Goes
  /\ UNCHANGED <<port, points, others, dir, ghosts>>

Gone(s) == ~Runs(s) /\ s \notin starting
Wait ==
  /\ Op("wait")
  /\ Gone(This.on)
  /\ Goes
  /\ UNCHANGED <<port, points, others, used, starting, proxyvars, dir, ghosts>>

Total ==
  /\ verdict = "none" /\ step > Len(Script)
  /\ Ends("done")
  /\ UNCHANGED <<port, points, others, used, starting, proxyvars, dir, ghosts>>

basicScore == (MAX_BASIC * points["Basic"]) \div Len(BASIC_LIST)
concurrencyScore == MAX_CONCURRENCY * points["Concurrency"]
cacheScore == MAX_CACHE * points["Cache"]
totalScore == basicScore + cacheScore + concurrencyScore

----------------------------------------------------------------------------
(* Other programs come and go, and strays die of the killall.              *)
Grab(p) ==
  /\ used[p] = "none" /\ others < MaxOthers
  /\ used' = [used EXCEPT ![p] = "other"]
  /\ others' = others + 1
  /\ UNCHANGED <<scriptvars, starting, proxyvars, dir, ghosts>>
Release(p) ==
  /\ used[p] = "other" \/ (used[p] = "stray" /\ step > 1)
  /\ used' = [used EXCEPT ![p] = "none"]
  /\ UNCHANGED <<scriptvars, others, starting, proxyvars, dir, ghosts>>

Init ==
  /\ proxy \in Proxies
  /\ others = 0
  /\ step = 1 /\ verdict = "none"
  /\ port = [s \in Servers |-> 0]
  /\ \E S \in SUBSET StrayPorts : used = [p \in Ports |-> IF p \in S THEN "stray" ELSE "none"]
  /\ starting = {}
  /\ nopcurl = "none" /\ held = FALSE /\ cache = {} /\ storing = {}
  \* the repository itself holds what an earlier run left there
  /\ dir \in {[d \in Dirs |-> [f \in Files |-> c]] : c \in {"none", "good"}}
  /\ points = [t \in {"Basic", "Concurrency", "Cache"} |-> 0]
  /\ grabbed = FALSE /\ hasty = FALSE /\ overtook = FALSE /\ rushed = FALSE

Driver == \/ killall \/ CheckFiles \/ free_port \/ Start \/ wait_for_port_use \/ clear_dirs
          \/ download_proxy \/ download_noproxy \/ FetchInBackground \/ Diffs
          \/ Kill \/ Wait \/ Total
Next == \/ Driver
        \/ \E s \in Servers : Bind(s)
        \/ TakeNop
        \/ \E f \in Files : Store(f)
        \/ \E p \in Ports : Grab(p) \/ Release(p)

(* Only the script and its timers are sure to go on.                       *)
Spec == Init /\ [][Next]_vars /\ WF_vars(Driver)

----------------------------------------------------------------------------
(* Nobody gets points for what the proxy cannot do, provided no other      *)
(* program was taken for a server the script started (grabbed) and no timer        *)
(* expired on a program that would still have answered (hasty).  The       *)
(* concurrency test has one more gap: it never looks whether the proxy has *)
(* taken the blocking request when it sends the second one (overtook).     *)
(* Points for caching are always earned.                                   *)
PointsAreEarned ==
  /\ ~grabbed /\ ~hasty =>
       points["Basic"] <= Cardinality({i \in DOMAIN BASIC_LIST : BASIC_LIST[i] \in proxy.relays})
  /\ points["Concurrency"] > 0 /\ ~grabbed /\ ~hasty =>
       FETCH_FILE \in proxy.relays /\ (proxy.concurrent \/ overtook)
  /\ points["Cache"] > 0 => proxy.caches # "never" /\ FETCH_FILE \in proxy.relays

Capable == proxy.relays = Files /\ proxy.concurrent /\ proxy.caches # "never"

(* A proxy that can do everything gets all the points, unless one of the   *)
(* same two things went wrong, or it was asked for its copy before it had  *)
(* stored it (rushed): the reply ends at curl before proxy.c calls         *)
(* cache_insert(), and Tiny may be dead by then.                           *)
CapableGetsAll ==
  verdict = "done" /\ Capable /\ ~grabbed /\ ~hasty /\ ~rushed =>
    totalScore = MAX_BASIC + MAX_CACHE + MAX_CONCURRENCY

(* The script ends whatever hangs, is missing or is in the way, when only  *)
(* the proxy dies of a SIGTERM; and the regular end leaves no server.      *)
DriverEnds ==
  proxy.quits => <>(verdict # "none" /\ (verdict = "done" => ~\E s \in Servers : Runs(s)))
=============================================================================
