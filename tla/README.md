# CMU 15-213 labs: specifications, model checking and proofs

The repository holds solutions to the CS:APP labs together with the programs that run and grade
them: a Unix shell with job control (`src/tshlab`), a concurrent caching web proxy
(`src/proxylab`), a dynamic storage allocator (`src/malloclab`), a cache simulator and a matrix
transpose (`src/cachelab`), bit puzzles (`src/datalab`), and two exercises on binaries
(`src/bomb187`, `src/buflab`). The parts are separate programs. This directory specifies the ones
with state in TLA+, checks them with TLC on small instances and proves the invariants that matter
most with TLAPS.

Contents: [inventory](#inventory), [modules](#modules), [granularity](#granularity),
[runs](#runs), [fairness](#fairness), [proofs](#proofs), [disagreements](#disagreements),
[not modelled](#not-modelled), [plan](#plan).

## Inventory

| Component | State | Operations | What is hard | What makes it correct |
|---|---|---|---|---|
| Job table, `tsh.c` 560-800 | `job_list[MAXJOBS]`, `nextjid` | `initjobs clearjob maxjid addjob deletejob fgpid getjobpid getjobjid pid2jid` | full table, wrap of `nextjid`, a slot cleared and used again | a number names one job, a pid is in one slot, an empty table restarts at 1 |
| Shell, `tsh.c` 80-560 | job table, signal mask, children, position of the main program and of nested handlers | `main eval bgfg_command`, `sigchld_handler sigint_handler sigtstp_handler` | handlers interrupt the main program and each other between any two accesses of the table; signals coalesce; pids are reused | the table agrees with the processes, foreground commands are awaited, keys reach the foreground job only, the prompt comes back |
| Command line parser, `tsh.c` 333-479 | none | `parseline` | redirections, quotes, the limit on arguments | what the line says runs, or nothing does |
| Trace interpreter, `runtrace.c` | two datagram sockets, a shell, a clock | `WAIT NEXT SIGNAL SIGINT SIGTSTP`, lines, `clean()` | prompts joined with other output, timers against late answers, a shell or job that hangs | it is in step with the shell, gives up for a reason, leaves nothing behind |
| Test programs, `my*.c` | position in the handshake | `send recv print fork wait` and their signal handlers | two jobs on one socket, stops and kills in the middle | the handshake fits `WAIT` and `SIGNAL` |
| Scoring driver, `sdriver.c` | iteration, `correct[]`, outputs | run, compare, score, post | a racy shell, a stray of an earlier run, the filter of the outputs | points for correct traces, and all of them |
| Proxy, `proxy.c` | semaphores `mutex op_mut cache_mut`, `readcnt`, `connfd`, one stack per thread | `main thread operate parse` | a lock taken by one thread and released by another, a readers-writer lock, errors that end the process, servers that never answer | no V doubled, none lost by a thread that runs, readers and writers apart, one slow server delays nobody else, a hit is the cached page |
| Proxy cache, `cache.c` | list of blocks, `total_size`, heap buffers | `cache_inquiry new_block cache_insert` | unsynchronised use counts, eviction in three steps | sizes add up, each buffer has one owner, there is a victim |
| Rio, `csapp.c` | `rio_t` buffer and count | `rio_writen rio_read rio_readnb rio_readlineb`, `open_clientfd open_listenfd` | short counts, `EINTR`, resets, end of file | the bytes arrive once and in order, no socket is left |
| tiny, `tiny/tiny.c` | one connection, a CGI child | `doit read_requesthdrs serve_static serve_dynamic clienterror` | a client that closes early, header lines of the buffer's length | serves the next client; an end of stream means a whole response or its headers alone |
| Proxy grading, `driver.sh`, `nop-server.py` | ports, servers in the background, download directories, points | set up, fetch, compare, kill | servers that start late, ports that are taken, time limits | points for what the proxy can do, and an end |
| Allocator, `mm.c` on `memlib.c` | heap words, `mem_brk`, eleven list heads | `mm_init mm_malloc mm_free mm_realloc` and `coalesce place add_node delete_node find_fit extend_heap` | the metadata live in the memory handed out; a tag or link wrong today shows up many requests later | tags and lists describe one heap, payloads are apart and keep their content, a fit is found |
| Earlier allocators, `mm_exp.c`, `mm_safe_copy.c` | the same with one list | the same | the same, with a heap check after every step | the same |
| Allocator driver, `mdriver.c` with `fcyc.c` | trace, range list, payloads, samples, statistics | `add_range remove_range check_index eval_mm_valid eval_mm_util eval_mm_speed printresults`, the timeout | what the checks do not catch; a jump out of the alarm handler; an index made of failed traces | the range list is the payloads, the score is honest |
| Cache simulator, `csim.c` | sets of lines with `valid tag ucount`, three counters, the file position | `load_or_store hit_or_miss space_query main` | `fscanf("%c %x")` is out of step with the lines of the trace; replacement relies on counters never being tied | it is a least-recently-used cache; each trace line counts once |
| Transpose, `trans.c` | two matrices, the cache they are in | `transpose_submit trans` | blocks at the edge of 61 x 67, the diagonal | B is the transpose of A, with few misses |
| Transpose grading, `tracegen.c test-trans.c driver.py` | the registered functions, results, points | validate, simulate, report | the cache places of other variables, a timeout | points as the misses say |
| Bit puzzles, `bits.c tests.c` | none | 14 functions on words | overflow, shifts by 31, rounding | equal to their reference |
| Puzzle harness, `btest.c`, `fshow.c` | options, test values, points, alarm | `main gen_vals test_function run_tests`, `show_float` | rows that overflow, arguments given twice, an alarm too late | no value missed, no false error |

The programs interact through the operating system only. The shell gets signals from its children
and the terminal and sends signals to process groups; `runtrace` talks to the shell over one socket
and to the test programs over another, and `sdriver` runs it twice for each trace; the proxy's
threads share the cache and the semaphores, and talk to `tiny` over connections that cut a stream
anywhere; `driver.sh` starts all of them; the allocators and their driver share the heap. All
hazards are listed with their lines in `PROJECT.json`.

## Modules

| Module | Models | Variables | Composes |
|---|---|---|---|
| `JobList` | the job table | `job_list nextjid` | |
| `Tsh` | the shell and its children, statement by statement | the table, `proc stopnew pending mask pc cur mode slot stack` | EXTENDS `JobList` |
| `JobControl` | what `jobs`, `fg` and `bg` promise the user | `live tab` | implemented by `Tsh` |
| `ParseLine` | `parseline()` as a function of the line | | used by `RunTrace` |
| `RunTrace` | `runtrace` with a shell and the test programs | `trace next drv verdict toShell toDriver syncUp syncDown sh proc out stray` and ghosts | instance of `ParseLine` |
| `SDriver` | `sdriver` around it | `singletrace tests i j phase refout correct num_correct post` and a ghost | EXTENDS `RunTrace` |
| `ProxyCache` | the cache list, its size and its buffers | `blocks total_size mem` | |
| `Proxy` | main, threads, semaphores | the cache, `mutex op_mut cache_mut readcnt main requests pc uri block cursor loaded data size` and a ghost | EXTENDS `ProxyCache` |
| `Rio` | the buffered reader and the writer over a stream socket | `rio in open reset` | |
| `Tiny` | the web server and one peer, which is the fetch of `proxy.c` | Rio's, `spc line blank out child cgiout`, `ppc request pout chunk relayed`, `tries fds` | EXTENDS `Rio` |
| `ProxyDriver` | `driver.sh` with its servers and a proxy of given abilities | `proxy step verdict port used starting nopcurl held cache storing dir points others` and ghosts | |
| `Blocks` | `memlib.c` and the words, tags and links of a heap | | |
| `Heap`, `Explicit` | `mm.c`; `mm_exp.c` and `mm_safe_copy.c` | | EXTEND `Blocks` |
| `MDriver` | `mdriver.c` and `fcyc.c` | `lib heap live ranges total pass verdict values samplecount mm_stats errors alarmed perfindex report` | EXTENDS `Blocks`, instances of `Heap` and `Explicit` |
| `Allocator` | what an allocator promises, as `eval_mm_valid` checks it | `obj` | implemented by `MDriver` for each allocator |
| `CSim` | the simulator and its `fscanf` loop | `cache hit miss evict input lines` | |
| `LruCache` | a least-recently-used cache fed line by line | `order stats next` | implemented by `CSim` |
| `Trans` | the two transposes, their moves and accesses | | |
| `TestTrans` | `driver.py`, `test-trans`, `tracegen` | `todo reported score pc fn pos B globals results cache timeouts` | EXTENDS `Trans`, instance of `CSim` as `csim-ref` |
| `Words`, `Bits`, `FloatShow` | 32-bit arithmetic of C; the puzzles and references; `fshow.c` | | |
| `Btest` | the puzzle harness | `argv opts pc i arg_test_vals a errors points max_points alarm timeouts` | EXTENDS `Bits FloatShow` |
| `MCProxy MCTiny MCProxyDriver MCSDriver MCTrans MCBtest` | the instances: sizes of responses, requests, proxies, trace files, matrix sizes, command lines | | |
| `TshProofs`, `JobControlProofs` | proofs about the table and the shell, and on top of them the promises of the shell | | |
| `ProxyProofs` | proofs about the semaphores and, on top of them, the cache | | |
| `BlocksProofs`, `MDriverProofs` | proofs about heaps, and on top of them about the three allocators and their driver | | |
| `TinyProofs`, `SDriverProofs`, `CSimProofs` | proofs about `Rio` and `Tiny`, `RunTrace` and `SDriver`, `CSim` | | |

A definition with the comment "mutant" is a plausible wrong version of the one after it. No
specification uses it; with it in the place of the right one TLC finds a property violated
(`PROJECT.json` says which).

### The shell

`pc` is where the main program is: `read` (prompt), `add`, `evalcheck`, `evalenter`,
`evalsuspend`, `unblock` in `eval()`; `readpid`, `cont`, `assign`, `fgcheck`, `fgenter`,
`fgsuspend` in `bgfg_command()`; `dead` after `exit`. `stack` holds the active handlers, the running
one first; each knows its signal, its place (`start`, `kill` after `fgpid()` returned, `act` after
`waitpid()` returned) and its locals. The handlers are installed with an empty `sa_mask`, so a
handler blocks only its own signal and is interrupted by the two others. `proc[p]` is the process
behind a pid, `none` when the pid is free for `fork()`; `stopnew` is what `WUNTRACED` reports once.

| Code | Action |
|---|---|
| `eval`: `sigprocmask`, `fork` (or its failure) | `Fork` |
| `eval`: `addjob`, test, `sigsuspend`, unblock | `AddJob EvalCheck EvalEnter Unblock` |
| `bgfg_command`: lookup by `%jid` or pid, `bjob->pid`, `kill(SIGCONT)`, `bjob->state = ...`, wait | `BgfgJid BgfgPid ReadPid Continue Assign FgCheck FgEnter` |
| `sigchld_handler`: one round of `waitpid`, then its branch | `WaitPid`, `Act` (`ActStopped ActKilled ActExited`) |
| `sigint_handler`, `sigtstp_handler`: `fgpid`, then `kill` | `ForwardRead ForwardKill` |
| a signal interrupts the shell | `Deliver` |
| the child calls `setpgid` and `execve`, exits, is killed, stopped, continued | `Exec ExitChild KillChild StopChild ContChild` |
| ctrl-c, ctrl-z | `Key` |

### The proxy

`Accept`, `Create` and `CreateFails` are `main`, which does not look at the result of
`pthread_create()`: without the thread nobody makes its V, which the ghost `lost` records. A thread
goes through `ThreadStart`, `ReadRequest`, the lookup between the halves of the readers' lock
(`Enter First Inquire Load Store Leave`), then either the hit (`LockHit ReadBlock WriteBlock
UnlockHit`) or the miss (`LockMiss Parse ReadPiece EndOfResponse`, and `LockInsert`, `AddBlock` or
`EvictFree EvictRefill EvictResize`, `UnlockInsert`). `ucount++` is a load and a store, because
readers do it without a common lock. `Fail` is any error for which a wrapper of `csapp.c` calls
`exit`. Sizes are in buffers of `MAXLINE` bytes; a pointer to a block is its place in the order of
creation (blocks are reused, never removed); `mem` is what a heap buffer holds, `Junk` once it has
been freed. `strcpy` from `response_buf`, which has no terminating NUL, is taken for a copy of the
buffer: how far it reads beyond depends on the stack.

### The trace interpreter, the test programs and the scoring driver

`Tsh` has the shell statement by statement; in `RunTrace` a handler of the shell is one step, and
what counts is when its output is flushed, because each `fflush()` is one datagram and
`next_prompt()` knows a prompt only when it is all a datagram holds. `FirstPrompt Wait NextPrompt
Signal SendLine SendEof KillShell Reap` are the commands of a trace, `FirstPromptTimeout ReadTimeout
sigalrm_handler` the three ways a wait ends without an answer; any of them may come while somebody
could still move, which the ghost `hasty` records. A test program is a sequence of operations,
`JobNext` does the next one or takes a signal, and `JobAlarm` is its own timer. The shell's lines go
through `ParseLine`, redirections and `&` included; `bg` and `fg` continue the job and set its state
in two steps (`EvalBgFg SetState`), since SIGCHLD is not blocked between them. `SDriver` adds the
loop over the traces and iterations: `TestDone` (runtrace with the test shell is over; what it left
behind goes to `stray`), `RefDone`, `RefGivesUp` and `RefFails` (the same with `./tshref`, of which
the model has only the output: the whole of it or a beginning; the second when its `runtrace` gives
up at a NEXT, which ends it with status 0 and without `clean()`), `Diff` with the filter of the
output, and `Score`. A text is a sequence of pieces without pids and signal numbers, which the
filter removes as well.

### Rio, tiny and the grading of the proxy

Bytes are numbered, so that a byte says where in its stream it belongs. The kernel moves any number
of bytes at a time, a system call may be interrupted, a process may close its end at any moment, and
closing with unread bytes resets the other end. In `Tiny` the server's steps are the buffer refills
and line cuts of `rio_readlineb`, one piece of the response per `Rio_writen`, the CGI child and its
`Wait`; `AcceptFails` and `BodyFails` are the system calls that end the server at `accept` and
between the headers and the content of a response; the peer writes a request, reads with
`Rio_readnb` into a buffer of `CHUNK` bytes and relays, as `operate()` of `proxy.c` does.
`ProxyDriver` has the script as a sequence of instructions (`Script`), one action per kind of
instruction. Beside it the servers bind in their own time, the background fetch proceeds, a proxy
like `proxy.c` stores after it has answered, and a program of somebody else takes and releases a
port. The graded proxy is a record of abilities.

### The allocators and their driver

Memory is an array of 4-byte words. Headers, footers and links are read from and written to that
array exactly where the code reads and writes them, and the user writes its payloads into it, so a
tag on the wrong word shows as a corrupted payload or a corrupted list. A link occupies two words,
the second of which is left alone. The routines are operators from heap to heap. `MDriver` chooses
one of three allocators and runs the passes of a trace: `Valid` (one request with the range list
and the data check), `Util`, `Sample` and `Measured` (`fcyc`), `EndOfTrace`, `NextTrace`, then
`TestsEnd` and `Index`. `LibcRuns` is the comparison with libc, `Timeout` the alarm, whose handler
jumps to wherever `siglongjmp` was last prepared, or nowhere. `granted` is FALSE when `mem_sbrk`
refuses. The requests are chosen while they are read.

### The cache simulator, the transposes and their grading

The trace is a sequence of tokens, and `Scan` is one call of `fscanf(tracefile, "%c %x", ...)` with
the switch after it: `%c` takes any character, blanks, commas and newlines included, and `%x`
stores nothing where no number begins. `IsLruCache` maps the lines of a set, ordered by their
counters, to the list of an LRU cache, and the first operation not yet scanned to the line the
abstract cache has read. `Trans` has the loop nests with the real sizes: a position is the state of
the loops, one step the innermost loop. `TestTrans` gives the accesses of each step to the operators
of `CSim` with one line per set, where the simulator stands in for the binary `csim-ref`, and turns
the misses into points.

### The puzzles and their harness

A word is the set of the positions of its ones, so that 32 bits need no large number. `Bits` has
each puzzle of `bits.c` with the operators it uses and, named `test_...`, what `tests.c` says it
should return. `Btest` reads its options one by one (`OneOption`), makes the test values of a
function (`StartFunction`, `gen_vals`), compares one combination a step (`TestOne`), and may be
interrupted by the alarm (`Timeout`), even after the function has returned (`LateTimeout`).

## Granularity

- `deletejob` and `clearjob`, and `addjob`, are one step: no two handlers that write the table can
  interrupt each other, and what the reading handlers (`fgpid`) see in the middle of them is the
  entry before or after.
- `sigprocmask(SIG_BLOCK)` and `fork` are one step; a handler between them sees nothing new.
- The locals of `eval` and `bgfg_command` are reset when they return.
- A `SIGINT` sent to a stopped process takes effect when it is continued; `KillChild` covers it
  (hence the last conjunct of `TshAssumption`). A child before `execve` ignores forwarded signals:
  it has no group of its own yet, or runs the shell's handler.
- Pids are reused as soon as `waitpid` freed them.
- A freed block of memory may be handed out again by `malloc` at once; a buffer is `Junk` after
  `free`.
- Within the writer's lock a step ends where an unlocked reader (the write of a hit) can look.
- The allocators, simulators and harnesses are sequential: one step is one request, one `fscanf`,
  one row of a block, or one comparison. The processes that run beside a driver or a script
  (`RunTrace`, `Tiny`, `ProxyDriver`) interleave at every system call that another one can see.
- In `RunTrace` the writes of one listing of `jobs` are one step; jobs that write in between would
  only join their text to it.

## Runs

Every property of a passing run has a mutant of the code that TLC finds violating it.

| Run | Instance | Distinct states | Shows |
|---|---|---|---|
| `TshCore` | 2 slots, 2 pids, job numbers to 3; children exit, are killed, stop; ctrl-c; `quit` | 26,188 | children and table agree (`EveryChildTracked`), `eval` waits and at most one job is in the foreground (`ForegroundAwaited`), no stopped job is shown as running and an empty table counts from 1 (`ListingIsTrue`); liveness `EndsAreNoticed InterruptEndsForeground` |
| `TshBgfg` | 2 slots, 2 pids; `fg`, `bg`, outside `SIGCONT`, ctrl-z | 303,028 | with the unblocked windows of `bgfg_command`: `NoStaleJob ForwardSparesBackground`; the shell implements `JobControl` (`ImplementsJobControl`) |
| `SDriverCore` | one or two traces, 2 iterations each: all 25 of the repository's, 2 that kill a background job, odd and malformed lines, a job that reads the terminal | 198,769 | `runtrace` is in step with the shell (`NextIsInStep`), gives up only for a known cause (`TimeoutHasCause`); a difference has a known cause (`DifferenceHasCause`), points are earned (`ScoreIsEarned`), runs do not meet unless a reference gave up (`RunsDoNotMeet`), the driver ends (`GradingEnds`) |
| `ProxyCore` | 3 threads, 3 requests, 3 URIs of 1 to 3 pieces and a malformed one, cache of 2; any error, threads that are not created | 263,417 | `SemaphoresCount ReadersExcludeWriter CacheIsSound`; liveness `OnlyServersDelay AcceptsAgain` |
| `TinyCore` | 8 requests, one with a header as long as the buffer; buffers of 3 and 4 bytes; 2 addresses; failing system calls | 1,697,720 | bytes arrive once and in order (`RequestInOrder`), an end of stream means a whole response or its headers alone (`WholeAtEof`), no socket or child is left (`NothingLeft`), between two clients only a peer that left or the calls before a body kill the server (`DiesMidwayOfPeer`), and it returns to `accept` (`ReturnsToAccept`) |
| `ProxyDriverCore` | 6 proxies, 3 ports, strays, one foreign program | 846,729 | `PointsAreEarned CapableGetsAll`; liveness `DriverEnds` |
| `MallocCore` | 3 allocators, heap of 28 words growing by 6, requests of 0, 1 and 10 words, 2 traces | 47,331 | `HeapConsistent FitIsFound RangesArePayloads ScoreIsHonest`; each allocator implements `Allocator` (`KeepsPromise`) |
| `CSimCore` | 2 sets of 3 lines, 5 addresses, 5 trace lines | 221,205 | `CountersOrderSet TagsUnique`; the simulator implements `LruCache` (`IsLruCache`) |
| `TransCore` | 32 x 32, 64 x 64 and 61 x 67 graded, 8 x 8 and 61 x 20 by hand | 12,072 | `SizesMeantForValidate PointsDeserved` |
| `BitsCore` | 10 command lines, 32-bit words, 70 values around each place of interest | 77,962 | `OnlyTimeoutsCost ValuesFitAndReachTheEnds ShownInOrder` |
| `TshReapBug`, `ProxyHitBug` | | | violations, see [disagreements](#disagreements) |

Bounds, and why they are enough:

- Shell: two pids and two slots. Every race is between the main program, one handler and one or two
  children; two children give coalesced signals, slots all in use, a reused slot and a reused pid.
  `JidCap` (no job is added once `nextjid` has passed it) lets the counter pass `MAXJOBS` and wrap.
  A wrap onto the number of a living job takes three live jobs and a free slot, which no run has,
  and no run claims that numbers are unique (see [disagreements](#disagreements)). The branch of
  `addjob` for a table that is full is reached by no run; the theorems that do not assume `Room`
  cover it.
  `TshCore` has no `fg`, which breaks several of its properties (see below), and `EndsAreNoticed` is
  about runs in which children only exit, because a killed one makes the handler return early.
- Grading of the shell: all traces are there, without most of their `echo` lines, which run one more
  program of the same kind; `trace00` and `trace02` end at the end of the file, the others at
  `quit`. `MaxProcs` is the most any trace starts, `MAXARGS` is 5 so that a line can reach it, two
  iterations make a trace that fails once and would pass the next time. Of two traces the longer
  comes first, so that what it leaves meets the other one.
- Proxy: three threads are two readers and a writer, or a reader between two writers; three requests
  fill a cache of two pieces, evict from it and hit in it. `Bufs` has a buffer for each request.
- tiny: `RIO_BUFSIZE` 3, line buffers of 4 and 4 bytes in the kernel make every line and response
  cross each kind of boundary; two addresses let the first fail.
- `driver.sh`: one proxy for each ability that can lack, two files for the basic test and the three
  of the cache list in its order; one program that takes a port once is enough to be taken for a
  server.
- Allocators: 28 words are extended beyond the first chunk and then refuse. The requests give blocks
  of 6 and 12 words and free blocks of several lists, all four cases of `coalesce`, and `place` with
  and without a split. `CHUNKSIZE` is 6 instead of 64 words. A second trace starts on what the first
  left in memory. `kbest` 2 of `maxsamples` 3 lets sampling converge and give up.
- Simulator: three lines per set are needed to tell LRU from "evict the first line"; five addresses
  overflow a set and leave another one partly empty.
- Transposes: the sizes and the cache are the real ones; the other variables of `tracegen` all
  fall into one of two sets (`GlobalSets`).
- Puzzles: words have all 32 bits; `TEST_RANGE` is 70 instead of 500000, values around zero, both
  ends and the boundaries of the float format; `Sample` is in the place of the random values.
  `MaxTimeouts` limits the alarms in one run of a harness.

The deadlock check is off in `SDriverCore`, `ProxyDriverCore` and `BitsCore`, whose programs end.

## Fairness

- Shell (`FairSpec` of `Tsh`): weak fairness of the main program; strong fairness of each handler and
  of the delivery of each signal. The shell is one runnable process and the kernel delivers an
  unblocked pending signal before it returns to user mode; weak fairness does not say that, because a
  later signal interrupts a handler (disabling its step) and `eval` blocks signals again. Nothing is
  assumed of the user or the children: they may never type, exit or answer.
- Proxy (`FairSpec` of `Proxy`): weak fairness of each thread's own steps and of its client, which
  must be prompt: a hit is written under `mutex`, so a client that does not read holds `main` and
  every other request as well (hazard at `proxy.c:118`). Servers have none, that is the point of
  `OnlyServersDelay`; nor have errors, of I/O or of `pthread_create()`. `sem_wait` promises no
  order; weak fairness of a P is enough here because the number of requests is bounded. A writer
  starved by readers that never stop coming needs unboundedly many requests.
- `Tiny`: weak fairness of the server and of the peer once it is connected; nobody has to connect,
  and a peer may leave instead.
- `SDriver`: weak fairness of the driver and of `runtrace`, whose timers expire. The shell and the
  jobs have none: `GradingEnds` is that a shell that hangs does not hang its grading.
- `ProxyDriver`: weak fairness of the script and of `curl`'s time limit, none of the servers.
- The other specifications are checked for safety only.

## Proofs

TLAPS checks the following for all values of the constants (all slots, pids, threads, requests,
geometries), under the named assumptions of the modules and nothing else.

| Theorem | Module | Says |
|---|---|---|
| `ShellInvariant`, `TypeCorrect`, `JobsAreAlive`, `OneSlotPerPid`, `BackgroundIsSpared` | `TshProofs` | `Spec => []P` for the inductive invariant, `TypeOK`, `NoStaleJob`, `PidsUnique`, `ForwardSparesBackground` |
| `ChildrenAreListed` | `TshProofs` | `EveryChildTracked`, assuming `Room`: there are no more pids than slots |
| `ShellImplementsJobControl` | `JobControlProofs` | `ImplementsJobControl`, the refinement, assuming `Room` |
| `OneForegroundJob` | `JobControlProofs` | `AtMostOneFG`, without the builtin `fg` |
| `EvalAwaitsForeground` | `JobControlProofs` | `ForegroundAwaited`, assuming `Room`, without `fg`, and when only the shell continues programs |
| `NumberingRestarts` | `JobControlProofs` | `EmptyTableRestartsAtOne` |
| `ListingTellsTheTruth` | `JobControlProofs` | `ListingIsTrue`, without `fg` and `bg`, however often numbers wrap |
| `SemaphoresHold`, `CacheIsGuarded` | `ProxyProofs` | `SemaphoresCount`, `ReadersExcludeWriter` |
| `CacheStaysSound` | `ProxyProofs` | `CacheIsSound` |
| `DescriptorsReturned`, `DeathHasCause`, `RequestsArriveInOrder`, `EofMeansWhole` | `TinyProofs` | `NothingLeft`, `DiesMidwayOfPeer`, `RequestInOrder`, `WholeAtEof` |
| `ScoreEarned` | `SDriverProofs` | `ScoreIsEarned` |
| `InStep` | `SDriverProofs` | `NextIsInStep`, for traces with `OneLineAtATime` |
| `CountersOrder`, `OneLinePerTag` | `CSimProofs` | `CountersOrderSet`, `TagsUnique` |
| `SimulatesLru` | `CSimProofs` | `IsLruCache`: `CSim` implements `LruCache` |
| `HeapIsConsistent`, `FitsAreFound`, `RangesAreKept` | `MDriverProofs` | `HeapConsistent`, `FitIsFound`, `RangesArePayloads`, each for three allocators |
| `AllocatorsKeepPromise` | `MDriverProofs` | `KeepsPromise`, the refinement: `MDriver` with each allocator implements `Allocator` |

`TypeOK`, `PidsUnique`, `AtMostOneFG` and `EmptyTableRestartsAtOne` of the shell are proved and
therefore in no run of their own.

The hypotheses are what the code needs. Without `Room` `addjob` fails and a child is unlisted. With
`fg` a handler may clear the slot that is then marked FG. A program somebody else continues runs
again while `eval` returns because of its stop. `bg` may overwrite a stop just recorded. Each of
these is in [disagreements](#disagreements); `TshBgfg` runs with the builtins. A trace that sends
two lines and then waits once (`reader`, which a job reads the second line of) is not answered in
step, and is why `InStep` has `OneLineAtATime`; `MCSDriver` asserts that the graded traces have it.

*Shell.* `NoStaleJob` alone is not inductive. `IInv` adds what the frames of the stack
remember (`FramesOK`: at most one frame per signal; a pid that a SIGCHLD frame has reaped is free, a
frame about to `kill` holds a pid), and that between `fork` and `addjob` every signal is blocked, no
handler is active and the new child is not reaped and not listed (`AddingOK`). That is where the
mask matters: with it `addjob` cannot make a second entry for a pid or revive one the handler has
taken. `ForwardSparesBackground` holds because
only `addjob` and `bgfg_command` write BG and neither runs while a handler is on the stack. The
proof has one lemma per group of actions, built on lemmas about the table (what
`addjob`, `deletejob` and a state change do to the set of listed pids) and about pushing and popping
a frame. `ChildrenAreListed` needs a counting argument: in a full table of distinct pids, with no
more pids than slots, every pid is listed.

*What the shell promises.* The abstract state of `JobControl` is a function of the concrete one
(`Live`, `Tab`), so the refinement is a case per action: most are stutters (`StutterStep`), and a
launch, a report or a resume changes one row of the table (`OneRowChanges`). Two facts go beyond the
invariant: a handler that reports a stop reports a process that still exists (`StopsAlive`), which
fails if an end could overtake it, and the other handlers neither add nor drop a report that is not
yet acted on (`OtherFrames`). `ForegroundAwaited` follows because the job `eval` waits for is in the
table in state FG or has halted (`AwaitedUntilHalted`), and no other job is ever FG
(`FgIsAwaited`), so `fgpid` is 0 only when it is due. `ListingIsTrue` needs that the stop of a child
not yet listed is not yet reported (`NewStops`). That numbers are unique is not claimed: it is false
of the code (see below).

*Proxy.* `SemaphoresCount` relates each semaphore to the number of threads at given labels, so it is
inductive together with `Labelled` (every thread is at a label, finiteness of the sets). Each step
moves one thread; lemma `Move` says how the cardinality of "the threads at one of these labels"
changes, and `BalancedStep` compares that with the change of the semaphores. After a
`pthread_create()` that failed the count of `mutex` is one less, for good: nobody has it and nobody
will. Exclusion follows from
the counts: two threads in `Writing` would need a count of 2.

*Proxy cache.* An insertion that evicts is three steps, between which sizes, list and memory
disagree. `CInv` says by how much: `Ledger` (the victim's size is missing from `total_size` from the
`free()` to the store of the new size), `Owned` (each buffer in use is owned by one block, but for
the victim's freed one), `Placed` (what a thread holds at its label). The exclusion of writers makes
these differences those of one thread. `EvictsABlock` is the point of the loop of
`cache_insert`: it finds a victim because a response is at most `MAX_OBJECT_SIZE`, smaller than the
cache, so that a cache too full for it has a block (`SumOfNone`). Sums over the list are by
induction on its length, as the absence of a least counterexample (`Least`).

*Rio and tiny.* `Shape` is what each side holds of the connection: the server has it open while it
serves, a reset of the server means that the peer has left, and the descriptors of each side are
determined by its place. The two theorems about bytes each follow one sequence along its whole way.
`Requested`: the line, the Rio buffer, the kernel and what the peer still has to write, one after
the other, are an end of the request. `Answered`: what the peer has relayed, its buffer, its Rio
buffer, the kernel and `Left`, what the server and its CGI process have not written, make up the
whole response until a reset; or the headers of it, when the server has died at the open, the
mapping or the fork for the content. Both hold because each system call moves a prefix from one
place to the next (`RefillKeeps`, `UnreadAdvanced`, `JoinedWrote`, `SentReaches`), however long it
is. `ServerReadFails` cannot spoil `Answered`: a server is reset only when the peer has left.

*Grading of the shell.* The loop of `sdriver` is correct because a difference ends the iterations of
a trace: while a trace is run, none of its iterations has differed (`UpToHere`), so `correct[]` and
the count agree with the ghost `wrong` for all earlier traces (`Earned`).
For `NextIsInStep`, `NInv` follows the prompt: before the first one the shell has yet to print it or
it is on its way (`Starting`); with no line sent since the last NEXT nothing is under way
(`Resting`); after one line the line is unread, has no prompt yet, or has had its one prompt
(`Answering`). Jobs never put a prompt into a datagram, and the shell does so only when it is
about to read (`ShellSteps`).

*Simulator.* `GoodCache` says that in each set the valid lines have different counters and tags.
Aging keeps counters different and makes them positive, so a line reset to 0 is different from all
others (`AgedGood`, `UsedGood`); a tag is entered only where no line has it (`AccessGood`). That
argument never needs to know which line is evicted, nor the layout of the trace.

The refinement does. `Lists` states that a sequence has the valid lines of a set in the order of
their counters; there is one such sequence, and the tags `ByRecency` finds by counting smaller
counters are the tags along it (`RecencyIs`). Aging keeps the order, and the line reset to 0 comes
first: the sequence changes by `PutFirst` on a hit and on an eviction, where it is the last line
that goes (`OldestIsLast`), and by `PutBefore` where a line was empty (`SetHit`, `SetEvict`,
`SetFill`). So one `load_or_store` is one `Access` (`AccessImplements`) and one operation of the
trace one `Effect` (`LineImplements`). `Shape` follows the text: `fscanf` sees the end of a line, or
a line with at most a newline and a blank before its operation, so each line passes from "whole" to
"from its operation on" to "its size" and is simulated at the second of these steps only
(`LineRead`, `ToOperation`, `ToSize`, `ToBetween`). `LInv` joins the two. 2^s is known to be
positive as the number of subsets of 1..s (`PowerOfTwo`).

*Allocators.* None of the properties is inductive, because they speak of walks: a walk sees what the
words say, and a routine changes words. The invariant speaks of the layout instead. `Rep` gives the
heap a set of blocks with sizes and states: they tile the heap from the prologue to the epilogue
(`Tiled`), header and footer of each say its size and state (`Tagged`), and the free ones have
places on doubly linked lists by a class of their size (`Linked`). `Sound` adds that every free
block is listed and no two are neighbours. The layout is a witness: nothing computes it, and each
routine is shown to have one before and after.

`BlocksProofs` knows the routines for any class of sizes. Unlinking a block, marking a range,
splitting a block and turning the epilogue into a block each keep `Rep` (`DelRep MarkRep SplitRep
ExtendRep AddRep`), with one lemma for the tiling and one for the lists under each. `coalesce` is
the composition of them in four cases (`CoalescedSound`), in the middle of which the heap is `Rep`
but not `Sound`: that is `Freed`, one free block unlisted. What the callers need is less: `Holds(h,
c, s)`, the heap is sound and its allocated blocks are those of `s`; `Offers`, it has a free block
of a size; `Serves` and `Moves`, what `malloc` and `realloc` do to `s` (`ServedHolds`,
`MovedHolds`). `KeptAll` says everywhere that the words of the other payloads stay. Back from the
layout to the walks: the walk over the headers visits the blocks (`WalkIs`, since a block has six
words and `MaxBlocks` is what fits), and the nodes of a list are the free blocks of its class in
their places (`NodesAt BlocksAreNodes`), each once; so the number of nodes is the number of free
blocks (`SoundLists`). `Starts`, `Finds` and `AdjustedTo` are what is left to show of an allocator.

`MDriverProofs` shows that the operators of `Heap` and of `Explicit` are these routines, for the class
`get_list` and for the class of one list: where the code differs, as in the four written-out cases of
`mm_exp.c` and its heap checks after each step, the checks find nothing (`ExpChecked`). That
`get_list` grows with the size (`ClassesAre`) is why a search from the list of the request misses
nothing. Then `Given` is what a driver may expect of a request, for any of them, and `DriverInv`
follows it: the heap is `Sane` (it holds the payloads in `live`, each with two words to spare);
during the correctness pass the range list is their extents and each payload has the driver's words
(`Passing`). A step that records a payload is accepted by `add_range` because payloads are apart
(`RangeAccepted`), and `check_index` finds the old words because nothing wrote into them
(`IndexChecked`). `LiveMoves` is how a step changes `live`; the refinement takes it from there
(`StepIsNew StepIsResize StepIsFree`). `realloc` needs more than `Given` for a fresh block: the new
payload is apart from the old one too, which the user still reads (`StandsApart`).

The constants have the assumption `CHUNKSIZE >= 5`, without which the first chunk could not hold two
links and two tags; `mm.c` has 64 words.

Only model-checked:

- all liveness; liveness under fairness and ENABLED are beyond the prover;
- `ScoreIsHonest`: a sum over a set, folded, and so induction over data;
- `TimeoutHasCause`, `DifferenceHasCause` and `RunsDoNotMeet`, which are true of the repository's
  traces and programs and not of any traces;
- the properties of `driver.sh`, of `test-trans` and of `btest`, which depend on the script, the
  sizes and the table of functions of the instance.

Induction over data is possible only through a least counterexample, since the library's induction
theorems take an operator. It is used for sums (`ProxyProofs`), first and last elements (`TshProofs`),
the first line of a set (`CSimProofs`) and the walks through a heap (`BlocksProofs`).

## Disagreements

Two have a run that TLC ends with a counterexample.

- `TshReapBug`: `sigchld_handler` returns after the first child that was killed or stopped, although
  its comment says that it reaps all available zombies. SIGCHLDs coalesce, so a zombie remains.
- `ProxyHitBug`: a hit is written from the block after the readers' lock was released; an insertion
  may free or replace the buffer in between.

Four others are as serious. They are in the models, the properties of the passing runs name them
where they touch them, and TLC shows each in a moment on the instance given:

- `addjob` wraps `nextjid` without looking whether the number is in use. With jobs 1, 3 and 4 of four
  slots alive the next job is a second number 1, and `fg %1` finds the first (`Tsh` with
  `MAXJOBS = 4`, four pids, `JidCap = 4`, `Fates = {"exit"}`, no built-in commands or keys, the
  invariant `JidNamesJob` of `JobList`).
- `fg` may write FG into a slot a handler has just cleared. `fgpid` then finds pid 0 in it, and a
  foreground job in a later slot is not awaited (`Tsh` with two slots and pids, `Fates = {"exit"}`,
  `Builtins = {"fg"}`: `fgpid = 0` while a slot with a pid is FG).
- A response of several buffers is cached as its last buffer, with the size of all of them
  (`MCProxy` with one thread, the URI `b`, `MCPieces`, two requests: `HitSendsResponse`).
- `main` does not look at the result of `pthread_create`. When it fails nobody releases `mutex`, the
  connection stays open, and no request is served any more (`lost` in `Proxy`).

Met while modelling and part of the models, without a run of their own:

- Shell. `fg` tests `fgpid` and calls `sigsuspend` with SIGCHLD unblocked; the signal can come
  between the two and the prompt never returns (this is the one cause a trace of the repository has
  to time out). `fg` and `bg` may
  overwrite the state a stop has just been recorded in. With more live children than slots a
  foreground command is not awaited. `parseline` looks at the first character of the last token for
  `&`, quoted or not; what follows the `MAXARGS`th argument is not seen; `jobs > file` does not
  create the file and keeps it open; `< <` without a name between passes.
- Grading of the shell. A prompt that arrives in one datagram with a handler's message is never
  recognised; the repository's traces avoid it because they kill no background job. `mysplitp` is
  not in the list of programs `clean()` kills; the waits for a prompt or a sync give up without
  `clean()`, which kills by name whatever any run started; the wait for the first prompt only goes
  on, one prompt behind. `runtrace` exits with status 0 after a NEXT that gives up: `sdriver` goes
  on, `./tshref` and its jobs stay and meet the next test, and a test and a reference that give up
  at the same NEXT with the same output match. `sort` in the filter orders nothing, since lines are
  joined before.
- Proxy and tiny. The total size of the cache may pass `MAX_CACHE_SIZE`, since eviction makes room
  for one victim's size only; a server that cannot be reached ends the proxy. `read_requesthdrs`
  spins for ever when a client closes before the blank line, unless the uninitialised buffer happens
  to hold one (`ReturnsToAccept` names the case); a header line of the buffer's length ends the
  headers early and its rest resets the client; the server dies when a client closes early, when it
  maps an empty file, and of any error of `Accept`, `Getnameinfo`, `Open`, `Mmap` or `Fork`; after
  the headers the client sees such a death as a regular end of the stream; a failed `execve` flushes
  the inherited log into the response; `adder` crashes without a `&` in its arguments.
- `driver.sh`. Its comment says the wait for a port times out after 5 seconds, it looks ten times
  with a second between; when no port is free the port is -1 and the script times out; giving up
  leaves servers running; a proxy that ignores SIGTERM hangs the script at `wait` (the condition of
  `DriverEnds`); the blocking fetch is not known to be blocked when the second one is sent, and the
  cached copy may be asked for before it is stored (`overtook` and `rushed`).
- Allocator driver. `add_range` does not notice a payload that strictly contains another; an error of
  `check_index` zeroes the index but not the trace; with `-c` the index is 0; after a timeout all
  later traces are invalid; the alarm is set before the libc passes and never cancelled, so that it
  may jump into a frame that is gone.
- Earlier allocators: `mm_short.c` calls `PACK` with three arguments and does not compile, `mm_seg1.c`
  dereferences a NULL list head, `mm2.c` and `mm4.c` drop the result of `coalesce`.
- Cache lab: `transpose_submit` writes nothing for a size without a branch; a failing `csim-ref`
  leaves the results of the run before; the alarm leaves `tracegen` running.
- Puzzle harness: `gen_vals` may write one value too many for a range of the length of a row; a
  second integer is refused for an argument only if the first was not zero; the alarm is not
  cancelled; `-2 n` without `-f` gives `logicalShift` shifts outside 0..31.

## Not modelled

- Text: the wording of reports, the output of `jobs` beyond its pieces, HTTP headers, trace files of
  the allocator, the numbers `btest` and `fshow` parse and print, `ishow`.
- Options: of `csim`, `mdriver`, `-i` and `-s` of `sdriver`. `submitr` is dead code: no user is named.
- Shell: `Command not found` in the child, `fg` and `bg` without an argument, the stdio buffer a
  child inherits. `sigquit_handler`, the shell's own options, and an `open()` of a redirection that
  fails in the child, whose job then has the shell's own descriptor. Failing system calls end
  `runtrace`; they, its sandbox and the limit of a datagram queue are left out. `./tshref` is a
  binary: its outputs are written down in `MCSDriver`.
- Rio: `rio_readn`, `sio_*` and the wrappers nobody calls. tiny: errors of `Close`, `Munmap`, `Wait`
  and `Dup2`, which need a bug of the server itself. The proxy's buffer beyond its last byte
  (`strcpy` without a NUL). `free-port.sh`, `port-for-user.pl`, the scripts of the other labs.
- Allocators: `calloc` (nothing calls it), the lazy call of `mm_init`, a failure of `mm_init` at the
  start of a pass (the heap has just been reset, and its first chunk fits), the passage of the
  increment of `mem_sbrk` through an `int` (the traces ask for far less than an `int` holds),
  the copies of `mm.c` that are not built other than the two of `Explicit`: `mm_final.c` and
  `mm_segfinal.c` have the design of `mm.c`, the others are steps towards it, some of which do not
  work.
- 32-bit truncation of addresses and overflow of `ucount` in `csim.c`; `test-csim` and `csim-ref` are
  binaries; cycle counters and interval timers, which decide nothing.
- `cache.c`'s predecessor, the bomb and the buffer lab: not built, or only binaries.

## Plan

Done: `JobList`, `Tsh` with `JobControl`, `Proxy` with `ProxyCache`, `CSim` with `LruCache` and the
proofs above; `Blocks`, `Heap` and `Explicit` under `MDriver` with `Allocator`; `ParseLine`,
`RunTrace` and `SDriver`; `Rio` and `Tiny`; `ProxyDriver`; `Words`, `Bits`, `FloatShow` and `Btest`;
`Trans` and `TestTrans`. The proofs in the table
above, among them the refinements of `JobControl`, `LruCache` and `Allocator` and the soundness of the
proxy's cache, of `Rio` and `Tiny`. Left, all of them proofs:

1. `driver.sh`: `PointsAreEarned` from an invariant along the script.
2. Harnesses: `PointsDeserved` and `OnlyTimeoutsCost` for any list of functions.
