------------------------------- MODULE Proxy --------------------------------
(***************************************************************************)
(* The concurrent caching proxy of src/proxylab/proxy.c: main() accepts a  *)
(* connection and starts a thread for it; the thread reads a request,      *)
(* looks it up in the cache, and answers from the cache or fetches the     *)
(* response, forwards it and inserts it.                                   *)
(*                                                                         *)
(* Three semaphores order them: mutex hands connfd over to the new thread  *)
(* and guards the write of a hit; cache_mut and op_mut with readcnt are a  *)
(* readers-writer lock around the cache.  One action is the code between   *)
(* two accesses of state another thread changes without a common lock.     *)
(***************************************************************************)
EXTENDS ProxyCache

CONSTANTS Threads,       \* threads that can exist at a time
          BadUris,       \* request lines parse() does not accept
          Pieces,        \* Pieces[u]: MAXLINE buffers of u's response
          MaxRequests    \* bound on the connections accepted

ASSUME ProxyAssumption == /\ IsFiniteSet(Threads)
                          /\ BadUris \cap Uris = {}
                          /\ Pieces \in [Uris -> Nat]
                          /\ MaxRequests \in Nat
                          /\ Cardinality(Bufs) >= MaxRequests

VARIABLES
  mutex, op_mut, cache_mut,  \* the semaphores
  readcnt,                   \* readers in cache_inquiry
  lost,      \* pthread_create failed: a connection has no thread, and
             \* nobody will unlock the mutex that main() locked for it
  main,      \* where main() is; "dead" once the process has exited
  requests,  \* connections accepted so far
  pc,        \* where each thread is; "idle" when there is no such thread
  uri,       \* the request
  block,     \* what cache_inquiry returned; the block cache_insert evicts
  cursor,    \* increment_ucount in cache_inquiry; on a hit, the buffer
             \* block->buf named when Rio_writen was called
  loaded,    \* the ucount a thread has loaded to increment it
  data,      \* response_buf; on a hit the bytes written to the client
  size       \* numbytes; on a hit the block->size passed to Rio_writen

sems   == <<mutex, op_mut, cache_mut, readcnt, lost>>
locals == <<uri, block, cursor, loaded, data, size>>
vars   == <<blocks, total_size, mem, mutex, op_mut, cache_mut, readcnt, lost,
            main, requests, pc, uri, block, cursor, loaded, data, size>>

Up == main # "dead"
At(t, l)    == Up /\ pc[t] = l
Goto(t, l)  == pc' = [pc EXCEPT ![t] = l]

\* operate() returns, thread() closes connfd and ends; its locals are gone.
Return(t) ==
  /\ Goto(t, "idle")
  /\ uri' = [uri EXCEPT ![t] = ""]
  /\ block' = [block EXCEPT ![t] = NULL]
  /\ cursor' = [cursor EXCEPT ![t] = NULL]
  /\ loaded' = [loaded EXCEPT ![t] = 0]
  /\ data' = [data EXCEPT ![t] = Junk]
  /\ size' = [size EXCEPT ![t] = 0]

----------------------------------------------------------------------------
(* main() and the hand-over of the connection *)

Accept ==
  /\ main = "accept"
  /\ requests < MaxRequests
  /\ main' = "lock" /\ requests' = requests + 1
  /\ UNCHANGED <<cachevars, sems, pc, locals>>

Create(t) ==
  /\ main = "lock"
  /\ mutex > 0
  /\ pc[t] = "idle"
  /\ mutex' = mutex - 1
  /\ main' = "accept"
  /\ Goto(t, "start")
  /\ UNCHANGED <<cachevars, op_mut, cache_mut, readcnt, lost, requests, locals>>

(* pthread_create() fails, for want of memory or of threads, and main()    *)
(* does not look (proxy.c:58): connfd stays open and mutex locked.         *)
CreateFails ==
  /\ main = "lock"
  /\ mutex > 0
  /\ mutex' = mutex - 1
  /\ main' = "accept"
  /\ lost' = TRUE
  /\ UNCHANGED <<cachevars, op_mut, cache_mut, readcnt, requests, pc, locals>>

ThreadStart(t) ==
  /\ At(t, "start")
  /\ mutex' = mutex + 1
  /\ Goto(t, "read")
  /\ UNCHANGED <<cachevars, op_mut, cache_mut, readcnt, lost, main, requests, locals>>

(* Rio_readlineb() and sscanf().  A client that closes at once leaves buf  *)
(* as the stack had it: any request line.                                  *)
ReadRequest(t) ==
  /\ At(t, "read")
  /\ \E u \in Uris \cup BadUris : uri' = [uri EXCEPT ![t] = u]
  /\ Goto(t, "enter")
  /\ UNCHANGED <<cachevars, sems, main, requests, block, cursor, loaded, data, size>>

----------------------------------------------------------------------------
(* The lookup, between the two halves of the readers' lock *)

Enter(t) ==
  /\ At(t, "enter")
  /\ op_mut > 0
  /\ op_mut' = op_mut - 1
  /\ readcnt' = readcnt + 1
  /\ Goto(t, "first")
  /\ UNCHANGED <<cachevars, mutex, cache_mut, lost, main, requests, locals>>

FirstUnlocked(t) ==  \* mutant: the first reader does not take cache_mut
  /\ At(t, "first")
  /\ op_mut' = op_mut + 1
  /\ Goto(t, "inquire")
  /\ UNCHANGED <<cachevars, mutex, cache_mut, readcnt, lost, main, requests, locals>>

(* if (readcnt == 1) P(&cache_mut);  V(&op_mut); *)
First(t) ==
  /\ At(t, "first")
  /\ \/ readcnt = 1 /\ cache_mut > 0 /\ cache_mut' = cache_mut - 1
     \/ readcnt # 1 /\ UNCHANGED cache_mut
  /\ op_mut' = op_mut + 1
  /\ Goto(t, "inquire")
  /\ UNCHANGED <<cachevars, mutex, readcnt, lost, main, requests, locals>>

InquireStuck(t) ==  \* mutant: temp does not move to the next block
  /\ At(t, "inquire")
  /\ Found(uri[t]) = Len(blocks)
  /\ block' = [block EXCEPT ![t] = Found(uri[t])]
  /\ Goto(t, "leave")
  /\ UNCHANGED <<cachevars, sems, main, requests, uri, cursor, loaded, data, size>>

Inquire(t) ==
  /\ At(t, "inquire")
  /\ LET i == Found(uri[t]) IN
     /\ block' = [block EXCEPT ![t] = i]
     /\ IF i = NULL THEN UNCHANGED blocks ELSE SetUcount(i, 0)
     /\ cursor' = [cursor EXCEPT ![t] = IF i = NULL THEN NULL ELSE i - 1]
     /\ Goto(t, IF i > 1 THEN "load" ELSE "leave")
  /\ UNCHANGED <<total_size, mem, sems, main, requests, uri, loaded, data, size>>

(* increment_ucount->ucount++ of two readers may interleave. *)
Load(t) ==
  /\ At(t, "load")
  /\ loaded' = [loaded EXCEPT ![t] = blocks[cursor[t]].ucount]
  /\ Goto(t, "store")
  /\ UNCHANGED <<cachevars, sems, main, requests, uri, block, cursor, data, size>>

Store(t) ==
  /\ At(t, "store")
  /\ SetUcount(cursor[t], loaded[t] + 1)
  /\ cursor' = [cursor EXCEPT ![t] = @ - 1]
  /\ loaded' = [loaded EXCEPT ![t] = 0]
  /\ Goto(t, IF cursor[t] > 1 THEN "load" ELSE "leave")
  /\ UNCHANGED <<total_size, mem, sems, main, requests, uri, block, data, size>>

LeaveEarly(t) ==  \* mutant: any leaving reader releases cache_mut
  /\ At(t, "leave")
  /\ op_mut > 0
  /\ readcnt' = readcnt - 1
  /\ cache_mut' = cache_mut + 1
  /\ Goto(t, "choose")
  /\ UNCHANGED <<cachevars, mutex, op_mut, lost, main, requests, locals>>

(* P(&op_mut) to V(&op_mut): nothing in between can wait. *)
Leave(t) ==
  /\ At(t, "leave")
  /\ op_mut > 0
  /\ readcnt' = readcnt - 1
  /\ cache_mut' = IF readcnt = 1 THEN cache_mut + 1 ELSE cache_mut
  /\ Goto(t, "choose")
  /\ UNCHANGED <<cachevars, mutex, op_mut, lost, main, requests, locals>>

----------------------------------------------------------------------------
(* A hit: the block is written to the client under mutex *)

LockHit(t) ==
  /\ At(t, "choose") /\ block[t] # NULL
  /\ mutex > 0
  /\ mutex' = mutex - 1
  /\ Goto(t, "hit")
  /\ UNCHANGED <<cachevars, op_mut, cache_mut, readcnt, lost, main, requests, locals>>

(* Rio_writen(connfd, block->buf, block->size): the arguments are read,    *)
(* then write() reads the buffer they name.                                *)
ReadBlock(t) ==
  /\ At(t, "hit")
  /\ cursor' = [cursor EXCEPT ![t] = blocks[block[t]].buf]
  /\ size' = [size EXCEPT ![t] = blocks[block[t]].size]
  /\ Goto(t, "write")
  /\ UNCHANGED <<cachevars, sems, main, requests, uri, block, loaded, data>>

WriteStuck(t) ==  \* mutant: rio_writen() does not count what it wrote
  /\ At(t, "write") /\ size[t] = 0
  /\ Goto(t, "written")
  /\ UNCHANGED <<cachevars, sems, main, requests, locals>>

WriteBlock(t) ==
  /\ At(t, "write")
  /\ data' = [data EXCEPT ![t] = mem[cursor[t]]]
  /\ Goto(t, "written")
  /\ UNCHANGED <<cachevars, sems, main, requests, uri, block, cursor, loaded, size>>

UnlockHit(t) ==
  /\ At(t, "written")
  /\ mutex' = mutex + 1
  /\ Return(t)
  /\ UNCHANGED <<cachevars, op_mut, cache_mut, readcnt, lost, main, requests>>

----------------------------------------------------------------------------
(* A miss: parse, fetch, insert *)

(* P(&mutex) and V(&mutex), with nothing in between. *)
LockMiss(t) ==
  /\ At(t, "choose") /\ block[t] = NULL
  /\ mutex > 0
  /\ Goto(t, "parse")
  /\ UNCHANGED <<cachevars, sems, main, requests, locals>>

Parse(t) ==
  /\ At(t, "parse")
  /\ IF uri[t] \in Uris THEN Goto(t, "fetch") /\ UNCHANGED locals ELSE Return(t)
  /\ UNCHANGED <<cachevars, sems, main, requests>>

(* Rio_readnb() of one buffer, and Rio_writen() of it to the client. *)
ReadPiece(t) ==
  /\ At(t, "fetch")
  /\ size[t] < Pieces[uri[t]]
  /\ data' = [data EXCEPT ![t] = <<uri[t], size[t] + 1>>]
  /\ size' = [size EXCEPT ![t] = @ + 1]
  /\ UNCHANGED <<cachevars, sems, main, requests, pc, uri, block, cursor, loaded>>

EndOfResponse(t) ==
  /\ At(t, "fetch")
  /\ size[t] = Pieces[uri[t]]
  /\ IF size[t] <= MAX_OBJECT_SIZE THEN Goto(t, "insert") /\ UNCHANGED locals
                                   ELSE Return(t)
  /\ UNCHANGED <<cachevars, sems, main, requests>>

LockInsert(t) ==
  /\ At(t, "insert")
  /\ cache_mut > 0
  /\ cache_mut' = cache_mut - 1
  /\ Goto(t, IF Fits(size[t]) THEN "add" ELSE "evict")
  /\ UNCHANGED <<cachevars, mutex, op_mut, readcnt, lost, main, requests, locals>>

AddBlock(t) ==
  /\ At(t, "add")
  /\ new_block(uri[t], data[t], size[t])
  /\ Goto(t, "inserted")
  /\ UNCHANGED <<sems, main, requests, locals>>

EvictFree(t) ==
  /\ At(t, "evict")
  /\ FreeVictim(Victim)
  /\ block' = [block EXCEPT ![t] = Victim]
  /\ Goto(t, "refill")
  /\ UNCHANGED <<sems, main, requests, uri, cursor, loaded, data, size>>

EvictRefill(t) ==
  /\ At(t, "refill")
  /\ RefillVictim(block[t], uri[t], data[t])
  /\ Goto(t, "resize")
  /\ UNCHANGED <<sems, main, requests, locals>>

EvictResize(t) ==
  /\ At(t, "resize")
  /\ ResizeVictim(block[t], size[t])
  /\ Goto(t, "inserted")
  /\ UNCHANGED <<sems, main, requests, locals>>

UnlockInsert(t) ==
  /\ At(t, "inserted")
  /\ cache_mut' = cache_mut + 1
  /\ Return(t)
  /\ UNCHANGED <<cachevars, mutex, op_mut, readcnt, lost, main, requests>>

(* Any error of a Rio wrapper or of Accept ends the process (csapp.c:26-30,*)
(* 894-923), a server that cannot be reached included: serverfd is then    *)
(* negative.  So does a URI without a path: parse() stores through NULL.   *)
Fail ==
  /\ \/ main = "accept"
     \/ \E t \in Threads : pc[t] \in {"read", "fetch", "write"}
     \/ \E t \in Threads : pc[t] = "parse" /\ uri[t] \in BadUris
  /\ Up
  /\ main' = "dead"
  /\ UNCHANGED <<cachevars, sems, requests, pc, locals>>

----------------------------------------------------------------------------
Init ==
  /\ CacheInit
  /\ mutex = 1 /\ op_mut = 1 /\ cache_mut = 1 /\ readcnt = 0 /\ lost = FALSE
  /\ main = "accept" /\ requests = 0
  /\ pc = [t \in Threads |-> "idle"]
  /\ uri = [t \in Threads |-> ""]
  /\ block = [t \in Threads |-> NULL]
  /\ cursor = [t \in Threads |-> NULL]
  /\ loaded = [t \in Threads |-> 0]
  /\ data = [t \in Threads |-> Junk]
  /\ size = [t \in Threads |-> 0]

(* The client sends its request and takes what is written to it. *)
Client(t) == ReadRequest(t) \/ WriteBlock(t)
(* The server the request names answers. *)
Server(t) == ReadPiece(t) \/ EndOfResponse(t)
Lookup(t) == \/ Enter(t) \/ First(t) \/ Inquire(t)
             \/ Load(t) \/ Store(t) \/ Leave(t)
Insert(t) == \/ LockInsert(t) \/ AddBlock(t) \/ EvictFree(t)
             \/ EvictRefill(t) \/ EvictResize(t) \/ UnlockInsert(t)
Step(t)   == \/ Create(t) \/ ThreadStart(t) \/ Lookup(t) \/ LockHit(t)
             \/ ReadBlock(t) \/ UnlockHit(t) \/ LockMiss(t) \/ Parse(t) \/ Insert(t)

(* No connection is served and none will be: the process is gone, all      *)
(* requests were answered, or everyone waits for a mutex that is lost.     *)
Over == /\ \/ ~Up
           \/ /\ \/ main = "accept" /\ requests = MaxRequests
                 \/ main = "lock" /\ lost
              /\ \A t \in Threads : pc[t] = "idle" \/ (lost /\ pc[t] = "choose")
        /\ UNCHANGED vars

Next == \/ Accept \/ CreateFails \/ Fail \/ Over
        \/ \E t \in Threads : Step(t) \/ Client(t) \/ Server(t)

Spec == Init /\ [][Next]_vars

(* Threads are scheduled and clients are prompt, which nothing in the code *)
(* ensures.  Servers need not answer, pthread_create() may fail, and       *)
(* sem_wait() promises no order.                                           *)
FairSpec == Spec /\ \A t \in Threads : WF_vars(Step(t)) /\ WF_vars(Client(t))

----------------------------------------------------------------------------
InMutex  == {"start", "hit", "write", "written"}
Reading  == {"inquire", "load", "store", "leave"}
Writing  == {"add", "evict", "refill", "resize", "inserted"}
Labels   == InMutex \cup Reading \cup Writing \cup
            {"idle", "read", "enter", "first", "choose", "parse", "fetch", "insert"}

AtOneOf(S) == {t \in Threads : pc[t] \in S}

Block == [key : Uris, buf : Bufs, size : Nat, ucount : Nat]

(* Every variable keeps its type; the semaphores are binary, although V()  *)
(* adds without a limit (csapp.c:721-725).                                 *)
TypeOK ==
  /\ blocks \in Seq(Block)
  /\ total_size \in Nat
  /\ mem \in [Bufs -> Content]
  /\ mutex \in {0, 1} /\ op_mut \in {0, 1} /\ cache_mut \in {0, 1}
  /\ readcnt \in 0 .. Cardinality(Threads) /\ lost \in BOOLEAN
  /\ main \in {"accept", "lock", "dead"}
  /\ requests \in 0 .. MaxRequests
  /\ pc \in [Threads -> Labels]
  /\ uri \in [Threads -> Uris \cup BadUris \cup {""}]
  /\ \A t \in Threads : block[t] \in 0 .. Len(blocks)
  /\ \A t \in Threads : cursor[t] \in Bufs \cup (0 .. Len(blocks))
  /\ loaded \in [Threads -> Nat]
  /\ data \in [Threads -> Content]
  /\ size \in [Threads -> Nat]

(* mutex is unlocked by another thread than the one that locked it         *)
(* (proxy.c:57, 68) and cache_mut by the last reader, whoever locked it    *)
(* (101-112): the counts still add up.  No V() is made twice, and only one *)
(* is ever lost, that of a thread which pthread_create() (58) did not      *)
(* start: then mutex is 0 for good and nobody is past it.                  *)
SemaphoresCount ==
  /\ mutex + Cardinality(AtOneOf(InMutex)) = (IF lost THEN 0 ELSE 1)
  /\ op_mut + Cardinality(AtOneOf({"first"})) = 1
  /\ readcnt = Cardinality(AtOneOf(Reading \cup {"first"}))
  /\ cache_mut + Cardinality(AtOneOf(Writing))
               + (IF AtOneOf(Reading) = {} THEN 0 ELSE 1) = 1

(* "access cache safely" (proxy.c:106, 160): no thread walks the list      *)
(* while another inserts, and two never insert together.                   *)
ReadersExcludeWriter ==
  \A t, o \in Threads :
     t # o /\ pc[t] \in Writing => pc[o] \notin Reading \cup Writing

(* The cache is sound whenever no insertion is under way, races on ucount  *)
(* or not: total_size (cache.c:4) is the sum of the sizes in the list, and *)
(* the buffers allocated are those of the blocks, one each (cache.c:79-87):*)
(* nothing is leaked, shared or freed twice.  And the loop that looks for  *)
(* a victim (cache.c:56-77) runs on a list that is not empty: evict is not *)
(* NULL when it is dereferenced, because an object that does not fit       *)
(* beside nothing is never inserted (proxy.c:157).  The pointers threads   *)
(* hold are into the list or its buffers at any time (TypeOK).             *)
TotalSizeIsSum == total_size = SizeSum
BuffersOwned == Bufs \ FreeBufs = LiveBufs /\ Cardinality(LiveBufs) = Len(blocks)
EvictsABlock == \A t \in Threads : pc[t] = "evict" => blocks # <<>>

CacheIsSound == /\ AtOneOf(Writing) = {} => TotalSizeIsSum /\ BuffersOwned
                /\ EvictsABlock
                /\ TypeOK

(* "if the request is in the cache, response is sent to the client"        *)
(* (proxy.c:5-6): what a hit writes is the response of the request, all of *)
(* it.                                                                     *)
HitSendsResponse ==
  \A t \in Threads : pc[t] = "written" =>
     /\ size[t] = Pieces[uri[t]]
     /\ size[t] > 0 => data[t] = <<uri[t], 1>> /\ size[t] = 1

(* A server that never answers delays no other request (proxy.c:122-155):  *)
(* every thread ends or waits for its own server.  This rests on clients   *)
(* that take what is written to them, for a hit is written under mutex     *)
(* (117-119), and on every thread being started: after a pthread_create()  *)
(* that failed (58) each thread stops at its next P(&mutex).               *)
OnlyServersDelay ==
  \A t \in Threads :
     pc[t] # "idle" ~> \/ pc[t] \in {"idle", "fetch"}
                       \/ ~Up
                       \/ lost /\ pc[t] = "choose"

(* main() gets back to accept(): mutex, which it takes for every new       *)
(* thread, is kept by no other (proxy.c:55-58).  This too rests on clients *)
(* that read, and it is what a pthread_create() that failed takes away.    *)
AcceptsAgain == main = "lock" ~> main # "lock" \/ lost
=============================================================================
