------------------------------ MODULE DiskThreads ------------------------------
(***************************************************************************)
(* Disk I/O through POSIX threads (aufs): the store's UFSStoreState over   *)
(* DiskThreadsDiskFile, the request and done queues of aiops.cc that the   *)
(* main thread shares with the I/O threads, and the pipe of CommIO that    *)
(* wakes the main thread up.  The lists are linked cells with a pointer to *)
(* the location of the last link, as in the code.                          *)
(* Built with ASYNC_OPEN, ASYNC_CREATE and ASYNC_READ; writes and closes   *)
(* are synchronous (DiskThreads.h).  A write completes at once, and        *)
(* whether it fails makes no difference to UFSStoreState.                  *)
(***************************************************************************)
EXTENDS Integers, FiniteSets

CONSTANTS
    Thread,             \* I/O threads (NUMTHREADS)
    Sio, ModeOf,        \* StoreIOState objects, each with its DiskFile, and
                        \* whether they "read" or "write"
    Unlink,             \* concurrent unlink requests
    FD,                 \* descriptors the kernel can give out
    Workloads,          \* sets of files and unlinks that are used together
    RIDICULOUS_LENGTH,  \* queue length that makes the main thread wait
    maxWrites           \* bound: writes a client makes before it closes

VARIABLES
    lists,       \* the four lists of requests: link[location] and tail[queue]
    req,         \* squidaio_request_t in use
    queueLen,    \* request_queue_len
    thread,      \* [pc, r]: each thread's place in squidaio_thread_loop
    rlock,       \* holder of request_queue.mutex
    dlock,       \* holder of done_queue.mutex
    signalled,   \* CommIO::DoneSignalled
    pipe,        \* whether bytes wait in the done pipe
    main,        \* what the event loop of the main thread does
    syncing,     \* "no", or what main does after squidaio_sync()
    sio,         \* UFSStoreState and DiskThreadsDiskFile
    owner,       \* open descriptors and the file each was opened for
    active       \* the workload

notifyVars == <<signalled, pipe>>
vars == <<lists, req, queueLen, thread, rlock, dlock, notifyVars, main, syncing,
          sio, owner, active>>

Queue == {"request", "request2", "done", "polled"}
Req == Sio \cup Unlink
NULL == "NULL"
None == "none"

\* Requests, threads and descriptors are told apart from the lists and from
\* what stands for the lack of one; a file is read or written.
ASSUME ConstantsAssumption ==
    /\ Sio \cap Unlink = {} /\ Req \cap Queue = {} /\ NULL \notin Req
    /\ None \notin Sio /\ None \notin Thread
    /\ None \notin FD /\ "failed" \notin FD
    /\ ModeOf \in [Sio -> {"read", "write"}]

NoReq == [op |-> None, fd |-> None]
Idle == [mode |-> None]
Opened(mode) ==
    [mode |-> mode, opening |-> TRUE, closed |-> FALSE, try_closing |-> FALSE,
     closing |-> FALSE, reading |-> FALSE, pendingRead |-> FALSE, pendingWrites |-> 0,
     fd |-> None, inProgress |-> 1]

Init ==
    /\ lists = [link |-> [l \in Queue \cup Req |-> NULL], tail |-> [q \in Queue |-> q]]
    /\ req = [r \in Req |-> NoReq]
    /\ queueLen = 0
    /\ thread = [t \in Thread |-> [pc |-> "lock", r |-> NULL]]
    /\ rlock = None /\ dlock = None
    /\ signalled = FALSE /\ pipe = FALSE
    /\ main = "wait" /\ syncing = "no"
    /\ sio = [s \in Sio |-> Idle]
    /\ owner = [fd \in FD |-> None]
    /\ active \in Workloads

-----------------------------------------------------------------------------
(* Lists                                                                   *)

Head(L, q) == L.link[q]
Push(L, q, r) ==
    [link |-> [L.link EXCEPT ![L.tail[q]] = r, ![r] = NULL],
     tail |-> [L.tail EXCEPT ![q] = r]]
\* faulty: the last location of the longer list is not taken over
SpliceFaulty(L, to, from) ==
    IF Head(L, from) = NULL THEN L
    ELSE [link |-> [L.link EXCEPT ![L.tail[to]] = L.link[from], ![from] = NULL],
          tail |-> [L.tail EXCEPT ![from] = from]]
Splice(L, to, from) ==
    IF Head(L, from) = NULL THEN L
    ELSE [link |-> [L.link EXCEPT ![L.tail[to]] = L.link[from], ![from] = NULL],
          tail |-> [L.tail EXCEPT ![to] = L.tail[from], ![from] = from]]
Pop(L, q) ==
    LET rest == L.link[L.link[q]]
    IN  [link |-> [L.link EXCEPT ![q] = rest, ![L.link[q]] = NULL],
         tail |-> IF rest = NULL THEN [L.tail EXCEPT ![q] = q] ELSE L.tail]

\* the requests of a list (a list the code keeps has no cycle)
Items(L, q) ==
    LET at[n \in 0..Cardinality(Req)] ==
            IF n = 0 THEN L.link[q] ELSE IF at[n-1] = NULL THEN NULL ELSE L.link[at[n-1]]
    IN  {at[n] : n \in DOMAIN at} \ {NULL}

-----------------------------------------------------------------------------
(* Requests                                                                *)

\* pthread_cond_signal() wakes one waiting thread, or nobody
CondSignal ==
    LET waiting == {t \in Thread : thread[t].pc = "waiting"}
    IN  IF waiting = {} THEN UNCHANGED thread
        ELSE \E t \in waiting : thread' = [thread EXCEPT ![t].pc = "lock"]

\* L are the lists and len is the queue length that the caller leaves
squidaio_queue_request(L, len, r, op, fd) ==
    /\ req' = [req EXCEPT ![r] = [op |-> op, fd |-> fd]]
    /\ queueLen' = len + 1
    /\ IF rlock = None
       THEN lists' = Push(Splice(L, "request", "request2"), "request", r) /\ CondSignal
       ELSE lists' = Push(L, "request2", r) /\ UNCHANGED thread
    /\ IF len + 1 > RIDICULOUS_LENGTH
       THEN main' = "kick" /\ syncing' = main
       ELSE UNCHANGED <<main, syncing>>

NoRequest(L, r) ==
    /\ lists' = L
    /\ req' = [req EXCEPT ![r] = NoReq]
    /\ UNCHANGED <<queueLen, thread, main, syncing>>

-----------------------------------------------------------------------------
(* Files.  The operators take and give the record of a UFSStoreState and   *)
(* its DiskFile; Idle is what doCloseCallback() leaves                     *)

\* DiskThreadsDiskFile::close(): doClose() cancels the requests on the
\* descriptor, of which there are none (DescriptorsOwned), and closes it;
\* closeCompleted() frees what is pending and calls the client back
fileClose(S) == IF S.inProgress > 0 THEN S ELSE Idle
tryClosing(S) ==
    IF S.inProgress > 0 THEN [S EXCEPT !.try_closing = TRUE]
    ELSE fileClose([S EXCEPT !.closing = TRUE, !.try_closing = FALSE])
CloseIfAsked(S) == IF S # Idle /\ S.try_closing THEN tryClosing(S) ELSE S
drainWriteQueue(S) ==
    IF S.fd = None THEN S ELSE CloseIfAsked([S EXCEPT !.pendingWrites = 0])
\* faulty: the read is not counted as in progress
fileReadFaulty(S) == [S EXCEPT !.reading = TRUE]
fileRead(S) == [S EXCEPT !.reading = TRUE, !.inProgress = @ + 1]
ioDone(S) == [S EXCEPT !.inProgress = @ - 1]

\* The new state of s, whose descriptor fd goes back to the kernel on closing
Update(s, S, fd) ==
    /\ sio' = [sio EXCEPT ![s] = S]
    /\ owner' = IF S = Idle /\ fd \in FD THEN [owner EXCEPT ![fd] = None] ELSE owner

-----------------------------------------------------------------------------
(* The store: calls of clients, while the event loop dispatches or in the  *)
(* callbacks of squidaio_poll_done()                                       *)

Dispatching == main \in {"poll", "wait"}
Client(s, mode) == sio[s].mode = mode /\ ~sio[s].closed
storeVars == <<rlock, dlock, notifyVars>>
queueVars == <<lists, req, queueLen, thread, main, syncing>>

Open(s) ==
    /\ Dispatching /\ sio[s] = Idle
    /\ Update(s, Opened(ModeOf[s]), None)
    /\ squidaio_queue_request(lists, queueLen, s, "open", None)
    /\ UNCHANGED storeVars

Read(s) ==
    /\ Dispatching /\ Client(s, "read") /\ ~sio[s].reading /\ ~sio[s].pendingRead
    /\ IF sio[s].fd = None
       THEN Update(s, [sio[s] EXCEPT !.pendingRead = TRUE], None) /\ UNCHANGED queueVars
       ELSE /\ Update(s, fileRead(sio[s]), None)
            /\ squidaio_queue_request(lists, queueLen, s, "read", sio[s].fd)
    /\ UNCHANGED storeVars

Write(s) ==
    /\ Dispatching /\ Client(s, "write") /\ sio[s].pendingWrites < maxWrites
    /\ Update(s, drainWriteQueue([sio[s] EXCEPT !.pendingWrites = @ + 1]), sio[s].fd)
    /\ UNCHANGED <<queueVars, storeVars>>

storeClose(s) ==
    /\ Dispatching /\ sio[s] # Idle /\ ~sio[s].closed
    /\ Update(s, tryClosing([sio[s] EXCEPT !.closed = TRUE]), sio[s].fd)
    /\ UNCHANGED <<queueVars, storeVars>>

unlinkFile(u) ==
    /\ Dispatching /\ req[u] = NoReq
    /\ squidaio_queue_request(lists, queueLen, u, "unlink", None)
    /\ UNCHANGED <<sio, owner, storeVars>>

-----------------------------------------------------------------------------
(* squidaio_thread_loop()                                                  *)

mainVars == <<req, queueLen, main, syncing, sio>>
At(t, pc) == thread[t].pc = pc
Goto(t, pc) == thread' = [thread EXCEPT ![t].pc = pc]

ThreadLock(t) ==
    /\ At(t, "lock") /\ rlock = None
    /\ rlock' = t /\ Goto(t, "locked")
    /\ UNCHANGED <<mainVars, lists, dlock, notifyVars, owner>>

ThreadTake(t) ==
    /\ At(t, "locked")
    /\ rlock' = None
    /\ LET r == Head(lists, "request")
       IN  IF r = NULL
           THEN Goto(t, "waiting") /\ UNCHANGED lists
           ELSE /\ thread' = [thread EXCEPT ![t] = [pc |-> "busy", r |-> r]]
                /\ lists' = Pop(lists, "request")
    /\ UNCHANGED <<mainVars, dlock, notifyVars, owner>>

\* The kernel gives any free descriptor out, or open() fails
ThreadOpen(t) ==
    /\ At(t, "busy") /\ req[thread[t].r].op = "open"
    /\ \E fd \in {d \in FD : owner[d] = None} \cup {"failed"} :
          /\ req' = [req EXCEPT ![thread[t].r].fd = fd]
          /\ owner' = [d \in FD |-> IF d = fd THEN thread[t].r ELSE owner[d]]
    /\ Goto(t, "done")
    /\ UNCHANGED <<lists, queueLen, rlock, dlock, notifyVars, main, syncing, sio>>

ThreadOther(t) ==
    /\ At(t, "busy") /\ req[thread[t].r].op # "open"
    /\ Goto(t, "done")
    /\ UNCHANGED <<mainVars, lists, rlock, dlock, notifyVars, owner>>

ThreadDone(t) ==
    /\ At(t, "done") /\ dlock = None
    /\ dlock' = t /\ Goto(t, "append")
    /\ UNCHANGED <<mainVars, lists, rlock, notifyVars, owner>>

ThreadAppend(t) ==
    /\ At(t, "append")
    /\ lists' = Push(lists, "done", thread[t].r)
    /\ dlock' = None
    /\ thread' = [thread EXCEPT ![t] = [pc |-> "notify", r |-> NULL]]
    /\ UNCHANGED <<mainVars, rlock, notifyVars, owner>>

NotifyIOCompleted(t) ==
    /\ At(t, "notify")
    /\ signalled' = TRUE
    /\ Goto(t, IF signalled THEN "lock" ELSE "write")
    /\ UNCHANGED <<mainVars, lists, rlock, dlock, pipe, owner>>

NotifyWrites(t) ==
    /\ At(t, "write")
    /\ pipe' = TRUE /\ Goto(t, "lock")
    /\ UNCHANGED <<mainVars, lists, rlock, dlock, signalled, owner>>

ThreadStep(t) ==
    /\ \/ ThreadLock(t) \/ ThreadTake(t) \/ ThreadOpen(t) \/ ThreadOther(t)
       \/ ThreadDone(t) \/ ThreadAppend(t) \/ NotifyIOCompleted(t) \/ NotifyWrites(t)
    /\ UNCHANGED active

-----------------------------------------------------------------------------
(* The event loop of the main thread: StoreRootEngine and its wait         *)

\* Descriptors or a timeout end the wait; NULLFDHandler() empties the pipe
Wake ==
    /\ main = "wait" /\ main' = "poll"
    /\ pipe' = FALSE
    /\ UNCHANGED <<lists, req, queueLen, thread, rlock, dlock, signalled, syncing, sio, owner>>

\* squidaio_poll_done() with nothing left to deliver: ResetNotifications()
PollFlush ==
    /\ main = "poll" /\ Head(lists, "polled") = NULL
    /\ main' = IF signalled THEN "reset" ELSE "kick"
    /\ pipe' = IF signalled THEN FALSE ELSE pipe
    /\ UNCHANGED <<lists, req, queueLen, thread, rlock, dlock, signalled, syncing, sio, owner>>

\* faulty: the flag is left set
PollResetFaulty ==
    /\ main = "reset" /\ main' = "kick"
    /\ UNCHANGED <<lists, req, queueLen, thread, rlock, dlock, notifyVars, syncing, sio, owner>>

PollReset ==
    /\ main = "reset" /\ main' = "kick"
    /\ signalled' = FALSE
    /\ UNCHANGED <<lists, req, queueLen, thread, rlock, dlock, pipe, syncing, sio, owner>>

\* squidaio_poll_queues(), for squidaio_poll_done() or squidaio_sync()
PollKick ==
    /\ main = "kick" /\ main' = "take"
    /\ IF Head(lists, "request2") # NULL /\ rlock = None
       THEN lists' = Splice(lists, "request", "request2") /\ CondSignal
       ELSE UNCHANGED <<lists, thread>>
    /\ UNCHANGED <<req, queueLen, rlock, dlock, notifyVars, syncing, sio, owner>>

PollTake ==
    /\ main = "take"
    /\ IF dlock = None
       THEN /\ lists' = Splice(lists, "polled", "done")
            /\ queueLen' = queueLen - Cardinality(Items(lists, "done"))
       ELSE UNCHANGED <<lists, queueLen>>
    /\ IF syncing # "no"
       THEN /\ main' = IF queueLen' > 0 THEN "kick" ELSE syncing
            /\ syncing' = IF queueLen' > 0 THEN syncing ELSE "no"
       ELSE /\ main' = IF Head(lists', "polled") = NULL THEN "wait" ELSE "poll"
            /\ UNCHANGED syncing
    /\ UNCHANGED <<req, thread, rlock, dlock, notifyVars, sio, owner>>

Polled(op) ==
    /\ main = "poll" /\ Head(lists, "polled") # NULL
    /\ req[Head(lists, "polled")].op = op
    /\ UNCHANGED storeVars

\* openDone() of the file and of UFSStoreState.  A reader that has closed
\* may be gone, and its queued read with it
OpenDone ==
    /\ Polled("open")
    /\ LET s  == Head(lists, "polled")
           fd == req[s].fd
           S  == [ioDone(sio[s]) EXCEPT !.opening = FALSE, !.pendingRead = FALSE,
                                        !.fd = IF fd \in FD THEN fd ELSE None]
       IN  \/ /\ fd \notin FD
              /\ Update(s, tryClosing(S), None)
              /\ NoRequest(Pop(lists, "polled"), s)
           \/ /\ fd \in FD /\ sio[s].pendingRead
              /\ Update(s, fileRead(S), None)
              /\ squidaio_queue_request(Pop(lists, "polled"), queueLen, s, "read", fd)
           \/ /\ fd \in FD /\ (sio[s].pendingRead => sio[s].closed)
              /\ Update(s, CloseIfAsked(drainWriteQueue(S)), fd)
              /\ NoRequest(Pop(lists, "polled"), s)

ReadDone ==
    /\ Polled("read")
    /\ LET s == Head(lists, "polled")
       IN  /\ Update(s, CloseIfAsked([ioDone(sio[s]) EXCEPT !.reading = FALSE]), sio[s].fd)
           /\ NoRequest(Pop(lists, "polled"), s)

UnlinkDone ==
    /\ Polled("unlink")
    /\ NoRequest(Pop(lists, "polled"), Head(lists, "polled"))
    /\ UNCHANGED <<sio, owner>>

MainStep ==
    /\ \/ Wake \/ PollFlush \/ PollReset \/ PollKick \/ PollTake
       \/ OpenDone \/ ReadDone \/ UnlinkDone
    /\ UNCHANGED active

ClientStep ==
    /\ \/ \E s \in Sio \cap active : Open(s) \/ Read(s) \/ Write(s) \/ storeClose(s)
       \/ \E u \in Unlink \cap active : unlinkFile(u)
    /\ UNCHANGED active

Next == MainStep \/ ClientStep \/ \E t \in Thread : ThreadStep(t)

\* The loop waits for at most a second, system calls return, and a mutex
\* that is free again and again is obtained
Fairness ==
    /\ WF_vars(MainStep)
    /\ \A t \in Thread : /\ WF_vars(ThreadStep(t))
                         /\ SF_vars(ThreadDone(t) /\ UNCHANGED active)

Spec == Init /\ [][Next]_vars /\ Fairness

-----------------------------------------------------------------------------
(* Properties                                                              *)

TypeOK ==
    /\ lists \in [link: [Queue \cup Req -> Req \cup {NULL}],
                  tail: [Queue -> Queue \cup Req]]
    /\ queueLen \in 0..Cardinality(Req)
    /\ main \in {"poll", "reset", "kick", "take", "wait"}
    /\ syncing \in {"no", "poll", "wait"}
    /\ {rlock, dlock} \subseteq Thread \cup {None}
    /\ owner \in [FD -> Sio \cup {None}]

\* I/O never meets a descriptor that was closed, which the kernel may have
\* given to another file by then: a read in a queue or a thread is on a
\* descriptor that its own file holds.  And no descriptor is lost: one that
\* is open is held by its file or by the open request that will deliver it.
\* Hence aioCancel() in doClose() finds nothing to cancel, and no buffer is
\* freed under a thread that reads into it.
DescriptorsOwned ==
    /\ \A s \in Sio : req[s].op = "read" => owner[req[s].fd] = s
    /\ \A fd \in FD : LET s == owner[fd] IN
          s # None => \/ sio[s] # Idle /\ sio[s].fd = fd
                      \/ req[s] = [op |-> "open", fd |-> fd]

\* The event loop does not wait out its timeout while completed requests
\* are there to deliver: the pipe has a byte or a thread is about to see to
\* it, although the flag, the pipe and the done queue are changed in
\* separate steps by both sides and polling gives way to a thread that
\* holds the lock.  Each access takes effect at once: DoneSignalled, a plain
\* bool, is assumed to be sequentially consistent.
WakeupNotLost ==
    (main = "wait" /\ (Head(lists, "done") # NULL \/ Head(lists, "polled") # NULL))
    => pipe \/ \E t \in Thread : thread[t].pc \in {"append", "notify", "write"}

\* Every request is performed and delivered, with one wakeup for a whole
\* list of requests that could not be queued earlier, and with the main
\* thread waiting for an overlong queue to drain; every file that its
\* client closes, before or after it is open and whatever is still queued,
\* is closed and the client called back.
IoEnds ==
    /\ \A r \in Req : req[r].op # None ~> req[r].op = None
    /\ \A s \in Sio : (sio[s] # Idle /\ sio[s].closed) ~> sio[s] = Idle
====
