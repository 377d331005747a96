-------------------------------- MODULE IpcIo --------------------------------
(***************************************************************************)
(* IpcIoFile (src/DiskIO/IpcIo/IpcIoFile.cc): a worker kid reads and       *)
(* writes a rock database through a disker kid.  A request travels in a    *)
(* bounded queue to the disker, its response in another one back; the      *)
(* blocks travel in shared memory pages.  The worker gives a request up    *)
(* when two timeout checks have passed without a response.                 *)
(*                                                                         *)
(* The file is open.  Queues are the first-in first-out queues IpcQueue    *)
(* implements.  A push may leave its reader asleep (see ReaderNotified in  *)
(* IpcQueue), and the disker may be slow or rate limited: nothing here     *)
(* forces the disker, or the worker before its next call, to look.         *)
(*                                                                         *)
(* Worker code is not interrupted, but it re-enters: push() first handles  *)
(* responses, and the callback of a completed read may start a read        *)
(* (store_client::readHeader() calls fileRead()).  calls is the stack of   *)
(* the calls that are handling responses.  A read() or write() of a file   *)
(* that has failed throws (Must(!error_)), through all of them.            *)
(***************************************************************************)
EXTENDS Integers, Sequences, FiniteSets

CONSTANTS
    NRequests,      \* bound: number of requests the worker issues
    IdRange,        \* number of values of requestId (unsigned int)
    QueueCapacity,  \* capacity of each queue
    Pages,          \* shared memory pages for ioPage
    NoPage          \* PageId(): no page

ASSUME IpcIoAssumption ==
    /\ NRequests \in Nat \ {0}
    /\ QueueCapacity \in Nat \ {0}
    \* a worker does not issue 2^32 requests between a request and its timeout
    /\ IdRange \in Nat /\ IdRange > NRequests + 1
    /\ NoPage \notin Pages

Requests == 1 .. NRequests
Commands == {"read", "write"}
Ids == 0 .. IdRange - 1             \* zero is not used
None == 0                           \* no request

VARIABLES
    error_,         \* the file has seen an I/O error
    lastRequestId,
    requestMap,     \* requestMap[1], requestMap[2]: pending request of each id
    olderRequests,  \* which of the two maps holds the older requests
    timeoutCheckScheduled,
    worker,         \* the process: up, deaf (its Strand job has ended) or dead
    calls,          \* each call: the method, and the request it pushes
    command,        \* command[r]: what request r asks for, once issued
    result,         \* result[r]: how r ended, or how far it is
    toDisker,       \* the two queues
    toWorker,
    disker,         \* the response the disker is about to push, if any
    free,           \* free pages
    completions,    \* history: completions[r] is the number of completeIo() calls for r
    answeredBy,     \* history: answeredBy[r] is the request r got the response of
    waited,         \* history: requests pending when the timeout check was scheduled
    reentered       \* history: a callback has started a read

fileVars == <<error_, lastRequestId, requestMap, olderRequests, timeoutCheckScheduled, worker>>
queueVars == <<toDisker, toWorker, disker>>
history == <<completions, answeredBy, waited, reentered>>
vars == <<fileVars, calls, command, result, queueVars, free, history>>

\* No I/O is in flight; the file may have been in use for long.
Init ==
    /\ error_ = FALSE
    /\ lastRequestId \in Ids
    /\ requestMap = [m \in 1 .. 2 |-> [id \in Ids |-> None]]
    /\ olderRequests = 1
    /\ timeoutCheckScheduled = FALSE
    /\ worker = "up"
    /\ calls = <<>>
    /\ command = [r \in Requests |-> "none"]
    /\ result = [r \in Requests |-> "new"]
    /\ toDisker = <<>> /\ toWorker = <<>> /\ disker = <<>>
    /\ free = Pages
    /\ completions = [r \in Requests |-> 0]
    /\ answeredBy = [r \in Requests |-> None]
    /\ waited = {}
    /\ reentered = FALSE

newerRequests == 3 - olderRequests

NextId ==                           \* IpcIoPendingRequest::IpcIoPendingRequest()
    IF lastRequestId + 1 = IdRange THEN 1 ELSE lastRequestId + 1

Tracked == {requestMap[m][id] : m \in 1 .. 2, id \in Ids} \ {None}

Call(method, r) == [method |-> method, req |-> r]

LastCall == calls[Len(calls)]

\* The last call has handled all responses there are: pop() returned false.
ResponsesHandled == calls # <<>> /\ toWorker = <<>>

Return == calls' = SubSeq(calls, 1, Len(calls) - 1)

----------------------------------------------------------------------------
(* read() and write() *)

Start(r, cmd) ==
    /\ ~error_                      \* Must(!error_)
    /\ result[r] = "new"
    /\ \A q \in Requests : q < r => result[q] # "new"   \* requests are alike
    /\ command' = [command EXCEPT ![r] = cmd]
    /\ lastRequestId' = NextId
    /\ calls' = Append(calls, Call("push", r))

Issue(r, cmd) ==
    /\ calls = <<>> /\ worker # "dead"
    /\ Start(r, cmd)
    /\ result' = [result EXCEPT ![r] = "issued"]
    /\ UNCHANGED <<error_, requestMap, olderRequests, timeoutCheckScheduled, worker, queueVars,
                   free, history>>

\* JobDialer catches what a job throws and ends the job: the one that called read() or
\* write(), or the Strand that received the notification.  Nothing catches what the timeout
\* event throws, or a caller that is not a job: SquidMainSafe() ends the process.
Caught ==
    CASE calls = <<>> \/ calls[1].method = "push" -> {worker, "dead"}
      [] calls # <<>> /\ calls[1].method = "HandleNotification" -> {"deaf"}
      [] calls # <<>> /\ calls[1].method = "checkTimeouts" -> {"dead"}

\* Must(!error_) throws before there is a request.
IssueThrows ==
    /\ calls = <<>> /\ worker # "dead"
    /\ error_
    /\ worker' \in Caught
    /\ UNCHANGED <<error_, lastRequestId, requestMap, olderRequests, timeoutCheckScheduled,
                   calls, command, result, queueVars, free, history>>

(* the rest of push(), and trackPendingRequest() *)

PushRequest ==
    LET r == LastCall.req IN
    /\ ResponsesHandled
    /\ LastCall.method = "push"
    /\ Len(toDisker) < QueueCapacity
    /\ \E page \in (IF command[r] = "write" THEN free ELSE {NoPage}) :     \* GetPage()
        /\ free' = free \ {page}
        /\ toDisker' = Append(toDisker, [requestId |-> lastRequestId, req |-> r,
                                         page |-> page])
    \* std::map::insert() keeps an element that is already there
    /\ requestMap' = IF requestMap[newerRequests][lastRequestId] # None THEN requestMap
                     ELSE [requestMap EXCEPT ![newerRequests][lastRequestId] = r]
    /\ timeoutCheckScheduled' = TRUE                            \* scheduleTimeoutCheck()
    /\ waited' = IF timeoutCheckScheduled THEN waited ELSE Tracked \cup {r}
    /\ result' = [result EXCEPT ![r] = "pushed"]
    /\ Return
    /\ UNCHANGED <<error_, lastRequestId, olderRequests, worker, command, toWorker, disker,
                   completions, answeredBy, reentered>>

\* The queue is full, or there is no page for the block to write: completeIo(NULL).
\* A page that was found before the queue was is not put back.
PushFails ==
    LET r == LastCall.req IN
    /\ ResponsesHandled
    /\ LastCall.method = "push"
    /\ IF command[r] = "write" /\ free # {}
       THEN /\ Len(toDisker) = QueueCapacity
            /\ \E page \in free : free' = free \ {page}
       ELSE /\ Len(toDisker) = QueueCapacity \/ command[r] = "write"
            /\ UNCHANGED free
    /\ result' = [result EXCEPT ![r] = "failed"]
    /\ completions' = [completions EXCEPT ![r] = @ + 1]
    /\ Return
    /\ UNCHANGED <<fileVars, command, queueVars, answeredBy, waited, reentered>>

----------------------------------------------------------------------------
(* HandleResponses(): one response *)

\* Faulty variant: the request stays in its map.
dequeueRequestKeeps(id) ==
    LET m == IF requestMap[1][id] # None THEN 1 ELSE 2
    IN  [pending |-> requestMap[m][id], map |-> requestMap]

dequeueRequest(id) ==               \* the first map is searched first
    LET m == IF requestMap[1][id] # None THEN 1 ELSE 2
    IN  [pending |-> requestMap[m][id],
         map |-> [requestMap EXCEPT ![m][id] = None]]

\* readCompleted(), writeCompleted(): a read that got no page fails.
\* A short write breaks the file, but counts as a success.
Outcome(response) == IF response.status \in {"noPage", "failed"} THEN "failed" ELSE "ok"

\* What is left of the calls when an exception unwinds them: the requests of push() are
\* neither tracked nor completed, the rest of checkTimeouts() is not done.
Unwound == {calls[i].req : i \in {j \in DOMAIN calls : calls[j].method = "push"}}

\* completeIo(): only a read's response holds a page, given back here.
HandleResponse ==
    /\ calls # <<>> /\ toWorker # <<>>
    /\ LET response == Head(toWorker)
           found == dequeueRequest(response.requestId)
           r == found.pending
       IN  /\ r # None
           /\ requestMap' = found.map
           /\ free' = free \cup ({response.page} \cap Pages)
           /\ error_' = (error_ \/ response.status \in {"failed", "short"})
           /\ completions' = [completions EXCEPT ![r] = @ + 1]
           /\ answeredBy' = [answeredBy EXCEPT ![r] = response.req]
           /\ toWorker' = Tail(toWorker)
           /\ \/ /\ result' = [result EXCEPT ![r] = Outcome(response)]
                 /\ UNCHANGED <<lastRequestId, command, calls, reentered, worker>>
              \/ \E s \in Requests :                \* the callback calls read()
                    /\ command[r] = "read" /\ response.status = "ok"
                    /\ Start(s, "read")
                    /\ result' = [result EXCEPT ![r] = Outcome(response), ![s] = "issued"]
                    /\ reentered' = TRUE
                    /\ UNCHANGED worker
              \/ /\ command[r] = "read" /\ response.status = "ok"
                 /\ error_                             \* and read() throws
                 /\ result' = [q \in Requests |-> IF q = r THEN Outcome(response)
                                   ELSE IF q \in Unwound THEN "thrown" ELSE result[q]]
                 /\ calls' = <<>>
                 /\ worker' \in Caught
                 /\ UNCHANGED <<lastRequestId, command, reentered>>
    /\ UNCHANGED <<olderRequests, timeoutCheckScheduled, toDisker, disker, waited>>

\* LATE disker response: nobody waits for it; its page is not given back.
HandleLateResponse ==
    /\ calls # <<>> /\ toWorker # <<>>
    /\ dequeueRequest(Head(toWorker).requestId).pending = None
    /\ toWorker' = Tail(toWorker)
    /\ UNCHANGED <<fileVars, calls, command, result, toDisker, disker, free, history>>

----------------------------------------------------------------------------
(* a notification message, after clearReaderSignal() *)

HandleNotification ==
    /\ calls = <<>> /\ worker = "up"
    /\ calls' = <<Call("HandleNotification", None)>>
    /\ UNCHANGED <<fileVars, command, result, queueVars, free, history>>

NotificationHandled ==
    /\ ResponsesHandled
    /\ LastCall.method = "HandleNotification"
    /\ Return
    /\ UNCHANGED <<fileVars, command, result, queueVars, free, history>>

(* the timeout event *)

CheckTimeouts ==                    \* HandleResponses("before timeout")
    /\ calls = <<>> /\ worker # "dead"
    /\ timeoutCheckScheduled
    /\ timeoutCheckScheduled' = FALSE
    /\ calls' = <<Call("checkTimeouts", None)>>
    /\ UNCHANGED <<error_, lastRequestId, requestMap, olderRequests, worker, command, result,
                   queueVars, free, history>>

Expired == {requestMap[olderRequests][id] : id \in Ids} \ {None}

\* The rest of checkTimeouts() abandons rs, clears the maps that hold them
\* and, if again, asks for another check while requests are pending
Abandon(rs, maps, unused, again) ==
    /\ ResponsesHandled
    /\ LastCall.method = "checkTimeouts"
    /\ result' = [r \in Requests |-> IF r \in rs THEN "failed" ELSE result[r]]
    /\ completions' = [r \in Requests |-> completions[r] + (IF r \in rs THEN 1 ELSE 0)]
    /\ requestMap' = [m \in 1 .. 2 |-> IF m \in maps THEN [id \in Ids |-> None] ELSE requestMap[m]]
    /\ free' = free \cup unused
    /\ olderRequests' = newerRequests
    /\ timeoutCheckScheduled' = (timeoutCheckScheduled \/ (again /\ Tracked # rs))
    /\ waited' = IF timeoutCheckScheduled THEN waited ELSE Tracked \ rs
    /\ Return
    /\ UNCHANGED <<error_, lastRequestId, worker, command, queueVars, answeredBy, reentered>>

\* Faulty variant: the pages of abandoned writes are given back.
AbandonOlderFreesPages ==
    Abandon(Expired, {olderRequests},
            {toDisker[i].page : i \in {j \in DOMAIN toDisker : toDisker[j].req \in Expired}}
                \cap Pages, TRUE)

\* Faulty variant: newer requests are abandoned too.
AbandonAll == Abandon(Tracked, 1 .. 2, {}, TRUE)

\* Faulty variant: the next check is not scheduled.
AbandonOlderOnce == Abandon(Expired, {olderRequests}, {}, FALSE)

AbandonOlder == Abandon(Expired, {olderRequests}, {}, TRUE)

----------------------------------------------------------------------------
(* the disker: DiskerHandleRequest() *)

Respond(request, page, status) ==
    disker' = <<[requestId |-> request.requestId, req |-> request.req, page |-> page,
                 status |-> status]>>

diskerRead ==                       \* without a free page, the response has none
    /\ disker = <<>> /\ toDisker # <<>>
    /\ LET request == Head(toDisker) IN
        /\ command[request.req] = "read"
        /\ \/ /\ free = {}
              /\ Respond(request, NoPage, "noPage")
              /\ UNCHANGED free
           \/ \E page \in free, status \in {"ok", "failed"} :
                /\ free' = free \ {page}
                /\ Respond(request, page, status)
    /\ toDisker' = Tail(toDisker)
    /\ UNCHANGED <<fileVars, calls, command, result, toWorker, history>>

diskerWrite ==                      \* gives the page back
    /\ disker = <<>> /\ toDisker # <<>>
    /\ LET request == Head(toDisker) IN
        /\ command[request.req] = "write"
        /\ free' = free \cup {request.page}
        /\ \E status \in {"ok", "failed", "short"} : Respond(request, NoPage, status)
    /\ toDisker' = Tail(toDisker)
    /\ UNCHANGED <<fileVars, calls, command, result, toWorker, history>>

DiskerPushResponse ==
    /\ disker # <<>>
    /\ Len(toWorker) < QueueCapacity
    /\ toWorker' = toWorker \o disker
    /\ disker' = <<>>
    /\ UNCHANGED <<fileVars, calls, command, result, toDisker, free, history>>

\* Queue::Full: the request will time out; a page that was read into is lost.
DiskerDropResponse ==
    /\ disker # <<>>
    /\ Len(toWorker) = QueueCapacity
    /\ disker' = <<>>
    /\ UNCHANGED <<fileVars, calls, command, result, toDisker, toWorker, free, history>>

----------------------------------------------------------------------------
WorkerInside ==
    \/ PushRequest \/ PushFails
    \/ HandleResponse \/ HandleLateResponse
    \/ NotificationHandled \/ AbandonOlder

Next ==
    \/ \E r \in Requests, cmd \in Commands : Issue(r, cmd)
    \/ IssueThrows
    \/ WorkerInside
    \/ HandleNotification \/ CheckTimeouts
    \/ diskerRead \/ diskerWrite \/ DiskerPushResponse \/ DiskerDropResponse

Spec == Init /\ [][Next]_vars

(***************************************************************************)
(* The worker's event loop runs: a call that has started returns, and a    *)
(* scheduled event is dispatched, however often other events come first.   *)
(* Nothing is assumed of the disker or of notifications.                   *)
(***************************************************************************)
FairSpec == Spec /\ WF_vars(WorkerInside) /\ SF_vars(CheckTimeouts)

----------------------------------------------------------------------------
\* What the two queues carry; a request identifier is not zero (Must(requestId)).
DiskerMessages == [requestId : Ids \ {0}, req : Requests, page : Pages \cup {NoPage}]
WorkerMessages == [requestId : Ids \ {0}, req : Requests, page : Pages \cup {NoPage},
                   status : {"ok", "failed", "short", "noPage"}]

Messages == {toDisker[i] : i \in DOMAIN toDisker} \cup {toWorker[i] : i \in DOMAIN toWorker}
                \cup {disker[i] : i \in DOMAIN disker}

TypeOK ==
    /\ error_ \in BOOLEAN
    /\ lastRequestId \in Ids
    /\ requestMap \in [1 .. 2 -> [Ids -> Requests \cup {None}]]
    /\ olderRequests \in 1 .. 2
    /\ timeoutCheckScheduled \in BOOLEAN
    /\ worker \in {"up", "deaf", "dead"}
    /\ calls \in Seq([method : {"push", "HandleNotification", "checkTimeouts"},
                     req : Requests \cup {None}])
    /\ command \in [Requests -> Commands \cup {"none"}]
    /\ result \in [Requests -> {"new", "issued", "pushed", "ok", "failed", "thrown"}]
    /\ toDisker \in Seq(DiskerMessages) /\ Len(toDisker) <= QueueCapacity
    /\ toWorker \in Seq(WorkerMessages) /\ Len(toWorker) <= QueueCapacity
    /\ disker \in Seq(WorkerMessages) /\ Len(disker) <= 1
    /\ free \in SUBSET Pages
    /\ completions \in [Requests -> Nat]
    /\ answeredBy \in [Requests -> Requests \cup {None}]
    /\ waited \in SUBSET Requests
    /\ reentered \in BOOLEAN

(***************************************************************************)
(* completeIo() is called at most once for a request, and once it has been *)
(* called the request is in no map: a timeout that comes with, before or   *)
(* after the response does not complete (and delete) a request again.  And *)
(* requestId "matches request w/ response" (IpcIoFile.h, line 36): it is   *)
(* completed by the response to itself, although identifiers wrap around   *)
(* and responses to abandoned requests are still under way, as long as no  *)
(* callback has re-entered push() (see RequestIdsUnique).                  *)
(***************************************************************************)
CompletedOnce ==
    \A r \in Requests : /\ completions[r] <= 1
                        /\ completions[r] = 1 => r \notin Tracked
                        /\ ~reentered => answeredBy[r] \in {None, r}

(***************************************************************************)
(* A page that a request or a response refers to is not free, and no other *)
(* message refers to it: the disker does not write to disk, and the worker *)
(* does not hand to a reader, a block that somebody else has filled since. *)
(* Abandoning a request whose message is still queued must not free its    *)
(* page.                                                                   *)
(***************************************************************************)
PagesExclusive ==
    \A msg \in Messages : msg.page # NoPage =>
        /\ msg.page \notin free
        /\ \A other \in Messages : other.page = msg.page => other = msg

(***************************************************************************)
(* checkTimeouts() says that it abandons I/Os "after at least" the         *)
(* timeout: a request is abandoned only if it was already pending when the *)
(* timeout event was scheduled.  Reads that callbacks start inside         *)
(* checkTimeouts() are an exception: the second of them is tracked in      *)
(* newerRequests after the first has scheduled the next check, and the     *)
(* swap at the end of the same call makes it an older request.             *)
(***************************************************************************)
TimeoutEarned ==
    [][\A r \in Requests :
        (~reentered /\ result[r] = "pushed" /\ result'[r] = "failed" /\ answeredBy'[r] = None)
            => r \in waited]_vars

(***************************************************************************)
(* Whatever the disker does, every request ends: it is answered, refused   *)
(* by push(), or abandoned by a timeout check.  Each pushed request needs  *)
(* a later check, and that check must be scheduled again and again while   *)
(* requests are pending.  There are three ways out: a nested read takes    *)
(* the identifier of the request (RequestIdsUnique); a nested read of a    *)
(* file that has failed throws through the push() of the request; and an   *)
(* exception that nothing catches ends the worker.  An exception that is   *)
(* caught loses no other request, and not the next timeout check.          *)
(***************************************************************************)
EveryRequestCompletes ==
    \A r \in Requests : result[r] = "issued" ~>
        (completions[r] = 1 \/ reentered \/ result[r] = "thrown" \/ worker = "dead")

(***************************************************************************)
(* IpcIoFile.h, line 36: requestId is "unique for requestor".  push()      *)
(* reads lastRequestId after HandleResponses(), whose callbacks may have   *)
(* issued requests; a request that shares its identifier is not tracked    *)
(* and never completes.                                                    *)
(***************************************************************************)
RequestIdsUnique ==
    \A i, j \in DOMAIN toDisker :
        toDisker[i].requestId = toDisker[j].requestId => i = j

----------------------------------------------------------------------------
(* The inductive invariant of the proofs, in parts. *)

\* Requests are issued in order and, until they are pushed, are on the stack of calls once.
IssuedUpTo(n) == \A r \in Requests : result[r] # "new" <=> r <= n

CallsMatch ==
    \A i \in DOMAIN calls : calls[i].method = "push" =>
        /\ calls[i].req \in Requests /\ result[calls[i].req] = "issued"
        /\ \A j \in DOMAIN calls : calls[j] = calls[i] => j = i

\* Requests in the maps are pushed and not completed, and are there once.
MapsMatch ==
    \A m \in 1 .. 2, id \in Ids : requestMap[m][id] # None =>
        /\ result[requestMap[m][id]] = "pushed"
        /\ \A m2 \in 1 .. 2, id2 \in Ids :
                requestMap[m2][id2] = requestMap[m][id] => m2 = m /\ id2 = id

CompletionsMatch ==
    \A r \in Requests : completions[r] = IF result[r] \in {"ok", "failed"} THEN 1 ELSE 0

\* Only issued requests have messages, and only a write brings a page.
MessagesMatch ==
    /\ \A msg \in Messages : result[msg.req] # "new"
    /\ \A i \in DOMAIN toDisker : command[toDisker[i].req] = "write" => toDisker[i].page \in Pages

\* No two messages share a page, and none has a free page.
Apart(a, b) == a.page = b.page => a.page = NoPage
PagesApart ==
    /\ \A i, j \in DOMAIN toDisker : i # j => Apart(toDisker[i], toDisker[j])
    /\ \A i, j \in DOMAIN toWorker : i # j => Apart(toWorker[i], toWorker[j])
    /\ \A i \in DOMAIN toDisker, j \in DOMAIN toWorker : Apart(toDisker[i], toWorker[j])
    /\ \A i \in DOMAIN toDisker, j \in DOMAIN disker : Apart(toDisker[i], disker[j])
    /\ \A i \in DOMAIN toWorker, j \in DOMAIN disker : Apart(toWorker[i], disker[j])
    /\ \A msg \in Messages : msg.page \notin free

\* How many identifiers ago id was given out.
Age(id) == IF id <= lastRequestId THEN lastRequestId - id ELSE lastRequestId - id + IdRange - 1

\* While no callback has re-entered push(), an identifier belongs to one of the n issued
\* requests, in their order.
IdsMatch(n) ==
    /\ n > 0 => lastRequestId # 0
    /\ ~reentered =>
        /\ Len(calls) <= 1
        /\ \A i \in DOMAIN calls : calls[i].method = "push" => calls[i].req = n
        /\ \A msg \in Messages : msg.req = n - Age(msg.requestId)
        /\ \A m \in 1 .. 2, id \in Ids : requestMap[m][id] # None =>
                id # 0 /\ requestMap[m][id] = n - Age(id)

\* The requests that the next timeout check will abandon were pending when it was scheduled.
WaitedMatch ==
    ~reentered =>
        /\ Expired \subseteq waited
        /\ \A i \in DOMAIN calls : calls[i].method = "checkTimeouts" => ~timeoutCheckScheduled

IoInv ==
    /\ TypeOK /\ CallsMatch /\ MapsMatch /\ CompletionsMatch /\ MessagesMatch /\ PagesApart
    /\ \E n \in 0 .. NRequests : IssuedUpTo(n) /\ IdsMatch(n)
    /\ WaitedMatch
    /\ \A r \in Requests : ~reentered => answeredBy[r] \in {None, r}
=============================================================================
