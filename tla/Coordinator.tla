------------------------------ MODULE Coordinator ------------------------------
(***************************************************************************)
(* SMP coordination: kids register with the Coordinator process, workers   *)
(* ask it which disker serves a cache_dir, for listening sockets and for   *)
(* cache manager reports.  Messages are Unix domain datagrams.  Each is    *)
(* carried by a UdsSender job of its sender, which dies with the sender    *)
(* and gives up after a while; jobs finish in any order.  A delivered      *)
(* datagram waits in the socket of the process that has bound the address  *)
(* kid-N.ipc now, which need not be the process the sender had in mind.    *)
(***************************************************************************)
EXTENDS Kids, Sequences, FiniteSetsExt, Bags

CONSTANTS
    Workers, Diskers, coord,  \* the kids
    DbOf,                     \* the dbName of each disker's cache_dir
    Addrs,                    \* addresses the workers listen on
    Workloads                 \* configured kids, what they ask for; bounds
                              \* on requests and on crashes

VARIABLES
    workload,    \* the configuration and requests of this behaviour
    out,         \* bag of the UdsSender jobs of each process
    inbox,       \* datagrams in the socket of each process
    port,        \* the Port job of each process: none, listening or dead
    acked,       \* Strand: pid of the Coordinator that acknowledged it, or 0
    strands,     \* Coordinator: registered strands
    searchers,   \* Coordinator: bag of unanswered search requests
    listeners,   \* Coordinator: addresses with an open socket
    inquirers,   \* Coordinator: Inquirer jobs
    answers,     \* answers the Inquirers have taken (history)
    lastId,      \* LastRequestId of Inquirer or Forwarder
    file,        \* IpcIoFile of each worker and dbName
    timers,      \* dbNames with an OpenTimeout event
    asked,       \* TheSharedListenRequestMap: pairs of id and address
    joined,      \* what SharedListenJoined() made of the answers
    forwarder,   \* request id of the Forwarder job, 0 if none
    asks         \* requests made by this process

ipcVars == <<out, inbox, port>>
strandVars == <<acked, file, timers, asked, joined, forwarder, asks>>
coordVars == <<strands, searchers, listeners, inquirers, answers>>
smpVars == <<kidVars, workload, ipcVars, strandVars, coordVars, lastId>>

Tags == {DbOf[d] : d \in Diskers}
NoTag == "none"
NoFile == [state |-> "none", diskId |-> coord, notified |-> 0]
Strands == Configured \ {coord}
Coord(k, tag) == [kid |-> k, pid |-> kids[k].pid, tag |-> tag]

ASSUME KidAssumption ==
    /\ Kid = Workers \cup Diskers \cup {coord} /\ Kid \subseteq Nat
    /\ coord \notin Workers \cup Diskers /\ Workers \cap Diskers = {}
    /\ DbOf \in [Diskers -> Tags] /\ NoTag \notin Tags
    /\ badFailureLimit \in Nat
    /\ \A load \in Workloads : /\ coord \in load.kids /\ load.kids \subseteq Kid
                                /\ load.crashes \in Nat /\ load.max \in Nat

SmpTypeOK ==
    /\ KidsTypeOK
    /\ port \in [Kid -> {"none", "listening", "dead"}]
    /\ acked \in [Kid -> Nat]
    /\ strands \subseteq [kid: Strands, pid: Nat, tag: Tags \cup {NoTag}]
    /\ BagToSet(searchers) \subseteq [requestor: Workers, tag: Tags]
    /\ listeners \subseteq Addrs
    /\ file \in [Workers -> [Tags -> [state: {"none", "waiting", "open", "error"},
                                      diskId: Kid, notified: Nat]]]

SmpInit ==
    /\ workload \in Workloads
    /\ KidsInit(workload.kids, workload.crashes)
    /\ out = [k \in Kid |-> EmptyBag]
    /\ inbox = [k \in Kid |-> <<>>]
    /\ port = [k \in Kid |-> "none"]
    /\ acked = [k \in Kid |-> 0]
    /\ strands = {} /\ searchers = EmptyBag /\ listeners = {} /\ inquirers = {} /\ answers = {}
    /\ lastId = [k \in Kid |-> 0]
    /\ file = [w \in Workers |-> [t \in Tags |-> NoFile]]
    /\ timers = [w \in Workers |-> {}]
    /\ asked = [w \in Workers |-> {}]
    /\ joined = [w \in Workers |-> {}]
    /\ forwarder = [w \in Workers |-> 0]
    /\ asks = [w \in Workers |-> 0]

-----------------------------------------------------------------------------
(* UDS messages                                                            *)

Msg(to, type, body) == [to |-> to, type |-> type, body |-> body]

SendMessages(k, msgs) == out' = [out EXCEPT ![k] = @ (+) msgs]
Send(k, m) == SendMessages(k, SetToBag({m}))

(* UdsSender::write() succeeds if some process has bound the address.      *)
Wrote(k, m) ==
    /\ port[m.to] = "listening"
    /\ inbox' = [inbox EXCEPT ![m.to] = Append(@, m)]
    /\ out' = [out EXCEPT ![k] = @ (-) SetToBag({m})]
    /\ UNCHANGED <<kidVars, workload, port, strandVars, coordVars, lastId>>

(* No retries left, or UdsSender::timedout().                              *)
GaveUp(k, m) ==
    /\ out' = [out EXCEPT ![k] = @ (-) SetToBag({m})]
    /\ UNCHANGED <<kidVars, workload, inbox, port, strandVars, coordVars, lastId>>

Received(k, type) == /\ inbox[k] # <<>>
                     /\ Head(inbox[k]).type = type
                     /\ inbox' = [inbox EXCEPT ![k] = Tail(@)]
Body(k) == Head(inbox[k]).body

(* What an exception in receive() leaves: AsyncJob::callException() stops  *)
(* the Port job, callEnd() deletes it, and its socket is closed.           *)
PortDies(k) == /\ port' = [port EXCEPT ![k] = "dead"]
               /\ inbox' = [inbox EXCEPT ![k] = <<>>]

-----------------------------------------------------------------------------
(* Start and end of kid processes                                          *)

(* mainInitialize() opens the cache_dirs, and the main loop then starts    *)
(* the Port job.  A disker announces its dbName, a worker searches for the *)
(* diskers of its cache_dirs, and every Strand registers itself.           *)
Boot(k) ==
    /\ proc[k].alive /\ port[k] = "none"
    /\ port' = [port EXCEPT ![k] = "listening"]
    /\ LET ann(tag) == Msg(coord, "registration", Coord(k, tag))
           search(t) == Msg(coord, "searchRequest", [requestor |-> k, tag |-> t])
           opens == IF k \in Workers /\ workload.asks = "open" THEN Tags ELSE {}
       IN  /\ SendMessages(k, SetToBag(IF k = coord THEN {}
                 ELSE {ann(NoTag)} \cup {search(t) : t \in opens}
                        \cup {ann(DbOf[d]) : d \in {k} \cap Diskers}))
           /\ file' = [w \in Workers |-> IF w = k
                         THEN [t \in Tags |-> IF t \in opens
                                 THEN [NoFile EXCEPT !.state = "waiting"] ELSE NoFile]
                         ELSE file[w]]
           /\ timers' = [w \in Workers |-> IF w = k THEN opens ELSE timers[w]]
    /\ UNCHANGED <<kidVars, workload, inbox, acked, asked, joined, forwarder, asks,
                   coordVars, lastId>>

(* What is lost with process k.                                            *)
Forget(k) ==
    LET reset(f, v) == [x \in DOMAIN f |-> IF x = k THEN v ELSE f[x]]
        drop(v, empty) == IF k = coord THEN empty ELSE v
    IN  /\ out' = reset(out, EmptyBag) /\ inbox' = reset(inbox, <<>>)
        /\ port' = reset(port, "none") /\ acked' = reset(acked, 0)
        /\ lastId' = reset(lastId, 0)
        /\ file' = reset(file, [t \in Tags |-> NoFile]) /\ timers' = reset(timers, {})
        /\ asked' = reset(asked, {}) /\ joined' = reset(joined, {})
        /\ forwarder' = reset(forwarder, 0)
        /\ strands' = drop(strands, {}) /\ searchers' = drop(searchers, EmptyBag)
        /\ listeners' = drop(listeners, {}) /\ inquirers' = drop(inquirers, {})
        /\ answers' = answers
        /\ UNCHANGED <<workload, asks>>

KidCrashes(k) == Crash(k) /\ Forget(k)

(* Strand::timedout(): isRegistered is never set, but a registered Strand  *)
(* has no timeout any more.                                                *)
RegistrationTimeout(k) ==
    /\ port[k] = "listening" /\ k # coord /\ acked[k] = 0
    /\ crashes > 0
    /\ crashes' = crashes - 1
    /\ \E isFast \in BOOLEAN : Ends(k, "error", isFast)
    /\ Forget(k)
    /\ UNCHANGED <<master, shutting_down, kids>>

MasterSteps == /\ StartKids \/ CollectKids
               /\ UNCHANGED <<workload, ipcVars, strandVars, coordVars, lastId>>

(* broadcastSignal() goes to the pids that strands have registered with.   *)
(* Instance() of a Coordinator job that has ended is a dangling pointer:   *)
(* whatever it points to may be told.                                      *)
broadcastSignal ==
    IF port[coord] = "dead" THEN SUBSET Strands
    ELSE {{s.kid : s \in {x \in strands : x.pid = kids[x.kid].pid}}}

(* shut_down() in the Coordinator tells the master, and the strands; told  *)
(* kids leave their main loop.                                             *)
Shutdown ==
    /\ workload.asks = "stop" /\ ~shutting_down /\ port[coord] # "none"
    /\ shutting_down' = TRUE
    /\ \E heard \in broadcastSignal :
          proc' = [k \in Configured |-> [proc[k] EXCEPT
                     !.told = @ \/ (k \in heard \cup {coord} /\ proc[k].alive)]]
    /\ UNCHANGED <<master, kids, crashes, workload, ipcVars, strandVars, coordVars, lastId>>

KidExits(k) == OrderlyExit(k) /\ Forget(k)

-----------------------------------------------------------------------------
(* Registration and strand search                                          *)

SearchResponse(requestor, strand) == Msg(requestor, "searchResponse", strand)

(* Faulty: a strand that is already known has no searchers.                *)
handleRegistrationRequestFaulty ==
    /\ Received(coord, "registration")
    /\ LET strand == Body(coord)
           old == {s \in strands : s.kid = strand.kid}
       IN  /\ strands' = (strands \ old) \cup {strand}
           /\ Send(coord, Msg(strand.kid, "ack", [pid |-> strand.pid, by |-> kids[coord].pid]))
    /\ UNCHANGED <<kidVars, workload, port, strandVars, searchers, listeners, inquirers,
                   answers, lastId>>

(* registerStrand(): a registration without a tag keeps the old tag, and   *)
(* searchers are compared with the tag of the message.  Their order does   *)
(* not matter: each answer is a job of its own.                            *)
handleRegistrationRequest ==
    /\ Received(coord, "registration")
    /\ LET strand == Body(coord)
           old == {s \in strands : s.kid = strand.kid}
           kept == {s.tag : s \in old} \ {NoTag}
           tag == IF strand.tag = NoTag /\ kept # {} THEN CHOOSE t \in kept : TRUE
                  ELSE strand.tag
           found == {r \in BagToSet(searchers) : r.tag = strand.tag}
           response(r) == SearchResponse(r.requestor, strand)
       IN  /\ strands' = (strands \ old) \cup {[strand EXCEPT !.tag = tag]}
           /\ searchers' = [r \in BagToSet(searchers) \ found |-> searchers[r]]
           /\ SendMessages(coord,
                 [m \in {response(r) : r \in found} |->
                     searchers[CHOOSE r \in found : m = response(r)]]
                 (+) SetToBag({Msg(strand.kid, "ack", [pid |-> strand.pid, by |-> kids[coord].pid])}))
    /\ UNCHANGED <<kidVars, workload, port, strandVars, listeners, inquirers, answers, lastId>>

handleSearchRequest ==
    /\ Received(coord, "searchRequest")
    /\ LET request == Body(coord)
           match == {s \in strands : s.tag = request.tag}
       IN  IF match = {}
           THEN searchers' = searchers (+) SetToBag({request}) /\ UNCHANGED out
           ELSE /\ \E s \in match : Send(coord, SearchResponse(request.requestor, s))
                /\ UNCHANGED searchers
    /\ UNCHANGED <<kidVars, workload, port, strandVars, strands, listeners, inquirers, answers, lastId>>

(* Faulty: any acknowledgement counts.                                     *)
handleRegistrationResponseFaulty(k) ==
    /\ Received(k, "ack")
    /\ acked' = [acked EXCEPT ![k] = Body(k).by]
    /\ UNCHANGED <<kidVars, workload, out, port, file, timers, asked, joined, forwarder,
                   asks, coordVars, lastId>>

(* The acknowledgement may be for a dead predecessor of this kid.          *)
handleRegistrationResponse(k) ==
    /\ Received(k, "ack")
    /\ acked' = IF Body(k).pid = kids[k].pid THEN [acked EXCEPT ![k] = Body(k).by]
                ELSE acked
    /\ UNCHANGED <<kidVars, workload, out, port, file, timers, asked, joined, forwarder,
                   asks, coordVars, lastId>>

openCompleted(f, response) ==
    [f EXCEPT !.state = IF response = {} THEN "error" ELSE "open",
              !.diskId = IF response = {} THEN @ ELSE CHOOSE d \in response : TRUE,
              !.notified = @ + 1]

(* Faulty: the file need not be waiting any more.                          *)
HandleOpenResponseFaulty(w) ==
    /\ Received(w, "searchResponse")
    /\ file' = [file EXCEPT ![w][Body(w).tag] = openCompleted(@, {Body(w).kid})]
    /\ UNCHANGED <<kidVars, workload, out, port, acked, timers, asked, joined, forwarder,
                   asks, coordVars, lastId>>

HandleOpenResponse(w) ==
    /\ Received(w, "searchResponse")
    /\ LET s == Body(w)
       IN  file' = IF file[w][s.tag].state = "waiting"
                   THEN [file EXCEPT ![w][s.tag] = openCompleted(@, {s.kid})]
                   ELSE file
    /\ UNCHANGED <<kidVars, workload, out, port, acked, timers, asked, joined, forwarder,
                   asks, coordVars, lastId>>

(* Faulty: the event is forgotten with its file still waiting.             *)
OpenTimeoutFaulty(w, t) ==
    /\ t \in timers[w]
    /\ timers' = [timers EXCEPT ![w] = @ \ {t}]
    /\ UNCHANGED <<kidVars, workload, ipcVars, acked, file, asked, joined, forwarder, asks,
                   coordVars, lastId>>

(* The event looks its file up among those still waiting.                  *)
OpenTimeout(w, t) ==
    /\ t \in timers[w]
    /\ timers' = [timers EXCEPT ![w] = @ \ {t}]
    /\ file' = IF file[w][t].state = "waiting"
               THEN [file EXCEPT ![w][t] = openCompleted(@, {})] ELSE file
    /\ UNCHANGED <<kidVars, workload, ipcVars, acked, asked, joined, forwarder, asks,
                   coordVars, lastId>>

-----------------------------------------------------------------------------
(* Listening sockets                                                       *)

(* AddToMap() takes the smallest free id of TheSharedListenRequestMap.     *)
AddToMapFaulty(w) == 0
AddToMap(w) == Min((0..workload.max) \ {r.id : r \in asked[w]})

JoinSharedListen(w, a) ==
    /\ workload.asks = "listen" /\ port[w] # "none" /\ asks[w] < workload.max
    /\ asks' = [asks EXCEPT ![w] = @ + 1]
    /\ LET id == AddToMap(w)
       IN  /\ asked' = [asked EXCEPT ![w] = @ \cup {[id |-> id, addr |-> a]}]
           /\ Send(w, Msg(coord, "listenRequest",
                                    [requestor |-> w, mapId |-> id, addr |-> a]))
    /\ UNCHANGED <<kidVars, workload, inbox, port, acked, file, timers, joined, forwarder,
                   coordVars, lastId>>

(* What goes with the Coordinator job.  Its Inquirer and UdsSender jobs    *)
(* stay.                                                                   *)
CoordinatorDies == /\ PortDies(coord)
                   /\ strands' = {} /\ searchers' = EmptyBag /\ listeners' = {}

(* A socket that cannot be opened has no descriptor: putFd() throws when   *)
(* the response is packed, and the Coordinator job ends.                   *)
handleSharedListenRequest ==
    LET r == Body(coord) IN
    \/ /\ Received(coord, "listenRequest")
       /\ listeners' = listeners \cup {r.addr}
       /\ Send(coord, Msg(r.requestor, "listenResponse",
                                    [mapId |-> r.mapId, addr |-> r.addr]))
       /\ UNCHANGED <<kidVars, workload, port, strandVars, strands, searchers, inquirers, answers, lastId>>
    \/ /\ inbox[coord] # <<>> /\ Head(inbox[coord]).type = "listenRequest"
       /\ r.addr \notin listeners
       /\ CoordinatorDies
       /\ UNCHANGED <<kidVars, workload, out, strandVars, inquirers, answers, lastId>>

(* Must(): the id is in the map.  The answer is given to whoever is there. *)
SharedListenJoined(w) ==
    /\ inbox[w] # <<>> /\ Head(inbox[w]).type = "listenResponse"
    /\ LET pending == {r \in asked[w] : r.id = Body(w).mapId}
       IN  /\ asked' = [asked EXCEPT ![w] = @ \ pending]
           /\ joined' = [joined EXCEPT ![w] = @ \cup
                            {<<r.addr, Body(w).addr>> : r \in pending}]
           /\ IF pending = {} THEN PortDies(w)
              ELSE Received(w, "listenResponse") /\ UNCHANGED port
    /\ UNCHANGED <<kidVars, workload, out, acked, file, timers, forwarder, asks,
                   coordVars, lastId>>

-----------------------------------------------------------------------------
(* Cache manager requests                                                  *)

ForwarderStart(w) ==
    /\ workload.asks = "mgr" /\ port[w] # "none" /\ asks[w] < workload.max /\ forwarder[w] = 0
    /\ asks' = [asks EXCEPT ![w] = @ + 1]
    /\ lastId' = [lastId EXCEPT ![w] = @ + 1]
    /\ forwarder' = [forwarder EXCEPT ![w] = lastId[w] + 1]
    /\ Send(w, Msg(coord, "mgrRequest", [requestor |-> w, id |-> lastId[w] + 1]))
    /\ UNCHANGED <<kidVars, workload, inbox, port, acked, file, timers, asked, joined, coordVars>>

(* The Coordinator has taken over; other ids are late.                     *)
ForwarderAck(w) ==
    /\ Received(w, "mgrAck")
    /\ forwarder' = [forwarder EXCEPT ![w] = IF @ = Body(w).id THEN 0 ELSE @]
    /\ UNCHANGED <<kidVars, workload, out, port, acked, file, timers, asked, joined, asks,
                   coordVars, lastId>>

ForwarderTimeout(w) ==
    /\ forwarder[w] # 0
    /\ forwarder' = [forwarder EXCEPT ![w] = 0]
    /\ UNCHANGED <<kidVars, workload, ipcVars, acked, file, timers, asked, joined, asks,
                   coordVars, lastId>>

(* The Inquirer copies the strands and asks them by ascending kid id.  An  *)
(* inquiry is remembered with who asked whom, which no code reads.         *)
InquiryOf(i) == Msg(Min(i.todo), "inquiry",
                    [id |-> i.id, by |-> kids[coord].pid, of |-> Min(i.todo)])

handleCacheMgrRequest ==
    /\ Received(coord, "mgrRequest")
    /\ LET r == Body(coord)
       IN  /\ inquirers' = inquirers \cup {[for |-> r, id |-> 0,
                                            todo |-> {s.kid : s \in strands}]}
           /\ Send(coord, Msg(r.requestor, "mgrAck", [id |-> r.id]))
    /\ UNCHANGED <<kidVars, workload, port, strandVars, strands, searchers, listeners, answers, lastId>>

(* Faulty: the whole job uses one id.                                      *)
inquireFaulty(i, done) ==
    LET next == [i EXCEPT !.todo = @ \ done, !.id = 1]
    IN  /\ inquirers' = (inquirers \ {i}) \cup (IF next.todo = {} THEN {} ELSE {next})
        /\ IF next.todo = {} THEN UNCHANGED out ELSE Send(coord, InquiryOf(next))
        /\ UNCHANGED lastId

(* inquire() after pos has advanced over the strands in done: the next one *)
(* is asked under a new id, or the job ends.                               *)
inquire(i, done) ==
    LET next == [i EXCEPT !.todo = @ \ done, !.id = lastId[coord] + 1]
    IN  IF next.todo = {}
        THEN inquirers' = inquirers \ {i} /\ UNCHANGED <<out, lastId>>
        ELSE /\ inquirers' = (inquirers \ {i}) \cup {next}
             /\ lastId' = [lastId EXCEPT ![coord] = @ + 1]
             /\ Send(coord, InquiryOf(next))

noteWroteHeader(i) ==
    /\ i.id = 0
    /\ inquire(i, {})
    /\ UNCHANGED <<kidVars, workload, inbox, port, strandVars, strands, searchers, listeners, answers>>

(* The client is gone, or the header could not be written: swanSong().     *)
noteCommClosed(i) ==
    /\ inquirers' = inquirers \ {i}
    /\ UNCHANGED <<kidVars, workload, ipcVars, strandVars, strands, searchers, listeners, answers, lastId>>

requestTimedOut(i) ==
    /\ i.id # 0
    /\ inquire(i, {Min(i.todo)})
    /\ UNCHANGED <<kidVars, workload, inbox, port, strandVars, strands, searchers, listeners, answers>>

(* Strand::handleCacheMgrRequest(): the answer carries the id asked with.  *)
respond(k) ==
    /\ Received(k, "inquiry")
    /\ Send(k, [Head(inbox[k]) EXCEPT !.to = coord, !.type = "answer"])
    /\ UNCHANGED <<kidVars, workload, port, strandVars, coordVars, lastId>>

(* HandleRemoteAck() finds the Inquirer by the id alone; a late answer     *)
(* finds none.                                                             *)
HandleRemoteAck ==
    /\ Received(coord, "answer")
    /\ LET a == Body(coord)
           match == {i \in inquirers : i.id = a.id}
       IN  IF match = {} THEN UNCHANGED <<inquirers, answers, out, lastId>>
           ELSE \E i \in match :
                  /\ answers' = answers \cup {[asked |-> Min(i.todo), of |-> a.of,
                                               own |-> a.by = kids[coord].pid]}
                  /\ inquire(i, {Min(i.todo)})
    /\ UNCHANGED <<kidVars, workload, port, strandVars, strands, searchers, listeners>>

-----------------------------------------------------------------------------

Uds(k) == \E m \in BagToSet(out[k]) : Wrote(k, m) \/ GaveUp(k, m)

CoordinatorReceives ==
    \/ handleRegistrationRequest \/ handleSearchRequest
    \/ handleSharedListenRequest
    \/ handleCacheMgrRequest \/ HandleRemoteAck

StrandReceives(k) ==
    \/ handleRegistrationResponse(k)
    \/ respond(k)
    \/ k \in Workers /\ (HandleOpenResponse(k) \/ SharedListenJoined(k) \/ ForwarderAck(k))

SmpNext ==
    \/ MasterSteps \/ Shutdown
    \/ \E k \in Configured : \/ Boot(k) \/ KidCrashes(k) \/ KidExits(k) \/ Uds(k)
                      \/ RegistrationTimeout(k)
    \/ CoordinatorReceives
    \/ \E k \in Strands : StrandReceives(k)
    \/ \E w \in Workers : \/ \E t \in Tags : OpenTimeout(w, t)
                          \/ \E a \in Addrs : JoinSharedListen(w, a)
                          \/ ForwarderStart(w) \/ ForwarderTimeout(w)
    \/ \E i \in inquirers : noteWroteHeader(i) \/ noteCommClosed(i) \/ requestTimedOut(i)

(* The master's loop, the event queue (timeouts), the completion of an     *)
(* HTTP header write and the end of a signalled kid are certain to happen; *)
(* deliveries are not.                                                     *)
Fairness ==
    /\ WF_smpVars(MasterSteps)
    /\ \A k \in Kid : WF_smpVars(k \in Configured /\ KidExits(k))
    /\ \A w \in Workers : /\ \A t \in Tags : WF_smpVars(OpenTimeout(w, t))
                          /\ WF_smpVars(ForwarderTimeout(w))
    /\ WF_smpVars(\E i \in inquirers : noteWroteHeader(i) \/ requestTimedOut(i))

SmpSpec == SmpInit /\ [][SmpNext]_smpVars /\ Fairness

-----------------------------------------------------------------------------

(* A kid that has cleared its registration timeout is known to the         *)
(* Coordinator that acknowledged it, under its own pid, for as long as     *)
(* that Coordinator job exists: signals reach the kid and inquiries ask    *)
(* it.  An acknowledgement for a dead predecessor of the same kid must not *)
(* count.  No kid learns that the job has ended: it stays acknowledged.    *)
AckedIsRecorded ==
    \A k \in Strands :
        (acked[k] # 0 /\ port[coord] = "listening" /\ acked[k] = kids[coord].pid)
            => \E s \in strands : s.kid = k /\ s.pid = kids[k].pid

(* No searcher is left waiting for a strand the Coordinator knows, in      *)
(* whatever order tagged and untagged registrations, restarts and search   *)
(* requests arrive.                                                        *)
SearchersUnanswerable ==
    \A r \in BagToSet(searchers), s \in strands : s.tag # r.tag

(* IpcIoFile::open() ends in one ioCompletedNotification(), with the kid   *)
(* that serves the dbName or with an error, although the response races    *)
(* the timeout and may come late or twice.                                 *)
OpenCompletesOnce ==
    \A w \in Workers, t \in Tags :
        LET f == file[w][t] IN
        /\ f.state = "waiting" => f.notified = 0
        /\ f.state \in {"open", "error"} => f.notified = 1
        /\ f.state = "open" => f.diskId \in Diskers /\ DbOf[f.diskId] = t

(* Answers find their questions by small numbers that are used again.  An  *)
(* Inquirer takes an answer for that of the strand it is asking: one that  *)
(* comes after the timeout is not counted for the next strand.  A worker   *)
(* gets the listening socket it asked for.  Answers to a process that has  *)
(* since been restarted are excluded: the numbers then start again.        *)
AnswersAreOwn ==
    /\ \A a \in answers : a.own => a.asked = a.of
    /\ \A w \in Workers \cap Configured :
          kids[w].pid = 1 => \A j \in joined[w] : j[1] = j[2]

(* Opening a cache_dir, forwarding a request and inquiring the strands all *)
(* come to an end whatever is lost and whoever dies.                       *)
RequestsEnd ==
    /\ \A w \in Workers, t \in Tags :
          file[w][t].state = "waiting" ~> file[w][t].state # "waiting"
    /\ \A w \in Workers : forwarder[w] # 0 ~> forwarder[w] = 0
    /\ inquirers # {} ~> inquirers = {}

(* A shutdown that has reached every living kid ends the master too.       *)
ShutdownEnds ==
    (shutting_down /\ \A k \in Configured : proc[k].alive => proc[k].told)
        ~> master \in {"exited", "aborted"}

=============================================================================
