------------------------- MODULE DiskThreadsProofs -------------------------
(***************************************************************************)
(* Proofs about disk I/O through threads, for any number of threads,       *)
(* files, unlinks and descriptors.                                         *)
(*                                                                         *)
(* The lists are linked cells, so what a request may meet depends on which *)
(* list it can be reached from.  Instead of following the links, the       *)
(* invariant gives every request the colour of the list it is in (Linked): *)
(* links join cells of one colour, no two cells link to the same request,  *)
(* and a request that a thread holds, or that is not in use, has no        *)
(* colour, so that nothing links to it (Held).  With that, a request is    *)
(* performed once and delivered once, and the state of a file follows from *)
(* what its request is at (FileMatches).                                   *)
(***************************************************************************)
EXTENDS DiskThreads, TLAPS

-----------------------------------------------------------------------------
(* Lists                                                                   *)

ListType == [link: [Queue \cup Req -> Req \cup {NULL}], tail: [Queue -> Queue \cup Req]]
Colouring == [Req -> Queue \cup {None}]

\* The colours c fit the lists L.
Linked(L, c) ==
    /\ \A q \in Queue : L.tail[q] \in Req \cup {q} /\ L.link[L.tail[q]] = NULL
    /\ \A q \in Queue : L.tail[q] \in Req => c[L.tail[q]] = q
    /\ \A q \in Queue : L.link[q] # NULL => c[L.link[q]] = q
    /\ \A r \in Req : L.link[r] # NULL => c[r] \in Queue /\ c[L.link[r]] = c[r]
    /\ \A k, l \in Queue \cup Req : (L.link[k] = L.link[l] /\ L.link[k] # NULL) => k = l

LEMMA Apart ==
    /\ \A q \in Queue : q \notin Req /\ q # None
    /\ \A r \in Req : r \notin Queue /\ r # NULL
    /\ None \notin Queue
  BY ConstantsAssumption DEF Queue, None

\* A request without a colour joins a list: it has that list's colour then.
LEMMA PushLinked ==
    ASSUME NEW L \in ListType, NEW c \in Colouring, Linked(L, c),
           NEW q \in Queue, NEW r \in Req, c[r] = None
    PROVE  /\ Push(L, q, r) \in ListType
           /\ [c EXCEPT ![r] = q] \in Colouring
           /\ Linked(Push(L, q, r), [c EXCEPT ![r] = q])
           /\ \A p \in Queue \ {q} : Head(Push(L, q, r), p) = Head(L, p)
<1> DEFINE P == Push(L, q, r)
           d == [c EXCEPT ![r] = q]
<1>1. /\ L.link \in [Queue \cup Req -> Req \cup {NULL}]
      /\ L.tail \in [Queue -> Queue \cup Req]
      /\ c \in [Req -> Queue \cup {None}]
  BY DEF ListType, Colouring
<1>2. L.tail[q] \in Req \cup {q} /\ L.tail[q] # r /\ L.tail[q] \in Queue \cup Req
  BY <1>1, Apart DEF Linked
<1>3. L.link[r] = NULL /\ \A l \in Queue \cup Req : L.link[l] # r
  BY <1>1, Apart DEF Linked
<1>4. /\ P.link = [L.link EXCEPT ![L.tail[q]] = r, ![r] = NULL]
      /\ P.tail = [L.tail EXCEPT ![q] = r]
      /\ P \in ListType
  BY <1>1, <1>2 DEF Push, ListType
<1>5. /\ P.link[L.tail[q]] = r /\ P.link[r] = NULL
      /\ \A l \in Queue \cup Req : (l # L.tail[q] /\ l # r) => P.link[l] = L.link[l]
      /\ P.tail[q] = r
      /\ \A p \in Queue : p # q => P.tail[p] = L.tail[p]
  BY <1>1, <1>2, <1>4
<1>6. d \in Colouring /\ d[r] = q /\ \A s \in Req : s # r => d[s] = c[s]
  BY <1>1 DEF Colouring
<1>7. \A p \in Queue : p # q => P.link[p] = L.link[p]
  BY <1>2, <1>5, Apart
<1>8. ASSUME NEW p \in Queue
      PROVE  /\ P.tail[p] \in Req \cup {p} /\ P.link[P.tail[p]] = NULL
             /\ (P.tail[p] \in Req => d[P.tail[p]] = p)
  <2>1. CASE p = q
    BY <2>1, <1>5, <1>6
  <2>2. CASE p # q
    <3>1. P.tail[p] = L.tail[p] /\ L.tail[p] \in Req \cup {p} /\ L.link[L.tail[p]] = NULL
          /\ (L.tail[p] \in Req => c[L.tail[p]] = p)
      BY <2>2, <1>5 DEF Linked
    <3>2. L.tail[p] # r /\ L.tail[p] # L.tail[q]
      BY <3>1, <1>1, <2>2, Apart DEF Linked
    <3> QED
      BY <3>1, <3>2, <1>5, <1>6
  <2> QED
    BY <2>1, <2>2
<1>9. ASSUME NEW p \in Queue, P.link[p] # NULL
      PROVE  d[P.link[p]] = p
  <2>1. CASE p = L.tail[q]
    BY <2>1, <1>2, <1>5, <1>6, Apart
  <2>2. CASE p # L.tail[q]
    <3>1. P.link[p] = L.link[p] /\ c[L.link[p]] = p /\ L.link[p] \in Req
      BY <2>2, <1>1, <1>5, <1>9, Apart DEF Linked
    <3> QED
      BY <3>1, <1>6, Apart
  <2> QED
    BY <2>1, <2>2
<1>10. ASSUME NEW s \in Req, P.link[s] # NULL
       PROVE  d[s] \in Queue /\ d[P.link[s]] = d[s]
  <2>1. s # r
    BY <1>5, <1>10
  <2>2. CASE s = L.tail[q]
    BY <2>1, <2>2, <1>5, <1>6 DEF Linked
  <2>3. CASE s # L.tail[q]
    <3>1. P.link[s] = L.link[s] /\ c[s] \in Queue /\ c[L.link[s]] = c[s] /\ L.link[s] \in Req
      BY <2>1, <2>3, <1>1, <1>5, <1>10 DEF Linked
    <3> QED
      BY <3>1, <1>3, <1>6, <2>1
  <2> QED
    BY <2>2, <2>3
<1>11. ASSUME NEW k \in Queue \cup Req, NEW l \in Queue \cup Req,
              P.link[k] = P.link[l], P.link[k] # NULL
       PROVE  k = l
  <2>1. k # r /\ l # r
    BY <1>5, <1>11
  <2>2. CASE k = L.tail[q]
    BY <2>1, <2>2, <1>3, <1>5, <1>11
  <2>3. CASE l = L.tail[q]
    BY <2>1, <2>3, <1>3, <1>5, <1>11
  <2>4. CASE k # L.tail[q] /\ l # L.tail[q]
    BY <2>1, <2>4, <1>5, <1>11 DEF Linked
  <2> QED
    BY <2>2, <2>3, <2>4
<1>12. Linked(P, d)
  <2> HIDE DEF P, d
  <2> QED
    BY <1>8, <1>9, <1>10, <1>11 DEF Linked
<1> QED
  BY <1>4, <1>6, <1>7, <1>12 DEF Head

\* The requests of a list that leaves it empty join another one.
LEMMA SpliceLinked ==
    ASSUME NEW L \in ListType, NEW c \in Colouring, Linked(L, c),
           NEW to \in Queue, NEW from \in Queue, to # from
    PROVE  /\ Splice(L, to, from) \in ListType
           /\ \E d \in Colouring :
                 /\ Linked(Splice(L, to, from), d)
                 /\ \A r \in Req : d[r] = c[r] \/ (c[r] = from /\ d[r] = to)
           /\ \A p \in Queue \ {to, from} : Head(Splice(L, to, from), p) = Head(L, p)
           /\ Head(Splice(L, to, from), from) = NULL
           /\ Head(Splice(L, to, from), to) # NULL => (Head(L, to) # NULL \/ Head(L, from) # NULL)
<1>1. CASE Head(L, from) = NULL
  BY <1>1 DEF Splice, Head
<1>2. CASE Head(L, from) # NULL
  <2> DEFINE P == Splice(L, to, from)
             d == [r \in Req |-> IF c[r] = from THEN to ELSE c[r]]
  <2>1. /\ L.link \in [Queue \cup Req -> Req \cup {NULL}]
        /\ L.tail \in [Queue -> Queue \cup Req]
        /\ c \in [Req -> Queue \cup {None}]
    BY DEF ListType, Colouring
  <2>2. L.tail[to] \in Req \cup {to} /\ L.tail[to] # from /\ L.tail[to] \in Queue \cup Req
    BY <2>1, Apart DEF Linked
  <2>3. L.link[from] \in Req /\ c[L.link[from]] = from /\ L.tail[from] \in Req
    BY <1>2, <2>1 DEF Linked, Head
  <2>4. /\ P.link = [L.link EXCEPT ![L.tail[to]] = L.link[from], ![from] = NULL]
        /\ P.tail = [L.tail EXCEPT ![to] = L.tail[from], ![from] = from]
        /\ P \in ListType
    BY <1>2, <2>1, <2>2, <2>3 DEF Splice, ListType
  <2>5. /\ P.link[L.tail[to]] = L.link[from] /\ P.link[from] = NULL
        /\ \A l \in Queue \cup Req : (l # L.tail[to] /\ l # from) => P.link[l] = L.link[l]
        /\ P.tail[to] = L.tail[from] /\ P.tail[from] = from
        /\ \A p \in Queue : (p # to /\ p # from) => P.tail[p] = L.tail[p]
    BY <2>1, <2>2, <2>4
  <2>6. d \in Colouring
    BY <2>1 DEF Colouring
  <2>7. \A s \in Req : d[s] = IF c[s] = from THEN to ELSE c[s]
    OBVIOUS
  <2>8. \A p \in Queue : (p # to /\ p # from) => P.link[p] = L.link[p]
    BY <2>2, <2>5, Apart
  <2>9. ASSUME NEW p \in Queue
        PROVE  /\ P.tail[p] \in Req \cup {p} /\ P.link[P.tail[p]] = NULL
               /\ (P.tail[p] \in Req => d[P.tail[p]] = p)
    <3>1. CASE p = to
      <4>1. c[L.tail[from]] = from /\ L.link[L.tail[from]] = NULL /\ L.tail[from] # L.tail[to]
        BY <2>3, <2>1, Apart DEF Linked
      <4> QED
        BY <4>1, <3>1, <2>3, <2>5, <2>7, Apart
    <3>2. CASE p = from
      BY <3>2, <2>5, Apart
    <3>3. CASE p # to /\ p # from
      <4>1. P.tail[p] = L.tail[p] /\ L.tail[p] \in Req \cup {p} /\ L.link[L.tail[p]] = NULL
            /\ (L.tail[p] \in Req => c[L.tail[p]] = p)
        BY <3>3, <2>5 DEF Linked
      <4>2. L.tail[p] # from /\ L.tail[p] # L.tail[to]
        BY <4>1, <2>1, <3>3, Apart DEF Linked
      <4> QED
        BY <4>1, <4>2, <3>3, <2>5, <2>7
    <3> QED
      BY <3>1, <3>2, <3>3
  <2>10. ASSUME NEW p \in Queue, P.link[p] # NULL
         PROVE  d[P.link[p]] = p
    <3>1. p # from
      BY <2>5, <2>10
    <3>2. CASE p = L.tail[to]
      BY <3>2, <2>2, <2>3, <2>5, <2>7, Apart
    <3>3. CASE p # L.tail[to]
      <4>1. P.link[p] = L.link[p] /\ c[L.link[p]] = p /\ L.link[p] \in Req
        BY <3>1, <3>3, <2>1, <2>5, <2>10, Apart DEF Linked
      <4> QED
        BY <4>1, <3>1, <2>7
    <3> QED
      BY <3>2, <3>3
  <2>11. ASSUME NEW s \in Req, P.link[s] # NULL
         PROVE  d[s] \in Queue /\ d[P.link[s]] = d[s]
    <3>1. s # from
      BY Apart
    <3>2. CASE s = L.tail[to]
      <4>1. c[s] = to
        BY <3>2 DEF Linked
      <4> QED
        BY <4>1, <3>2, <2>3, <2>5, <2>7
    <3>3. CASE s # L.tail[to]
      <4>1. P.link[s] = L.link[s] /\ c[s] \in Queue /\ c[L.link[s]] = c[s] /\ L.link[s] \in Req
        BY <3>1, <3>3, <2>1, <2>5, <2>11 DEF Linked
      <4> QED
        BY <4>1, <2>7
    <3> QED
      BY <3>2, <3>3
  <2>12. ASSUME NEW k \in Queue \cup Req, NEW l \in Queue \cup Req,
                P.link[k] = P.link[l], P.link[k] # NULL
         PROVE  k = l
    <3>1. k # from /\ l # from
      BY <2>5, <2>12
    <3>2. CASE k = L.tail[to]
      BY <3>1, <3>2, <2>5, <2>12 DEF Linked
    <3>3. CASE l = L.tail[to]
      BY <3>1, <3>3, <2>5, <2>12 DEF Linked
    <3>4. CASE k # L.tail[to] /\ l # L.tail[to]
      BY <3>1, <3>4, <2>5, <2>12 DEF Linked
    <3> QED
      BY <3>2, <3>3, <3>4
  <2>13. Linked(P, d)
    <3> HIDE DEF P, d
    <3> QED
      BY <2>9, <2>10, <2>11, <2>12 DEF Linked
  <2>14. \A r \in Req : d[r] = c[r] \/ (c[r] = from /\ d[r] = to)
    BY <2>7
  <2> HIDE DEF P, d
  <2>15. \E e \in Colouring : Linked(P, e) /\ \A r \in Req : e[r] = c[r] \/ (c[r] = from /\ e[r] = to)
    BY <2>6, <2>13, <2>14
  <2> QED
    BY <2>4, <2>5, <2>8, <2>15, <1>2 DEF Head, P
<1> QED
  BY <1>1, <1>2

\* The first request leaves a list, and has no colour then.
LEMMA PopLinked ==
    ASSUME NEW L \in ListType, NEW c \in Colouring, Linked(L, c),
           NEW q \in Queue, Head(L, q) # NULL
    PROVE  /\ Head(L, q) \in Req /\ c[Head(L, q)] = q
           /\ Pop(L, q) \in ListType
           /\ [c EXCEPT ![Head(L, q)] = None] \in Colouring
           /\ Linked(Pop(L, q), [c EXCEPT ![Head(L, q)] = None])
           /\ \A p \in Queue \ {q} : Head(Pop(L, q), p) = Head(L, p)
<1> DEFINE P == Pop(L, q)
           r == L.link[q]
           d == [c EXCEPT ![r] = None]
<1>1. /\ L.link \in [Queue \cup Req -> Req \cup {NULL}]
      /\ L.tail \in [Queue -> Queue \cup Req]
      /\ c \in [Req -> Queue \cup {None}]
  BY DEF ListType, Colouring
<1>2. r \in Req /\ c[r] = q /\ r = Head(L, q) /\ r # NULL
  BY <1>1 DEF Head, Linked
<1>3. L.link[r] # r /\ \A l \in Queue \cup Req : l # q => L.link[l] # r
  BY <1>1, <1>2, Apart DEF Linked
<1> HIDE DEF r
<1>4. /\ P.link = [L.link EXCEPT ![q] = L.link[r], ![r] = NULL]
      /\ P.tail = IF L.link[r] = NULL THEN [L.tail EXCEPT ![q] = q] ELSE L.tail
      /\ P \in ListType
  BY <1>1, <1>2 DEF Pop, ListType, r
<1>5. /\ P.link[q] = L.link[r] /\ P.link[r] = NULL
      /\ \A l \in Queue \cup Req : (l # q /\ l # r) => P.link[l] = L.link[l]
      /\ P.tail[q] = IF L.link[r] = NULL THEN q ELSE L.tail[q]
      /\ \A p \in Queue : p # q => P.tail[p] = L.tail[p]
  BY <1>1, <1>2, <1>4, Apart
<1>6. d \in Colouring /\ d[r] = None /\ \A s \in Req : s # r => d[s] = c[s]
  BY <1>1, <1>2 DEF Colouring
<1>7. \A p \in Queue : p # q => P.link[p] = L.link[p]
  BY <1>2, <1>5, Apart
<1> HIDE DEF P, d
<1>8. ASSUME NEW p \in Queue
      PROVE  /\ P.tail[p] \in Req \cup {p} /\ P.link[P.tail[p]] = NULL
             /\ (P.tail[p] \in Req => d[P.tail[p]] = p)
  <2>0. L.tail[p] \in Req \cup {p} /\ L.link[L.tail[p]] = NULL
        /\ (L.tail[p] \in Req => c[L.tail[p]] = p)
    BY DEF Linked
  <2>1. CASE p = q /\ L.link[r] = NULL
    BY <2>1, <1>5, Apart
  <2>2. CASE p = q /\ L.link[r] # NULL
    <3>1. P.tail[p] = L.tail[p] /\ L.tail[p] # r /\ L.tail[p] # q
      BY <2>0, <2>2, <1>2, <1>5 DEF r
    <3> QED
      BY <2>0, <2>2, <3>1, <1>5, <1>6
  <2>3. CASE p # q
    <3>1. P.tail[p] = L.tail[p] /\ L.tail[p] # r /\ L.tail[p] # q
      BY <2>0, <2>3, <1>2, <1>5, Apart
    <3> QED
      BY <2>0, <2>3, <3>1, <1>5, <1>6
  <2> QED
    BY <2>1, <2>2, <2>3
<1>9. ASSUME NEW p \in Queue, P.link[p] # NULL
      PROVE  d[P.link[p]] = p
  <2>1. CASE p = q
    <3>1. P.link[p] = L.link[r] /\ L.link[r] \in Req /\ c[L.link[r]] = q
      BY <2>1, <1>1, <1>2, <1>5, <1>9 DEF Linked
    <3> QED
      BY <3>1, <2>1, <1>3, <1>6
  <2>2. CASE p # q
    <3>1. P.link[p] = L.link[p] /\ L.link[p] \in Req /\ c[L.link[p]] = p
      BY <2>2, <1>1, <1>7, <1>9 DEF Linked
    <3> QED
      BY <3>1, <2>2, <1>2, <1>6
  <2> QED
    BY <2>1, <2>2
<1>10. ASSUME NEW s \in Req, P.link[s] # NULL
       PROVE  d[s] \in Queue /\ d[P.link[s]] = d[s]
  <2>1. s # r /\ s # q
    BY <1>5, <1>10, Apart
  <2>2. P.link[s] = L.link[s] /\ c[s] \in Queue /\ c[L.link[s]] = c[s] /\ L.link[s] \in Req
    BY <2>1, <1>1, <1>5, <1>10 DEF Linked
  <2> QED
    BY <2>1, <2>2, <1>3, <1>6
<1>11. ASSUME NEW k \in Queue \cup Req, NEW l \in Queue \cup Req,
              P.link[k] = P.link[l], P.link[k] # NULL
       PROVE  k = l
  <2>1. k # r /\ l # r
    BY <1>5, <1>11
  <2>2. CASE k = q /\ l # q
    BY <2>1, <2>2, <1>2, <1>5, <1>11 DEF Linked
  <2>3. CASE l = q /\ k # q
    BY <2>1, <2>3, <1>2, <1>5, <1>11 DEF Linked
  <2>4. CASE k # q /\ l # q
    BY <2>1, <2>4, <1>5, <1>11 DEF Linked
  <2> QED
    BY <2>2, <2>3, <2>4
<1>12. Linked(P, d)
  BY <1>8, <1>9, <1>10, <1>11 DEF Linked
<1> QED
  BY <1>2, <1>4, <1>6, <1>7, <1>12 DEF Head, P, d

-----------------------------------------------------------------------------
(* The invariant                                                           *)

ReqType == [op: {None, "open", "read", "unlink"}, fd: FD \cup {None, "failed"}]
ThreadType ==
    [pc: {"lock", "locked", "waiting", "busy", "done", "append", "notify", "write"},
     r: Req \cup {NULL}]
File ==
    [mode: {"read", "write"}, opening: BOOLEAN, closed: BOOLEAN, try_closing: BOOLEAN,
     closing: BOOLEAN, reading: BOOLEAN, pendingRead: BOOLEAN, pendingWrites: Nat,
     fd: FD \cup {None}, inProgress: Nat]

Types ==
    /\ lists \in ListType
    /\ req \in [Req -> ReqType]
    /\ thread \in [Thread -> ThreadType]
    /\ sio \in [Sio -> File \cup {Idle}]
    /\ owner \in [FD -> Sio \cup {None}]

\* Requests in the lists are in use, and so are those that threads hold,
\* which are in no list and with one thread each; a file that is yet to be
\* opened has no descriptor.
Held(c, th, rq) ==
    /\ \A r \in Req : c[r] \in Queue => rq[r].op # None
    /\ \A t \in Thread : th[t].r # NULL <=> th[t].pc \in {"busy", "done", "append"}
    /\ \A t \in Thread : th[t].r # NULL => (c[th[t].r] = None /\ rq[th[t].r].op # None)
    /\ \A t, u \in Thread : (th[t].r = th[u].r /\ th[t].r # NULL) => t = u
    /\ \A r \in Req : (c[r] \in {"request", "request2"} /\ rq[r].op = "open") => rq[r].fd = None
    /\ \A t \in Thread : (th[t].pc = "busy" /\ rq[th[t].r].op = "open") => rq[th[t].r].fd = None

RequestsApart == \E c \in Colouring : Linked(lists, c) /\ Held(c, thread, req)

\* The request R of a file in state S, and the descriptors it owns.
Matches(s, S, R, own) ==
    /\ R.op \in {None, "open", "read"}
    /\ (R.op = None /\ S # Idle) => (S.inProgress = 0 /\ S.fd \in FD /\ own[S.fd] = s)
    /\ R.op = "open" => /\ S # Idle /\ S.inProgress = 1 /\ S.fd = None
                        /\ R.fd \in FD => own[R.fd] = s
    /\ R.op = "read" => /\ S # Idle /\ S.inProgress = 1 /\ S.reading
                        /\ S.fd \in FD /\ R.fd = S.fd /\ own[S.fd] = s
    /\ \A fd \in FD : own[fd] = s => (S # Idle /\ S.fd = fd) \/ (R.op = "open" /\ R.fd = fd)

FileMatches ==
    /\ \A s \in Sio : Matches(s, sio[s], req[s], owner)
    /\ \A u \in Unlink : req[u].op \in {None, "unlink"}

Control ==
    /\ main \in {"poll", "reset", "kick", "take", "wait"}
    /\ syncing \in {"no", "poll", "wait"}
    /\ syncing # "no" => main \in {"kick", "take"}
    /\ signalled \in BOOLEAN /\ pipe \in BOOLEAN
    /\ rlock \in Thread \cup {None}
    /\ dlock \in Thread \cup {None}
    /\ dlock # None => thread[dlock].pc = "append"

\* The loop waits, or will when it has drained the overlong queue.
Waiting == main = "wait" \/ syncing = "wait"

\* Completed requests that a waiting loop has left are signalled, or a
\* thread is about to; and what is signalled when the loop is about to wait
\* has or gets its byte in the pipe.
Wakeups ==
    /\ (Waiting /\ (Head(lists, "done") # NULL \/ Head(lists, "polled") # NULL))
       => (signalled \/ \E t \in Thread : thread[t].pc \in {"append", "notify"})
    /\ ((Waiting \/ (main \in {"kick", "take"} /\ syncing = "no")) /\ signalled)
       => (pipe \/ \E t \in Thread : thread[t].pc = "write")

Inv == Types /\ RequestsApart /\ FileMatches /\ Control /\ Wakeups

-----------------------------------------------------------------------------
(* Requests                                                                *)

\* The threads are where they were, or woken up.
Woken(th, th2) ==
    /\ th2 \in [Thread -> ThreadType]
    /\ \A t \in Thread : /\ th2[t].r = th[t].r
                         /\ \/ th2[t].pc = th[t].pc
                            \/ th[t].pc = "waiting" /\ th2[t].pc = "lock"

LEMMA WokenHeld ==
    ASSUME NEW c, NEW th, NEW th2, NEW rq, Held(c, th, rq), Woken(th, th2)
    PROVE  Held(c, th2, rq)
  BY DEF Held, Woken

LEMMA CondSignalWoken ==
    ASSUME thread \in [Thread -> ThreadType], CondSignal \/ UNCHANGED thread
    PROVE  Woken(thread, thread')
<1>1. CASE UNCHANGED thread
  BY <1>1 DEF Woken
<1>2. CASE ~UNCHANGED thread
  <2>1. PICK t \in Thread : thread[t].pc = "waiting" /\ thread' = [thread EXCEPT ![t].pc = "lock"]
    BY <1>2 DEF CondSignal
  <2>2. thread' \in [Thread -> ThreadType]
    BY <2>1 DEF ThreadType
  <2>3. ASSUME NEW u \in Thread
        PROVE  /\ thread'[u].r = thread[u].r
               /\ \/ thread'[u].pc = thread[u].pc
                  \/ thread[u].pc = "waiting" /\ thread'[u].pc = "lock"
    BY <2>1 DEF ThreadType
  <2> QED
    BY <2>2, <2>3 DEF Woken
<1> QED
  BY <1>1, <1>2

\* A thread goes on and neither takes a request nor gives one up.
LEMMA GotoFacts ==
    ASSUME thread \in [Thread -> ThreadType], NEW t \in Thread,
           NEW pc \in {"lock", "locked", "waiting", "done", "append", "notify", "write"}, Goto(t, pc)
    PROVE  /\ thread' \in [Thread -> ThreadType]
           /\ thread'[t].pc = pc /\ thread'[t].r = thread[t].r
           /\ \A u \in Thread \ {t} : thread'[u] = thread[u]
  BY DEF Goto, ThreadType

LEMMA GotoHeld ==
    ASSUME thread \in [Thread -> ThreadType], NEW t \in Thread,
           NEW pc \in {"lock", "locked", "waiting", "done", "append", "notify", "write"}, Goto(t, pc),
           thread[t].pc \in {"busy", "done", "append"} <=> pc \in {"busy", "done", "append"},
           NEW c, NEW rq, Held(c, thread, rq)
    PROVE  Held(c, thread', rq)
<1>1. /\ thread'[t].pc = pc /\ thread'[t].r = thread[t].r
      /\ \A u \in Thread \ {t} : thread'[u] = thread[u]
  BY GotoFacts
<1>2. \A u \in Thread : thread'[u].r = thread[u].r
  BY <1>1
<1>3. \A u \in Thread : thread'[u].pc = "busy" => thread[u].pc = "busy"
  BY <1>1
<1>4. \A u \in Thread : thread'[u].pc \in {"busy", "done", "append"}
                        <=> thread[u].pc \in {"busy", "done", "append"}
  BY <1>1
<1> QED
  BY <1>2, <1>3, <1>4 DEF Held

\* Requests keep to their side of the threads when lists are joined.
LEMMA RecolouredHeld ==
    ASSUME NEW c \in Colouring, NEW d \in Colouring, NEW th, NEW rq,
           th \in [Thread -> ThreadType], Held(c, th, rq),
           \A r \in Req :
              \/ d[r] = c[r]
              \/ c[r] \in Queue /\ d[r] \in {"done", "polled"}
              \/ c[r] \in {"request", "request2"} /\ d[r] = "request"
    PROVE  Held(d, th, rq)
<1>1. \A r \in Req : d[r] \in Queue => c[r] \in Queue
  BY DEF Queue
<1>2. \A r \in Req : c[r] = None => d[r] = None
  BY Apart DEF Queue, None
<1>3. \A r \in Req : d[r] \in {"request", "request2"} => c[r] \in {"request", "request2"}
  OBVIOUS
<1>4. \A t \in Thread : th[t].r # NULL => th[t].r \in Req
  BY DEF ThreadType
<1> QED
  BY <1>1, <1>2, <1>3, <1>4 DEF Held

\* A request that is in no list and with no thread is made or forgotten.
LEMMA RequestHeld ==
    ASSUME NEW c \in Colouring, NEW d \in Colouring, NEW th, NEW rq,
           rq \in [Req -> ReqType], th \in [Thread -> ThreadType], Held(c, th, rq),
           NEW r \in Req, \A t \in Thread : th[t].r # r,
           \A s \in Req : s # r => d[s] = c[s],
           NEW R \in ReqType,
           d[r] = None \/ (R.op # None /\ (R.op = "open" => R.fd = None))
    PROVE  Held(d, th, [rq EXCEPT ![r] = R])
<1> DEFINE rq2 == [rq EXCEPT ![r] = R]
<1>1. rq2[r] = R /\ \A s \in Req : s # r => rq2[s] = rq[s]
  OBVIOUS
<1>2. \A t \in Thread : th[t].r # NULL => th[t].r \in Req
  BY DEF ThreadType
<1>3. \A t \in Thread : th[t].pc = "busy" => th[t].r \in Req
  BY <1>2 DEF Held
<1> HIDE DEF rq2
<1>4. /\ \A s \in Req : d[s] \in Queue => rq2[s].op # None
      /\ \A s \in Req : (d[s] \in {"request", "request2"} /\ rq2[s].op = "open") => rq2[s].fd = None
  BY <1>1, Apart DEF Held, None
<1>5. \A t \in Thread : th[t].r # NULL => (d[th[t].r] = None /\ rq2[th[t].r].op # None)
  BY <1>1, <1>2 DEF Held
<1>6. \A t \in Thread : (th[t].pc = "busy" /\ rq2[th[t].r].op = "open") => rq2[th[t].r].fd = None
  BY <1>1, <1>3 DEF Held
<1>7. Held(d, th, rq2)
  BY <1>4, <1>5, <1>6 DEF Held
<1> QED
  BY <1>7 DEF rq2

\* A request is queued: the lists stay well formed, nothing that is done is
\* disturbed, and the main thread goes on or starts to drain the queue.
LEMMA QueueRequest ==
    ASSUME Types, Control, NEW L \in ListType, NEW c \in Colouring, Linked(L, c),
           Held(c, thread, req), NEW r \in Req, c[r] = None, \A t \in Thread : thread[t].r # r,
           NEW op \in {"open", "read", "unlink"}, NEW fd \in FD \cup {None, "failed"},
           op = "open" => fd = None, NEW len, squidaio_queue_request(L, len, r, op, fd)
    PROVE  /\ lists' \in ListType /\ Woken(thread, thread') /\ RequestsApart'
           /\ req' = [req EXCEPT ![r] = [op |-> op, fd |-> fd]]
           /\ \A q \in {"done", "polled"} : Head(lists', q) = Head(L, q)
           /\ \/ main' = main /\ syncing' = syncing
              \/ main' = "kick" /\ syncing' = main
<1>1. thread \in [Thread -> ThreadType] /\ req \in [Req -> ReqType]
  BY DEF Types, ThreadType, ReqType
<1>2. req' = [req EXCEPT ![r] = [op |-> op, fd |-> fd]]
  BY DEF squidaio_queue_request
<1>3. (main' = main /\ syncing' = syncing) \/ (main' = "kick" /\ syncing' = main)
  BY DEF squidaio_queue_request
<1>4. [op |-> op, fd |-> fd] \in ReqType
  BY DEF ReqType
<1>5. Woken(thread, thread')
  <2>1. CondSignal \/ UNCHANGED thread
    BY DEF squidaio_queue_request
  <2> QED
    BY <2>1, <1>1, CondSignalWoken
<1>6. "request" \in Queue /\ "request2" \in Queue /\ "done" \in Queue /\ "polled" \in Queue
  BY DEF Queue
<1>7. CASE rlock = None
  <2> DEFINE M == Splice(L, "request", "request2")
  <2>1. lists' = Push(M, "request", r)
    BY <1>7 DEF squidaio_queue_request
  <2>2. /\ M \in ListType
        /\ \E d \in Colouring : /\ Linked(M, d)
                                /\ \A s \in Req : d[s] = c[s] \/ (c[s] = "request2" /\ d[s] = "request")
        /\ \A p \in Queue \ {"request", "request2"} : Head(M, p) = Head(L, p)
    <3> HIDE DEF M
    <3>1. "request" # "request2"
      OBVIOUS
    <3> QED
      BY <3>1, <1>6, SpliceLinked DEF M
  <2> HIDE DEF M
  <2>3. PICK d \in Colouring : /\ Linked(M, d)
                               /\ \A s \in Req : d[s] = c[s] \/ (c[s] = "request2" /\ d[s] = "request")
    BY <2>2
  <2>4. d[r] = None
    BY <2>3, Apart, <1>6
  <2>5. Held(d, thread, req)
    BY <2>3, <1>1, RecolouredHeld
  <2> DEFINE e == [d EXCEPT ![r] = "request"]
  <2>6. /\ Push(M, "request", r) \in ListType /\ e \in Colouring
        /\ Linked(Push(M, "request", r), e)
        /\ \A p \in Queue \ {"request"} : Head(Push(M, "request", r), p) = Head(M, p)
    BY <2>2, <2>3, <2>4, <1>6, PushLinked
  <2>7. \A s \in Req : s # r => e[s] = d[s]
    BY <2>3 DEF Colouring
  <2> HIDE DEF e
  <2>8. Held(e, thread, [req EXCEPT ![r] = [op |-> op, fd |-> fd]])
    <3>1. [op |-> op, fd |-> fd].op # None /\ ([op |-> op, fd |-> fd].op = "open" => [op |-> op, fd |-> fd].fd = None)
      BY DEF None
    <3> QED
      BY <3>1, <2>5, <2>6, <2>7, <1>1, <1>4, RequestHeld
  <2>9. Held(e, thread', req')
    BY <2>8, <1>2, <1>5, WokenHeld
  <2>10. RequestsApart'
    BY <2>1, <2>6, <2>9 DEF RequestsApart
  <2>11. \A q \in {"done", "polled"} : Head(lists', q) = Head(L, q)
    BY <2>1, <2>2, <2>6, <1>6
  <2> QED
    BY <2>1, <2>6, <2>10, <2>11, <1>2, <1>3, <1>5
<1>8. CASE rlock # None
  <2>1. lists' = Push(L, "request2", r)
    BY <1>8 DEF squidaio_queue_request
  <2> DEFINE e == [c EXCEPT ![r] = "request2"]
  <2>2. /\ Push(L, "request2", r) \in ListType /\ e \in Colouring
        /\ Linked(Push(L, "request2", r), e)
        /\ \A p \in Queue \ {"request2"} : Head(Push(L, "request2", r), p) = Head(L, p)
    BY <1>6, PushLinked
  <2>3. \A s \in Req : s # r => e[s] = c[s]
    BY DEF Colouring
  <2> HIDE DEF e
  <2>4. Held(e, thread, [req EXCEPT ![r] = [op |-> op, fd |-> fd]])
    <3>1. [op |-> op, fd |-> fd].op # None /\ ([op |-> op, fd |-> fd].op = "open" => [op |-> op, fd |-> fd].fd = None)
      BY DEF None
    <3> QED
      BY <3>1, <2>2, <2>3, <1>1, <1>4, RequestHeld
  <2>5. Held(e, thread', req')
    BY <2>4, <1>2, <1>5, WokenHeld
  <2>6. RequestsApart'
    BY <2>1, <2>2, <2>5 DEF RequestsApart
  <2>7. \A q \in {"done", "polled"} : Head(lists', q) = Head(L, q)
    BY <2>1, <2>2, <1>6
  <2> QED
    BY <2>1, <2>2, <2>6, <2>7, <1>2, <1>3, <1>5
<1> QED
  BY <1>7, <1>8

\* An idle request is in no list and with no thread.
LEMMA IdleRequest ==
    ASSUME Types, NEW c \in Colouring, Held(c, thread, req), NEW r \in Req, req[r].op = None
    PROVE  c[r] = None /\ \A t \in Thread : thread[t].r # r
  BY Apart DEF Held, Types, Colouring

-----------------------------------------------------------------------------
(* Files                                                                   *)

\* What closing a file comes to: not yet, or at last.
Outcome(S, C) ==
    \/ /\ C \in File
       /\ C.inProgress = S.inProgress /\ C.fd = S.fd /\ C.reading = S.reading
    \/ C = Idle /\ S.inProgress = 0

LEMMA IdleIsNoFile == Idle \notin File
  BY DEF Idle, File, None

LEMMA TryClosingOutcome ==
    ASSUME NEW S \in File
    PROVE  /\ Outcome(S, tryClosing(S))
           /\ S.inProgress = 0 => tryClosing(S) = Idle
<1>1. CASE S.inProgress = 0
  BY <1>1 DEF tryClosing, fileClose, File, Outcome
<1>2. CASE S.inProgress # 0
  <2>1. S.inProgress > 0
    BY <1>2 DEF File
  <2>2. tryClosing(S) = [S EXCEPT !.try_closing = TRUE]
    BY <2>1 DEF tryClosing
  <2>3. [S EXCEPT !.try_closing = TRUE] \in File
    BY DEF File
  <2>4. /\ [S EXCEPT !.try_closing = TRUE].inProgress = S.inProgress
        /\ [S EXCEPT !.try_closing = TRUE].fd = S.fd
        /\ [S EXCEPT !.try_closing = TRUE].reading = S.reading
    BY DEF File
  <2> QED
    BY <1>2, <2>2, <2>3, <2>4 DEF Outcome
<1> QED
  BY <1>1, <1>2

LEMMA CloseIfAskedOutcome ==
    ASSUME NEW S \in File
    PROVE  Outcome(S, CloseIfAsked(S))
<1>1. CASE S.try_closing
  BY <1>1, TryClosingOutcome, IdleIsNoFile DEF CloseIfAsked
<1>2. CASE ~S.try_closing
  BY <1>2 DEF CloseIfAsked, Outcome
<1> QED
  BY <1>1, <1>2

LEMMA DrainOutcome ==
    ASSUME NEW S \in File
    PROVE  Outcome(S, drainWriteQueue(S))
<1>1. CASE S.fd = None
  BY <1>1 DEF drainWriteQueue, Outcome
<1>2. CASE S.fd # None
  <2> DEFINE D == [S EXCEPT !.pendingWrites = 0]
  <2>1. D \in File /\ D.inProgress = S.inProgress /\ D.fd = S.fd /\ D.reading = S.reading
    BY DEF File
  <2>2. drainWriteQueue(S) = CloseIfAsked(D)
    BY <1>2 DEF drainWriteQueue
  <2> HIDE DEF D
  <2> QED
    BY <2>1, <2>2, CloseIfAskedOutcome DEF Outcome
<1> QED
  BY <1>1, <1>2

LEMMA DrainAndCloseOutcome ==
    ASSUME NEW S \in File
    PROVE  Outcome(S, CloseIfAsked(drainWriteQueue(S)))
<1> DEFINE D == drainWriteQueue(S)
<1>1. Outcome(S, D)
  BY DrainOutcome
<1> HIDE DEF D
<1>2. CASE D = Idle
  BY <1>1, <1>2 DEF CloseIfAsked, Outcome, D
<1>3. CASE D # Idle
  <2>1. D \in File /\ D.inProgress = S.inProgress /\ D.fd = S.fd /\ D.reading = S.reading
    BY <1>1, <1>3 DEF Outcome
  <2> QED
    BY <2>1, CloseIfAskedOutcome DEF Outcome, D
<1> QED
  BY <1>2, <1>3

LEMMA FileReadFacts ==
    ASSUME NEW S \in File, S.inProgress = 0
    PROVE  /\ fileRead(S) \in File /\ fileRead(S) # Idle
           /\ fileRead(S).inProgress = 1 /\ fileRead(S).fd = S.fd /\ fileRead(S).reading
<1> DEFINE G == [S EXCEPT !.reading = TRUE]
           F == [G EXCEPT !.inProgress = @ + 1]
<1>0. G \in File /\ G.inProgress = S.inProgress /\ G.fd = S.fd /\ fileRead(S) = F
  BY DEF File, fileRead
<1>1. F \in File
  <2> HIDE DEF G
  <2> QED
    BY <1>0 DEF File
<1>2. F.inProgress = 1 /\ F.fd = S.fd
  BY DEF File
<1>3. F.reading
  BY DEF File
<1> QED
  BY <1>0, <1>1, <1>2, <1>3, IdleIsNoFile

\* The descriptors of file s may change, those of others do not.
Disowns(s, own, own2) ==
    /\ own2 \in [FD -> Sio \cup {None}]
    /\ \A fd \in FD : own2[fd] = own[fd] \/ {own[fd], own2[fd]} \subseteq {s, None}

LEMMA MatchesOther ==
    ASSUME NEW s \in Sio, NEW x \in Sio, x # s, NEW S, NEW R, NEW own, NEW own2,
           Disowns(s, own, own2), Matches(x, S, R, own)
    PROVE  Matches(x, S, R, own2)
<1>1. x # None
  BY ConstantsAssumption
<1>2. \A fd \in FD : own2[fd] = x <=> own[fd] = x
  BY <1>1 DEF Disowns
<1> QED
  BY <1>2 DEF Matches

\* A file that may close: its descriptor goes back when it does.
LEMMA OutcomeMatches ==
    ASSUME NEW s \in Sio, NEW S \in File, NEW C, NEW R, NEW own \in [FD -> Sio \cup {None}],
           Matches(s, S, R, own), Outcome(S, C), R.op = "read" => C # Idle,
           NEW own2, (C = Idle /\ S.fd \in FD) => own2 = [own EXCEPT ![S.fd] = None],
           ~(C = Idle /\ S.fd \in FD) => own2 = own
    PROVE  /\ Matches(s, C, R, own2)
           /\ Disowns(s, own, own2)
           /\ C \in File \cup {Idle}
<1>0. s # None /\ S # Idle /\ None \notin FD
  BY ConstantsAssumption, IdleIsNoFile
<1>1. CASE C # Idle
  <2>1. own2 = own /\ C \in File /\ C.inProgress = S.inProgress /\ C.fd = S.fd /\ C.reading = S.reading
    BY <1>1 DEF Outcome
  <2>2. Disowns(s, own, own2)
    BY <2>1 DEF Disowns
  <2> QED
    BY <1>0, <1>1, <2>1, <2>2 DEF Matches
<1>2. CASE C = Idle
  <2>1. S.inProgress = 0
    BY <1>2, IdleIsNoFile DEF Outcome
  <2>2. R.op = None /\ S.fd \in FD /\ own[S.fd] = s
    BY <2>1, <1>0 DEF Matches
  <2>3. own2 = [own EXCEPT ![S.fd] = None]
    BY <1>2, <2>2
  <2>4. \A fd \in FD : own2[fd] # s
    BY <2>2, <2>3, <1>0 DEF Matches, None
  <2>5. Disowns(s, own, own2)
    BY <2>2, <2>3 DEF Disowns
  <2> QED
    BY <1>2, <2>2, <2>4, <2>5 DEF Matches, None
<1> QED
  BY <1>1, <1>2

\* One file changes, with its request and its descriptors.
LEMMA FileChanges ==
    ASSUME Types, FileMatches, NEW s \in Sio, NEW S, NEW R,
           sio' = [sio EXCEPT ![s] = S], req' = [req EXCEPT ![s] = R],
           S \in File \cup {Idle}, R \in ReqType,
           Matches(s, S, R, owner'), Disowns(s, owner, owner')
    PROVE  /\ FileMatches'
           /\ sio' \in [Sio -> File \cup {Idle}] /\ req' \in [Req -> ReqType]
           /\ owner' \in [FD -> Sio \cup {None}]
<1>1. s \in Req /\ s \notin Unlink /\ \A x \in Sio \cup Unlink : x \in Req
  BY ConstantsAssumption DEF Req
<1>2. sio \in [Sio -> File \cup {Idle}] /\ req \in [Req -> ReqType]
  BY DEF Types, ReqType
<1>3. sio'[s] = S /\ \A x \in Sio : x # s => sio'[x] = sio[x]
  BY <1>2
<1>4. req'[s] = R /\ \A x \in Req : x # s => req'[x] = req[x]
  BY <1>1, <1>2
<1>5. ASSUME NEW x \in Sio
      PROVE  Matches(x, sio'[x], req'[x], owner')
  <2>1. CASE x = s
    BY <2>1, <1>3, <1>4
  <2>2. CASE x # s
    <3>1. Matches(x, sio[x], req[x], owner)
      BY DEF FileMatches
    <3>2. Matches(x, sio[x], req[x], owner')
      BY <2>2, <3>1, MatchesOther
    <3>3. sio'[x] = sio[x] /\ req'[x] = req[x]
      BY <2>2, <1>1, <1>3, <1>4
    <3> QED
      BY <3>2, <3>3
  <2> QED
    BY <2>1, <2>2
<1>6. \A u \in Unlink : req'[u].op \in {None, "unlink"}
  BY <1>1, <1>4 DEF FileMatches
<1>7. FileMatches'
  BY <1>5, <1>6 DEF FileMatches
<1>8. sio' \in [Sio -> File \cup {Idle}] /\ req' \in [Req -> ReqType]
  BY <1>1, <1>2
<1> QED
  BY <1>7, <1>8 DEF Disowns

-----------------------------------------------------------------------------
(* The steps of clients                                                    *)

\* A client's call, or a callback: whoever waits for a wakeup gets it.
LEMMA CallKeepsControl ==
    ASSUME Types, Control, Wakeups, main \in {"poll", "wait"}, Woken(thread, thread'),
           main = "wait" => \A q \in {"done", "polled"} : Head(lists', q) = Head(lists, q),
           (main' = main /\ syncing' = syncing) \/ (main' = "kick" /\ syncing' = main),
           UNCHANGED storeVars
    PROVE  Control' /\ Wakeups'
<1>1. UNCHANGED <<rlock, dlock, signalled, pipe>>
  BY DEF storeVars, notifyVars
<1>2. syncing = "no"
  BY DEF Control
<1>3. \A t \in Thread : thread[t].pc \in {"append", "notify", "write"} => thread'[t].pc = thread[t].pc
  BY DEF Woken
<1>4. Control'
  BY <1>1, <1>2, <1>3 DEF Control
<1>5. Waiting' => main = "wait"
  BY <1>2 DEF Waiting
<1>6. ~Waiting' => ~(main' \in {"kick", "take"} /\ syncing' = "no")
  BY <1>2 DEF Waiting
<1>7. CASE Waiting'
  <2>1. Waiting
    BY <1>5, <1>7 DEF Waiting
  <2>2. Head(lists', "done") = Head(lists, "done") /\ Head(lists', "polled") = Head(lists, "polled")
    BY <1>5, <1>7
  <2> QED
    BY <1>1, <1>3, <1>4, <2>1, <2>2 DEF Wakeups
<1>8. CASE ~Waiting'
  BY <1>4, <1>6, <1>8 DEF Wakeups
<1> QED
  BY <1>7, <1>8

LEMMA SameThreads ==
    ASSUME Types, UNCHANGED thread
    PROVE  Woken(thread, thread')
  BY DEF Types, Woken

LEMMA ClientQueues ==
    ASSUME Inv, NEW r \in Req, req[r].op = None, Dispatching,
           NEW op \in {"open", "read", "unlink"}, NEW fd \in FD \cup {None, "failed"},
           op = "open" => fd = None,
           squidaio_queue_request(lists, queueLen, r, op, fd), UNCHANGED storeVars
    PROVE  /\ lists' \in ListType /\ thread' \in [Thread -> ThreadType]
           /\ RequestsApart' /\ Control' /\ Wakeups'
           /\ req' = [req EXCEPT ![r] = [op |-> op, fd |-> fd]]
           /\ [op |-> op, fd |-> fd] \in ReqType
<1>1. PICK c \in Colouring : Linked(lists, c) /\ Held(c, thread, req)
  BY DEF Inv, RequestsApart
<1>2. c[r] = None /\ \A t \in Thread : thread[t].r # r
  BY <1>1, IdleRequest DEF Inv
<1>3. /\ lists' \in ListType /\ Woken(thread, thread') /\ RequestsApart'
      /\ req' = [req EXCEPT ![r] = [op |-> op, fd |-> fd]]
      /\ \A q \in {"done", "polled"} : Head(lists', q) = Head(lists, q)
      /\ (main' = main /\ syncing' = syncing) \/ (main' = "kick" /\ syncing' = main)
  <2>1. Types /\ Control /\ lists \in ListType
    BY DEF Inv, Types
  <2> QED
    BY <1>1, <1>2, <2>1, QueueRequest
<1>4. Control' /\ Wakeups'
  BY <1>3, CallKeepsControl DEF Inv, Dispatching
<1>5. [op |-> op, fd |-> fd] \in ReqType
  BY DEF ReqType
<1> QED
  BY <1>3, <1>4, <1>5 DEF Woken

LEMMA OpenInv ==
    ASSUME Inv, NEW s \in Sio, Open(s)
    PROVE  Inv'
<1> DEFINE S == Opened(ModeOf[s])
           R == [op |-> "open", fd |-> None]
<1>1. S \in File /\ S # Idle /\ S.inProgress = 1 /\ S.fd = None
  <2>1. ModeOf[s] \in {"read", "write"}
    BY ConstantsAssumption
  <2>2. S \in File /\ S.inProgress = 1 /\ S.fd = None
    BY <2>1 DEF Opened, File
  <2> QED
    BY <2>2, IdleIsNoFile
<1>2. Matches(s, sio[s], req[s], owner) /\ sio[s] = Idle /\ s \in Req
  BY DEF Inv, FileMatches, Open, Req
<1>3. req[s].op = None
  BY <1>2 DEF Matches
<1>4. sio' = [sio EXCEPT ![s] = S] /\ owner' = owner
  BY <1>1 DEF Open, Update
<1>5. /\ lists' \in ListType /\ thread' \in [Thread -> ThreadType]
      /\ RequestsApart' /\ Control' /\ Wakeups'
      /\ req' = [req EXCEPT ![s] = R] /\ R \in ReqType
  BY <1>2, <1>3, ClientQueues DEF Open
<1> HIDE DEF S
<1>6. Matches(s, S, R, owner')
  BY <1>1, <1>2, <1>3, <1>4, ConstantsAssumption DEF Matches, None
<1>7. Disowns(s, owner, owner')
  BY <1>4 DEF Disowns, Inv, Types
<1>8. /\ FileMatches' /\ sio' \in [Sio -> File \cup {Idle}] /\ req' \in [Req -> ReqType]
      /\ owner' \in [FD -> Sio \cup {None}]
  <2> HIDE DEF R
  <2> QED
    BY <1>1, <1>4, <1>5, <1>6, <1>7, FileChanges DEF Inv
<1> QED
  BY <1>5, <1>8 DEF Inv, Types

\* The queues and the main thread go on as they were.
LEMMA NoQueueing ==
    ASSUME Inv, Dispatching, UNCHANGED queueVars, UNCHANGED storeVars
    PROVE  /\ lists' \in ListType /\ thread' \in [Thread -> ThreadType]
           /\ RequestsApart' /\ Control' /\ Wakeups'
           /\ \A s \in Sio : req' = [req EXCEPT ![s] = req[s]] /\ req[s] \in ReqType
<1>1. UNCHANGED <<lists, req, thread, main, syncing, rlock, dlock, signalled, pipe>>
  BY DEF queueVars, storeVars, notifyVars
<1>2. Woken(thread, thread') /\ thread' \in [Thread -> ThreadType] /\ lists' \in ListType
  BY <1>1, SameThreads DEF Inv, Types
<1>3. Control' /\ Wakeups'
  BY <1>1, <1>2, CallKeepsControl DEF Inv, Dispatching
<1>4. RequestsApart'
  BY <1>1 DEF Inv, RequestsApart
<1>5. \A s \in Sio : req' = [req EXCEPT ![s] = req[s]] /\ req[s] \in ReqType
  BY <1>1 DEF Inv, Types, Req
<1> QED
  BY <1>2, <1>3, <1>4, <1>5

\* A file's state changes, maybe to closed, without a request.
LEMMA FileOnly ==
    ASSUME Inv, Dispatching, NEW s \in Sio, sio[s] # Idle, NEW C, Outcome(sio[s], C),
           Update(s, C, sio[s].fd), UNCHANGED queueVars, UNCHANGED storeVars
    PROVE  Inv'
<1>1. /\ lists' \in ListType /\ thread' \in [Thread -> ThreadType]
      /\ RequestsApart' /\ Control' /\ Wakeups'
      /\ req' = [req EXCEPT ![s] = req[s]] /\ req[s] \in ReqType
  BY NoQueueing
<1>2. sio[s] \in File /\ owner \in [FD -> Sio \cup {None}] /\ Matches(s, sio[s], req[s], owner)
  BY DEF Inv, Types, FileMatches
<1>3. req[s].op = "read" => C # Idle
  BY <1>2, IdleIsNoFile DEF Matches, Outcome
<1>4. /\ sio' = [sio EXCEPT ![s] = C]
      /\ (C = Idle /\ sio[s].fd \in FD) => owner' = [owner EXCEPT ![sio[s].fd] = None]
      /\ ~(C = Idle /\ sio[s].fd \in FD) => owner' = owner
  BY DEF Update
<1>5. Matches(s, C, req[s], owner') /\ Disowns(s, owner, owner') /\ C \in File \cup {Idle}
  BY <1>2, <1>3, <1>4, OutcomeMatches
<1>6. /\ FileMatches' /\ sio' \in [Sio -> File \cup {Idle}] /\ req' \in [Req -> ReqType]
      /\ owner' \in [FD -> Sio \cup {None}]
  BY <1>1, <1>4, <1>5, FileChanges DEF Inv
<1> QED
  BY <1>1, <1>6 DEF Inv, Types

LEMMA ReadInv ==
    ASSUME Inv, NEW s \in Sio, Read(s)
    PROVE  Inv'
<1>1. Dispatching /\ ~sio[s].reading /\ sio[s].mode = "read" /\ UNCHANGED storeVars
  BY DEF Read, Client
<1>2. sio[s] \in File /\ sio[s] # Idle /\ Matches(s, sio[s], req[s], owner) /\ s \in Req
  BY <1>1 DEF Inv, Types, FileMatches, Idle, None, Req
<1>3. CASE sio[s].fd = None
  <2> DEFINE C == [sio[s] EXCEPT !.pendingRead = TRUE]
  <2>1. Outcome(sio[s], C) /\ C # Idle
    BY <1>2, IdleIsNoFile DEF Outcome, File
  <2>2. Update(s, C, None) /\ UNCHANGED queueVars
    BY <1>3 DEF Read
  <2> HIDE DEF C
  <2>3. Update(s, C, sio[s].fd)
    BY <1>3, <2>2
  <2> QED
    BY <1>1, <1>2, <2>1, <2>2, <2>3, FileOnly
<1>4. CASE sio[s].fd # None
  <2> DEFINE S == fileRead(sio[s])
             R == [op |-> "read", fd |-> sio[s].fd]
  <2>1. sio[s].fd \in FD /\ req[s].op = None /\ sio[s].inProgress = 0 /\ owner[sio[s].fd] = s
    BY <1>1, <1>2, <1>4 DEF Matches, File
  <2>2. S \in File /\ S # Idle /\ S.inProgress = 1 /\ S.fd = sio[s].fd /\ S.reading
    BY <1>2, <2>1, FileReadFacts
  <2>3. sio' = [sio EXCEPT ![s] = S] /\ owner' = owner
    BY <1>4, <2>2 DEF Read, Update
  <2>4. /\ lists' \in ListType /\ thread' \in [Thread -> ThreadType]
        /\ RequestsApart' /\ Control' /\ Wakeups'
        /\ req' = [req EXCEPT ![s] = R] /\ R \in ReqType
    BY <1>1, <1>2, <1>4, <2>1, ClientQueues DEF Read
  <2> HIDE DEF S
  <2>5. Matches(s, S, R, owner')
    BY <1>2, <2>1, <2>2, <2>3 DEF Matches, None
  <2>6. Disowns(s, owner, owner')
    BY <2>3 DEF Disowns, Inv, Types
  <2>7. /\ FileMatches' /\ sio' \in [Sio -> File \cup {Idle}] /\ req' \in [Req -> ReqType]
        /\ owner' \in [FD -> Sio \cup {None}]
    <3> HIDE DEF R
    <3> QED
      BY <2>2, <2>3, <2>4, <2>5, <2>6, FileChanges DEF Inv
  <2> QED
    BY <2>4, <2>7 DEF Inv, Types
<1> QED
  BY <1>3, <1>4

LEMMA WriteInv ==
    ASSUME Inv, NEW s \in Sio, Write(s)
    PROVE  Inv'
<1> DEFINE W == [sio[s] EXCEPT !.pendingWrites = @ + 1]
           C == drainWriteQueue(W)
<1>1. Dispatching /\ sio[s].mode = "write" /\ UNCHANGED queueVars /\ UNCHANGED storeVars
      /\ Update(s, C, sio[s].fd)
  BY DEF Write, Client, queueVars, storeVars
<1>2. sio[s] \in File /\ sio[s] # Idle
  BY <1>1 DEF Inv, Types, Idle, None
<1>3. W \in File /\ W.inProgress = sio[s].inProgress /\ W.fd = sio[s].fd /\ W.reading = sio[s].reading
  BY <1>2 DEF File
<1> HIDE DEF W
<1>4. Outcome(W, C)
  BY <1>3, DrainOutcome
<1> HIDE DEF C
<1>5. Outcome(sio[s], C)
  BY <1>3, <1>4 DEF Outcome
<1> QED
  BY <1>1, <1>2, <1>5, FileOnly

LEMMA CloseInv ==
    ASSUME Inv, NEW s \in Sio, storeClose(s)
    PROVE  Inv'
<1> DEFINE W == [sio[s] EXCEPT !.closed = TRUE]
           C == tryClosing(W)
<1>1. Dispatching /\ sio[s] # Idle /\ UNCHANGED queueVars /\ UNCHANGED storeVars
      /\ Update(s, C, sio[s].fd)
  BY DEF storeClose, queueVars, storeVars
<1>2. sio[s] \in File
  BY <1>1 DEF Inv, Types
<1>3. W \in File /\ W.inProgress = sio[s].inProgress /\ W.fd = sio[s].fd /\ W.reading = sio[s].reading
  BY <1>2 DEF File
<1> HIDE DEF W
<1>4. Outcome(W, C)
  BY <1>3, TryClosingOutcome
<1> HIDE DEF C
<1>5. Outcome(sio[s], C)
  BY <1>3, <1>4 DEF Outcome
<1> QED
  BY <1>1, <1>5, FileOnly

LEMMA UnlinkInv ==
    ASSUME Inv, NEW u \in Unlink, unlinkFile(u)
    PROVE  Inv'
<1> DEFINE R == [op |-> "unlink", fd |-> None]
<1>1. req[u].op = None /\ u \in Req /\ u \notin Sio
  BY ConstantsAssumption DEF unlinkFile, NoReq, Req
<1>2. /\ lists' \in ListType /\ thread' \in [Thread -> ThreadType]
      /\ RequestsApart' /\ Control' /\ Wakeups'
      /\ req' = [req EXCEPT ![u] = R] /\ R \in ReqType
  BY <1>1, ClientQueues DEF unlinkFile
<1>3. UNCHANGED <<sio, owner>>
  BY DEF unlinkFile
<1>4. req \in [Req -> ReqType]
  BY DEF Inv, Types
<1>5. req' \in [Req -> ReqType] /\ req'[u].op = "unlink" /\ \A x \in Req : x # u => req'[x] = req[x]
  BY <1>1, <1>2, <1>4
<1>6. FileMatches'
  <2>1. \A s \in Sio : req'[s] = req[s]
    BY <1>1, <1>5 DEF Req
  <2>2. \A x \in Unlink : req'[x].op \in {None, "unlink"}
    BY <1>5 DEF Inv, FileMatches, Req
  <2> QED
    BY <1>3, <2>1, <2>2 DEF Inv, FileMatches
<1> QED
  BY <1>2, <1>3, <1>5, <1>6 DEF Inv, Types

-----------------------------------------------------------------------------
(* The steps of threads                                                    *)

LEMMA FilesSame ==
    ASSUME Inv, UNCHANGED <<req, sio, owner>>
    PROVE  /\ FileMatches' /\ sio' \in [Sio -> File \cup {Idle}] /\ req' \in [Req -> ReqType]
           /\ owner' \in [FD -> Sio \cup {None}]
  BY DEF Inv, FileMatches, Types

\* A thread that has not appended anything goes on.
LEMMA WakeupsElsewhere ==
    ASSUME Wakeups, NEW t \in Thread, thread[t].pc \notin {"append", "notify", "write"},
           UNCHANGED <<main, syncing, signalled, pipe>>,
           \A u \in Thread \ {t} : thread'[u] = thread[u],
           \A q \in {"done", "polled"} : Head(lists', q) = Head(lists, q)
    PROVE  Wakeups'
<1>1. Waiting' = Waiting
  BY DEF Waiting
<1>2. \A u \in Thread : thread[u].pc \in {"append", "notify", "write"} => thread'[u].pc = thread[u].pc
  OBVIOUS
<1>3. Head(lists', "done") = Head(lists, "done") /\ Head(lists', "polled") = Head(lists, "polled")
  OBVIOUS
<1> QED
  BY <1>1, <1>2, <1>3 DEF Wakeups

LEMMA ThreadLockInv ==
    ASSUME Inv, NEW t \in Thread, ThreadLock(t)
    PROVE  Inv'
<1>1. /\ thread[t].pc = "lock" /\ Goto(t, "locked") /\ rlock' = t
      /\ UNCHANGED <<req, main, syncing, sio, lists, dlock, signalled, pipe, owner>>
  BY DEF ThreadLock, At, mainVars, notifyVars
<1>2. PICK c \in Colouring : Linked(lists, c) /\ Held(c, thread, req)
  BY DEF Inv, RequestsApart
<1>3. /\ thread' \in [Thread -> ThreadType] /\ \A u \in Thread \ {t} : thread'[u] = thread[u]
  BY <1>1, GotoFacts DEF Inv, Types
<1>4. Held(c, thread', req)
  <2>1. thread \in [Thread -> ThreadType]
    BY DEF Inv, Types
  <2>2. thread[t].pc \in {"busy", "done", "append"} <=> "locked" \in {"busy", "done", "append"}
    BY <1>1
  <2> QED
    BY <1>1, <1>2, <2>1, <2>2, GotoHeld
<1>5. Wakeups'
  BY <1>1, <1>3, WakeupsElsewhere DEF Inv
<1>6. Control'
  BY <1>1, <1>3 DEF Inv, Control
<1> QED
  BY <1>1, <1>2, <1>3, <1>4, <1>5, <1>6, FilesSame DEF Inv, Types, RequestsApart

LEMMA ThreadTakeInv ==
    ASSUME Inv, NEW t \in Thread, ThreadTake(t)
    PROVE  Inv'
<1>1. /\ thread[t].pc = "locked" /\ rlock' = None
      /\ UNCHANGED <<req, main, syncing, sio, dlock, signalled, pipe, owner>>
  BY DEF ThreadTake, At, mainVars, notifyVars
<1>2. PICK c \in Colouring : Linked(lists, c) /\ Held(c, thread, req)
  BY DEF Inv, RequestsApart
<1>3. lists \in ListType /\ thread \in [Thread -> ThreadType] /\ req \in [Req -> ReqType]
  BY DEF Inv, Types
<1>4. CASE Head(lists, "request") = NULL
  <2>1. Goto(t, "waiting") /\ UNCHANGED lists
    BY <1>4 DEF ThreadTake
  <2>2. thread' \in [Thread -> ThreadType] /\ \A u \in Thread \ {t} : thread'[u] = thread[u]
    BY <2>1, <1>3, GotoFacts
  <2>3. Held(c, thread', req)
    <3>1. thread[t].pc \in {"busy", "done", "append"} <=> "waiting" \in {"busy", "done", "append"}
      BY <1>1
    <3> QED
      BY <1>2, <1>3, <2>1, <3>1, GotoHeld
  <2>4. Wakeups'
    BY <1>1, <2>1, <2>2, WakeupsElsewhere DEF Inv
  <2>5. Control'
    BY <1>1, <2>2 DEF Inv, Control
  <2> QED
    BY <1>1, <1>2, <2>1, <2>2, <2>3, <2>4, <2>5, FilesSame DEF Inv, Types, RequestsApart
<1>5. CASE Head(lists, "request") # NULL
  <2> DEFINE r == Head(lists, "request")
             d == [c EXCEPT ![r] = None]
  <2>1. thread' = [thread EXCEPT ![t] = [pc |-> "busy", r |-> r]] /\ lists' = Pop(lists, "request")
    BY <1>5 DEF ThreadTake
  <2>2. /\ r \in Req /\ c[r] = "request" /\ Pop(lists, "request") \in ListType
        /\ d \in Colouring /\ Linked(Pop(lists, "request"), d)
        /\ \A p \in Queue \ {"request"} : Head(Pop(lists, "request"), p) = Head(lists, p)
    <3>1. "request" \in Queue
      BY DEF Queue
    <3> QED
      BY <1>2, <1>3, <1>5, <3>1, PopLinked
  <2>3. d[r] = None /\ \A s \in Req : s # r => d[s] = c[s]
    BY <2>2 DEF Colouring
  <2> HIDE DEF r, d
  <2>4. /\ thread' \in [Thread -> ThreadType] /\ \A u \in Thread \ {t} : thread'[u] = thread[u]
        /\ thread'[t].pc = "busy" /\ thread'[t].r = r
    BY <2>1, <2>2, <1>3 DEF ThreadType
  <2>5. \A u \in Thread : thread[u].r # r
    BY <1>2, <2>2, Apart DEF Held, None
  <2>6. \A u \in Thread : thread[u].r # NULL => thread[u].r \in Req
    BY <1>3 DEF ThreadType
  <2>7. Held(d, thread', req)
    <3>1. \A s \in Req : d[s] \in Queue => req[s].op # None
      BY <1>2, <2>3, Apart DEF Held
    <3>2. \A u \in Thread : thread'[u].r # NULL <=> thread'[u].pc \in {"busy", "done", "append"}
      BY <1>2, <2>2, <2>4, Apart DEF Held
    <3>3. req[r].op # None /\ (req[r].op = "open" => req[r].fd = None)
      BY <1>2, <2>2 DEF Held, Queue
    <3>4. \A u \in Thread : thread'[u].r # NULL => (d[thread'[u].r] = None /\ req[thread'[u].r].op # None)
      BY <1>2, <2>3, <2>4, <2>5, <2>6, <3>3 DEF Held
    <3>5. \A u, v \in Thread : (thread'[u].r = thread'[v].r /\ thread'[u].r # NULL) => u = v
      BY <1>2, <2>4, <2>5 DEF Held
    <3>6. \A s \in Req : (d[s] \in {"request", "request2"} /\ req[s].op = "open") => req[s].fd = None
      BY <1>2, <2>3 DEF Held, None
    <3>7. \A u \in Thread : (thread'[u].pc = "busy" /\ req[thread'[u].r].op = "open")
                            => req[thread'[u].r].fd = None
      BY <1>2, <2>4, <3>3 DEF Held
    <3> QED
      BY <3>1, <3>2, <3>4, <3>5, <3>6, <3>7 DEF Held
  <2>8. \A q \in {"done", "polled"} : Head(lists', q) = Head(lists, q)
    BY <2>1, <2>2 DEF Queue
  <2>9. Wakeups'
    BY <1>1, <2>4, <2>8, WakeupsElsewhere DEF Inv
  <2>10. Control'
    BY <1>1, <2>4 DEF Inv, Control
  <2> QED
    BY <1>1, <2>1, <2>2, <2>4, <2>7, <2>9, <2>10, FilesSame DEF Inv, Types, RequestsApart
<1> QED
  BY <1>4, <1>5

LEMMA ThreadOpenInv ==
    ASSUME Inv, NEW t \in Thread, ThreadOpen(t)
    PROVE  Inv'
<1> DEFINE s == thread[t].r
<1>1. /\ thread[t].pc = "busy" /\ req[s].op = "open" /\ Goto(t, "done")
      /\ UNCHANGED <<lists, rlock, dlock, main, syncing, sio, signalled, pipe>>
  BY DEF ThreadOpen, At, notifyVars
<1>2. PICK fd \in {d \in FD : owner[d] = None} \cup {"failed"} :
         /\ req' = [req EXCEPT ![s].fd = fd]
         /\ owner' = [d \in FD |-> IF d = fd THEN s ELSE owner[d]]
  BY DEF ThreadOpen
<1>3. PICK c \in Colouring : Linked(lists, c) /\ Held(c, thread, req)
  BY DEF Inv, RequestsApart
<1>4. /\ thread \in [Thread -> ThreadType] /\ req \in [Req -> ReqType]
      /\ owner \in [FD -> Sio \cup {None}] /\ sio \in [Sio -> File \cup {Idle}]
  BY DEF Inv, Types
<1> HIDE DEF s
<1>5. s \in Req /\ s # NULL /\ c[s] = None /\ req[s].fd = None
  BY <1>1, <1>3, <1>4 DEF Held, ThreadType, s
<1>6. s \in Sio
  BY <1>1, <1>5 DEF Inv, FileMatches, Req, None
<1> DEFINE R == [op |-> "open", fd |-> fd]
<1>7. req' = [req EXCEPT ![s] = R] /\ R \in ReqType
  <2>1. req[s] \in ReqType
    BY <1>4, <1>5
  <2>2. [req[s] EXCEPT !.fd = fd] = R
    BY <2>1, <1>1 DEF ReqType
  <2>3. [req EXCEPT ![s].fd = fd] = [req EXCEPT ![s] = [req[s] EXCEPT !.fd = fd]]
    BY <1>4, <1>5
  <2>4. R \in ReqType
    BY DEF ReqType
  <2> QED
    BY <1>2, <2>2, <2>3, <2>4
<1>8. Matches(s, sio[s], req[s], owner)
  BY <1>6 DEF Inv, FileMatches
<1>9. \A d \in FD : owner'[d] = s => d = fd
  BY <1>1, <1>2, <1>4, <1>5, <1>8, ConstantsAssumption DEF Matches
<1>10. Matches(s, sio[s], R, owner')
  <2>1. R.op = "open" /\ R.fd = fd
    OBVIOUS
  <2>2. sio[s] # Idle /\ sio[s].inProgress = 1 /\ sio[s].fd = None
    BY <1>1, <1>8 DEF Matches
  <2>3. fd \in FD => owner'[fd] = s
    BY <1>2
  <2> HIDE DEF R
  <2> QED
    BY <1>9, <2>1, <2>2, <2>3 DEF Matches, None
<1>11. Disowns(s, owner, owner')
  <2>1. owner' \in [FD -> Sio \cup {None}]
    BY <1>2, <1>4, <1>6
  <2>2. ASSUME NEW d \in FD
        PROVE  owner'[d] = owner[d] \/ (owner[d] = None /\ owner'[d] = s)
    BY <1>2, ConstantsAssumption
  <2> QED
    BY <2>1, <2>2 DEF Disowns
<1>12. sio' = [sio EXCEPT ![s] = sio[s]] /\ sio[s] \in File \cup {Idle}
  BY <1>1, <1>4, <1>6
<1>13. /\ FileMatches' /\ sio' \in [Sio -> File \cup {Idle}] /\ req' \in [Req -> ReqType]
       /\ owner' \in [FD -> Sio \cup {None}]
  <2> HIDE DEF R
  <2> QED
    BY <1>6, <1>7, <1>10, <1>11, <1>12, FileChanges DEF Inv
<1>14. /\ thread' \in [Thread -> ThreadType] /\ \A u \in Thread \ {t} : thread'[u] = thread[u]
       /\ thread'[t].pc = "done" /\ thread'[t].r = s
  BY <1>1, <1>4, GotoFacts DEF s
<1>15. Held(c, thread', req')
  <2>1. req'[s].op = "open" /\ \A r \in Req : r # s => req'[r] = req[r]
    BY <1>4, <1>5, <1>7
  <2>2. \A u \in Thread : thread'[u].r = thread[u].r
    BY <1>14 DEF s
  <2>3. \A u \in Thread : thread[u].r # NULL => thread[u].r \in Req
    BY <1>4 DEF ThreadType
  <2>4. \A u \in Thread : u # t => thread[u].r # s
    BY <1>3, <1>5 DEF Held, s
  <2>5. /\ \A r \in Req : c[r] \in Queue => req'[r].op # None
        /\ \A r \in Req : (c[r] \in {"request", "request2"} /\ req'[r].op = "open") => req'[r].fd = None
    BY <1>3, <1>5, <2>1, Apart DEF Held, None
  <2>6. \A u \in Thread : thread'[u].r # NULL <=> thread'[u].pc \in {"busy", "done", "append"}
    BY <1>3, <1>5, <1>14 DEF Held
  <2>7. \A u \in Thread : thread'[u].r # NULL => (c[thread'[u].r] = None /\ req'[thread'[u].r].op # None)
    BY <1>3, <2>1, <2>2, <2>3 DEF Held, None
  <2>8. \A u \in Thread : (thread'[u].pc = "busy" /\ req'[thread'[u].r].op = "open")
                          => req'[thread'[u].r].fd = None
    <3> SUFFICES ASSUME NEW u \in Thread, thread'[u].pc = "busy", req'[thread'[u].r].op = "open"
                 PROVE  req'[thread'[u].r].fd = None
      OBVIOUS
    <3>1. u # t /\ thread[u].pc = "busy"
      BY <1>14
    <3>2. thread[u].r \in Req /\ thread[u].r # s
      BY <3>1, <2>3, <2>4, <1>3 DEF Held
    <3> QED
      BY <3>1, <3>2, <2>1, <2>2, <1>3 DEF Held
  <2> QED
    BY <1>3, <2>2, <2>5, <2>6, <2>7, <2>8 DEF Held
<1>16. Wakeups'
  BY <1>1, <1>14, WakeupsElsewhere DEF Inv
<1>17. Control'
  BY <1>1, <1>14 DEF Inv, Control
<1> QED
  BY <1>1, <1>3, <1>13, <1>14, <1>15, <1>16, <1>17 DEF Inv, Types, RequestsApart

LEMMA ThreadOtherInv ==
    ASSUME Inv, NEW t \in Thread, ThreadOther(t)
    PROVE  Inv'
<1>1. /\ thread[t].pc = "busy" /\ Goto(t, "done")
      /\ UNCHANGED <<req, main, syncing, sio, lists, rlock, dlock, signalled, pipe, owner>>
  BY DEF ThreadOther, At, mainVars, notifyVars
<1>2. PICK c \in Colouring : Linked(lists, c) /\ Held(c, thread, req)
  BY DEF Inv, RequestsApart
<1>3. thread' \in [Thread -> ThreadType] /\ \A u \in Thread \ {t} : thread'[u] = thread[u]
  BY <1>1, GotoFacts DEF Inv, Types
<1>4. Held(c, thread', req)
  <2>1. thread \in [Thread -> ThreadType]
    BY DEF Inv, Types
  <2>2. thread[t].pc \in {"busy", "done", "append"} <=> "done" \in {"busy", "done", "append"}
    BY <1>1
  <2> QED
    BY <1>1, <1>2, <2>1, <2>2, GotoHeld
<1>5. Wakeups'
  BY <1>1, <1>3, WakeupsElsewhere DEF Inv
<1>6. Control'
  BY <1>1, <1>3 DEF Inv, Control
<1> QED
  BY <1>1, <1>2, <1>3, <1>4, <1>5, <1>6, FilesSame DEF Inv, Types, RequestsApart

LEMMA ThreadDoneInv ==
    ASSUME Inv, NEW t \in Thread, ThreadDone(t)
    PROVE  Inv'
<1>1. /\ thread[t].pc = "done" /\ Goto(t, "append") /\ dlock = None /\ dlock' = t
      /\ UNCHANGED <<req, main, syncing, sio, lists, rlock, signalled, pipe, owner>>
  BY DEF ThreadDone, At, mainVars, notifyVars
<1>2. PICK c \in Colouring : Linked(lists, c) /\ Held(c, thread, req)
  BY DEF Inv, RequestsApart
<1>3. /\ thread' \in [Thread -> ThreadType] /\ \A u \in Thread \ {t} : thread'[u] = thread[u]
      /\ thread'[t].pc = "append"
  BY <1>1, GotoFacts DEF Inv, Types
<1>4. Held(c, thread', req)
  <2>1. thread \in [Thread -> ThreadType]
    BY DEF Inv, Types
  <2>2. thread[t].pc \in {"busy", "done", "append"} <=> "append" \in {"busy", "done", "append"}
    BY <1>1
  <2> QED
    BY <1>1, <1>2, <2>1, <2>2, GotoHeld
<1>5. Wakeups'
  BY <1>1, <1>3, WakeupsElsewhere DEF Inv
<1>6. Control'
  BY <1>1, <1>3 DEF Inv, Control
<1> QED
  BY <1>1, <1>2, <1>3, <1>4, <1>5, <1>6, FilesSame DEF Inv, Types, RequestsApart

LEMMA ThreadAppendInv ==
    ASSUME Inv, NEW t \in Thread, ThreadAppend(t)
    PROVE  Inv'
<1> DEFINE r == thread[t].r
<1>1. /\ thread[t].pc = "append" /\ lists' = Push(lists, "done", r) /\ dlock' = None
      /\ thread' = [thread EXCEPT ![t] = [pc |-> "notify", r |-> NULL]]
      /\ UNCHANGED <<req, main, syncing, sio, rlock, signalled, pipe, owner>>
  BY DEF ThreadAppend, At, mainVars, notifyVars
<1>2. PICK c \in Colouring : Linked(lists, c) /\ Held(c, thread, req)
  BY DEF Inv, RequestsApart
<1>3. lists \in ListType /\ thread \in [Thread -> ThreadType] /\ req \in [Req -> ReqType]
  BY DEF Inv, Types
<1> HIDE DEF r
<1>4. r \in Req /\ c[r] = None /\ req[r].op # None
  BY <1>1, <1>2, <1>3 DEF Held, ThreadType, r
<1> DEFINE d == [c EXCEPT ![r] = "done"]
<1>5. Push(lists, "done", r) \in ListType /\ d \in Colouring /\ Linked(Push(lists, "done", r), d)
  <2>1. "done" \in Queue
    BY DEF Queue
  <2> QED
    BY <1>2, <1>3, <1>4, <2>1, PushLinked
<1>6. d[r] = "done" /\ \A s \in Req : s # r => d[s] = c[s]
  BY <1>4 DEF Colouring
<1> HIDE DEF d
<1>7. /\ thread' \in [Thread -> ThreadType] /\ \A u \in Thread \ {t} : thread'[u] = thread[u]
      /\ thread'[t].pc = "notify" /\ thread'[t].r = NULL
  BY <1>1, <1>3 DEF ThreadType
<1>8. Held(d, thread', req)
  <2>1. \A u \in Thread \ {t} : thread[u].r # r
    BY <1>2, <1>4, Apart DEF Held, r
  <2>2. \A u \in Thread : thread[u].r # NULL => thread[u].r \in Req
    BY <1>3 DEF ThreadType
  <2>3. \A s \in Req : d[s] \in Queue => req[s].op # None
    BY <1>2, <1>4, <1>6 DEF Held
  <2>4. \A u \in Thread : thread'[u].r # NULL <=> thread'[u].pc \in {"busy", "done", "append"}
    BY <1>2, <1>7 DEF Held
  <2>5. \A u \in Thread : thread'[u].r # NULL => (d[thread'[u].r] = None /\ req[thread'[u].r].op # None)
    BY <1>2, <1>6, <1>7, <2>1, <2>2 DEF Held
  <2>6. \A u, v \in Thread : (thread'[u].r = thread'[v].r /\ thread'[u].r # NULL) => u = v
    BY <1>2, <1>7 DEF Held
  <2>7. \A s \in Req : (d[s] \in {"request", "request2"} /\ req[s].op = "open") => req[s].fd = None
    BY <1>2, <1>6 DEF Held
  <2>8. \A u \in Thread : (thread'[u].pc = "busy" /\ req[thread'[u].r].op = "open")
                          => req[thread'[u].r].fd = None
    BY <1>2, <1>7 DEF Held
  <2> QED
    BY <2>3, <2>4, <2>5, <2>6, <2>7, <2>8 DEF Held
<1>9. Wakeups'
  <2>1. Waiting' = Waiting
    BY <1>1 DEF Waiting
  <2>2. \E u \in Thread : thread'[u].pc \in {"append", "notify"}
    BY <1>7
  <2>3. \A u \in Thread : thread[u].pc = "write" => thread'[u].pc = "write"
    BY <1>1, <1>7
  <2> QED
    BY <1>1, <2>1, <2>2, <2>3 DEF Inv, Wakeups
<1>10. Control'
  BY <1>1 DEF Inv, Control
<1> QED
  BY <1>1, <1>5, <1>7, <1>8, <1>9, <1>10, FilesSame DEF Inv, Types, RequestsApart

LEMMA NotifyInv ==
    ASSUME Inv, NEW t \in Thread, NotifyIOCompleted(t) \/ NotifyWrites(t)
    PROVE  Inv'
<1>1. /\ thread[t].pc \in {"notify", "write"}
      /\ UNCHANGED <<req, main, syncing, sio, lists, rlock, dlock, owner>>
  BY DEF NotifyIOCompleted, NotifyWrites, At, mainVars
<1>2. PICK pc \in {"lock", "write"} : Goto(t, pc)
  BY DEF NotifyIOCompleted, NotifyWrites
<1>3. PICK c \in Colouring : Linked(lists, c) /\ Held(c, thread, req)
  BY DEF Inv, RequestsApart
<1>4. /\ thread' \in [Thread -> ThreadType] /\ \A u \in Thread \ {t} : thread'[u] = thread[u]
      /\ thread'[t].pc = pc
  BY <1>2, GotoFacts DEF Inv, Types
<1>5. Held(c, thread', req)
  <2>1. thread \in [Thread -> ThreadType]
    BY DEF Inv, Types
  <2>2. thread[t].pc \in {"busy", "done", "append"} <=> pc \in {"busy", "done", "append"}
    BY <1>1
  <2> QED
    BY <1>2, <1>3, <2>1, <2>2, GotoHeld
<1>6. Waiting' = Waiting /\ Head(lists', "done") = Head(lists, "done")
      /\ Head(lists', "polled") = Head(lists, "polled")
  BY <1>1 DEF Waiting
<1>7. Wakeups' /\ signalled' \in BOOLEAN /\ pipe' \in BOOLEAN
  <2>1. CASE NotifyIOCompleted(t) /\ signalled
    <3>1. signalled' = TRUE /\ pipe' = pipe /\ thread[t].pc = "notify"
      BY <2>1 DEF NotifyIOCompleted, At
    <3>2. \A u \in Thread : thread[u].pc = "write" => thread'[u].pc = "write"
      BY <1>4, <3>1
    <3> QED
      BY <1>1, <1>6, <2>1, <3>1, <3>2 DEF Inv, Wakeups, Control
  <2>2. CASE NotifyIOCompleted(t) /\ ~signalled
    <3>1. signalled' = TRUE /\ pipe' = pipe /\ Goto(t, "write")
      BY <2>2 DEF NotifyIOCompleted
    <3>2. thread'[t].pc = "write"
      BY <3>1, GotoFacts DEF Inv, Types
    <3> QED
      BY <3>1, <3>2 DEF Inv, Wakeups, Control
  <2>3. CASE NotifyWrites(t)
    <3>1. pipe' = TRUE /\ signalled' = signalled /\ thread[t].pc = "write"
      BY <2>3 DEF NotifyWrites, At
    <3>2. \A u \in Thread : thread[u].pc \in {"append", "notify"} => thread'[u].pc = thread[u].pc
      BY <1>4, <3>1
    <3> QED
      BY <1>6, <3>1, <3>2 DEF Inv, Wakeups, Control
  <2> QED
    BY <2>1, <2>2, <2>3
<1>8. Control'
  BY <1>1, <1>4, <1>7 DEF Inv, Control
<1> QED
  BY <1>1, <1>3, <1>4, <1>5, <1>7, <1>8, FilesSame DEF Inv, Types, RequestsApart

-----------------------------------------------------------------------------
(* The steps of the main thread                                            *)

\* The loop's own steps that leave the lists alone.
LEMMA LoopInv ==
    ASSUME Inv, Wake \/ PollFlush \/ PollReset
    PROVE  Inv'
<1>1. UNCHANGED <<lists, req, thread, rlock, dlock, syncing, sio, owner>>
  BY DEF Wake, PollFlush, PollReset
<1>2. main \in {"wait", "poll", "reset"} /\ syncing = "no"
  BY DEF Wake, PollFlush, PollReset, Inv, Control
<1>3. /\ main' \in {"poll", "reset", "kick"} /\ (main' = "kick" => ~signalled')
      /\ signalled' \in BOOLEAN /\ pipe' \in BOOLEAN
  <2>1. CASE Wake
    BY <2>1 DEF Wake, Inv, Control
  <2>2. CASE PollFlush
    BY <2>2 DEF PollFlush, Inv, Control
  <2>3. CASE PollReset
    BY <2>3 DEF PollReset, Inv, Control
  <2> QED
    BY <2>1, <2>2, <2>3
<1>4. ~Waiting'
  BY <1>1, <1>2, <1>3 DEF Waiting
<1>5. Wakeups'
  BY <1>1, <1>3, <1>4 DEF Wakeups
<1>6. Control'
  BY <1>1, <1>2, <1>3 DEF Inv, Control
<1>7. RequestsApart'
  BY <1>1 DEF Inv, RequestsApart
<1> QED
  BY <1>1, <1>5, <1>6, <1>7, FilesSame DEF Inv, Types

LEMMA PollKickInv ==
    ASSUME Inv, PollKick
    PROVE  Inv'
<1>1. main = "kick" /\ main' = "take" /\ UNCHANGED <<req, rlock, dlock, signalled, pipe, syncing, sio, owner>>
  BY DEF PollKick, notifyVars
<1>2. PICK c \in Colouring : Linked(lists, c) /\ Held(c, thread, req)
  BY DEF Inv, RequestsApart
<1>3. lists \in ListType /\ thread \in [Thread -> ThreadType]
  BY DEF Inv, Types
<1>4. Woken(thread, thread')
  <2>1. CondSignal \/ UNCHANGED thread
    BY DEF PollKick
  <2> QED
    BY <1>3, <2>1, CondSignalWoken
<1>5. "request" \in Queue /\ "request2" \in Queue /\ "request" # "request2"
      /\ \A q \in {"done", "polled"} : q \in Queue \ {"request", "request2"}
  BY DEF Queue
<1>6. /\ lists' \in ListType /\ RequestsApart'
      /\ \A q \in {"done", "polled"} : Head(lists', q) = Head(lists, q)
  <2>1. CASE UNCHANGED lists
    BY <1>1, <1>2, <1>3, <1>4, <2>1, WokenHeld DEF RequestsApart
  <2>2. CASE ~UNCHANGED lists
    <3>1. lists' = Splice(lists, "request", "request2")
      BY <2>2 DEF PollKick
    <3>2. /\ lists' \in ListType
          /\ \E d \in Colouring : /\ Linked(lists', d)
                                  /\ \A s \in Req : d[s] = c[s] \/ (c[s] = "request2" /\ d[s] = "request")
          /\ \A p \in Queue \ {"request", "request2"} : Head(lists', p) = Head(lists, p)
      BY <1>2, <1>3, <1>5, <3>1, SpliceLinked
    <3>3. PICK d \in Colouring : /\ Linked(lists', d)
                                 /\ \A s \in Req : d[s] = c[s] \/ (c[s] = "request2" /\ d[s] = "request")
      BY <3>2
    <3>4. Held(d, thread, req)
      BY <1>2, <1>3, <3>3, RecolouredHeld
    <3>5. Held(d, thread', req')
      BY <1>1, <1>4, <3>4, WokenHeld
    <3> QED
      BY <1>5, <3>2, <3>3, <3>5 DEF RequestsApart
  <2> QED
    BY <2>1, <2>2
<1>7. \A t \in Thread : thread[t].pc \in {"append", "notify", "write"} => thread'[t].pc = thread[t].pc
  BY <1>4 DEF Woken
<1>8. Wakeups'
  <2>1. Waiting' = Waiting
    BY <1>1 DEF Waiting
  <2>2. Head(lists', "done") = Head(lists, "done") /\ Head(lists', "polled") = Head(lists, "polled")
    BY <1>6
  <2> QED
    BY <1>1, <1>7, <2>1, <2>2 DEF Inv, Wakeups
<1>9. Control'
  BY <1>1, <1>7 DEF Inv, Control
<1> QED
  BY <1>1, <1>4, <1>6, <1>8, <1>9, FilesSame DEF Inv, Types, Woken

LEMMA PollTakeInv ==
    ASSUME Inv, PollTake
    PROVE  Inv'
<1>1. main = "take" /\ UNCHANGED <<req, thread, rlock, dlock, signalled, pipe, sio, owner>>
  BY DEF PollTake, notifyVars
<1>2. PICK c \in Colouring : Linked(lists, c) /\ Held(c, thread, req)
  BY DEF Inv, RequestsApart
<1>3. lists \in ListType /\ thread \in [Thread -> ThreadType]
  BY DEF Inv, Types
<1>4. "done" \in Queue /\ "polled" \in Queue /\ "polled" # "done"
  BY DEF Queue
<1>5. /\ lists' \in ListType /\ RequestsApart'
      /\ (Head(lists', "done") # NULL \/ Head(lists', "polled") # NULL)
         => (Head(lists, "done") # NULL \/ Head(lists, "polled") # NULL)
      /\ dlock = None => Head(lists', "done") = NULL
  <2>1. CASE dlock # None
    <3>1. UNCHANGED lists
      BY <2>1 DEF PollTake
    <3> QED
      BY <1>1, <1>2, <1>3, <2>1, <3>1 DEF RequestsApart
  <2>2. CASE dlock = None
    <3>1. lists' = Splice(lists, "polled", "done")
      BY <2>2 DEF PollTake
    <3>2. /\ lists' \in ListType
          /\ \E d \in Colouring : /\ Linked(lists', d)
                                  /\ \A s \in Req : d[s] = c[s] \/ (c[s] = "done" /\ d[s] = "polled")
          /\ Head(lists', "done") = NULL
          /\ Head(lists', "polled") # NULL => (Head(lists, "polled") # NULL \/ Head(lists, "done") # NULL)
      BY <1>2, <1>3, <1>4, <3>1, SpliceLinked
    <3>3. PICK d \in Colouring : /\ Linked(lists', d)
                                 /\ \A s \in Req : d[s] = c[s] \/ (c[s] = "done" /\ d[s] = "polled")
      BY <3>2
    <3>4. Held(d, thread, req)
      BY <1>2, <1>3, <1>4, <3>3, RecolouredHeld
    <3> QED
      BY <1>1, <3>2, <3>3, <3>4 DEF RequestsApart
  <2> QED
    BY <2>1, <2>2
<1>6. dlock # None => \E t \in Thread : thread[t].pc \in {"append", "notify"}
  BY DEF Inv, Control
<1>7. CASE syncing # "no"
  <2>1. \/ main' = "kick" /\ syncing' = syncing
        \/ main' = syncing /\ syncing' = "no"
    BY <1>7 DEF PollTake
  <2>2. main' \in {"kick", "poll", "wait"} /\ syncing' \in {"no", "poll", "wait"}
        /\ (syncing' # "no" => main' = "kick")
    BY <1>7, <2>1 DEF Inv, Control
  <2>3. Control'
    BY <1>1, <2>2 DEF Inv, Control
  <2>4. Waiting' => Waiting
    BY <1>7, <2>1 DEF Waiting
  <2>5. ~(main' \in {"kick", "take"} /\ syncing' = "no")
    BY <1>7, <2>1 DEF Inv, Control
  <2>6. Wakeups'
    BY <1>1, <1>5, <2>4, <2>5 DEF Inv, Wakeups
  <2> QED
    BY <1>1, <1>3, <1>5, <2>3, <2>6, FilesSame DEF Inv, Types
<1>8. CASE syncing = "no"
  <2>1. /\ main' = (IF Head(lists', "polled") = NULL THEN "wait" ELSE "poll")
        /\ syncing' = syncing
    BY <1>8 DEF PollTake
  <2>2. Control'
    BY <1>1, <1>8, <2>1 DEF Inv, Control
  <2>3. CASE Head(lists', "polled") # NULL
    <3>1. main' = "poll"
      BY <2>1, <2>3
    <3>2. Wakeups'
      BY <1>8, <2>1, <3>1 DEF Wakeups, Waiting
    <3> QED
      BY <1>1, <1>3, <1>5, <2>2, <3>2, FilesSame DEF Inv, Types
  <2>4. CASE Head(lists', "polled") = NULL
    <3>1. main' = "wait"
      BY <2>1, <2>4
    <3>2. signalled => pipe \/ \E t \in Thread : thread[t].pc = "write"
      BY <1>1, <1>8 DEF Inv, Wakeups
    <3>3. Head(lists', "done") # NULL => \E t \in Thread : thread[t].pc \in {"append", "notify"}
      BY <1>5, <1>6
    <3>4. Wakeups'
      BY <1>1, <2>4, <3>2, <3>3 DEF Wakeups
    <3> QED
      BY <1>1, <1>3, <1>5, <2>2, <3>4, FilesSame DEF Inv, Types
  <2> QED
    BY <2>3, <2>4
<1> QED
  BY <1>7, <1>8

\* A request that is delivered leaves the lists and is with no thread.
LEMMA PolledRequest ==
    ASSUME Inv, NEW op, Polled(op)
    PROVE  LET s == Head(lists, "polled") IN
           /\ s \in Req /\ req[s].op = op /\ main = "poll" /\ UNCHANGED storeVars
           /\ Pop(lists, "polled") \in ListType
           /\ \A t \in Thread : thread[t].r # s
           /\ \E d \in Colouring :
                 d[s] = None /\ Linked(Pop(lists, "polled"), d) /\ Held(d, thread, req)
<1> DEFINE s == Head(lists, "polled")
<1>1. s # NULL /\ req[s].op = op /\ main = "poll" /\ UNCHANGED storeVars
  BY DEF Polled
<1>2. PICK c \in Colouring : Linked(lists, c) /\ Held(c, thread, req)
  BY DEF Inv, RequestsApart
<1>3. lists \in ListType /\ thread \in [Thread -> ThreadType] /\ req \in [Req -> ReqType]
  BY DEF Inv, Types
<1> DEFINE d == [c EXCEPT ![s] = None]
<1>4. /\ s \in Req /\ c[s] = "polled" /\ Pop(lists, "polled") \in ListType
      /\ d \in Colouring /\ Linked(Pop(lists, "polled"), d)
  <2>1. "polled" \in Queue
    BY DEF Queue
  <2> QED
    BY <1>1, <1>2, <1>3, <2>1, PopLinked
<1>5. d[s] = None /\ \A r \in Req : r # s => d[r] = c[r]
  BY <1>4 DEF Colouring
<1> HIDE DEF s, d
<1>6. \A t \in Thread : thread[t].r # s
  BY <1>2, <1>4, Apart DEF Held, None
<1>7. Held(d, thread, req)
  <2>1. req[s] \in ReqType /\ [req EXCEPT ![s] = req[s]] = req
    BY <1>3, <1>4
  <2>2. Held(d, thread, [req EXCEPT ![s] = req[s]])
    BY <1>2, <1>3, <1>4, <1>5, <1>6, <2>1, RequestHeld
  <2> QED
    BY <2>1, <2>2
<1> QED
  BY <1>1, <1>4, <1>5, <1>6, <1>7 DEF s

\* A request that is delivered and forgotten.
LEMMA Forgotten ==
    ASSUME Inv, NEW op, Polled(op), NoRequest(Pop(lists, "polled"), Head(lists, "polled"))
    PROVE  /\ lists' \in ListType /\ thread' \in [Thread -> ThreadType]
           /\ RequestsApart' /\ Control' /\ Wakeups'
           /\ req' = [req EXCEPT ![Head(lists, "polled")] = NoReq] /\ NoReq \in ReqType
<1> DEFINE s == Head(lists, "polled")
<1>1. /\ s \in Req /\ main = "poll" /\ UNCHANGED storeVars
      /\ Pop(lists, "polled") \in ListType /\ \A t \in Thread : thread[t].r # s
      /\ \E d \in Colouring :
            d[s] = None /\ Linked(Pop(lists, "polled"), d) /\ Held(d, thread, req)
  BY PolledRequest
<1>2. PICK d \in Colouring : d[s] = None /\ Linked(Pop(lists, "polled"), d) /\ Held(d, thread, req)
  BY <1>1
<1>3. /\ lists' = Pop(lists, "polled") /\ req' = [req EXCEPT ![s] = NoReq]
      /\ UNCHANGED <<thread, main, syncing>>
  BY DEF NoRequest
<1>4. NoReq \in ReqType
  BY DEF NoReq, ReqType
<1>5. Woken(thread, thread') /\ thread' \in [Thread -> ThreadType]
  BY <1>3, SameThreads DEF Inv, Types
<1>6. Control' /\ Wakeups'
  BY <1>1, <1>3, <1>5, CallKeepsControl DEF Inv
<1> HIDE DEF s
<1>7. Held(d, thread, [req EXCEPT ![s] = NoReq])
  <2>1. req \in [Req -> ReqType] /\ thread \in [Thread -> ThreadType]
    BY DEF Inv, Types
  <2> QED
    BY <1>1, <1>2, <1>4, <2>1, RequestHeld
<1>8. RequestsApart'
  BY <1>2, <1>3, <1>7 DEF RequestsApart
<1> QED
  BY <1>1, <1>3, <1>4, <1>5, <1>6, <1>8 DEF s

\* A file without a request any more, which may close now.
LEMMA FileDelivered ==
    ASSUME Inv, NEW op, Polled(op), NoRequest(Pop(lists, "polled"), Head(lists, "polled")),
           NEW s \in Sio, s = Head(lists, "polled"), NEW S \in File,
           S.inProgress = 0, S.fd \in FD, owner[S.fd] = s, \A fd \in FD : owner[fd] = s => fd = S.fd,
           NEW C, Outcome(S, C), Update(s, C, S.fd)
    PROVE  Inv'
<1>1. /\ lists' \in ListType /\ thread' \in [Thread -> ThreadType]
      /\ RequestsApart' /\ Control' /\ Wakeups'
      /\ req' = [req EXCEPT ![s] = NoReq] /\ NoReq \in ReqType
  BY Forgotten
<1>2. Matches(s, S, NoReq, owner)
  BY IdleIsNoFile DEF Matches, NoReq, None
<1>3. /\ sio' = [sio EXCEPT ![s] = C]
      /\ (C = Idle /\ S.fd \in FD) => owner' = [owner EXCEPT ![S.fd] = None]
      /\ ~(C = Idle /\ S.fd \in FD) => owner' = owner
  BY DEF Update
<1>4. owner \in [FD -> Sio \cup {None}] /\ (NoReq.op = "read" => C # Idle)
  BY DEF Inv, Types, NoReq, None
<1>5. Matches(s, C, NoReq, owner') /\ Disowns(s, owner, owner') /\ C \in File \cup {Idle}
  BY <1>2, <1>3, <1>4, OutcomeMatches
<1>6. /\ FileMatches' /\ sio' \in [Sio -> File \cup {Idle}] /\ req' \in [Req -> ReqType]
      /\ owner' \in [FD -> Sio \cup {None}]
  BY <1>1, <1>3, <1>5, FileChanges DEF Inv
<1> QED
  BY <1>1, <1>6 DEF Inv, Types

LEMMA OpenDoneInv ==
    ASSUME Inv, OpenDone
    PROVE  Inv'
<1> DEFINE s  == Head(lists, "polled")
           fd == req[s].fd
           S  == [ioDone(sio[s]) EXCEPT !.opening = FALSE, !.pendingRead = FALSE,
                                        !.fd = IF fd \in FD THEN fd ELSE None]
<1>1. Polled("open")
  BY DEF OpenDone
<1>2. /\ s \in Req /\ req[s].op = "open" /\ main = "poll" /\ UNCHANGED storeVars
      /\ Pop(lists, "polled") \in ListType /\ \A t \in Thread : thread[t].r # s
      /\ \E d \in Colouring :
            d[s] = None /\ Linked(Pop(lists, "polled"), d) /\ Held(d, thread, req)
  BY <1>1, PolledRequest
<1>3. \/ /\ fd \notin FD
         /\ Update(s, tryClosing(S), None)
         /\ NoRequest(Pop(lists, "polled"), s)
      \/ /\ fd \in FD
         /\ Update(s, fileRead(S), None)
         /\ squidaio_queue_request(Pop(lists, "polled"), queueLen, s, "read", fd)
      \/ /\ fd \in FD
         /\ Update(s, CloseIfAsked(drainWriteQueue(S)), fd)
         /\ NoRequest(Pop(lists, "polled"), s)
  BY DEF OpenDone
<1>4. s \in Sio
  BY <1>2 DEF Inv, FileMatches, Req, None
<1>5. Matches(s, sio[s], req[s], owner) /\ sio[s] # Idle /\ sio[s] \in File
      /\ sio[s].inProgress = 1 /\ sio[s].fd = None
  BY <1>2, <1>4 DEF Inv, FileMatches, Matches, Types
<1>6. /\ \A d \in FD : owner[d] = s => d = fd
      /\ fd \in FD => owner[fd] = s
  BY <1>2, <1>5, ConstantsAssumption DEF Matches
<1>7. S \in File /\ S.inProgress = 0 /\ S.fd = IF fd \in FD THEN fd ELSE None
  <2> DEFINE A == [sio[s] EXCEPT !.inProgress = @ - 1]
             B == [A EXCEPT !.opening = FALSE, !.pendingRead = FALSE]
  <2>1. A \in File /\ A.inProgress = 0
    BY <1>5 DEF File
  <2> HIDE DEF A
  <2>2. B \in File /\ B.inProgress = 0
    BY <2>1 DEF File
  <2>3. S = [B EXCEPT !.fd = IF fd \in FD THEN fd ELSE None]
    BY <2>1 DEF ioDone, File, A
  <2> HIDE DEF B, S
  <2>4. (IF fd \in FD THEN fd ELSE None) \in FD \cup {None}
    OBVIOUS
  <2> QED
    BY <2>2, <2>3, <2>4 DEF File
<1>8. owner \in [FD -> Sio \cup {None}]
  BY DEF Inv, Types
<1> HIDE DEF S, s, fd
<1>9. CASE /\ fd \notin FD
           /\ Update(s, tryClosing(S), None)
           /\ NoRequest(Pop(lists, "polled"), s)
  <2>1. tryClosing(S) = Idle
    BY <1>7, TryClosingOutcome
  <2>2. sio' = [sio EXCEPT ![s] = Idle] /\ owner' = owner
    BY <1>9, <2>1, ConstantsAssumption DEF Update
  <2>3. /\ lists' \in ListType /\ thread' \in [Thread -> ThreadType]
        /\ RequestsApart' /\ Control' /\ Wakeups'
        /\ req' = [req EXCEPT ![s] = NoReq] /\ NoReq \in ReqType
    BY <1>1, <1>9, Forgotten DEF s
  <2>4. Matches(s, Idle, NoReq, owner')
    BY <1>6, <1>9, <2>2 DEF Matches, NoReq, None
  <2>5. Disowns(s, owner, owner')
    BY <1>8, <2>2 DEF Disowns
  <2>6. /\ FileMatches' /\ sio' \in [Sio -> File \cup {Idle}] /\ req' \in [Req -> ReqType]
        /\ owner' \in [FD -> Sio \cup {None}]
    BY <1>4, <2>2, <2>3, <2>4, <2>5, FileChanges DEF Inv
  <2> QED
    BY <2>3, <2>6 DEF Inv, Types
<1>10. CASE /\ fd \in FD
            /\ Update(s, fileRead(S), None)
            /\ squidaio_queue_request(Pop(lists, "polled"), queueLen, s, "read", fd)
  <2> DEFINE R == [op |-> "read", fd |-> fd]
             F == fileRead(S)
  <2>1. S.fd = fd
    BY <1>7, <1>10
  <2>2. F \in File /\ F # Idle /\ F.inProgress = 1 /\ F.fd = fd /\ F.reading
    BY <1>7, <2>1, FileReadFacts
  <2>3. sio' = [sio EXCEPT ![s] = F] /\ owner' = owner
    BY <1>10, ConstantsAssumption DEF Update
  <2>4. PICK d \in Colouring : d[s] = None /\ Linked(Pop(lists, "polled"), d) /\ Held(d, thread, req)
    BY <1>2 DEF s
  <2>5. s \in Req /\ Pop(lists, "polled") \in ListType /\ \A t \in Thread : thread[t].r # s
    BY <1>2 DEF s
  <2>6. /\ lists' \in ListType /\ Woken(thread, thread') /\ RequestsApart'
        /\ req' = [req EXCEPT ![s] = R]
        /\ (main' = main /\ syncing' = syncing) \/ (main' = "kick" /\ syncing' = main)
    <3>1. Types /\ Control /\ fd \in FD \cup {None, "failed"} /\ ("read" = "open" => fd = None)
          /\ "read" \in {"open", "read", "unlink"}
      BY <1>10 DEF Inv
    <3> QED
      BY <1>10, <2>4, <2>5, <3>1, QueueRequest
  <2>7. Control' /\ Wakeups'
    BY <1>2, <2>6, CallKeepsControl DEF Inv
  <2>8. R \in ReqType
    BY <1>10 DEF ReqType
  <2>9. Matches(s, F, R, owner')
    <3> HIDE DEF F
    <3> QED
      BY <1>6, <1>10, <2>2, <2>3 DEF Matches, None
  <2>10. Disowns(s, owner, owner')
    BY <1>8, <2>3 DEF Disowns
  <2>11. /\ FileMatches' /\ sio' \in [Sio -> File \cup {Idle}] /\ req' \in [Req -> ReqType]
         /\ owner' \in [FD -> Sio \cup {None}]
    <3> HIDE DEF R, F
    <3> QED
      BY <1>4, <2>2, <2>3, <2>6, <2>8, <2>9, <2>10, FileChanges DEF Inv
  <2> QED
    BY <2>6, <2>7, <2>11 DEF Inv, Types, Woken
<1>11. CASE /\ fd \in FD
            /\ Update(s, CloseIfAsked(drainWriteQueue(S)), fd)
            /\ NoRequest(Pop(lists, "polled"), s)
  <2>1. S.fd = fd
    BY <1>7, <1>11
  <2> DEFINE C == CloseIfAsked(drainWriteQueue(S))
  <2>2. Outcome(S, C)
    BY <1>7, DrainAndCloseOutcome
  <2>3. NoRequest(Pop(lists, "polled"), Head(lists, "polled")) /\ s = Head(lists, "polled")
    BY <1>11 DEF s
  <2> HIDE DEF C
  <2>4. Update(s, C, S.fd)
    BY <1>11, <2>1 DEF C
  <2> QED
    BY <1>1, <1>4, <1>6, <1>7, <1>11, <2>1, <2>2, <2>3, <2>4, FileDelivered
<1> QED
  BY <1>3, <1>9, <1>10, <1>11 DEF S, s, fd

LEMMA ReadDoneInv ==
    ASSUME Inv, ReadDone
    PROVE  Inv'
<1> DEFINE s == Head(lists, "polled")
           S == [ioDone(sio[s]) EXCEPT !.reading = FALSE]
           C == CloseIfAsked(S)
<1>1. Polled("read") /\ Update(s, C, sio[s].fd) /\ NoRequest(Pop(lists, "polled"), s)
  BY DEF ReadDone
<1>2. s \in Req /\ req[s].op = "read"
  BY <1>1, PolledRequest
<1>3. s \in Sio
  BY <1>2 DEF Inv, FileMatches, Req, None
<1>4. Matches(s, sio[s], req[s], owner) /\ sio[s] # Idle /\ sio[s] \in File
      /\ sio[s].inProgress = 1 /\ sio[s].fd \in FD /\ owner[sio[s].fd] = s
  BY <1>2, <1>3 DEF Inv, FileMatches, Matches, Types
<1>5. \A d \in FD : owner[d] = s => d = sio[s].fd
  BY <1>2, <1>4 DEF Matches
<1>6. S \in File /\ S.inProgress = 0 /\ S.fd = sio[s].fd
  <2> DEFINE A == [sio[s] EXCEPT !.inProgress = @ - 1]
  <2>1. A \in File /\ A.inProgress = 0 /\ A.fd = sio[s].fd
    BY <1>4 DEF File
  <2>2. S = [A EXCEPT !.reading = FALSE]
    BY DEF ioDone
  <2> HIDE DEF A, S
  <2> QED
    BY <2>1, <2>2 DEF File
<1> HIDE DEF S
<1>7. Outcome(S, C)
  BY <1>6, CloseIfAskedOutcome
<1> HIDE DEF C
<1> QED
  BY <1>1, <1>3, <1>4, <1>5, <1>6, <1>7, FileDelivered

LEMMA UnlinkDoneInv ==
    ASSUME Inv, UnlinkDone
    PROVE  Inv'
<1> DEFINE u == Head(lists, "polled")
<1>1. Polled("unlink") /\ NoRequest(Pop(lists, "polled"), u) /\ UNCHANGED <<sio, owner>>
  BY DEF UnlinkDone
<1>2. u \in Req /\ req[u].op = "unlink"
  BY <1>1, PolledRequest
<1>3. /\ lists' \in ListType /\ thread' \in [Thread -> ThreadType]
      /\ RequestsApart' /\ Control' /\ Wakeups'
      /\ req' = [req EXCEPT ![u] = NoReq] /\ NoReq \in ReqType
  BY <1>1, Forgotten
<1> HIDE DEF u
<1>4. u \notin Sio
  BY <1>2 DEF Inv, FileMatches, Matches, None
<1>5. req \in [Req -> ReqType]
  BY DEF Inv, Types
<1>6. req' \in [Req -> ReqType] /\ req'[u].op = None /\ \A x \in Req : x # u => req'[x] = req[x]
  BY <1>2, <1>3, <1>5 DEF NoReq
<1>7. FileMatches'
  <2>1. \A s \in Sio : req'[s] = req[s]
    BY <1>4, <1>6 DEF Req
  <2>2. \A x \in Unlink : req'[x].op \in {None, "unlink"}
    BY <1>6 DEF Inv, FileMatches, Req
  <2> QED
    BY <1>1, <2>1, <2>2 DEF Inv, FileMatches
<1> QED
  BY <1>1, <1>3, <1>6, <1>7 DEF Inv, Types

-----------------------------------------------------------------------------
(* Theorems                                                                *)

LEMMA InitInv == Init => Inv
<1> SUFFICES ASSUME Init PROVE Inv
  OBVIOUS
<1>1. Types
  BY DEF Init, Types, ListType, ReqType, ThreadType, NoReq
<1>2. RequestsApart
  <2> DEFINE c == [r \in Req |-> None]
  <2>1. c \in Colouring
    BY DEF Colouring
  <2>2. Linked(lists, c)
    <3>1. (\A l \in Queue \cup Req : lists.link[l] = NULL) /\ \A q \in Queue : lists.tail[q] = q
      BY DEF Init
    <3>2. \A q \in Queue : lists.link[lists.tail[q]] = NULL /\ q \notin Req
      BY <3>1, Apart
    <3> QED
      BY <3>1, <3>2 DEF Linked
  <2>3. Held(c, thread, req)
    BY Apart DEF Init, Held, NoReq, None
  <2> QED
    BY <2>1, <2>2, <2>3 DEF RequestsApart
<1>3. FileMatches
  BY ConstantsAssumption DEF Init, FileMatches, Matches, NoReq, None, Req
<1>4. Control
  BY DEF Init, Control
<1>5. Wakeups
  BY DEF Init, Wakeups, Head, Queue
<1> QED
  BY <1>1, <1>2, <1>3, <1>4, <1>5 DEF Inv

LEMMA NextInv == Inv /\ [Next]_vars => Inv'
<1> SUFFICES ASSUME Inv, [Next]_vars PROVE Inv'
  OBVIOUS
<1>1. CASE MainStep
  BY <1>1, LoopInv, PollKickInv, PollTakeInv, OpenDoneInv, ReadDoneInv, UnlinkDoneInv DEF MainStep
<1>2. CASE ClientStep
  <2>1. CASE \E s \in Sio \cap active : Open(s) \/ Read(s) \/ Write(s) \/ storeClose(s)
    BY <2>1, OpenInv, ReadInv, WriteInv, CloseInv
  <2>2. CASE \E u \in Unlink \cap active : unlinkFile(u)
    BY <2>2, UnlinkInv
  <2> QED
    BY <1>2, <2>1, <2>2 DEF ClientStep
<1>3. ASSUME NEW t \in Thread, ThreadStep(t)
      PROVE  Inv'
  BY <1>3, ThreadLockInv, ThreadTakeInv, ThreadOpenInv, ThreadOtherInv, ThreadDoneInv,
     ThreadAppendInv, NotifyInv DEF ThreadStep
<1>4. CASE UNCHANGED vars
  <2>1. UNCHANGED <<lists, req, thread, rlock, dlock, signalled, pipe, main, syncing, sio, owner>>
    BY <1>4 DEF vars, notifyVars
  <2>2. RequestsApart' /\ Control' /\ Wakeups'
    BY <2>1 DEF Inv, RequestsApart, Control, Wakeups, Waiting
  <2> QED
    BY <2>1, <2>2, FilesSame DEF Inv, Types
<1> QED
  BY <1>1, <1>2, <1>3, <1>4 DEF Next

THEOREM InvHolds == Spec => []Inv
  BY InitInv, NextInv, PTL DEF Spec

\* Whatever is opened, read, written and closed, and in whatever order the
\* threads come to it, I/O never meets a descriptor that was closed, and no
\* open descriptor is lost (aiops.cc, DiskThreadsDiskFile.cc,
\* UFSStoreState.cc).
THEOREM DescriptorsStayOwned == Spec => []DescriptorsOwned
<1>1. Inv => DescriptorsOwned
  <2> SUFFICES ASSUME Inv PROVE DescriptorsOwned
    OBVIOUS
  <2>1. ASSUME NEW s \in Sio, req[s].op = "read"
        PROVE  owner[req[s].fd] = s
    BY <2>1 DEF Inv, FileMatches, Matches
  <2>2. ASSUME NEW fd \in FD, owner[fd] # None
        PROVE  \/ sio[owner[fd]] # Idle /\ sio[owner[fd]].fd = fd
               \/ req[owner[fd]] = [op |-> "open", fd |-> fd]
    <3>1. owner[fd] \in Sio /\ req[owner[fd]] \in ReqType
      BY <2>2 DEF Inv, Types, Req
    <3>2. Matches(owner[fd], sio[owner[fd]], req[owner[fd]], owner)
      BY <3>1 DEF Inv, FileMatches
    <3> QED
      BY <3>1, <3>2 DEF Matches, ReqType
  <2> QED
    BY <2>1, <2>2 DEF DescriptorsOwned
<1> QED
  BY <1>1, InvHolds, PTL

\* The main thread never waits out its timeout over completed requests:
\* there is a byte in the pipe, or a thread is about to write it (CommIO.h,
\* CommIO.cc, aiops.cc).
THEOREM WakeupIsNotLost == Spec => []WakeupNotLost
<1>1. Inv => WakeupNotLost
  BY DEF Inv, Wakeups, Waiting, WakeupNotLost
<1> QED
  BY <1>1, InvHolds, PTL
=============================================================================
