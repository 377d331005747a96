---------------------------- MODULE IpcIoProofs ----------------------------
(***************************************************************************)
(* Proofs about IpcIoFile, for any number of requests, pages and queue     *)
(* slots.                                                                  *)
(*                                                                         *)
(* CompletedOnce is not inductive.  That a request is completed once needs *)
(* to know that a request is in at most one map, under one identifier, and *)
(* only while it is pushed (MapsMatch), and that a push() on the stack of  *)
(* calls is the only one for a request that is only issued (CallsMatch).   *)
(* That it is completed by its own response needs the identifiers: those   *)
(* of the n requests issued so far are the last n ones given out, in order *)
(* (IdsMatch), and fewer than all, so a wrapped-around identifier is not   *)
(* one that a message or a map still holds (AgeStep).  PagesExclusive      *)
(* needs pages to be apart by position in the queues (PagesApart).         *)
(*                                                                         *)
(* The second half is about Coordinator, from which IpcIoFile::open()      *)
(* learns who serves its file, and about the Kids that it is built on, for *)
(* any kids, addresses, requests and crashes.  Everything rests on SmpInv: *)
(* what the processes keep and what is under way between them match.  Each *)
(* handler is first reduced to the datagrams that it sends (Posts) and     *)
(* reads (Reads); the parts of SmpInv are then proved one after the other. *)
(***************************************************************************)
EXTENDS IpcIo, Coordinator, FiniteSetTheorems, SequenceTheorems, TLAPS

Constants ==
    /\ NRequests \in Nat \ {0} /\ QueueCapacity \in Nat \ {0}
    /\ IdRange \in Nat /\ IdRange > NRequests + 1
    /\ NoPage \notin Pages

\* The first message leaves a queue.
LEMMA TailFacts ==
    ASSUME NEW S, NEW s \in Seq(S), s # <<>>
    PROVE  /\ Head(s) = s[1] /\ Head(s) \in S /\ 1 \in DOMAIN s
           /\ Tail(s) \in Seq(S) /\ Len(Tail(s)) = Len(s) - 1 /\ Len(s) \in Nat /\ Len(s) > 0
           /\ \A i \in DOMAIN Tail(s) : i + 1 \in DOMAIN s /\ Tail(s)[i] = s[i + 1] /\ i \in Nat /\ i > 0
  OBVIOUS

\* A message joins a queue.
LEMMA AppendFacts ==
    ASSUME NEW S, NEW s \in Seq(S), NEW m \in S
    PROVE  /\ Append(s, m) \in Seq(S) /\ Len(Append(s, m)) = Len(s) + 1 /\ Len(s) \in Nat
           /\ \A i \in DOMAIN s : i \in DOMAIN Append(s, m) /\ Append(s, m)[i] = s[i]
           /\ \A i \in DOMAIN Append(s, m) :
                 \/ i \in DOMAIN s /\ Append(s, m)[i] = s[i]
                 \/ i = Len(s) + 1 /\ i \notin DOMAIN s /\ Append(s, m)[i] = m
  OBVIOUS

\* A queue of one message.
LEMMA OneFacts ==
    ASSUME NEW S, NEW m \in S
    PROVE  /\ <<m>> \in Seq(S) /\ Len(<<m>>) = 1
           /\ \A i \in DOMAIN <<m>> : <<m>>[i] = m
  OBVIOUS

LEMMA SingleFacts ==
    ASSUME NEW S, NEW s \in Seq(S), s # <<>>, Len(s) <= 1
    PROVE  s = <<s[1]>> /\ s[1] \in S /\ DOMAIN s = {1}
<1>1. Len(s) \in Nat /\ Len(s) # 0 /\ DOMAIN s = 1 .. Len(s)
  OBVIOUS
<1>2. Len(s) = 1
  BY <1>1
<1>3. DOMAIN s = {1}
  BY <1>1, <1>2
<1> QED
  BY <1>2, <1>3

\* The last call returns.
LEMMA ReturnFacts ==
    ASSUME NEW S, NEW s \in Seq(S), s # <<>>
    PROVE  /\ Len(s) \in DOMAIN s /\ s[Len(s)] \in S
           /\ SubSeq(s, 1, Len(s) - 1) \in Seq(S) /\ Len(SubSeq(s, 1, Len(s) - 1)) = Len(s) - 1
           /\ \A i \in DOMAIN SubSeq(s, 1, Len(s) - 1) :
                i \in DOMAIN s /\ i # Len(s) /\ SubSeq(s, 1, Len(s) - 1)[i] = s[i]
<1>1. Len(s) \in Nat /\ Len(s) > 0 /\ DOMAIN s = 1 .. Len(s)
  OBVIOUS
<1> QED
  BY <1>1, SubSeqProperties

----------------------------------------------------------------------------
CallRecords == [method : {"push", "HandleNotification", "checkTimeouts"}, req : Requests \cup {None}]

\* The conjuncts of TypeOK on what only the worker changes.
WorkerType ==
    /\ error_ \in BOOLEAN
    /\ lastRequestId \in Ids
    /\ requestMap \in [1 .. 2 -> [Ids -> Requests \cup {None}]]
    /\ olderRequests \in 1 .. 2
    /\ timeoutCheckScheduled \in BOOLEAN
    /\ worker \in {"up", "deaf", "dead"}
    /\ calls \in Seq(CallRecords)
    /\ command \in [Requests -> Commands \cup {"none"}]
    /\ result \in [Requests -> {"new", "issued", "pushed", "ok", "failed", "thrown"}]
    /\ completions \in [Requests -> Nat]
    /\ answeredBy \in [Requests -> Requests \cup {None}]
    /\ waited \in SUBSET Requests
    /\ reentered \in BOOLEAN
QueueType ==
    /\ toDisker \in Seq(DiskerMessages) /\ Len(toDisker) <= QueueCapacity
    /\ toWorker \in Seq(WorkerMessages) /\ Len(toWorker) <= QueueCapacity
    /\ disker \in Seq(WorkerMessages) /\ Len(disker) <= 1
    /\ free \in SUBSET Pages

LEMMA TypeParts == TypeOK <=> WorkerType /\ QueueType
  BY DEF TypeOK, WorkerType, QueueType, CallRecords

Answered == \A r \in Requests : ~reentered => answeredBy[r] \in {None, r}

\* The worker's part of the invariant, and the part about messages.
WorkerMatches ==
    /\ WorkerType /\ CallsMatch /\ MapsMatch /\ CompletionsMatch /\ WaitedMatch /\ Answered
MessagesInv == QueueType /\ MessagesMatch /\ PagesApart
Issued == \E n \in 0 .. NRequests : IssuedUpTo(n) /\ IdsMatch(n)

LEMMA IoInvParts == IoInv <=> WorkerMatches /\ MessagesInv /\ Issued
  BY TypeParts DEF IoInv, WorkerMatches, MessagesInv, Issued, Answered

LEMMA IoInvFromParts ==
    ASSUME WorkerMatches', QueueType', MessagesMatch', PagesApart', Issued'
    PROVE  IoInv'
<1>1. TypeOK'
  BY DEF TypeOK, WorkerMatches, WorkerType, QueueType, CallRecords
<1> QED
  BY <1>1 DEF IoInv, WorkerMatches, Issued, Answered

LEMMA ConstantFacts == Constants
  BY IpcIoAssumption DEF Constants

\* What the disker does leaves the worker's part.
LEMMA WorkerFrame ==
    ASSUME WorkerMatches, UNCHANGED <<fileVars, calls, command, result, history>>
    PROVE  WorkerMatches'
  BY DEF WorkerMatches, WorkerType, CallsMatch, MapsMatch, CompletionsMatch, WaitedMatch, Answered,
         Expired, fileVars, history

\* Messages that keep the identifiers and requests of messages that were there.
LEMMA IssuedFrame ==
    ASSUME Issued, UNCHANGED <<fileVars, calls, command, result, history>>,
           \A msg \in Messages' : \E old \in Messages : old.requestId = msg.requestId /\ old.req = msg.req
    PROVE  Issued'
<1> PICK n \in 0 .. NRequests : IssuedUpTo(n) /\ IdsMatch(n)
  BY DEF Issued
<1>1. IssuedUpTo(n)'
  BY DEF IssuedUpTo
<1>2. \A id : Age(id)' = Age(id)
  BY DEF Age, fileVars
<1>3. IdsMatch(n)'
  BY <1>2 DEF IdsMatch, fileVars, history
<1> QED
  BY <1>1, <1>3 DEF Issued

----------------------------------------------------------------------------
(* the disker *)

LEMMA DiskerPushStep ==
    ASSUME IoInv, DiskerPushResponse
    PROVE  IoInv'
<1>0. /\ WorkerMatches /\ MessagesInv /\ Issued /\ QueueType /\ MessagesMatch /\ PagesApart
      /\ disker # <<>> /\ Len(toWorker) < QueueCapacity
      /\ toWorker' = toWorker \o disker /\ disker' = <<>>
      /\ UNCHANGED <<fileVars, calls, command, result, toDisker, free, history>>
  BY IoInvParts DEF DiskerPushResponse, MessagesInv
<1>1. disker = <<disker[1]>> /\ disker[1] \in WorkerMessages /\ DOMAIN disker = {1}
  <2>1. disker \in Seq(WorkerMessages) /\ Len(disker) <= 1
    BY <1>0 DEF QueueType
  <2> QED
    BY <1>0, <2>1, SingleFacts
<1> DEFINE m == disker[1]
<1>2. m \in WorkerMessages /\ toWorker' = Append(toWorker, m)
  <2>1. toWorker \in Seq(WorkerMessages) /\ toWorker' = toWorker \o <<m>>
    BY <1>0, <1>1 DEF QueueType
  <2>2. toWorker \o <<m>> = Append(toWorker, m)
    BY <2>1
  <2> QED
    BY <1>1, <2>1, <2>2
<1> HIDE DEF m
<1>3. /\ toWorker' \in Seq(WorkerMessages) /\ Len(toWorker') = Len(toWorker) + 1
      /\ \A i \in DOMAIN toWorker' : \/ i \in DOMAIN toWorker /\ toWorker'[i] = toWorker[i]
                                     \/ i = Len(toWorker) + 1 /\ i \notin DOMAIN toWorker /\ toWorker'[i] = m
  <2>1. toWorker \in Seq(WorkerMessages)
    BY <1>0 DEF QueueType
  <2> QED
    BY <1>2, <2>1, AppendFacts
<1>4. QueueType'
  <2>1. Len(toWorker') <= QueueCapacity
    BY <1>0, <1>3, ConstantFacts DEF Constants, QueueType
  <2>2. <<>> \in Seq(WorkerMessages) /\ Len(<<>>) <= 1
    OBVIOUS
  <2> QED
    BY <1>0, <1>3, <2>1, <2>2 DEF QueueType
<1>5. DOMAIN disker' = {}
  BY <1>0
<1>6. Messages' \subseteq Messages
  BY <1>0, <1>1, <1>3, <1>5 DEF Messages, m
<1>7. MessagesMatch'
  BY <1>0, <1>6 DEF MessagesMatch
<1>8. PagesApart'
  <2>1. \A i, j \in DOMAIN toWorker' : i # j => Apart(toWorker'[i], toWorker'[j])
    BY <1>0, <1>1, <1>3 DEF PagesApart, Apart, m
  <2>2. \A i \in DOMAIN toDisker, j \in DOMAIN toWorker' : Apart(toDisker[i], toWorker'[j])
    BY <1>0, <1>1, <1>3 DEF PagesApart, m
  <2>3. \A msg \in Messages' : msg.page \notin free
    BY <1>0, <1>6 DEF PagesApart
  <2>4. \A i, j \in DOMAIN toDisker : i # j => Apart(toDisker[i], toDisker[j])
    BY <1>0 DEF PagesApart
  <2> QED
    BY <1>0, <1>5, <2>1, <2>2, <2>3, <2>4 DEF PagesApart, Apart
<1>9. Issued'
  BY <1>0, <1>6, IssuedFrame
<1>10. WorkerMatches'
  BY <1>0, WorkerFrame
<1> QED
  BY <1>4, <1>7, <1>8, <1>9, <1>10, IoInvFromParts

LEMMA DiskerDropStep ==
    ASSUME IoInv, DiskerDropResponse
    PROVE  IoInv'
<1>0. /\ WorkerMatches /\ MessagesInv /\ Issued /\ QueueType /\ MessagesMatch /\ PagesApart
      /\ disker' = <<>>
      /\ UNCHANGED <<fileVars, calls, command, result, toDisker, toWorker, free, history>>
  BY IoInvParts DEF DiskerDropResponse, MessagesInv
<1>1. DOMAIN disker' = {} /\ disker' \in Seq(WorkerMessages) /\ Len(disker') <= 1
  BY <1>0
<1>2. QueueType'
  BY <1>0, <1>1 DEF QueueType
<1>3. Messages' \subseteq Messages
  BY <1>0, <1>1 DEF Messages
<1>4. MessagesMatch'
  BY <1>0, <1>3 DEF MessagesMatch
<1>5. PagesApart'
  BY <1>0, <1>1, <1>3 DEF PagesApart
<1>6. Issued'
  BY <1>0, <1>3, IssuedFrame
<1>7. WorkerMatches'
  BY <1>0, WorkerFrame
<1> QED
  BY <1>2, <1>4, <1>5, <1>6, <1>7, IoInvFromParts

\* The disker answers a request: the response has a page that was free, or none,
\* and the page of the request is free then, or lost.
LEMMA DiskerRespondStep ==
    ASSUME IoInv, disker = <<>>, toDisker # <<>>, toDisker' = Tail(toDisker),
           NEW page \in free \cup {NoPage}, NEW status \in {"ok", "failed", "short", "noPage"},
           Respond(Head(toDisker), page, status),
           free' \subseteq free \cup ({Head(toDisker).page} \cap Pages), page \notin free',
           UNCHANGED <<fileVars, calls, command, result, toWorker, history>>
    PROVE  IoInv'
<1>0. /\ WorkerMatches /\ MessagesInv /\ Issued /\ QueueType /\ MessagesMatch /\ PagesApart
  BY IoInvParts DEF MessagesInv
<1> DEFINE h == Head(toDisker)
           m == [requestId |-> h.requestId, req |-> h.req, page |-> page, status |-> status]
<1>1. /\ h = toDisker[1] /\ h \in DiskerMessages /\ 1 \in DOMAIN toDisker
      /\ toDisker' \in Seq(DiskerMessages) /\ Len(toDisker') = Len(toDisker) - 1 /\ Len(toDisker) \in Nat
      /\ \A i \in DOMAIN toDisker' : /\ i + 1 \in DOMAIN toDisker /\ i \in Nat /\ i > 0
                                     /\ toDisker'[i] = toDisker[i + 1]
  <2>1. toDisker \in Seq(DiskerMessages)
    BY <1>0 DEF QueueType
  <2> QED
    BY <2>1, TailFacts
<1>2. disker' = <<m>>
  BY DEF Respond
<1>3. page \in Pages \cup {NoPage}
  BY <1>0 DEF QueueType
<1>4. m \in WorkerMessages /\ m.page = page /\ m.req = h.req /\ m.requestId = h.requestId
  BY <1>1, <1>3 DEF DiskerMessages, WorkerMessages
<1> HIDE DEF m, h
<1>5. disker' \in Seq(WorkerMessages) /\ Len(disker') = 1 /\ \A i \in DOMAIN disker' : disker'[i] = m
  BY <1>2, <1>4, OneFacts
<1>6. QueueType'
  <2>1. Len(toDisker') <= QueueCapacity
    BY <1>0, <1>1, ConstantFacts DEF QueueType, Constants
  <2>2. free' \subseteq Pages
    BY <1>0 DEF QueueType
  <2>3. UNCHANGED toWorker
    OBVIOUS
  <2>4. Len(disker') <= 1
    BY <1>5
  <2> QED
    BY <1>0, <1>1, <1>5, <2>1, <2>2, <2>3, <2>4 DEF QueueType
<1>7. h \in Messages
  BY <1>1 DEF Messages
<1>8. \A msg \in Messages' : msg = m \/ (\E i \in DOMAIN toDisker : i # 1 /\ msg = toDisker[i])
                                \/ (\E i \in DOMAIN toWorker : msg = toWorker[i])
  BY <1>1, <1>5 DEF Messages
<1>9. \A msg \in Messages' : msg = m \/ msg \in Messages
  BY <1>8 DEF Messages
<1>10. MessagesMatch'
  <2>1. \A msg \in Messages' : result[msg.req] # "new"
    BY <1>0, <1>4, <1>7, <1>9 DEF MessagesMatch
  <2>2. \A i \in DOMAIN toDisker' : command[toDisker'[i].req] = "write" => toDisker'[i].page \in Pages
    BY <1>0, <1>1 DEF MessagesMatch
  <2> QED
    BY <2>1, <2>2 DEF MessagesMatch
<1>11. PagesApart'
  <2>1. \A i, j \in DOMAIN toDisker' : i # j => Apart(toDisker'[i], toDisker'[j])
    BY <1>0, <1>1 DEF PagesApart
  <2>2. \A i \in DOMAIN toDisker', j \in DOMAIN toWorker : Apart(toDisker'[i], toWorker[j])
    BY <1>0, <1>1 DEF PagesApart
  <2>3. \A msg \in Messages : Apart(msg, m)
    BY <1>0, <1>4 DEF PagesApart, Apart
  <2>4. /\ \A i \in DOMAIN toDisker', j \in DOMAIN disker' : Apart(toDisker'[i], disker'[j])
        /\ \A i \in DOMAIN toWorker, j \in DOMAIN disker' : Apart(toWorker[i], disker'[j])
    BY <1>1, <1>5, <2>3 DEF Messages
  <2>5. ASSUME NEW msg \in Messages' PROVE msg.page \notin free'
    <3>1. CASE msg = m
      BY <1>4, <3>1
    <3>2. CASE \E i \in DOMAIN toDisker : i # 1 /\ msg = toDisker[i]
      <4>1. PICK i \in DOMAIN toDisker : i # 1 /\ msg = toDisker[i]
        BY <3>2
      <4>2. Apart(msg, h) /\ msg \in Messages
        BY <1>0, <1>1, <4>1 DEF PagesApart, Messages
      <4> QED
        BY <1>0, <4>2, ConstantFacts DEF PagesApart, Apart, h, Constants
    <3>3. CASE \E i \in DOMAIN toWorker : msg = toWorker[i]
      <4>1. Apart(h, msg) /\ msg \in Messages
        BY <1>0, <1>1, <3>3 DEF PagesApart, Messages
      <4> QED
        BY <1>0, <4>1, ConstantFacts DEF PagesApart, Apart, h, Constants
    <3> QED
      BY <1>8, <3>1, <3>2, <3>3
  <2>6. \A i, j \in DOMAIN toWorker : i # j => Apart(toWorker[i], toWorker[j])
    BY <1>0 DEF PagesApart
  <2> QED
    BY <2>1, <2>2, <2>4, <2>5, <2>6 DEF PagesApart, Apart
<1>12. Issued'
  BY <1>0, <1>4, <1>7, <1>9, IssuedFrame
<1>13. WorkerMatches'
  BY <1>0, WorkerFrame
<1> QED
  BY <1>6, <1>10, <1>11, <1>12, <1>13, IoInvFromParts

LEMMA DiskerReadStep ==
    ASSUME IoInv, diskerRead
    PROVE  IoInv'
<1>1. /\ disker = <<>> /\ toDisker # <<>> /\ toDisker' = Tail(toDisker)
      /\ UNCHANGED <<fileVars, calls, command, result, toWorker, history>>
  BY DEF diskerRead
<1>2. free \subseteq Pages
  BY DEF IoInv, TypeOK
<1>3. CASE free = {} /\ Respond(Head(toDisker), NoPage, "noPage") /\ UNCHANGED free
  <2>1. NoPage \in free \cup {NoPage} /\ free' \subseteq free \cup ({Head(toDisker).page} \cap Pages)
        /\ NoPage \notin free'
    BY <1>3
  <2> QED
    BY <1>1, <1>3, <2>1, DiskerRespondStep
<1>4. CASE \E page \in free, status \in {"ok", "failed"} :
            free' = free \ {page} /\ Respond(Head(toDisker), page, status)
  <2>1. PICK page \in free, status \in {"ok", "failed"} :
            free' = free \ {page} /\ Respond(Head(toDisker), page, status)
    BY <1>4
  <2> QED
    BY <1>1, <2>1, DiskerRespondStep
<1> QED
  BY <1>3, <1>4 DEF diskerRead

LEMMA DiskerWriteStep ==
    ASSUME IoInv, diskerWrite
    PROVE  IoInv'
<1> DEFINE h == Head(toDisker)
<1>1. /\ disker = <<>> /\ toDisker # <<>> /\ toDisker' = Tail(toDisker)
      /\ command[h.req] = "write" /\ free' = free \cup {h.page}
      /\ UNCHANGED <<fileVars, calls, command, result, toWorker, history>>
  BY DEF diskerWrite
<1>2. PICK status \in {"ok", "failed", "short"} : Respond(h, NoPage, status)
  BY DEF diskerWrite
<1>3. h = toDisker[1] /\ 1 \in DOMAIN toDisker
  BY <1>1, TailFacts DEF IoInv, TypeOK
<1>4. h.page \in Pages
  BY <1>1, <1>3 DEF IoInv, MessagesMatch
<1>5. free \subseteq Pages
  BY DEF IoInv, TypeOK
<1>6. NoPage \in free \cup {NoPage} /\ free' \subseteq free \cup ({h.page} \cap Pages) /\ NoPage \notin free'
  BY <1>1, <1>4, <1>5, ConstantFacts DEF Constants
<1> QED
  BY <1>1, <1>2, <1>6, DiskerRespondStep

----------------------------------------------------------------------------
(* identifiers *)

\* Ages are counted from the last identifier that was given out, without zero.
LEMMA AgeFacts ==
    ASSUME lastRequestId \in Ids, NEW id \in Ids, lastRequestId # 0
    PROVE  Age(id) \in Nat /\ Age(lastRequestId) = 0
  BY ConstantFacts DEF Ids, Age, Constants

\* The next identifier makes all the others one older, except for the oldest.
LEMMA AgeStep ==
    ASSUME lastRequestId \in Ids, NEW id \in Ids, id # 0, lastRequestId # 0,
           lastRequestId' = NextId, Age(id) < IdRange - 2
    PROVE  Age(id)' = Age(id) + 1
<1>1. lastRequestId + 1 = IdRange => lastRequestId' = 1
  BY DEF NextId
<1>2. lastRequestId + 1 # IdRange => lastRequestId' = lastRequestId + 1
  BY DEF NextId
<1> QED
  BY <1>1, <1>2, ConstantFacts DEF Ids, Age, Constants

LEMMA NextIdFacts ==
    ASSUME lastRequestId \in Ids
    PROVE  NextId \in Ids \ {0}
  BY ConstantFacts DEF Ids, NextId, Constants

\* A step that gives no identifier out: new messages and new map entries are those of
\* the request that is being pushed.
LEMMA IssuedKeeps ==
    ASSUME Issued, WorkerType, CallsMatch, lastRequestId' = lastRequestId, reentered' = reentered,
           \A r \in Requests : result'[r] = "new" <=> result[r] = "new",
           Len(calls') <= 1 \/ Len(calls') <= Len(calls), Len(calls') \in Nat,
           \A i \in DOMAIN calls' : calls'[i].method = "push" =>
                \E j \in DOMAIN calls : calls'[i] = calls[j],
           \A msg \in Messages' :
                \/ \E old \in Messages : old.requestId = msg.requestId /\ old.req = msg.req
                \/ /\ msg.requestId = lastRequestId
                   /\ \E j \in DOMAIN calls : calls[j].method = "push" /\ calls[j].req = msg.req,
           \A m \in 1 .. 2, id \in Ids : requestMap'[m][id] # None =>
                \/ requestMap'[m][id] = requestMap[m][id]
                \/ /\ id = lastRequestId
                   /\ \E j \in DOMAIN calls : calls[j].method = "push" /\ calls[j].req = requestMap'[m][id]
    PROVE  Issued'
<1>0. PICK n \in 0 .. NRequests : IssuedUpTo(n) /\ IdsMatch(n)
  BY DEF Issued
<1>1. IssuedUpTo(n)'
  BY <1>0 DEF IssuedUpTo
<1>2. \A id : Age(id)' = Age(id)
  BY DEF Age
<1>3. n > 0 => lastRequestId # 0
  BY <1>0 DEF IdsMatch
<1>4. ASSUME ~reentered
      PROVE  /\ Len(calls') <= 1
             /\ \A i \in DOMAIN calls' : calls'[i].method = "push" => calls'[i].req = n
             /\ \A msg \in Messages' : msg.req = n - Age(msg.requestId)
             /\ \A m \in 1 .. 2, id \in Ids : requestMap'[m][id] # None =>
                    id # 0 /\ requestMap'[m][id] = n - Age(id)
  <2>1. /\ Len(calls) <= 1
        /\ \A i \in DOMAIN calls : calls[i].method = "push" => calls[i].req = n
        /\ \A msg \in Messages : msg.req = n - Age(msg.requestId)
        /\ \A m \in 1 .. 2, id \in Ids : requestMap[m][id] # None =>
               id # 0 /\ requestMap[m][id] = n - Age(id)
    BY <1>0, <1>4 DEF IdsMatch
  <2>2. Len(calls') <= 1
    <3>1. Len(calls) \in Nat
      BY DEF WorkerType
    <3> QED
      BY <2>1, <3>1
  <2>3. \A j \in DOMAIN calls : calls[j].method = "push" =>
            calls[j].req = n /\ lastRequestId # 0 /\ calls[j].req = n - Age(lastRequestId)
    <3> SUFFICES ASSUME NEW j \in DOMAIN calls, calls[j].method = "push"
                 PROVE  calls[j].req = n /\ lastRequestId # 0 /\ calls[j].req = n - Age(lastRequestId)
      OBVIOUS
    <3>1. calls[j].req = n /\ n \in Requests
      BY <2>1 DEF CallsMatch
    <3>2. n \in Nat /\ n > 0
      BY <3>1, ConstantFacts DEF Requests, Constants
    <3>3. lastRequestId # 0 /\ lastRequestId \in Ids
      BY <1>3, <3>2 DEF WorkerType
    <3>4. Age(lastRequestId) = 0
      BY <3>3, AgeFacts
    <3> QED
      BY <3>1, <3>2, <3>3, <3>4
  <2>4. \A msg \in Messages' : msg.req = n - Age(msg.requestId)
    BY <2>1, <2>3
  <2>5. \A m \in 1 .. 2, id \in Ids : requestMap'[m][id] # None =>
               id # 0 /\ requestMap'[m][id] = n - Age(id)
    BY <2>1, <2>3
  <2> QED
    BY <2>1, <2>2, <2>4, <2>5
<1>5. IdsMatch(n)'
  BY <1>2, <1>3, <1>4 DEF IdsMatch
<1> QED
  BY <1>1, <1>5 DEF Issued

LEMMA MessageTypes ==
    ASSUME QueueType
    PROVE  \A msg \in Messages : msg.req \in Requests /\ msg.requestId \in Ids /\ msg.requestId # 0
<1>1. \A i \in DOMAIN toDisker : toDisker[i] \in DiskerMessages
  BY DEF QueueType
<1>2. \A i \in DOMAIN toWorker : toWorker[i] \in WorkerMessages
  BY DEF QueueType
<1>3. \A i \in DOMAIN disker : disker[i] \in WorkerMessages
  BY DEF QueueType
<1>4. \A msg \in Messages : msg \in DiskerMessages \/ msg \in WorkerMessages
  BY <1>1, <1>2, <1>3 DEF Messages
<1> QED
  BY <1>4 DEF DiskerMessages, WorkerMessages

\* What the worker does without touching the queues.
LEMMA MessagesFrame ==
    ASSUME MessagesInv, UNCHANGED queueVars, free' \subseteq free,
           \A r \in Requests : result[r] # "new" => result'[r] # "new" /\ command'[r] = command[r]
    PROVE  QueueType' /\ MessagesMatch' /\ PagesApart' /\ Messages' = Messages
<1>0. QueueType /\ MessagesMatch /\ PagesApart /\ UNCHANGED <<toDisker, toWorker, disker>>
  BY DEF MessagesInv, queueVars
<1>1. Messages' = Messages
  BY <1>0 DEF Messages
<1>2. QueueType'
  BY <1>0 DEF QueueType
<1>3. \A msg \in Messages : msg.req \in Requests
  BY <1>0, MessageTypes
<1>4. MessagesMatch'
  <2>1. \A i \in DOMAIN toDisker : toDisker[i] \in Messages
    BY DEF Messages
  <2> QED
    BY <1>0, <1>1, <1>3, <2>1 DEF MessagesMatch
<1>5. PagesApart'
  BY <1>0, <1>1 DEF PagesApart
<1> QED
  BY <1>1, <1>2, <1>4, <1>5

\* The last call returns.
LEMMA CallsReturn ==
    ASSUME WorkerType, CallsMatch, calls # <<>>, Return,
           \A r \in Requests : (LastCall.method = "push" /\ LastCall.req = r) \/
                                (result[r] = "issued" => result'[r] = "issued")
    PROVE  /\ calls' \in Seq(CallRecords) /\ Len(calls') = Len(calls) - 1
           /\ Len(calls) \in DOMAIN calls /\ LastCall \in CallRecords /\ LastCall = calls[Len(calls)]
           /\ \A i \in DOMAIN calls' : i \in DOMAIN calls /\ calls'[i] = calls[i]
           /\ CallsMatch'
<1>1. /\ Len(calls) \in DOMAIN calls /\ LastCall \in CallRecords /\ LastCall = calls[Len(calls)]
      /\ calls' \in Seq(CallRecords) /\ Len(calls') = Len(calls) - 1
      /\ \A i \in DOMAIN calls' : i \in DOMAIN calls /\ i # Len(calls) /\ calls'[i] = calls[i]
  <2>1. calls \in Seq(CallRecords)
    BY DEF WorkerType
  <2> QED
    BY <2>1, ReturnFacts DEF Return, LastCall
<1>2. ASSUME NEW i \in DOMAIN calls', calls'[i].method = "push"
      PROVE  /\ calls'[i].req \in Requests /\ result'[calls'[i].req] = "issued"
             /\ \A j \in DOMAIN calls' : calls'[j] = calls'[i] => j = i
  <2>1. i \in DOMAIN calls /\ i # Len(calls) /\ calls'[i] = calls[i]
    BY <1>1
  <2>2. /\ calls[i].req \in Requests /\ result[calls[i].req] = "issued"
        /\ \A j \in DOMAIN calls : calls[j] = calls[i] => j = i
    BY <1>2, <2>1 DEF CallsMatch
  <2>3. calls[i] \in CallRecords
    BY <2>1 DEF WorkerType
  <2>4. ~(LastCall.method = "push" /\ LastCall.req = calls[i].req)
    <3> SUFFICES ASSUME LastCall.method = "push" /\ LastCall.req = calls[i].req PROVE FALSE
      OBVIOUS
    <3>1. LastCall = calls[i]
      BY <1>1, <1>2, <2>1, <2>3 DEF CallRecords
    <3> QED
      BY <1>1, <2>1, <2>2, <3>1
  <2> QED
    BY <1>1, <2>1, <2>2, <2>4
<1>3. CallsMatch'
  BY <1>2 DEF CallsMatch
<1> QED
  BY <1>1, <1>3

----------------------------------------------------------------------------
(* the worker *)

\* Requests are issued in order.
LEMMA NextRequest ==
    ASSUME NEW n \in 0 .. NRequests, IssuedUpTo(n), NEW r \in Requests, result[r] = "new",
           \A q \in Requests : q < r => result[q] # "new"
    PROVE  r = n + 1 /\ n + 1 \in 0 .. NRequests
<1>0. NRequests \in Nat /\ n \in Nat /\ n <= NRequests /\ r \in Nat /\ r > 0 /\ r <= NRequests
  BY ConstantFacts DEF Constants, Requests
<1>1. ~(r <= n)
  BY DEF IssuedUpTo
<1>2. ~(n + 1 < r)
  <2> SUFFICES ASSUME n + 1 < r PROVE FALSE
    OBVIOUS
  <2>1. n + 1 \in Requests
    BY <1>0 DEF Requests
  <2>2. result[n + 1] # "new"
    BY <2>1
  <2>3. n + 1 <= n
    BY <2>1, <2>2 DEF IssuedUpTo
  <2> QED
    BY <1>0, <2>3
<1> QED
  BY <1>0, <1>1, <1>2

\* A request is issued, by the event loop or by a callback.
LEMMA StartFacts ==
    ASSUME WorkerType, CallsMatch, NEW r \in Requests, NEW cmd \in Commands, Start(r, cmd),
           result'[r] = "issued",
           \A q \in Requests : result[q] = "issued" => result'[q] = "issued"
    PROVE  /\ calls' = Append(calls, Call("push", r))
           /\ calls' \in Seq(CallRecords) /\ Len(calls') = Len(calls) + 1 /\ Len(calls) \in Nat
           /\ CallsMatch'
           /\ command' \in [Requests -> Commands \cup {"none"}]
           /\ \A q \in Requests : result[q] # "new" => command'[q] = command[q]
           /\ lastRequestId' \in Ids /\ lastRequestId' # 0
<1> DEFINE c == Call("push", r)
<1>0. /\ result[r] = "new" /\ command' = [command EXCEPT ![r] = cmd]
      /\ lastRequestId' = NextId /\ calls' = Append(calls, c)
  BY DEF Start
<1>1. c \in CallRecords /\ c.method = "push" /\ c.req = r
  BY DEF Call, CallRecords
<1> HIDE DEF c
<1>2. /\ calls' \in Seq(CallRecords) /\ Len(calls') = Len(calls) + 1 /\ Len(calls) \in Nat
      /\ \A i \in DOMAIN calls' : \/ i \in DOMAIN calls /\ calls'[i] = calls[i]
                                  \/ i = Len(calls) + 1 /\ i \notin DOMAIN calls /\ calls'[i] = c
  <2>1. calls \in Seq(CallRecords)
    BY DEF WorkerType
  <2> QED
    BY <1>0, <1>1, <2>1, AppendFacts
<1>3. \A i \in DOMAIN calls : calls[i] # c
  BY <1>0, <1>1 DEF CallsMatch
<1>4. ASSUME NEW i \in DOMAIN calls', calls'[i].method = "push"
      PROVE  /\ calls'[i].req \in Requests /\ result'[calls'[i].req] = "issued"
             /\ \A j \in DOMAIN calls' : calls'[j] = calls'[i] => j = i
  <2>1. CASE i \in DOMAIN calls /\ calls'[i] = calls[i]
    BY <1>2, <1>3, <1>4, <2>1 DEF CallsMatch
  <2>2. CASE i = Len(calls) + 1 /\ calls'[i] = c
    BY <1>1, <1>2, <1>3, <2>2
  <2> QED
    BY <1>2, <2>1, <2>2
<1>5. CallsMatch'
  BY <1>4 DEF CallsMatch
<1>6. command' \in [Requests -> Commands \cup {"none"}] /\ \A q \in Requests : q # r => command'[q] = command[q]
  BY <1>0 DEF WorkerType
<1>7. NextId \in Ids \ {0}
  BY NextIdFacts DEF WorkerType
<1> QED
  BY <1>0, <1>2, <1>5, <1>6, <1>7 DEF c

LEMMA IssueStep ==
    ASSUME IoInv, NEW r \in Requests, NEW cmd \in Commands, Issue(r, cmd)
    PROVE  IoInv'
<1>0. /\ WorkerMatches /\ MessagesInv /\ Issued /\ WorkerType /\ CallsMatch /\ MapsMatch
      /\ CompletionsMatch /\ WaitedMatch /\ Answered /\ QueueType /\ MessagesMatch
  BY IoInvParts DEF WorkerMatches, MessagesInv
<1>1. /\ calls = <<>> /\ Start(r, cmd) /\ result' = [result EXCEPT ![r] = "issued"]
      /\ UNCHANGED <<error_, requestMap, olderRequests, timeoutCheckScheduled, worker, queueVars, free,
                    completions, answeredBy, waited, reentered>>
  BY DEF Issue, history
<1>2. /\ result[r] = "new" /\ lastRequestId' = NextId
      /\ \A q \in Requests : q < r => result[q] # "new"
  BY <1>1 DEF Start
<1>3. /\ result' \in [Requests -> {"new", "issued", "pushed", "ok", "failed", "thrown"}]
      /\ result'[r] = "issued" /\ \A q \in Requests : q # r => result'[q] = result[q]
  BY <1>0, <1>1 DEF WorkerType
<1>4. /\ calls' = Append(calls, Call("push", r))
      /\ calls' \in Seq(CallRecords) /\ Len(calls') = Len(calls) + 1
      /\ CallsMatch'
      /\ command' \in [Requests -> Commands \cup {"none"}]
      /\ \A q \in Requests : result[q] # "new" => command'[q] = command[q]
      /\ lastRequestId' \in Ids /\ lastRequestId' # 0
  <2>1. \A q \in Requests : result[q] = "issued" => result'[q] = "issued"
    BY <1>3
  <2> QED
    BY <1>0, <1>1, <1>3, <2>1, StartFacts
<1>5. calls' = <<Call("push", r)>> /\ Len(calls') = 1 /\ \A i \in DOMAIN calls' : calls'[i] = Call("push", r)
  BY <1>1, <1>4
<1>6. WorkerMatches'
  <2>1. WorkerType'
    BY <1>0, <1>1, <1>3, <1>4 DEF WorkerType
  <2>2. MapsMatch'
    <3>1. \A m \in 1 .. 2, id \in Ids : requestMap[m][id] \in Requests \cup {None}
      BY <1>0 DEF WorkerType
    <3> QED
      BY <1>0, <1>1, <1>2, <1>3, <3>1 DEF MapsMatch
  <2>3. CompletionsMatch'
    BY <1>0, <1>1, <1>2, <1>3 DEF CompletionsMatch
  <2>4. WaitedMatch'
    BY <1>0, <1>1, <1>5 DEF WaitedMatch, Expired, Call
  <2>5. Answered'
    BY <1>0, <1>1 DEF Answered
  <2> QED
    BY <1>4, <2>1, <2>2, <2>3, <2>4, <2>5 DEF WorkerMatches
<1>7. QueueType' /\ MessagesMatch' /\ PagesApart' /\ Messages' = Messages
  <2>1. \A q \in Requests : result[q] # "new" => result'[q] # "new" /\ command'[q] = command[q]
    BY <1>3, <1>4
  <2> QED
    BY <1>0, <1>1, <2>1, MessagesFrame
<1>8. Issued'
  <2>1. PICK n \in 0 .. NRequests : IssuedUpTo(n) /\ IdsMatch(n)
    BY <1>0 DEF Issued
  <2>2. r = n + 1 /\ n + 1 \in 0 .. NRequests /\ n \in Nat
    BY <1>2, <2>1, NextRequest
  <2>3. IssuedUpTo(n + 1)'
    BY <1>3, <2>1, <2>2 DEF IssuedUpTo, Requests
  <2>4. ASSUME ~reentered, NEW id \in Ids, id # 0, n - Age(id) \in Requests
        PROVE  n - Age(id) = (n + 1) - Age(id)'
    <3>0. lastRequestId \in Ids
      BY <1>0 DEF WorkerType
    <3>1. Age(id) \in Int
      BY <3>0, ConstantFacts DEF Age, Ids, Constants
    <3>3. Age(id) <= n - 1 /\ n <= NRequests - 1
      BY <2>2, <2>4, <3>1, ConstantFacts DEF Requests, Constants
    <3>4. Age(id) >= 0
      BY <3>0, ConstantFacts DEF Age, Ids, Constants
    <3>5. n > 0
      BY <2>2, <3>1, <3>3, <3>4
    <3>6. lastRequestId # 0
      BY <2>1, <3>5 DEF IdsMatch
    <3>7. Age(id) < IdRange - 2
      BY <2>2, <3>1, <3>3, ConstantFacts DEF Constants
    <3>8. Age(id)' = Age(id) + 1
      BY <1>2, <2>4, <3>0, <3>6, <3>7, AgeStep
    <3> QED
      BY <2>2, <3>1, <3>8
  <2>5. ASSUME ~reentered
        PROVE  /\ Len(calls') <= 1
               /\ \A i \in DOMAIN calls' : calls'[i].method = "push" => calls'[i].req = n + 1
               /\ \A msg \in Messages' : msg.req = (n + 1) - Age(msg.requestId)'
               /\ \A m \in 1 .. 2, id \in Ids : requestMap'[m][id] # None =>
                        id # 0 /\ requestMap'[m][id] = (n + 1) - Age(id)'
    <3>1. /\ \A msg \in Messages : msg.req = n - Age(msg.requestId)
          /\ \A m \in 1 .. 2, id \in Ids : requestMap[m][id] # None =>
               id # 0 /\ requestMap[m][id] = n - Age(id)
      BY <2>1, <2>5 DEF IdsMatch
    <3>2. Len(calls') <= 1 /\ \A i \in DOMAIN calls' : calls'[i].method = "push" => calls'[i].req = n + 1
      BY <1>5, <2>2 DEF Call
    <3>3. ASSUME NEW msg \in Messages PROVE msg.req = (n + 1) - Age(msg.requestId)'
      <4>1. msg.req \in Requests /\ msg.requestId \in Ids /\ msg.requestId # 0
        BY <1>0, MessageTypes
      <4> DEFINE id == msg.requestId
      <4>2. msg.req = n - Age(id) /\ id \in Ids /\ id # 0 /\ n - Age(id) \in Requests
        BY <3>1, <4>1
      <4> HIDE DEF id
      <4>3. n - Age(id) = (n + 1) - Age(id)'
        BY <2>4, <2>5, <4>2
      <4> QED
        BY <4>2, <4>3 DEF id
    <3>4. ASSUME NEW m \in 1 .. 2, NEW id \in Ids, requestMap[m][id] # None
          PROVE  id # 0 /\ requestMap[m][id] = (n + 1) - Age(id)'
      <4>1. id # 0 /\ requestMap[m][id] = n - Age(id) /\ n - Age(id) \in Requests
        BY <1>0, <3>1, <3>4 DEF WorkerType
      <4> QED
        BY <2>4, <2>5, <4>1
    <3> QED
      BY <1>1, <1>7, <3>2, <3>3, <3>4
  <2>6. IdsMatch(n + 1)'
    BY <1>1, <1>4, <2>5 DEF IdsMatch
  <2> QED
    BY <2>2, <2>3, <2>6 DEF Issued
<1> QED
  BY <1>6, <1>7, <1>8, IoInvFromParts

\* A call of HandleNotification() or checkTimeouts() starts or returns.
LEMMA EventFrame ==
    ASSUME IoInv, calls' \in Seq(CallRecords), Len(calls') <= 1 \/ Len(calls') <= Len(calls),
           CallsMatch',
           \A i \in DOMAIN calls' : calls'[i].method = "push" =>
                \E j \in DOMAIN calls : calls'[i] = calls[j],
           timeoutCheckScheduled' \in BOOLEAN, worker' \in {"up", "deaf", "dead"},
           ~reentered => \A i \in DOMAIN calls' : calls'[i].method = "checkTimeouts" => ~timeoutCheckScheduled',
           UNCHANGED <<error_, lastRequestId, requestMap, olderRequests, command, result, queueVars, free,
                       history>>
    PROVE  IoInv'
<1>0. /\ WorkerMatches /\ MessagesInv /\ Issued /\ WorkerType /\ CallsMatch /\ MapsMatch
      /\ CompletionsMatch /\ WaitedMatch /\ Answered
      /\ UNCHANGED <<completions, answeredBy, waited, reentered>>
  BY IoInvParts DEF WorkerMatches, MessagesInv, history
<1>1. WorkerMatches'
  <2>1. WorkerType'
    BY <1>0 DEF WorkerType
  <2>2. MapsMatch' /\ CompletionsMatch' /\ Answered'
    BY <1>0 DEF MapsMatch, CompletionsMatch, Answered
  <2>3. WaitedMatch'
    BY <1>0 DEF WaitedMatch, Expired
  <2> QED
    BY <2>1, <2>2, <2>3 DEF WorkerMatches
<1>2. QueueType' /\ MessagesMatch' /\ PagesApart' /\ Messages' = Messages
  BY <1>0, MessagesFrame
<1>3. Issued'
  <2>1. Len(calls') \in Nat
    OBVIOUS
  <2> QED
    BY <1>0, <1>2, <2>1, IssuedKeeps
<1> QED
  BY <1>1, <1>2, <1>3, IoInvFromParts

LEMMA EventStarts ==
    ASSUME IoInv, NEW method \in {"HandleNotification", "checkTimeouts"}, calls' = <<Call(method, None)>>,
           timeoutCheckScheduled' \in BOOLEAN, worker' = worker,
           method = "checkTimeouts" => ~timeoutCheckScheduled',
           UNCHANGED <<error_, lastRequestId, requestMap, olderRequests, command, result, queueVars, free,
                       history>>
    PROVE  IoInv'
<1>1. Call(method, None) \in CallRecords /\ Call(method, None).method = method
  BY DEF Call, CallRecords
<1>2. /\ calls' \in Seq(CallRecords) /\ Len(calls') <= 1
      /\ \A i \in DOMAIN calls' : calls'[i] = Call(method, None)
  BY <1>1, OneFacts
<1>3. \A i \in DOMAIN calls' : calls'[i].method = method /\ method # "push"
  BY <1>1, <1>2
<1>4. CallsMatch'
  BY <1>3 DEF CallsMatch
<1>5. worker' \in {"up", "deaf", "dead"}
  BY DEF IoInv, TypeOK
<1> QED
  BY <1>2, <1>3, <1>4, <1>5, EventFrame

\* An exception ends at most jobs or the process.
LEMMA CaughtType ==
    ASSUME WorkerType
    PROVE  Caught \subseteq {"up", "deaf", "dead"}
<1>1. calls = <<>> \/ calls[1].method \in {"push", "HandleNotification", "checkTimeouts"}
  <2>1. ASSUME calls # <<>> PROVE calls[1] \in CallRecords
    BY <2>1 DEF WorkerType
  <2> QED
    BY <2>1 DEF CallRecords
<1>2. CASE calls = <<>> \/ calls[1].method = "push"
  <2>1. Caught = {worker, "dead"}
    BY <1>2 DEF Caught
  <2> QED
    BY <2>1 DEF WorkerType
<1>3. CASE calls # <<>> /\ calls[1].method = "HandleNotification"
  <2>1. Caught = {"deaf"}
    BY <1>3 DEF Caught
  <2> QED
    BY <2>1
<1>4. CASE calls # <<>> /\ calls[1].method = "checkTimeouts"
  <2>1. Caught = {"dead"}
    BY <1>4 DEF Caught
  <2> QED
    BY <2>1
<1> QED
  BY <1>1, <1>2, <1>3, <1>4

LEMMA IssueThrowsStep ==
    ASSUME IoInv, IssueThrows
    PROVE  IoInv'
<1>0. WorkerType /\ CallsMatch
  BY IoInvParts DEF WorkerMatches
<1>1. /\ calls = <<>> /\ calls' = <<>> /\ worker' \in Caught
      /\ UNCHANGED <<error_, lastRequestId, requestMap, olderRequests, timeoutCheckScheduled,
                     command, result, queueVars, free, history>>
  BY DEF IssueThrows
<1>2. worker' \in {"up", "deaf", "dead"} /\ timeoutCheckScheduled' \in BOOLEAN
  BY <1>0, <1>1, CaughtType DEF WorkerType
<1>3. calls' \in Seq(CallRecords) /\ Len(calls') <= 1 /\ DOMAIN calls' = {}
  BY <1>1
<1>4. CallsMatch'
  BY <1>3 DEF CallsMatch
<1> QED
  BY <1>1, <1>2, <1>3, <1>4, EventFrame

LEMMA HandleNotificationStep ==
    ASSUME IoInv, HandleNotification
    PROVE  IoInv'
<1>1. timeoutCheckScheduled \in BOOLEAN
  BY DEF IoInv, TypeOK
<1> QED
  BY <1>1, EventStarts DEF HandleNotification, fileVars

LEMMA CheckTimeoutsStep ==
    ASSUME IoInv, CheckTimeouts
    PROVE  IoInv'
<1>1. timeoutCheckScheduled' = FALSE
  BY DEF CheckTimeouts
<1>2. timeoutCheckScheduled' \in BOOLEAN
  BY <1>1
<1> QED
  BY <1>1, <1>2, EventStarts DEF CheckTimeouts

LEMMA NotificationHandledStep ==
    ASSUME IoInv, NotificationHandled
    PROVE  IoInv'
<1>0. /\ WorkerType /\ CallsMatch /\ WaitedMatch /\ calls # <<>> /\ Return
      /\ UNCHANGED <<fileVars, command, result, queueVars, free, history>>
  BY IoInvParts DEF WorkerMatches, NotificationHandled, ResponsesHandled
<1>1. /\ calls' \in Seq(CallRecords) /\ Len(calls') = Len(calls) - 1 /\ CallsMatch'
      /\ \A i \in DOMAIN calls' : i \in DOMAIN calls /\ calls'[i] = calls[i]
  BY <1>0, CallsReturn
<1>2. Len(calls') <= Len(calls)
  BY <1>0, <1>1 DEF WorkerType
<1>3. timeoutCheckScheduled' \in BOOLEAN /\ timeoutCheckScheduled' = timeoutCheckScheduled
  BY <1>0 DEF WorkerType, fileVars
<1>4. ~reentered => \A i \in DOMAIN calls' : calls'[i].method = "checkTimeouts" => ~timeoutCheckScheduled'
  BY <1>0, <1>1, <1>3 DEF WaitedMatch
<1>5. UNCHANGED <<error_, lastRequestId, requestMap, olderRequests>> /\ worker' \in {"up", "deaf", "dead"}
  BY <1>0 DEF fileVars, WorkerType
<1> QED
  BY <1>0, <1>1, <1>2, <1>3, <1>4, <1>5, EventFrame

LEMMA PushFailsStep ==
    ASSUME IoInv, PushFails
    PROVE  IoInv'
<1> DEFINE r == LastCall.req
<1>0. /\ WorkerMatches /\ MessagesInv /\ Issued /\ WorkerType /\ CallsMatch /\ MapsMatch
      /\ CompletionsMatch /\ WaitedMatch /\ Answered
  BY IoInvParts DEF WorkerMatches, MessagesInv
<1>1. /\ calls # <<>> /\ LastCall.method = "push" /\ Return
      /\ result' = [result EXCEPT ![r] = "failed"]
      /\ completions' = [completions EXCEPT ![r] = @ + 1]
      /\ UNCHANGED <<error_, lastRequestId, requestMap, olderRequests, timeoutCheckScheduled, worker, command,
                    queueVars, answeredBy, waited, reentered>>
  BY DEF PushFails, ResponsesHandled, fileVars
<1>2. free' \subseteq free
  BY DEF PushFails
<1>3. r \in Requests /\ result[r] = "issued"
  <2>1. Len(calls) \in DOMAIN calls /\ LastCall = calls[Len(calls)]
    BY <1>0, <1>1, ReturnFacts DEF WorkerType, LastCall
  <2> QED
    BY <1>0, <1>1, <2>1 DEF CallsMatch
<1> HIDE DEF r
<1>4. /\ result' \in [Requests -> {"new", "issued", "pushed", "ok", "failed", "thrown"}]
      /\ result'[r] = "failed" /\ \A q \in Requests : q # r => result'[q] = result[q]
  BY <1>0, <1>1, <1>3 DEF WorkerType
<1>5. /\ calls' \in Seq(CallRecords) /\ Len(calls') = Len(calls) - 1 /\ CallsMatch'
      /\ \A i \in DOMAIN calls' : i \in DOMAIN calls /\ calls'[i] = calls[i]
  <2>1. \A q \in Requests : (LastCall.method = "push" /\ LastCall.req = q) \/
                             (result[q] = "issued" => result'[q] = "issued")
    BY <1>1, <1>4 DEF r
  <2> QED
    BY <1>0, <1>1, <2>1, CallsReturn
<1>6. WorkerMatches'
  <2>1. completions' \in [Requests -> Nat]
    BY <1>0, <1>1, <1>3 DEF WorkerType
  <2>2. WorkerType'
    BY <1>0, <1>1, <1>4, <1>5, <2>1 DEF WorkerType
  <2>3. MapsMatch'
    <3>1. \A m \in 1 .. 2, id \in Ids : requestMap[m][id] \in Requests \cup {None}
      BY <1>0 DEF WorkerType
    <3> QED
      BY <1>0, <1>1, <1>3, <1>4, <3>1 DEF MapsMatch
  <2>4. CompletionsMatch'
    <3>1. /\ completions'[r] = completions[r] + 1
          /\ \A q \in Requests : q # r => completions'[q] = completions[q]
      BY <1>0, <1>1, <1>3 DEF WorkerType
    <3>2. completions[r] = 0
      BY <1>0, <1>3 DEF CompletionsMatch
    <3>3. completions'[r] = 1
      BY <3>1, <3>2
    <3> QED
      BY <1>0, <1>4, <3>1, <3>3 DEF CompletionsMatch
  <2>5. WaitedMatch'
    BY <1>0, <1>1, <1>5 DEF WaitedMatch, Expired
  <2>6. Answered'
    BY <1>0, <1>1 DEF Answered
  <2> QED
    BY <1>5, <2>2, <2>3, <2>4, <2>5, <2>6 DEF WorkerMatches
<1>7. QueueType' /\ MessagesMatch' /\ PagesApart' /\ Messages' = Messages
  <2>1. \A q \in Requests : result[q] # "new" => result'[q] # "new" /\ command'[q] = command[q]
    BY <1>1, <1>4
  <2> QED
    BY <1>0, <1>1, <1>2, <2>1, MessagesFrame
<1>8. Issued'
  <2>1. \A q \in Requests : result'[q] = "new" <=> result[q] = "new"
    BY <1>3, <1>4
  <2>2. Len(calls') \in Nat /\ Len(calls') <= Len(calls)
    BY <1>0, <1>5 DEF WorkerType
  <2> QED
    BY <1>0, <1>1, <1>5, <1>7, <2>1, <2>2, IssuedKeeps
<1> QED
  BY <1>6, <1>7, <1>8, IoInvFromParts

LEMMA PushRequestStep ==
    ASSUME IoInv, PushRequest
    PROVE  IoInv'
<1> DEFINE r == LastCall.req
<1>0. /\ WorkerMatches /\ MessagesInv /\ Issued /\ WorkerType /\ CallsMatch /\ MapsMatch
      /\ CompletionsMatch /\ WaitedMatch /\ Answered /\ QueueType /\ MessagesMatch /\ PagesApart
  BY IoInvParts DEF WorkerMatches, MessagesInv
<1>1. /\ calls # <<>> /\ LastCall.method = "push" /\ Return
      /\ Len(toDisker) < QueueCapacity
      /\ requestMap' = IF requestMap[newerRequests][lastRequestId] # None THEN requestMap
                       ELSE [requestMap EXCEPT ![newerRequests][lastRequestId] = r]
      /\ timeoutCheckScheduled' = TRUE
      /\ waited' = IF timeoutCheckScheduled THEN waited ELSE Tracked \cup {r}
      /\ result' = [result EXCEPT ![r] = "pushed"]
      /\ UNCHANGED <<error_, lastRequestId, olderRequests, worker, command, toWorker, disker,
                    completions, answeredBy, reentered>>
  BY DEF PushRequest, ResponsesHandled
<1>2. PICK page \in (IF command[r] = "write" THEN free ELSE {NoPage}) :
        /\ free' = free \ {page}
        /\ toDisker' = Append(toDisker, [requestId |-> lastRequestId, req |-> r, page |-> page])
  BY DEF PushRequest
<1>3. r \in Requests /\ result[r] = "issued" /\ Len(calls) \in DOMAIN calls /\ LastCall = calls[Len(calls)]
  <2>1. Len(calls) \in DOMAIN calls /\ LastCall = calls[Len(calls)]
    BY <1>0, <1>1, ReturnFacts DEF WorkerType, LastCall
  <2> QED
    BY <1>0, <1>1, <2>1 DEF CallsMatch
<1>4. \E j \in DOMAIN calls : calls[j].method = "push" /\ calls[j].req = r
  BY <1>1, <1>3
<1> HIDE DEF r
<1>5. /\ result' \in [Requests -> {"new", "issued", "pushed", "ok", "failed", "thrown"}]
      /\ result'[r] = "pushed" /\ \A q \in Requests : q # r => result'[q] = result[q]
  BY <1>0, <1>1, <1>3 DEF WorkerType
<1>6. /\ calls' \in Seq(CallRecords) /\ Len(calls') = Len(calls) - 1 /\ CallsMatch'
      /\ \A i \in DOMAIN calls' : i \in DOMAIN calls /\ calls'[i] = calls[i]
  <2>1. \A q \in Requests : (LastCall.method = "push" /\ LastCall.req = q) \/
                             (result[q] = "issued" => result'[q] = "issued")
    BY <1>1, <1>5 DEF r
  <2> QED
    BY <1>0, <1>1, <2>1, CallsReturn
\* the entry that is added
<1>7. newerRequests \in 1 .. 2 /\ newerRequests # olderRequests /\ lastRequestId \in Ids
  BY <1>0 DEF WorkerType, newerRequests
<1>8. /\ requestMap' \in [1 .. 2 -> [Ids -> Requests \cup {None}]]
      /\ \A m \in 1 .. 2, id \in Ids :
            \/ requestMap'[m][id] = requestMap[m][id]
            \/ m = newerRequests /\ id = lastRequestId /\ requestMap'[m][id] = r /\ requestMap[m][id] = None
  <2>1. CASE requestMap[newerRequests][lastRequestId] # None
    BY <1>0, <1>1, <2>1 DEF WorkerType
  <2>2. CASE requestMap[newerRequests][lastRequestId] = None
    <3>1. requestMap' = [requestMap EXCEPT ![newerRequests][lastRequestId] = r]
      BY <1>1, <2>2
    <3>2. requestMap \in [1 .. 2 -> [Ids -> Requests \cup {None}]]
      BY <1>0 DEF WorkerType
    <3> QED
      BY <1>3, <1>7, <2>2, <3>1, <3>2
  <2> QED
    BY <2>1, <2>2
<1>9. \A m \in 1 .. 2, id \in Ids : requestMap[m][id] \in Requests \cup {None} /\ requestMap[m][id] # r
  <2>1. \A m \in 1 .. 2, id \in Ids : requestMap[m][id] \in Requests \cup {None}
    BY <1>0 DEF WorkerType
  <2>2. r # None
    BY <1>3, ConstantFacts DEF Requests, None, Constants
  <2> QED
    BY <1>0, <1>3, <2>1, <2>2 DEF MapsMatch
<1>10. WorkerMatches'
  <2>1. waited' \subseteq Requests
    <3>1. Tracked \subseteq Requests
      BY <1>9 DEF Tracked
    <3> QED
      BY <1>0, <1>1, <1>3, <3>1 DEF WorkerType
  <2>2. timeoutCheckScheduled' \in BOOLEAN
    BY <1>1
  <2>3. WorkerType'
    BY <1>0, <1>1, <1>5, <1>6, <1>8, <2>1, <2>2 DEF WorkerType
  <2>4. MapsMatch'
    <3>1. ASSUME NEW m \in 1 .. 2, NEW id \in Ids, requestMap'[m][id] # None
          PROVE  /\ result'[requestMap'[m][id]] = "pushed"
                 /\ \A m2 \in 1 .. 2, id2 \in Ids :
                        requestMap'[m2][id2] = requestMap'[m][id] => m2 = m /\ id2 = id
      <4>1. CASE requestMap'[m][id] = requestMap[m][id]
        <5>1. /\ result[requestMap[m][id]] = "pushed" /\ requestMap[m][id] \in Requests
              /\ requestMap[m][id] # r
              /\ \A m2 \in 1 .. 2, id2 \in Ids :
                    requestMap[m2][id2] = requestMap[m][id] => m2 = m /\ id2 = id
          BY <1>0, <1>9, <3>1, <4>1 DEF MapsMatch
        <5> QED
          BY <1>5, <1>8, <4>1, <5>1
      <4>2. CASE m = newerRequests /\ id = lastRequestId /\ requestMap'[m][id] = r
        BY <1>5, <1>8, <1>9, <4>2
      <4> QED
        BY <1>8, <4>1, <4>2
    <3> QED
      BY <3>1 DEF MapsMatch
  <2>5. CompletionsMatch'
    BY <1>0, <1>1, <1>3, <1>5 DEF CompletionsMatch
  <2>6. WaitedMatch'
    <3>1. \A id \in Ids : requestMap'[olderRequests][id] = requestMap[olderRequests][id]
      BY <1>0, <1>7, <1>8 DEF WorkerType
    <3>2. Expired' = Expired
      BY <1>1, <3>1 DEF Expired
    <3>3. Expired \subseteq Tracked
      <4>1. olderRequests \in 1 .. 2
        BY <1>0 DEF WorkerType
      <4> QED
        BY <4>1 DEF Expired, Tracked
    <3>4. ~reentered => Len(calls) <= 1
      BY <1>0 DEF Issued, IdsMatch
    <3>5. ~reentered => DOMAIN calls' = {}
      <4>1. Len(calls') \in Nat /\ DOMAIN calls' = 1 .. Len(calls') /\ Len(calls) \in Nat
        BY <1>0, <1>6 DEF WorkerType
      <4> QED
        BY <1>6, <3>4, <4>1
    <3>6. ~reentered => Expired \subseteq waited'
      BY <1>0, <1>1, <3>3 DEF WaitedMatch
    <3> QED
      BY <1>1, <3>2, <3>5, <3>6 DEF WaitedMatch
  <2>7. Answered'
    BY <1>0, <1>1 DEF Answered
  <2> QED
    BY <1>6, <2>3, <2>4, <2>5, <2>6, <2>7 DEF WorkerMatches
\* the message that is added
<1> DEFINE msg1 == [requestId |-> lastRequestId, req |-> r, page |-> page]
<1>12. page \in Pages \cup {NoPage} /\ page \in free \cup {NoPage} /\ (command[r] = "write" => page \in Pages)
  BY <1>0, <1>2 DEF QueueType
<1>13. lastRequestId # 0
  <2>1. PICK n \in 0 .. NRequests : IssuedUpTo(n) /\ IdsMatch(n)
    BY <1>0 DEF Issued
  <2>2. r <= n
    BY <1>3, <2>1 DEF IssuedUpTo
  <2>3. n > 0
    BY <1>3, <2>1, <2>2, ConstantFacts DEF Constants, Requests
  <2> QED
    BY <2>1, <2>3 DEF IdsMatch
<1>14. /\ msg1 \in DiskerMessages /\ msg1.page = page /\ msg1.req = r /\ msg1.requestId = lastRequestId
       /\ toDisker' = Append(toDisker, msg1)
  BY <1>2, <1>3, <1>7, <1>12, <1>13 DEF DiskerMessages
<1> HIDE DEF msg1
<1>15. /\ toDisker' \in Seq(DiskerMessages) /\ Len(toDisker') = Len(toDisker) + 1 /\ Len(toDisker) \in Nat
       /\ \A i \in DOMAIN toDisker' :
            \/ i \in DOMAIN toDisker /\ toDisker'[i] = toDisker[i]
            \/ i = Len(toDisker) + 1 /\ i \notin DOMAIN toDisker /\ toDisker'[i] = msg1
  <2>1. toDisker \in Seq(DiskerMessages)
    BY <1>0 DEF QueueType
  <2> QED
    BY <1>14, <2>1, AppendFacts
<1>16. \A msg \in Messages' : msg = msg1 \/ msg \in Messages
  BY <1>1, <1>15 DEF Messages
<1>17. QueueType'
  <2>1. Len(toDisker') <= QueueCapacity
    BY <1>1, <1>15, ConstantFacts DEF Constants
  <2> QED
    BY <1>0, <1>1, <1>2, <1>15, <2>1 DEF QueueType
<1>18. MessagesMatch'
  <2>1. \A msg \in Messages : msg.req \in Requests
    BY <1>0, MessageTypes
  <2>2. \A msg \in Messages' : result'[msg.req] # "new"
    BY <1>0, <1>5, <1>14, <1>16, <2>1 DEF MessagesMatch
  <2>3. \A i \in DOMAIN toDisker' : command'[toDisker'[i].req] = "write" => toDisker'[i].page \in Pages
    BY <1>0, <1>1, <1>12, <1>14, <1>15 DEF MessagesMatch
  <2> QED
    BY <2>2, <2>3 DEF MessagesMatch
<1>19. PagesApart'
  <2>1. \A msg \in Messages : Apart(msg, msg1) /\ Apart(msg1, msg)
    BY <1>0, <1>12, <1>14 DEF PagesApart, Apart
  <2>2. \A i \in DOMAIN toDisker : toDisker[i] \in Messages
    BY DEF Messages
  <2>3. \A i, j \in DOMAIN toDisker' : i # j => Apart(toDisker'[i], toDisker'[j])
    BY <1>0, <1>15, <2>1, <2>2 DEF PagesApart
  <2>4. \A i \in DOMAIN toDisker', j \in DOMAIN toWorker : Apart(toDisker'[i], toWorker[j])
    BY <1>0, <1>15, <2>1 DEF PagesApart, Messages
  <2>5. \A i \in DOMAIN toDisker', j \in DOMAIN disker : Apart(toDisker'[i], disker[j])
    BY <1>0, <1>15, <2>1 DEF PagesApart, Messages
  <2>6. \A msg \in Messages' : msg.page \notin free'
    BY <1>0, <1>2, <1>14, <1>16 DEF PagesApart
  <2>7. /\ \A i, j \in DOMAIN toWorker : i # j => Apart(toWorker[i], toWorker[j])
        /\ \A i \in DOMAIN toWorker, j \in DOMAIN disker : Apart(toWorker[i], disker[j])
    BY <1>0 DEF PagesApart
  <2> QED
    BY <1>1, <2>3, <2>4, <2>5, <2>6, <2>7 DEF PagesApart, Apart
<1>20. Issued'
  <2>1. \A q \in Requests : result'[q] = "new" <=> result[q] = "new"
    BY <1>3, <1>5
  <2>2. Len(calls') \in Nat /\ Len(calls') <= Len(calls)
    BY <1>0, <1>6 DEF WorkerType
  <2>3. \A msg \in Messages' :
                \/ \E old \in Messages : old.requestId = msg.requestId /\ old.req = msg.req
                \/ /\ msg.requestId = lastRequestId
                   /\ \E j \in DOMAIN calls : calls[j].method = "push" /\ calls[j].req = msg.req
    BY <1>4, <1>14, <1>16
  <2>4. \A m \in 1 .. 2, id \in Ids : requestMap'[m][id] # None =>
                \/ requestMap'[m][id] = requestMap[m][id]
                \/ /\ id = lastRequestId
                   /\ \E j \in DOMAIN calls : calls[j].method = "push" /\ calls[j].req = requestMap'[m][id]
    BY <1>4, <1>8
  <2> QED
    BY <1>0, <1>1, <1>6, <2>1, <2>2, <2>3, <2>4, IssuedKeeps
<1> QED
  BY <1>10, <1>17, <1>18, <1>19, <1>20, IoInvFromParts

\* A response leaves its queue; its page, if it has one, may become free.
LEMMA TakeResponse ==
    ASSUME MessagesInv, toWorker # <<>>, toWorker' = Tail(toWorker), UNCHANGED <<toDisker, disker>>,
           free' \subseteq free \cup ({Head(toWorker).page} \cap Pages),
           \A r \in Requests : result[r] # "new" => result'[r] # "new" /\ command'[r] = command[r]
    PROVE  /\ QueueType' /\ MessagesMatch' /\ PagesApart'
           /\ Messages' \subseteq Messages /\ Head(toWorker) \in Messages
<1> DEFINE h == Head(toWorker)
<1>0. QueueType /\ MessagesMatch /\ PagesApart
  BY DEF MessagesInv
<1>1. /\ h = toWorker[1] /\ 1 \in DOMAIN toWorker
      /\ toWorker' \in Seq(WorkerMessages) /\ Len(toWorker') = Len(toWorker) - 1 /\ Len(toWorker) \in Nat
      /\ \A i \in DOMAIN toWorker' : /\ i + 1 \in DOMAIN toWorker /\ i \in Nat /\ i > 0
                                     /\ toWorker'[i] = toWorker[i + 1]
  <2>1. toWorker \in Seq(WorkerMessages)
    BY <1>0 DEF QueueType
  <2> QED
    BY <2>1, TailFacts
<1> HIDE DEF h
<1>2. h \in Messages
  BY <1>1 DEF Messages
<1>3. \A msg \in Messages' : \/ \E i \in DOMAIN toWorker : i # 1 /\ msg = toWorker[i]
                             \/ \E i \in DOMAIN toDisker : msg = toDisker[i]
                             \/ \E i \in DOMAIN disker : msg = disker[i]
  BY <1>1 DEF Messages
<1>4. Messages' \subseteq Messages
  BY <1>3 DEF Messages
<1>5. QueueType'
  <2>1. Len(toWorker') <= QueueCapacity
    BY <1>0, <1>1, ConstantFacts DEF QueueType, Constants
  <2>2. free' \subseteq Pages
    BY <1>0 DEF QueueType
  <2> QED
    BY <1>0, <1>1, <2>1, <2>2 DEF QueueType
<1>6. MessagesMatch'
  <2>1. \A msg \in Messages : msg.req \in Requests
    BY <1>0, MessageTypes
  <2>2. \A i \in DOMAIN toDisker : toDisker[i] \in Messages
    BY DEF Messages
  <2> QED
    BY <1>0, <1>4, <2>1, <2>2 DEF MessagesMatch
<1>7. PagesApart'
  <2>1. /\ \A i, j \in DOMAIN toWorker' : i # j => Apart(toWorker'[i], toWorker'[j])
        /\ \A i \in DOMAIN toDisker, j \in DOMAIN toWorker' : Apart(toDisker[i], toWorker'[j])
        /\ \A i \in DOMAIN toWorker', j \in DOMAIN disker : Apart(toWorker'[i], disker[j])
    BY <1>0, <1>1 DEF PagesApart
  <2>2. ASSUME NEW msg \in Messages' PROVE msg.page \notin free'
    <3>1. Apart(h, msg) \/ Apart(msg, h)
      BY <1>0, <1>1, <1>3 DEF PagesApart
    <3>2. msg \in Messages
      BY <1>4
    <3> QED
      BY <1>0, <3>1, <3>2, ConstantFacts DEF PagesApart, Apart, h, Constants
  <2>3. /\ \A i, j \in DOMAIN toDisker : i # j => Apart(toDisker[i], toDisker[j])
        /\ \A i \in DOMAIN toDisker, j \in DOMAIN disker : Apart(toDisker[i], disker[j])
    BY <1>0 DEF PagesApart
  <2> QED
    BY <2>1, <2>2, <2>3 DEF PagesApart, Apart
<1> QED
  BY <1>2, <1>4, <1>5, <1>6, <1>7 DEF h

LEMMA HandleLateStep ==
    ASSUME IoInv, HandleLateResponse
    PROVE  IoInv'
<1>0. /\ WorkerMatches /\ MessagesInv /\ Issued /\ toWorker # <<>> /\ toWorker' = Tail(toWorker)
      /\ UNCHANGED <<fileVars, calls, command, result, toDisker, disker, free, history>>
  BY IoInvParts DEF HandleLateResponse
<1>1. QueueType' /\ MessagesMatch' /\ PagesApart' /\ Messages' \subseteq Messages
  BY <1>0, TakeResponse
<1>2. Issued'
  BY <1>0, <1>1, IssuedFrame
<1>3. WorkerMatches'
  BY <1>0, WorkerFrame
<1> QED
  BY <1>1, <1>2, <1>3, IoInvFromParts

\* What dequeueRequest() finds is pushed, and is in neither map afterwards.
LEMMA DequeueFacts ==
    ASSUME WorkerType, MapsMatch, NEW id \in Ids, dequeueRequest(id).pending # None
    PROVE  \E m \in 1 .. 2 :
             /\ dequeueRequest(id).pending = requestMap[m][id]
             /\ requestMap[m][id] \in Requests /\ result[requestMap[m][id]] = "pushed"
             /\ dequeueRequest(id).map \in [1 .. 2 -> [Ids -> Requests \cup {None}]]
             /\ \A m2 \in 1 .. 2, id2 \in Ids :
                    /\ dequeueRequest(id).map[m2][id2] \in {requestMap[m2][id2], None}
                    /\ dequeueRequest(id).map[m2][id2] # requestMap[m][id]
<1> DEFINE m == IF requestMap[1][id] # None THEN 1 ELSE 2
           map == [requestMap EXCEPT ![m][id] = None]
<1>1. m \in 1 .. 2 /\ dequeueRequest(id).pending = requestMap[m][id] /\ dequeueRequest(id).map = map
  BY DEF dequeueRequest
<1> HIDE DEF m
<1>2. requestMap \in [1 .. 2 -> [Ids -> Requests \cup {None}]]
  BY DEF WorkerType
<1>3. requestMap[m][id] # None /\ requestMap[m][id] \in Requests
  BY <1>1, <1>2
<1>4. /\ result[requestMap[m][id]] = "pushed"
      /\ \A m2 \in 1 .. 2, id2 \in Ids :
            requestMap[m2][id2] = requestMap[m][id] => m2 = m /\ id2 = id
  BY <1>1, <1>3 DEF MapsMatch
<1>5. map \in [1 .. 2 -> [Ids -> Requests \cup {None}]]
  BY <1>1, <1>2
<1>6. \A m2 \in 1 .. 2, id2 \in Ids : map[m2][id2] = IF m2 = m /\ id2 = id THEN None ELSE requestMap[m2][id2]
  BY <1>1, <1>2
<1> HIDE DEF map
<1>7. \A m2 \in 1 .. 2, id2 \in Ids :
        map[m2][id2] \in {requestMap[m2][id2], None} /\ map[m2][id2] # requestMap[m][id]
  BY <1>3, <1>4, <1>6
<1> QED
  BY <1>1, <1>3, <1>4, <1>5, <1>7

\* Entries leave the maps: the requests of those that stay are still pending.
LEMMA MapsShrink ==
    ASSUME WorkerType, MapsMatch, requestMap' \in [1 .. 2 -> [Ids -> Requests \cup {None}]],
           \A m \in 1 .. 2, id \in Ids :
                /\ requestMap'[m][id] \in {requestMap[m][id], None}
                /\ requestMap'[m][id] # None => result'[requestMap'[m][id]] = result[requestMap'[m][id]]
    PROVE  MapsMatch'
<1>1. ASSUME NEW m \in 1 .. 2, NEW id \in Ids, requestMap'[m][id] # None
      PROVE  /\ result'[requestMap'[m][id]] = "pushed"
             /\ \A m2 \in 1 .. 2, id2 \in Ids :
                    requestMap'[m2][id2] = requestMap'[m][id] => m2 = m /\ id2 = id
  <2>1. requestMap'[m][id] = requestMap[m][id] /\ result'[requestMap'[m][id]] = result[requestMap'[m][id]]
    BY <1>1
  <2>2. /\ result[requestMap[m][id]] = "pushed"
        /\ \A m2 \in 1 .. 2, id2 \in Ids :
              requestMap[m2][id2] = requestMap[m][id] => m2 = m /\ id2 = id
    BY <1>1, <2>1 DEF MapsMatch
  <2>3. \A m2 \in 1 .. 2, id2 \in Ids : requestMap'[m2][id2] \in {requestMap[m2][id2], None}
    OBVIOUS
  <2> QED
    BY <1>1, <2>1, <2>2, <2>3
<1> QED
  BY <1>1 DEF MapsMatch

\* A response belongs to the request that it completes, unless a callback has
\* re-entered push().
LEMMA ResponseIsOwn ==
    ASSUME IoInv, ~reentered, NEW msg \in Messages, NEW m \in 1 .. 2,
           requestMap[m][msg.requestId] # None
    PROVE  requestMap[m][msg.requestId] = msg.req
<1>1. PICK n \in 0 .. NRequests : IdsMatch(n)
  BY DEF IoInv
<1>2. msg.requestId \in Ids
  BY IoInvParts, MessageTypes DEF MessagesInv
<1> QED
  BY <1>1, <1>2 DEF IdsMatch

LEMMA HandleResponseStep ==
    ASSUME IoInv, HandleResponse
    PROVE  IoInv'
<1> DEFINE h == Head(toWorker)
           r == dequeueRequest(h.requestId).pending
<1>0. /\ WorkerMatches /\ MessagesInv /\ Issued /\ WorkerType /\ CallsMatch /\ MapsMatch
      /\ CompletionsMatch /\ WaitedMatch /\ Answered /\ QueueType
  BY IoInvParts DEF WorkerMatches, MessagesInv
<1>1. /\ calls # <<>> /\ toWorker # <<>> /\ r # None
      /\ requestMap' = dequeueRequest(h.requestId).map
      /\ free' = free \cup ({h.page} \cap Pages)
      /\ completions' = [completions EXCEPT ![r] = @ + 1]
      /\ answeredBy' = [answeredBy EXCEPT ![r] = h.req]
      /\ toWorker' = Tail(toWorker)
      /\ UNCHANGED <<olderRequests, timeoutCheckScheduled, toDisker, disker, waited>>
  BY DEF HandleResponse
<1>2. error_' \in BOOLEAN /\ worker' \in {"up", "deaf", "dead"}
  <2>1. worker' = worker \/ worker' \in Caught
    BY DEF HandleResponse
  <2>2. worker' \in {"up", "deaf", "dead"}
    BY <1>0, <2>1, CaughtType DEF WorkerType
  <2> QED
    BY <2>2 DEF HandleResponse
<1> DEFINE Lost == [q \in Requests |-> IF q = r THEN Outcome(h)
                                      ELSE IF q \in Unwound THEN "thrown" ELSE result[q]]
<1>3. \/ /\ result' = [result EXCEPT ![r] = Outcome(h)]
         /\ UNCHANGED <<lastRequestId, command, calls, reentered>>
      \/ \E s \in Requests :
            /\ Start(s, "read")
            /\ result' = [result EXCEPT ![r] = Outcome(h), ![s] = "issued"]
            /\ reentered' = TRUE
      \/ result' = Lost /\ calls' = <<>> /\ UNCHANGED <<lastRequestId, command, reentered>>
  BY DEF HandleResponse
<1>4. h \in Messages /\ h.req \in Requests /\ h.requestId \in Ids /\ h.requestId # 0
  <2>1. h = toWorker[1] /\ 1 \in DOMAIN toWorker
    BY <1>0, <1>1, TailFacts DEF QueueType
  <2>2. h \in Messages
    BY <2>1 DEF Messages
  <2> QED
    BY <1>0, <2>2, MessageTypes
<1>5. Outcome(h) \in {"ok", "failed"}
  BY DEF Outcome
<1>6. PICK m \in 1 .. 2 :
        /\ r = requestMap[m][h.requestId]
        /\ r \in Requests /\ result[r] = "pushed"
        /\ requestMap' \in [1 .. 2 -> [Ids -> Requests \cup {None}]]
        /\ \A m2 \in 1 .. 2, id2 \in Ids :
               requestMap'[m2][id2] \in {requestMap[m2][id2], None} /\ requestMap'[m2][id2] # r
  BY <1>0, <1>1, <1>4, DequeueFacts
<1> HIDE DEF h, r
\* a request may have been issued by the callback, or lost by an exception
<1>7. /\ result' \in [Requests -> {"new", "issued", "pushed", "ok", "failed", "thrown"}]
      /\ result'[r] \in {"ok", "failed"}
      /\ \A q \in Requests : q # r =>
            \/ result'[q] = result[q] \/ (result[q] = "new" /\ result'[q] = "issued")
            \/ result[q] = "issued" /\ result'[q] = "thrown"
  <2>0. r \in Requests /\ result \in [Requests -> {"new", "issued", "pushed", "ok", "failed", "thrown"}] /\ result[r] = "pushed"
    BY <1>0, <1>6 DEF WorkerType
  <2> DEFINE v == Outcome(h)
  <2> HIDE DEF v
  <2>v. v = "ok" \/ v = "failed"
    BY <1>5 DEF v
  <2>1. CASE result' = [result EXCEPT ![r] = v]
    <3>1. /\ result'[r] = v /\ \A q \in Requests : q # r => result'[q] = result[q]
          /\ result' \in [Requests -> {"new", "issued", "pushed", "ok", "failed", "thrown"}]
      BY <2>0, <2>v, <2>1
    <3> QED
      BY <2>v, <3>1
  <2>2. CASE \E s \in Requests : Start(s, "read") /\ result' = [result EXCEPT ![r] = v, ![s] = "issued"]
    <3>1. PICK s \in Requests : Start(s, "read") /\ result' = [result EXCEPT ![r] = v, ![s] = "issued"]
      BY <2>2
    <3>2. result[s] = "new"
      BY <3>1 DEF Start
    <3>3. s # r
      BY <2>0, <3>2
    <3>4. /\ result'[r] = v /\ result'[s] = "issued"
          /\ \A q \in Requests : q # r /\ q # s => result'[q] = result[q]
          /\ result' \in [Requests -> {"new", "issued", "pushed", "ok", "failed", "thrown"}]
      BY <2>0, <2>v, <3>1, <3>3
    <3> QED
      BY <2>v, <3>2, <3>4
  <2>3. CASE result' = Lost
    <3>1. \A q \in Unwound : result[q] = "issued"
      BY <1>0 DEF Unwound, CallsMatch
    <3>2. \A q \in Requests : result'[q] = IF q = r THEN v ELSE IF q \in Unwound THEN "thrown" ELSE result[q]
      BY <2>3 DEF v
    <3>3. DOMAIN result' = Requests /\ result' = [q \in Requests |-> result'[q]]
      BY <2>3
    <3>4. \A q \in Requests : result'[q] \in {"new", "issued", "pushed", "ok", "failed", "thrown"}
      BY <2>0, <2>v, <3>2
    <3> QED
      BY <2>0, <2>v, <3>1, <3>2, <3>3, <3>4
  <2> QED
    BY <1>3, <2>1, <2>2, <2>3 DEF v
<1>8. MapsMatch'
  <2>1. ASSUME NEW m2 \in 1 .. 2, NEW id2 \in Ids, requestMap'[m2][id2] # None
        PROVE  result'[requestMap'[m2][id2]] = result[requestMap'[m2][id2]]
    <3>1. requestMap'[m2][id2] = requestMap[m2][id2] /\ requestMap'[m2][id2] # r
      BY <1>6, <2>1
    <3>2. requestMap[m2][id2] \in Requests /\ result[requestMap[m2][id2]] = "pushed"
      BY <1>0, <2>1, <3>1 DEF WorkerType, MapsMatch
    <3> QED
      BY <1>7, <3>1, <3>2
  <2> QED
    BY <1>0, <1>6, <2>1, MapsShrink
<1>9. completions' \in [Requests -> Nat] /\ CompletionsMatch'
  <2>1. /\ completions'[r] = completions[r] + 1 /\ completions' \in [Requests -> Nat]
        /\ \A q \in Requests : q # r => completions'[q] = completions[q]
    BY <1>0, <1>1, <1>6 DEF WorkerType
  <2>2. completions[r] = 0
    BY <1>0, <1>6 DEF CompletionsMatch
  <2>3. completions'[r] = 1
    BY <2>1, <2>2
  <2>4. \A q \in Requests : completions'[q] = IF result'[q] \in {"ok", "failed"} THEN 1 ELSE 0
    BY <1>0, <1>7, <2>1, <2>3 DEF CompletionsMatch
  <2> QED
    BY <2>1, <2>4 DEF CompletionsMatch
<1>10. Expired' \subseteq Expired
  <2>1. olderRequests \in 1 .. 2 /\ olderRequests' = olderRequests
    BY <1>0, <1>1 DEF WorkerType
  <2> QED
    BY <1>6, <2>1 DEF Expired
<1>11. answeredBy' \in [Requests -> Requests \cup {None}]
  BY <1>0, <1>1, <1>4 DEF WorkerType
<1>12. CASE /\ result' = [result EXCEPT ![r] = Outcome(h)]
            /\ UNCHANGED <<lastRequestId, command, calls, reentered>>
  <2>1. QueueType' /\ MessagesMatch' /\ PagesApart' /\ Messages' \subseteq Messages
    <3>1. \A q \in Requests : result[q] # "new" => result'[q] # "new" /\ command'[q] = command[q]
      BY <1>7, <1>12
    <3> QED
      BY <1>0, <1>1, <3>1, TakeResponse DEF h
  <2>2. \A q \in Requests : q # r => result'[q] = result[q]
    BY <1>0, <1>12 DEF WorkerType
  <2>3. WorkerType'
    BY <1>0, <1>1, <1>2, <1>6, <1>7, <1>9, <1>11, <1>12 DEF WorkerType
  <2>4. CallsMatch'
    <3>1. \A q \in Requests : result[q] = "issued" => result'[q] = "issued"
      BY <1>6, <2>2
    <3> QED
      BY <1>0, <1>12, <3>1 DEF CallsMatch
  <2>5. WaitedMatch'
    BY <1>0, <1>1, <1>10, <1>12 DEF WaitedMatch
  <2>6. Answered'
    <3>1. ~reentered => h.req = r
      BY <1>1, <1>4, <1>6, ResponseIsOwn
    <3>2. \A q \in Requests : answeredBy'[q] = IF q = r THEN h.req ELSE answeredBy[q]
      BY <1>0, <1>1 DEF WorkerType
    <3> QED
      BY <1>0, <1>12, <3>1, <3>2 DEF Answered
  <2>7. WorkerMatches'
    BY <1>8, <1>9, <2>3, <2>4, <2>5, <2>6 DEF WorkerMatches
  <2>8. Issued'
    <3>1. \A q \in Requests : result'[q] = "new" <=> result[q] = "new"
      BY <1>6, <1>7, <2>2
    <3>2. Len(calls') \in Nat /\ Len(calls') <= Len(calls) /\ calls' = calls
      BY <1>0, <1>12 DEF WorkerType
    <3>3. \A m2 \in 1 .. 2, id2 \in Ids : requestMap'[m2][id2] # None => requestMap'[m2][id2] = requestMap[m2][id2]
      BY <1>6
    <3> QED
      BY <1>0, <1>12, <2>1, <3>1, <3>2, <3>3, IssuedKeeps
  <2> QED
    BY <2>1, <2>7, <2>8, IoInvFromParts
<1>13. CASE \E s \in Requests :
                /\ Start(s, "read")
                /\ result' = [result EXCEPT ![r] = Outcome(h), ![s] = "issued"]
                /\ reentered' = TRUE
  <2>1. PICK s \in Requests :
                /\ Start(s, "read")
                /\ result' = [result EXCEPT ![r] = Outcome(h), ![s] = "issued"]
                /\ reentered' = TRUE
    BY <1>13
  <2>2. result[s] = "new" /\ \A q \in Requests : q < s => result[q] # "new"
    BY <2>1 DEF Start
  <2>3. result'[s] = "issued" /\ \A q \in Requests : q # r /\ q # s => result'[q] = result[q]
    BY <1>0, <1>6, <2>1 DEF WorkerType
  <2>4. /\ calls' \in Seq(CallRecords) /\ CallsMatch'
        /\ command' \in [Requests -> Commands \cup {"none"}]
        /\ \A q \in Requests : result[q] # "new" => command'[q] = command[q]
        /\ lastRequestId' \in Ids /\ lastRequestId' # 0
    <3>1. \A q \in Requests : result[q] = "issued" => result'[q] = "issued"
      BY <1>6, <2>2, <2>3
    <3>2. "read" \in Commands
      BY DEF Commands
    <3> QED
      BY <1>0, <2>1, <2>3, <3>1, <3>2, StartFacts
  <2>5. QueueType' /\ MessagesMatch' /\ PagesApart'
    <3>1. \A q \in Requests : result[q] # "new" => result'[q] # "new" /\ command'[q] = command[q]
      BY <1>6, <1>7, <2>4
    <3> QED
      BY <1>0, <1>1, <3>1, TakeResponse DEF h
  <2>6. reentered' \in BOOLEAN
    BY <2>1
  <2>7. WorkerType'
    BY <1>0, <1>1, <1>2, <1>6, <1>7, <1>9, <1>11, <2>4, <2>6 DEF WorkerType
  <2>8. WaitedMatch' /\ Answered'
    BY <2>1 DEF WaitedMatch, Answered
  <2>9. Issued'
    <3>1. PICK n \in 0 .. NRequests : IssuedUpTo(n)
      BY <1>0 DEF Issued
    <3>2. s = n + 1 /\ n + 1 \in 0 .. NRequests /\ n \in Nat
      BY <2>2, <3>1, NextRequest
    <3>3. \A q \in Requests : result'[q] # "new" <=> (result[q] # "new" \/ q = s)
      BY <1>6, <1>7, <2>3
    <3>4. IssuedUpTo(n + 1)'
      BY <3>1, <3>2, <3>3, ConstantFacts DEF IssuedUpTo, Requests, Constants
    <3>5. IdsMatch(n + 1)'
      BY <2>1, <2>4 DEF IdsMatch
    <3> QED
      BY <3>2, <3>4, <3>5 DEF Issued
  <2> QED
    BY <1>8, <1>9, <2>4, <2>5, <2>7, <2>8, <2>9, IoInvFromParts DEF WorkerMatches
<1>14. CASE result' = Lost /\ calls' = <<>> /\ UNCHANGED <<lastRequestId, command, reentered>>
  <2>1. QueueType' /\ MessagesMatch' /\ PagesApart' /\ Messages' \subseteq Messages
    <3>1. \A q \in Requests : result[q] # "new" => result'[q] # "new" /\ command'[q] = command[q]
      BY <1>6, <1>7, <1>14
    <3> QED
      BY <1>0, <1>1, <3>1, TakeResponse DEF h
  <2>2. calls' \in Seq(CallRecords) /\ Len(calls') = 0 /\ DOMAIN calls' = {}
    BY <1>14
  <2>3. WorkerType'
    BY <1>0, <1>1, <1>2, <1>6, <1>7, <1>9, <1>11, <1>14, <2>2 DEF WorkerType
  <2>4. CallsMatch'
    BY <2>2 DEF CallsMatch
  <2>5. WaitedMatch'
    BY <1>0, <1>1, <1>10, <1>14, <2>2 DEF WaitedMatch
  <2>6. Answered'
    <3>1. ~reentered => h.req = r
      BY <1>1, <1>4, <1>6, ResponseIsOwn
    <3>2. \A q \in Requests : answeredBy'[q] = IF q = r THEN h.req ELSE answeredBy[q]
      BY <1>0, <1>1 DEF WorkerType
    <3> QED
      BY <1>0, <1>14, <3>1, <3>2 DEF Answered
  <2>7. WorkerMatches'
    BY <1>8, <1>9, <2>3, <2>4, <2>5, <2>6 DEF WorkerMatches
  <2>8. Issued'
    <3>1. \A q \in Requests : result'[q] = "new" <=> result[q] = "new"
      <4> SUFFICES ASSUME NEW q \in Requests PROVE result'[q] = "new" <=> result[q] = "new"
        OBVIOUS
      <4>1. CASE q = r
        BY <1>6, <1>7, <4>1
      <4>2. CASE q # r
        <5>1. result'[q] = IF q \in Unwound THEN "thrown" ELSE result[q]
          BY <1>14, <4>2
        <5> QED
          BY <1>7, <4>2, <5>1
      <4> QED
        BY <4>1, <4>2
    <3>2. Len(calls') \in Nat /\ Len(calls') <= Len(calls)
      BY <1>0, <2>2 DEF WorkerType
    <3>3. \A m2 \in 1 .. 2, id2 \in Ids : requestMap'[m2][id2] # None => requestMap'[m2][id2] = requestMap[m2][id2]
      BY <1>6
    <3> QED
      BY <1>0, <1>14, <2>1, <2>2, <3>1, <3>2, <3>3, IssuedKeeps
  <2> QED
    BY <2>1, <2>7, <2>8, IoInvFromParts
<1> QED
  BY <1>3, <1>12, <1>13, <1>14

LEMMA AbandonOlderStep ==
    ASSUME IoInv, AbandonOlder
    PROVE  IoInv'
<1>0. /\ WorkerMatches /\ MessagesInv /\ Issued /\ WorkerType /\ CallsMatch /\ MapsMatch
      /\ CompletionsMatch /\ WaitedMatch /\ Answered
  BY IoInvParts DEF WorkerMatches, MessagesInv
<1>1. /\ calls # <<>> /\ LastCall.method = "checkTimeouts" /\ Return
      /\ result' = [r \in Requests |-> IF r \in Expired THEN "failed" ELSE result[r]]
      /\ completions' = [r \in Requests |-> completions[r] + (IF r \in Expired THEN 1 ELSE 0)]
      /\ requestMap' = [m \in 1 .. 2 |-> IF m \in {olderRequests} THEN [id \in Ids |-> None] ELSE requestMap[m]]
      /\ free' = free \cup {}
      /\ olderRequests' = newerRequests
      /\ waited' = IF timeoutCheckScheduled THEN waited ELSE Tracked \ Expired
      /\ UNCHANGED <<error_, lastRequestId, worker, command, queueVars, answeredBy, reentered>>
  BY DEF AbandonOlder, Abandon, ResponsesHandled
<1>2. timeoutCheckScheduled' \in BOOLEAN
  <2>1. timeoutCheckScheduled' = (timeoutCheckScheduled \/ (TRUE /\ Tracked # Expired))
    BY DEF AbandonOlder, Abandon
  <2> QED
    BY <2>1, Zenon
<1>3. newerRequests \in 1 .. 2 /\ newerRequests # olderRequests /\ olderRequests \in 1 .. 2
  BY <1>0 DEF WorkerType, newerRequests
<1>4. \A m \in 1 .. 2, id \in Ids : requestMap[m][id] \in Requests \cup {None}
  BY <1>0 DEF WorkerType
<1>5. \A r \in Expired : r \in Requests /\ result[r] = "pushed"
  BY <1>0, <1>3, <1>4 DEF Expired, MapsMatch
<1>6. None \in Requests \cup {None}
  OBVIOUS
<1>7. /\ requestMap' \in [1 .. 2 -> [Ids -> Requests \cup {None}]]
      /\ \A m \in 1 .. 2, id \in Ids :
            requestMap'[m][id] = IF m = olderRequests THEN None ELSE requestMap[m][id]
  <2>1. requestMap \in [1 .. 2 -> [Ids -> Requests \cup {None}]]
    BY <1>0 DEF WorkerType
  <2> QED
    BY <1>1, <2>1
<1>8. /\ result' \in [Requests -> {"new", "issued", "pushed", "ok", "failed", "thrown"}]
      /\ \A r \in Requests : result'[r] = IF r \in Expired THEN "failed" ELSE result[r]
  BY <1>0, <1>1 DEF WorkerType
<1>9. \A m \in 1 .. 2, id \in Ids : requestMap'[m][id] # None =>
        m # olderRequests /\ requestMap'[m][id] = requestMap[m][id] /\ requestMap[m][id] \notin Expired
  <2> SUFFICES ASSUME NEW m \in 1 .. 2, NEW id \in Ids, requestMap'[m][id] # None
               PROVE  /\ m # olderRequests /\ requestMap'[m][id] = requestMap[m][id]
                      /\ requestMap[m][id] \notin Expired
    OBVIOUS
  <2>1. m # olderRequests /\ requestMap'[m][id] = requestMap[m][id]
    BY <1>7
  <2>2. \A id2 \in Ids : requestMap[olderRequests][id2] # requestMap[m][id]
    BY <1>0, <1>3, <2>1 DEF MapsMatch
  <2> QED
    BY <2>1, <2>2 DEF Expired
<1>10. MapsMatch'
  <2>1. \A m \in 1 .. 2, id \in Ids : requestMap'[m][id] \in {requestMap[m][id], None}
    BY <1>7
  <2>2. \A m \in 1 .. 2, id \in Ids : requestMap'[m][id] # None =>
            result'[requestMap'[m][id]] = result[requestMap'[m][id]]
    BY <1>4, <1>8, <1>9
  <2> QED
    BY <1>0, <1>7, <2>1, <2>2, MapsShrink
<1>11. completions' \in [Requests -> Nat] /\ CompletionsMatch'
  <2>1. \A r \in Requests : completions[r] \in Nat
    BY <1>0 DEF WorkerType
  <2>2. completions' \in [Requests -> Nat]
    BY <1>1, <2>1
  <2>3. \A r \in Requests : completions'[r] = completions[r] + (IF r \in Expired THEN 1 ELSE 0)
    BY <1>1
  <2>4. ASSUME NEW r \in Requests PROVE completions'[r] = IF result'[r] \in {"ok", "failed"} THEN 1 ELSE 0
    <3>1. CASE r \in Expired
      <4>1. completions[r] = 0
        BY <1>0, <1>5, <3>1 DEF CompletionsMatch
      <4>2. completions'[r] = 1
        BY <2>3, <3>1, <4>1
      <4> QED
        BY <1>8, <3>1, <4>2
    <3>2. CASE r \notin Expired
      <4>1. completions'[r] = completions[r]
        BY <2>1, <2>3, <3>2
      <4> QED
        BY <1>0, <1>8, <3>2, <4>1 DEF CompletionsMatch
    <3> QED
      BY <3>1, <3>2
  <2> QED
    BY <2>2, <2>4 DEF CompletionsMatch
<1>12. /\ calls' \in Seq(CallRecords) /\ Len(calls') = Len(calls) - 1 /\ CallsMatch'
       /\ Len(calls) \in DOMAIN calls /\ LastCall = calls[Len(calls)]
       /\ \A i \in DOMAIN calls' : i \in DOMAIN calls /\ calls'[i] = calls[i]
  <2>1. \A r \in Requests : result[r] = "issued" => result'[r] = "issued"
    BY <1>5, <1>8
  <2> QED
    BY <1>0, <1>1, <2>1, CallsReturn
<1>13. WaitedMatch'
  <2> SUFFICES ASSUME ~reentered'
               PROVE  /\ Expired' \subseteq waited'
                      /\ \A i \in DOMAIN calls' : calls'[i].method = "checkTimeouts" => ~timeoutCheckScheduled'
    BY DEF WaitedMatch
  <2>1. ~reentered
    BY <1>1
  <2>2. ~timeoutCheckScheduled
    BY <1>0, <1>1, <1>12, <2>1 DEF WaitedMatch
  <2>3. waited' = Tracked \ Expired
    BY <1>1, <2>2
  <2>4. ASSUME NEW r \in Expired' PROVE r \in Tracked \ Expired
    <3>1. PICK id \in Ids : r = requestMap'[newerRequests][id] /\ r # None
      BY <1>1 DEF Expired
    <3>2. r = requestMap[newerRequests][id] /\ r \notin Expired
      BY <1>3, <1>9, <3>1
    <3> QED
      BY <1>3, <3>1, <3>2 DEF Tracked
  <2>5. Len(calls) <= 1
    BY <1>0, <2>1 DEF Issued, IdsMatch
  <2>6. DOMAIN calls' = {}
    <3>1. Len(calls') \in Nat /\ DOMAIN calls' = 1 .. Len(calls') /\ Len(calls) \in Nat
      BY <1>0, <1>12 DEF WorkerType
    <3> QED
      BY <1>12, <2>5, <3>1
  <2> QED
    BY <2>3, <2>4, <2>6
<1>14. WorkerMatches'
  <2>1. waited' \subseteq Requests
    <3>1. Tracked \subseteq Requests
      BY <1>4 DEF Tracked
    <3> QED
      BY <1>0, <1>1, <3>1 DEF WorkerType
  <2>2. WorkerType'
    BY <1>0, <1>1, <1>2, <1>3, <1>7, <1>8, <1>11, <1>12, <2>1 DEF WorkerType
  <2>3. Answered'
    BY <1>0, <1>1 DEF Answered
  <2> QED
    BY <1>10, <1>11, <1>12, <1>13, <2>2, <2>3 DEF WorkerMatches
<1>15. QueueType' /\ MessagesMatch' /\ PagesApart' /\ Messages' = Messages
  <2>1. \A r \in Requests : result[r] # "new" => result'[r] # "new" /\ command'[r] = command[r]
    BY <1>1, <1>8
  <2> QED
    BY <1>0, <1>1, <2>1, MessagesFrame
<1>16. Issued'
  <2>1. \A r \in Requests : result'[r] = "new" <=> result[r] = "new"
    BY <1>5, <1>8
  <2>2. Len(calls') \in Nat /\ Len(calls') <= Len(calls)
    BY <1>0, <1>12 DEF WorkerType
  <2> QED
    BY <1>0, <1>1, <1>9, <1>12, <1>15, <2>1, <2>2, IssuedKeeps
<1> QED
  BY <1>14, <1>15, <1>16, IoInvFromParts

----------------------------------------------------------------------------
LEMMA IoInvInit == Init => IoInv
<1> SUFFICES ASSUME Init PROVE IoInv
  OBVIOUS
<1>1. /\ error_ = FALSE /\ lastRequestId \in Ids
      /\ requestMap = [m \in 1 .. 2 |-> [id \in Ids |-> None]]
      /\ olderRequests = 1 /\ timeoutCheckScheduled = FALSE /\ worker = "up" /\ calls = <<>>
      /\ command = [r \in Requests |-> "none"] /\ result = [r \in Requests |-> "new"]
      /\ toDisker = <<>> /\ toWorker = <<>> /\ disker = <<>> /\ free = Pages
      /\ completions = [r \in Requests |-> 0] /\ answeredBy = [r \in Requests |-> None]
      /\ waited = {} /\ reentered = FALSE
  BY DEF Init
<1>2. DOMAIN calls = {} /\ DOMAIN toDisker = {} /\ DOMAIN toWorker = {} /\ DOMAIN disker = {}
  BY <1>1
<1>3. \A m \in 1 .. 2, id \in Ids : requestMap[m][id] = None
  BY <1>1
<1>4. Messages = {} /\ Expired = {}
  <2>1. olderRequests \in 1 .. 2
    BY <1>1
  <2> QED
    BY <1>2, <1>3, <2>1 DEF Messages, Expired
<1>5. QueueType
  <2>1. /\ Len(toDisker) = 0 /\ Len(toWorker) = 0 /\ Len(disker) = 0
        /\ toDisker \in Seq(DiskerMessages) /\ toWorker \in Seq(WorkerMessages) /\ disker \in Seq(WorkerMessages)
    BY <1>1
  <2> QED
    BY <1>1, <2>1, ConstantFacts DEF QueueType, Constants
<1>6. MessagesInv
  BY <1>2, <1>4, <1>5 DEF MessagesInv, MessagesMatch, PagesApart
<1>7. WorkerType
  <2>1. /\ error_ \in BOOLEAN /\ timeoutCheckScheduled \in BOOLEAN /\ reentered \in BOOLEAN
        /\ worker \in {"up", "deaf", "dead"}
    BY <1>1
  <2>2. calls \in Seq(CallRecords) /\ olderRequests \in 1 .. 2
    BY <1>1
  <2> QED
    BY <1>1, <2>1, <2>2 DEF WorkerType
<1>8. WorkerMatches
  <2>1. CallsMatch /\ MapsMatch
    BY <1>2, <1>3 DEF CallsMatch, MapsMatch
  <2>2. CompletionsMatch /\ Answered
    BY <1>1 DEF CompletionsMatch, Answered
  <2>3. WaitedMatch
    BY <1>2, <1>4 DEF WaitedMatch
  <2> QED
    BY <1>7, <2>1, <2>2, <2>3 DEF WorkerMatches
<1>9. Issued
  <2>1. \A r \in Requests : ~(r <= 0)
    BY ConstantFacts DEF Requests, Constants
  <2>2. IssuedUpTo(0)
    BY <1>1, <2>1 DEF IssuedUpTo
  <2>3. Len(calls) <= 1
    BY <1>1
  <2>4. IdsMatch(0)
    BY <1>2, <1>3, <1>4, <2>3 DEF IdsMatch
  <2>5. 0 \in 0 .. NRequests
    BY ConstantFacts DEF Constants
  <2> QED
    BY <2>2, <2>4, <2>5 DEF Issued
<1> QED
  BY <1>6, <1>8, <1>9, IoInvParts

LEMMA IoInvStep == IoInv /\ [Next]_vars => IoInv'
<1> SUFFICES ASSUME IoInv, [Next]_vars PROVE IoInv'
  OBVIOUS
<1>1. ASSUME NEW r \in Requests, NEW cmd \in Commands, Issue(r, cmd) PROVE IoInv'
  BY <1>1, IssueStep
<1>2. CASE PushRequest
  BY <1>2, PushRequestStep
<1>3. CASE PushFails
  BY <1>3, PushFailsStep
<1>4. CASE HandleResponse
  BY <1>4, HandleResponseStep
<1>5. CASE HandleLateResponse
  BY <1>5, HandleLateStep
<1>6. CASE NotificationHandled
  BY <1>6, NotificationHandledStep
<1>7. CASE AbandonOlder
  BY <1>7, AbandonOlderStep
<1>8. CASE HandleNotification
  BY <1>8, HandleNotificationStep
<1>9. CASE CheckTimeouts
  BY <1>9, CheckTimeoutsStep
<1>10. CASE diskerRead
  BY <1>10, DiskerReadStep
<1>11. CASE diskerWrite
  BY <1>11, DiskerWriteStep
<1>12. CASE DiskerPushResponse
  BY <1>12, DiskerPushStep
<1>13. CASE DiskerDropResponse
  BY <1>13, DiskerDropStep
<1>14. CASE IssueThrows
  BY <1>14, IssueThrowsStep
<1>15. CASE UNCHANGED vars
  <2>1. /\ UNCHANGED <<fileVars, calls, command, result, history>>
        /\ UNCHANGED <<toDisker, toWorker, disker, free>> /\ UNCHANGED queueVars
    BY <1>15 DEF vars, queueVars
  <2>2. WorkerMatches /\ MessagesInv /\ Issued
    BY IoInvParts
  <2>3. WorkerMatches'
    BY <2>1, <2>2, WorkerFrame
  <2>4. QueueType' /\ MessagesMatch' /\ PagesApart' /\ Messages' = Messages
    BY <2>1, <2>2, MessagesFrame
  <2>5. Issued'
    BY <2>1, <2>2, <2>4, IssuedFrame
  <2> QED
    BY <2>3, <2>4, <2>5, IoInvFromParts
<1> QED
  BY <1>1, <1>2, <1>3, <1>4, <1>5, <1>6, <1>7, <1>8, <1>9, <1>10, <1>11, <1>12, <1>13, <1>14, <1>15
  DEF Next, WorkerInside

(***************************************************************************)
(* Every reachable state of IpcIoFile satisfies IoInv: the types, and what *)
(* relates the call stack of push() and HandleResponses(), the two request *)
(* maps, the identifiers, the queued messages and their pages.             *)
(***************************************************************************)
THEOREM IoInvariant == Spec => []IoInv
<1>1. Init => IoInv
  BY IoInvInit
<1>2. IoInv /\ [Next]_vars => IoInv'
  BY IoInvStep
<1> QED
  BY <1>1, <1>2, PTL DEF Spec

(***************************************************************************)
(* completeIo() runs at most once for a request, which then is in no map,  *)
(* and runs for the response to that very request as long as no callback   *)
(* has re-entered push(): dequeueRequest(), checkTimeouts() and wrapping   *)
(* identifiers never mix requests up, for any number of requests.          *)
(***************************************************************************)
THEOREM RequestsCompleteOnce == Spec => []CompletedOnce
<1>1. IoInv => CompletedOnce
  <2> SUFFICES ASSUME IoInv, NEW r \in Requests
               PROVE  /\ completions[r] <= 1
                      /\ completions[r] = 1 => r \notin Tracked
                      /\ ~reentered => answeredBy[r] \in {None, r}
    BY DEF CompletedOnce
  <2>1. completions[r] = IF result[r] \in {"ok", "failed"} THEN 1 ELSE 0
    BY DEF IoInv, CompletionsMatch
  <2>2. completions[r] <= 1
    BY <2>1
  <2>3. completions[r] = 1 => result[r] # "pushed"
    BY <2>1
  <2>4. result[r] # "pushed" => r \notin Tracked
    BY DEF IoInv, MapsMatch, Tracked
  <2>5. ~reentered => answeredBy[r] \in {None, r}
    BY DEF IoInv
  <2> QED
    BY <2>2, <2>3, <2>4, <2>5
<1> QED
  BY <1>1, IoInvariant, PTL

(***************************************************************************)
(* A page that a queued request or response refers to is neither free nor  *)
(* referred to by another message, whatever diskerRead(), diskerWrite(),   *)
(* full queues, late responses and timeouts do.                            *)
(***************************************************************************)
THEOREM PagesHaveOneUser == Spec => []PagesExclusive
<1>1. IoInv => PagesExclusive
  <2> SUFFICES ASSUME IoInv, NEW msg \in Messages, msg.page # NoPage
               PROVE  /\ msg.page \notin free
                      /\ \A other \in Messages : other.page = msg.page => other = msg
    BY DEF PagesExclusive
  <2>1. PagesApart /\ QueueType
    BY IoInvParts DEF MessagesInv
  <2>2. \A i, j \in DOMAIN disker : i = j
    <3>1. Len(disker) \in Nat /\ Len(disker) <= 1 /\ DOMAIN disker = 1 .. Len(disker)
      BY <2>1 DEF QueueType
    <3> QED
      BY <3>1
  <2>3. ASSUME NEW other \in Messages, other.page = msg.page, other # msg
        PROVE  Apart(msg, other) \/ Apart(other, msg)
    BY <2>1, <2>2, <2>3 DEF PagesApart, Messages
  <2>4. msg.page \notin free
    BY <2>1 DEF PagesApart
  <2> QED
    BY <2>3, <2>4 DEF Apart
<1> QED
  BY <1>1, IoInvariant, PTL

\* What a step does to a request that is pushed and not answered.
LEMMA TimeoutStep ==
    ASSUME IoInv, Next, NEW r \in Requests, ~reentered, result[r] = "pushed", result'[r] = "failed",
           answeredBy'[r] = None
    PROVE  r \in waited
<1>0. result \in [Requests -> {"new", "issued", "pushed", "ok", "failed", "thrown"}]
  BY DEF IoInv, TypeOK
<1>1. ASSUME NEW s \in Requests, NEW cmd \in Commands, Issue(s, cmd) PROVE FALSE
  BY <1>0, <1>1 DEF Issue
<1>2. CASE PushRequest
  <2>1. result' = [result EXCEPT ![LastCall.req] = "pushed"]
    BY <1>2 DEF PushRequest
  <2> QED
    BY <1>0, <2>1
<1>3. CASE PushFails
  <2>1. result' = [result EXCEPT ![LastCall.req] = "failed"] /\ calls # <<>> /\ LastCall.method = "push"
    BY <1>3 DEF PushFails, ResponsesHandled
  <2>2. Len(calls) \in DOMAIN calls /\ LastCall = calls[Len(calls)]
    BY <2>1, ReturnFacts DEF IoInv, TypeOK, LastCall
  <2>3. result[LastCall.req] = "issued"
    BY <2>1, <2>2 DEF IoInv, CallsMatch
  <2> QED
    BY <1>0, <2>1, <2>3
<1>4. CASE HandleResponse
  <2> DEFINE h == Head(toWorker)
             p == dequeueRequest(h.requestId).pending
  <2>1. toWorker # <<>> /\ answeredBy' = [answeredBy EXCEPT ![p] = h.req]
    BY <1>4 DEF HandleResponse
  <2>2. h.req \in Requests
    <3>1. toWorker \in Seq(WorkerMessages)
      BY DEF IoInv, TypeOK
    <3>2. h \in WorkerMessages
      BY <2>1, <3>1, TailFacts
    <3> QED
      BY <3>2 DEF WorkerMessages
  <2>3. h.req # None
    BY <2>2, ConstantFacts DEF Requests, None, Constants
  <2>4. answeredBy \in [Requests -> Requests \cup {None}]
    BY DEF IoInv, TypeOK
  <2> HIDE DEF h, p
  <2>5. r # p
    BY <2>1, <2>3, <2>4
  <2>6. CASE result' = [result EXCEPT ![p] = Outcome(h)]
    BY <1>0, <2>5, <2>6
  <2>7. CASE \E s \in Requests : Start(s, "read") /\ result' = [result EXCEPT ![p] = Outcome(h), ![s] = "issued"]
    BY <1>0, <2>5, <2>7
  <2>8. CASE result' = [q \in Requests |-> IF q = p THEN Outcome(h)
                             ELSE IF q \in Unwound THEN "thrown" ELSE result[q]]
    BY <2>5, <2>8
  <2> QED
    BY <1>4, <2>6, <2>7, <2>8 DEF HandleResponse, h, p
<1>5. CASE AbandonOlder
  <2>1. result' = [q \in Requests |-> IF q \in Expired THEN "failed" ELSE result[q]]
    BY <1>5 DEF AbandonOlder, Abandon
  <2>2. r \in Expired
    BY <2>1
  <2> QED
    BY <2>2 DEF IoInv, WaitedMatch
<1>6. CASE UNCHANGED result
  BY <1>6
<1> QED
  BY <1>1, <1>2, <1>3, <1>4, <1>5, <1>6
  DEF Next, WorkerInside, IssueThrows, HandleLateResponse, NotificationHandled, HandleNotification, CheckTimeouts,
      diskerRead, diskerWrite, DiskerPushResponse, DiskerDropResponse

(***************************************************************************)
(* A request that checkTimeouts() abandons was already pending when that   *)
(* timeout event was scheduled, as long as no callback has re-entered      *)
(* push(): swapping the maps gives every request a full period.            *)
(***************************************************************************)
THEOREM AbandonedHaveWaited == Spec => TimeoutEarned
<1>1. IoInv /\ [Next]_vars =>
        [\A r \in Requests :
            (~reentered /\ result[r] = "pushed" /\ result'[r] = "failed" /\ answeredBy'[r] = None)
                => r \in waited]_vars
  BY TimeoutStep
<1> QED
  BY <1>1, IoInvariant, PTL DEF Spec, TimeoutEarned

-----------------------------------------------------------------------------
(* The Coordinator, which tells workers who serves a file                  *)

Alive(k) == k \in workload.kids /\ proc[k].alive

\* What the master knows of the kids.
KidRecord == [isRunning: BOOLEAN, pid: Nat, badFailures: Nat, status: ExitStatus]
ProcRecord == [alive: BOOLEAN, told: BOOLEAN, exit: ExitStatus, fast: BOOLEAN]
MasterKnows ==
    /\ workload \in Workloads
    /\ kids \in [workload.kids -> KidRecord] /\ proc \in [workload.kids -> ProcRecord]
    /\ \A k \in workload.kids : /\ proc[k].alive => kids[k].isRunning
                                /\ kids[k].isRunning => kids[k].pid > 0
    /\ master = "starting" => \E k \in workload.kids :
                                 kids[k].isRunning \/ shouldRestart(kids[k], shutting_down)
    /\ master = "waiting" => \E k \in workload.kids : kids[k].isRunning
    /\ master = "exited" => \A k \in workload.kids : ~kids[k].isRunning

\* Kinds of datagrams, and what they carry.
Strand == Workers \cup Diskers
StrandCoords == {s \in [kid: Strand, pid: Nat, tag: Tags \cup {NoTag}] :
                    s.tag # NoTag => s.kid \in Diskers /\ s.tag = DbOf[s.kid]}
Searches == [requestor: Workers, tag: Tags]
Questions == [id: Nat, by: Nat, of: Strand]
Registrations == [to: {coord}, type: {"registration"}, body: StrandCoords]
SearchRequests == [to: {coord}, type: {"searchRequest"}, body: Searches]
Acks == [to: Strand, type: {"ack"}, body: [pid: Nat, by: Nat]]
SearchResponses == [to: Workers, type: {"searchResponse"},
                    body: {s \in StrandCoords : s.tag # NoTag}]
ListenRequests == [to: {coord}, type: {"listenRequest"},
                   body: [requestor: Workers, mapId: Nat, addr: Addrs]]
ListenResponses == [to: Workers, type: {"listenResponse"}, body: [mapId: Nat, addr: Addrs]]
MgrRequests == [to: {coord}, type: {"mgrRequest"}, body: [requestor: Workers, id: Nat]]
MgrAcks == [to: Workers, type: {"mgrAck"}, body: [id: Nat]]
Inquiries == [to: Strand, type: {"inquiry"}, body: Questions]
Answers == [to: {coord}, type: {"answer"}, body: Questions]
Datagrams == Registrations \cup SearchRequests \cup Acks \cup SearchResponses \cup ListenRequests
            \cup ListenResponses \cup MgrRequests \cup MgrAcks \cup Inquiries \cup Answers

\* What the processes keep and what is under way between them.
MailTyped ==
    /\ out = [k \in Kid |-> out[k]] /\ \A k \in Kid : BagToSet(out[k]) \subseteq Datagrams
    /\ inbox \in [Kid -> Seq(Datagrams)]
    /\ \A k \in Kid : \A i \in 1 .. Len(inbox[k]) : inbox[k][i].to = k
KeptTyped ==
    /\ port \in [Kid -> {"none", "listening", "dead"}]
    /\ acked \in [Kid -> Nat] /\ lastId \in [Kid -> Nat]
    /\ strands \subseteq StrandCoords
    /\ BagToSet(searchers) \subseteq Searches
    /\ inquirers \subseteq [for: [requestor: Workers, id: Nat], id: Nat, todo: SUBSET Strand]
    /\ \A i \in inquirers : i.id # 0 => i.todo # {}
    /\ asked \in [Workers -> SUBSET [id: Nat, addr: Addrs]]
    /\ joined \in [Workers -> SUBSET (Addrs \X Addrs)]
    /\ asks \in [Workers -> Nat]
    /\ \A w \in Workers : IsFiniteSet(asked[w]) /\ Cardinality(asked[w]) <= asks[w]

\* A process that is gone has taken everything with it that is its own.
GoneForgotten ==
    /\ \A k \in Kid : /\ ~Alive(k) => /\ out[k] = EmptyBag /\ port[k] = "none"
                                      /\ acked[k] = 0
                      /\ port[k] # "listening" => inbox[k] = <<>>
    /\ \A w \in Workers : ~Alive(w) => asked[w] = {} /\ joined[w] = {}
    /\ ~Alive(coord) => strands = {} /\ searchers = EmptyBag /\ inquirers = {}

\* The opening of files.
FilesMatch ==
    /\ file \in [Workers -> [Tags -> [state: {"none", "waiting", "open", "error"},
                                        diskId: Kid, notified: Nat]]]
    /\ OpenCompletesOnce

\* The datagrams under way.
Under == {m \in Datagrams : \/ \E k \in Kid : m \in BagToSet(out[k])
                           \/ \E k \in Kid : \E i \in 1 .. Len(inbox[k]) : inbox[k][i] = m}

\* Registrations of a kid arrive in the order of its lives, and the strand that
\* the Coordinator keeps is not younger than those still to come.
RegistrationsSent ==
    \A k \in Kid : \A m \in BagToSet(out[k]) : m.type = "registration" =>
        k \in workload.kids /\ m.body.kid = k /\ m.body.pid = kids[k].pid
RegistrationsQueued ==
    \A i \in 1 .. Len(inbox[coord]) : inbox[coord][i].type = "registration" =>
        LET s == inbox[coord][i].body IN
        /\ s.kid \in workload.kids /\ s.pid <= kids[s.kid].pid
        /\ \A j \in 1 .. Len(inbox[coord]) :
              (j > i /\ inbox[coord][j].type = "registration" /\ inbox[coord][j].body.kid = s.kid)
                 => s.pid <= inbox[coord][j].body.pid
        /\ \A r \in strands : r.kid = s.kid => r.pid <= s.pid
RegistrationsKept == \A s \in strands : s.kid \in workload.kids /\ s.pid <= kids[s.kid].pid
RegistrationsMatch == RegistrationsSent /\ RegistrationsQueued /\ RegistrationsKept

Recorded(k, pid) == \E s \in strands : s.kid = k /\ s.pid >= pid

\* An acknowledgement of the Coordinator job, while it exists, is backed by a
\* record.
Recording == Alive(coord) /\ port[coord] # "dead"
AcksMatch ==
    /\ \A m \in Under : m.type = "ack" =>
          /\ m.body.by <= kids[coord].pid
          /\ (Recording /\ m.body.by = kids[coord].pid) => Recorded(m.to, m.body.pid)
    /\ \A k \in workload.kids \ {coord} :
          /\ acked[k] <= kids[coord].pid
          /\ (acked[k] # 0 /\ Recording /\ acked[k] = kids[coord].pid)
                => Recorded(k, kids[k].pid)

\* Inquiries and answers of this life of the Coordinator have numbers given out
\* before; the Inquirer that still waits for such a number waits for that strand.
InquiriesMatch ==
    /\ \A m \in Under : m.type \in {"inquiry", "answer"} =>
          /\ m.body.by <= kids[coord].pid /\ m.body.id > 0
          /\ (Alive(coord) /\ m.body.by = kids[coord].pid) =>
                /\ m.body.id <= lastId[coord]
                /\ \A i \in inquirers : i.id = m.body.id => m.body.of = Min(i.todo)
    /\ \A i \in inquirers : i.id <= lastId[coord]
    /\ \A a \in answers : a.own => a.asked = a.of

\* A worker in its first life, and its requests for listening sockets.
Fresh(w) == w \in workload.kids /\ (kids[w].pid = 0 \/ (kids[w].pid = 1 /\ proc[w].alive))
Mine(w, m) == \/ m.type = "listenRequest" /\ m.body.requestor = w
              \/ m.type = "listenResponse" /\ m.to = w
Same(w, m, n) == Mine(w, m) /\ Mine(w, n) /\ m.body.mapId = n.body.mapId

\* A request of w is in one place at most: a job, or a socket.
OnePlace(w) ==
    /\ \A k \in Kid : \A m \in BagToSet(out[k]) : Mine(w, m) => out[k][m] = 1
    /\ \A j, k \in Kid : \A m \in BagToSet(out[j]), n \in BagToSet(out[k]) :
          Same(w, m, n) => j = k /\ m = n
    /\ \A j, k \in Kid : \A m \in BagToSet(out[j]), i \in 1 .. Len(inbox[k]) :
          ~Same(w, m, inbox[k][i])
    /\ \A j, k \in Kid : \A h \in 1 .. Len(inbox[j]), i \in 1 .. Len(inbox[k]) :
          Same(w, inbox[j][h], inbox[k][i]) => j = k /\ h = i
Pending(w) ==
    /\ \A m \in Under : Mine(w, m) =>
          \E r \in asked[w] : r.id = m.body.mapId /\ r.addr = m.body.addr
    /\ \A r, s \in asked[w] : r.id = s.id => r = s
    /\ \A j \in joined[w] : j[1] = j[2]
ListensMatch == \A w \in Workers : Fresh(w) => OnePlace(w) /\ Pending(w)

SmpInv == /\ MasterKnows /\ MailTyped /\ KeptTyped /\ GoneForgotten /\ FilesMatch
          /\ SearchersUnanswerable /\ RegistrationsMatch /\ AcksMatch /\ InquiriesMatch
          /\ ListensMatch

SmpBase == MasterKnows /\ MailTyped /\ KeptTyped /\ GoneForgotten

-----------------------------------------------------------------------------
(* Names, bags and sequences                                               *)

LEMMA KidNames ==
    /\ Workers \subseteq Strand /\ Diskers \subseteq Strand /\ Strand \subseteq Kid
    /\ Kid = Strand \cup {coord} /\ coord \notin Strand /\ Strand \subseteq Nat
    /\ NoTag \notin Tags /\ \A d \in Diskers : DbOf[d] \in Tags
  BY KidAssumption DEF Strand

LEMMA LoadNames ==
    ASSUME NEW load \in Workloads
    PROVE  coord \in load.kids /\ load.kids \subseteq Kid /\ load.crashes \in Nat /\ load.max \in Nat
  BY KidAssumption

LEMMA ConfiguredKids ==
    ASSUME MasterKnows
    PROVE  Configured = workload.kids /\ Strands = workload.kids \ {coord}
  BY DEF MasterKnows, Configured, Strands

LEMMA BagSum ==
    ASSUME NEW a, NEW b
    PROVE  /\ BagToSet((a (+) b)) = BagToSet(a) \cup BagToSet(b)
           /\ \A m \in BagToSet(a) : m \notin BagToSet(b) => (a (+) b)[m] = a[m] + 0
           /\ \A m \in BagToSet(b) : m \notin BagToSet(a) => (a (+) b)[m] = 0 + b[m]
  BY DEF BagToSet, (+)

LEMMA BagKeeps ==
    ASSUME NEW a, NEW b, NEW m \in BagToSet((a (+) b)), m \notin BagToSet(b), a[m] = 1
    PROVE  (a (+) b)[m] = 1
<1>1. m \in BagToSet(a) /\ (a (+) b)[m] = a[m] + 0
  BY BagSum
<1> QED
  BY <1>1

LEMMA BagTake ==
    ASSUME NEW a, NEW m
    PROVE  /\ BagToSet((a (-) SetToBag({m}))) \subseteq BagToSet(a)
           /\ \A n \in BagToSet((a (-) SetToBag({m}))) : n # m => (a (-) SetToBag({m}))[n] = a[n]
           /\ (m \in BagToSet(a) /\ a[m] = 1) => m \notin BagToSet((a (-) SetToBag({m})))
  BY DEF BagToSet, (-), SetToBag

LEMMA BagOne ==
    ASSUME NEW S
    PROVE  BagToSet(SetToBag(S)) = S /\ \A m \in S : SetToBag(S)[m] = 1
  BY DEF BagToSet, SetToBag

LEMMA BagNone == BagToSet(EmptyBag) = {}
  BY DEF BagToSet, SetToBag, EmptyBag

\* The kind of a datagram says what it carries.
LEMMA KindsOfMail ==
    ASSUME NEW m \in Datagrams
    PROVE  /\ m.type = "registration" => m \in Registrations
           /\ m.type = "searchRequest" => m \in SearchRequests
           /\ m.type = "ack" => m \in Acks
           /\ m.type = "searchResponse" => m \in SearchResponses
           /\ m.type = "listenRequest" => m \in ListenRequests
           /\ m.type = "listenResponse" => m \in ListenResponses
           /\ m.type = "mgrRequest" => m \in MgrRequests
           /\ m.type = "mgrAck" => m \in MgrAcks
           /\ m.type = "inquiry" => m \in Inquiries
           /\ m.type = "answer" => m \in Answers
           /\ m.to \in Kid
  BY KidNames DEF Datagrams, Registrations, SearchRequests, Acks, SearchResponses, ListenRequests,
      ListenResponses, MgrRequests, MgrAcks, Inquiries, Answers

LEMMA HeadTail ==
    ASSUME NEW S, NEW q \in Seq(S), q # <<>>
    PROVE  /\ Head(q) \in S /\ Tail(q) \in Seq(S) /\ Len(q) \in Nat /\ Len(q) > 0
           /\ Head(q) = q[1] /\ Len(Tail(q)) = Len(q) - 1
           /\ \A i \in 1 .. Len(q) - 1 : Tail(q)[i] = q[i + 1]
  OBVIOUS

LEMMA Least ==
    ASSUME NEW S \in SUBSET Nat, S # {}
    PROVE  Min(S) \in S
<1>1. \E x \in S : \A y \in S : x <= y
  <2>1. IsWellFoundedOn(OpToRel(<, Nat), Nat)
    BY NatLessThanWellFounded
  <2>2. PICK x \in S : \A y \in S : ~(<<y, x>> \in OpToRel(<, Nat))
    BY <2>1, WFMin
  <2>3. \A y \in S : ~(y < x)
    BY <2>2 DEF OpToRel
  <2> QED
    BY <2>3
<1> QED
  BY <1>1 DEF Min

-----------------------------------------------------------------------------
(* Steps                                                                   *)

\* The end of a process, by whatever cause.
Dying(k) ==
    /\ \E how \in ExitStatus, isFast \in BOOLEAN : Ends(k, how, isFast)
    /\ proc[k].alive
    /\ Forget(k)
    /\ UNCHANGED <<master, shutting_down, kids>>

\* The other steps of kid processes.
KidActs(k) == Boot(k) \/ (\E m \in BagToSet(out[k]) : Wrote(k, m) \/ GaveUp(k, m))
WorkerActs(w) ==
    \/ HandleOpenResponse(w) \/ SharedListenJoined(w) \/ ForwarderAck(w)
    \/ \E t \in Tags : OpenTimeout(w, t)
    \/ \E a \in Addrs : JoinSharedListen(w, a)
    \/ ForwarderStart(w) \/ ForwarderTimeout(w)
StrandActs(k) == handleRegistrationResponse(k) \/ respond(k)
InquirerActs(i) == noteWroteHeader(i) \/ noteCommClosed(i) \/ requestTimedOut(i)

ProcessActs ==
    \/ \E k \in workload.kids : KidActs(k)
    \/ \E k \in workload.kids \ {coord} : StrandActs(k)
    \/ \E w \in Workers : WorkerActs(w)
    \/ CoordinatorReceives
    \/ \E i \in inquirers : InquirerActs(i)

LEMMA SmpCases ==
    ASSUME MasterKnows, KeptTyped, GoneForgotten, SmpNext
    PROVE  \/ MasterSteps \/ Shutdown
           \/ \E k \in workload.kids : Dying(k)
           \/ ProcessActs
<1>0. /\ Configured = workload.kids /\ Strands = workload.kids \ {coord}
      /\ workload.kids \subseteq Kid
  BY ConfiguredKids, LoadNames DEF MasterKnows
<1>1. ASSUME NEW k \in workload.kids, KidCrashes(k) \/ KidExits(k) \/ RegistrationTimeout(k)
      PROVE  Dying(k)
  <2>1. "error" \in ExitStatus /\ "forced" \in ExitStatus /\ "happy" \in ExitStatus
    BY DEF ExitStatus
  <2>2. CASE KidCrashes(k)
    BY <2>1, <2>2 DEF KidCrashes, Crash, Dying
  <2>3. CASE KidExits(k)
    BY <2>1, <2>3 DEF KidExits, OrderlyExit, Dying
  <2>4. CASE RegistrationTimeout(k)
    <3>1. proc[k].alive
      BY <1>0, <2>4 DEF RegistrationTimeout, GoneForgotten, Alive
    <3> QED
      BY <2>1, <2>4, <3>1 DEF RegistrationTimeout, Dying
  <2> QED
    BY <1>1, <2>2, <2>3, <2>4
<1>2. ASSUME NEW k \in workload.kids, Boot(k) \/ Uds(k)
      PROVE  KidActs(k)
  BY <1>2 DEF Uds, KidActs
<1>3. ASSUME NEW k \in workload.kids \ {coord}, StrandReceives(k)
      PROVE  StrandActs(k) \/ (k \in Workers /\ WorkerActs(k))
  BY <1>3 DEF StrandReceives, StrandActs, WorkerActs
<1>4. ASSUME NEW w \in Workers, \/ \E t \in Tags : OpenTimeout(w, t)
                                \/ \E a \in Addrs : JoinSharedListen(w, a)
                                \/ ForwarderStart(w) \/ ForwarderTimeout(w)
      PROVE  WorkerActs(w)
  BY <1>4 DEF WorkerActs
<1>5. ASSUME NEW i \in inquirers, noteWroteHeader(i) \/ noteCommClosed(i) \/ requestTimedOut(i)
      PROVE  InquirerActs(i)
  BY <1>5 DEF InquirerActs
<1> QED
  BY <1>0, <1>1, <1>2, <1>3, <1>4, <1>5 DEF SmpNext, ProcessActs

\* Kids and the master change only with the master's own steps, the shutdown
\* and the end of a kid.
LEMMA KidsStay ==
    ASSUME ProcessActs
    PROVE  UNCHANGED <<master, shutting_down, kids, proc, crashes, workload>>
<1>1. ASSUME NEW k \in workload.kids, KidActs(k)
      PROVE  UNCHANGED <<master, shutting_down, kids, proc, crashes, workload>>
  BY <1>1 DEF KidActs, Boot, Wrote, GaveUp, kidVars
<1>2. ASSUME NEW k \in workload.kids \ {coord}, StrandActs(k)
      PROVE  UNCHANGED <<master, shutting_down, kids, proc, crashes, workload>>
  BY <1>2 DEF StrandActs, handleRegistrationResponse, respond, kidVars
<1>3. ASSUME NEW w \in Workers, WorkerActs(w)
      PROVE  UNCHANGED <<master, shutting_down, kids, proc, crashes, workload>>
  BY <1>3 DEF WorkerActs, HandleOpenResponse, SharedListenJoined, ForwarderAck,
      OpenTimeout, JoinSharedListen, ForwarderStart, ForwarderTimeout, kidVars
<1>4. ASSUME CoordinatorReceives
      PROVE  UNCHANGED <<master, shutting_down, kids, proc, crashes, workload>>
  BY <1>4 DEF CoordinatorReceives, handleRegistrationRequest, handleSearchRequest,
      handleSharedListenRequest, handleCacheMgrRequest, HandleRemoteAck, kidVars
<1>5. ASSUME NEW i \in inquirers, InquirerActs(i)
      PROVE  UNCHANGED <<master, shutting_down, kids, proc, crashes, workload>>
  BY <1>5 DEF InquirerActs, noteWroteHeader, noteCommClosed, requestTimedOut, kidVars
<1> QED
  BY <1>1, <1>2, <1>3, <1>4, <1>5 DEF ProcessActs

\* What the end of process k leaves.
LEMMA DyingKids ==
    ASSUME MasterKnows, NEW k \in workload.kids, Dying(k)
    PROVE  /\ UNCHANGED <<master, shutting_down, kids, workload>>
           /\ proc' \in [workload.kids -> ProcRecord]
           /\ ~proc'[k].alive /\ \A j \in workload.kids : j # k => proc'[j] = proc[j]
<1>1. UNCHANGED <<master, shutting_down, kids, workload>>
  BY DEF Dying, Forget
<1>2. PICK how \in ExitStatus, isFast \in BOOLEAN : Ends(k, how, isFast)
  BY DEF Dying
<1>3. [alive |-> FALSE, told |-> FALSE, exit |-> how, fast |-> isFast] \in ProcRecord
  BY DEF ProcRecord
<1> QED
  BY <1>1, <1>2, <1>3 DEF MasterKnows, Ends

\* What becomes of the records.
LEMMA RecordsChange ==
    ASSUME NEW r \in KidRecord, NEW p \in ProcRecord
    PROVE  /\ r.pid \in Nat /\ r.isRunning \in BOOLEAN /\ p.alive \in BOOLEAN
           /\ LET s == [r EXCEPT !.isRunning = TRUE, !.pid = r.pid + 1] IN
                 s \in KidRecord /\ s.isRunning /\ s.pid = r.pid + 1
           /\ stop(r, p) \in KidRecord /\ ~stop(r, p).isRunning /\ stop(r, p).pid = r.pid
           /\ [p EXCEPT !.alive = TRUE] \in ProcRecord /\ [p EXCEPT !.alive = TRUE].alive
<1>1. r.badFailures + 1 \in Nat /\ r.pid + 1 \in Nat
  BY DEF KidRecord
<1> QED
  BY <1>1 DEF KidRecord, ProcRecord, stop

LEMMA TellingIsNoEnd ==
    ASSUME NEW p \in ProcRecord, NEW b \in BOOLEAN
    PROVE  [p EXCEPT !.told = b] \in ProcRecord /\ [p EXCEPT !.told = b].alive = p.alive
  BY DEF ProcRecord

\* What the master does with the kids.
LEMMA MasterKids ==
    ASSUME MasterKnows, MasterSteps
    PROVE  /\ UNCHANGED <<shutting_down, workload>>
           /\ DOMAIN kids' = workload.kids
           /\ \A k \in workload.kids :
                 \/ kids'[k].pid = kids[k].pid /\ proc'[k].alive = proc[k].alive
                 \/ /\ kids'[k].pid = kids[k].pid + 1
                    /\ ~proc[k].alive /\ proc'[k].alive
           /\ MasterKnows'
<1>0. UNCHANGED workload
  BY DEF MasterSteps
<1>1. CASE StartKids
  <2> DEFINE due == {k \in workload.kids : shouldRestart(kids[k], shutting_down)}
  <2>1. PICK started \in SUBSET due :
          /\ master' = IF started = due THEN "waiting" ELSE "aborted"
          /\ kids' = [k \in workload.kids |-> IF k \in started
                         THEN [kids[k] EXCEPT !.isRunning = TRUE, !.pid = kids[k].pid + 1]
                         ELSE kids[k]]
          /\ proc' = [k \in workload.kids |-> IF k \in started
                         THEN [proc[k] EXCEPT !.alive = TRUE] ELSE proc[k]]
    BY <1>1, ConfiguredKids DEF StartKids
  <2>2. master = "starting" /\ UNCHANGED shutting_down
    BY <1>1 DEF StartKids
  <2>3. \A k \in due : ~kids[k].isRunning /\ k \in workload.kids
    BY DEF shouldRestart
  <2>4. \A k \in workload.kids : k \in due \/ ~shouldRestart(kids[k], shutting_down)
    OBVIOUS
  <2>5. started = due => \E k \in workload.kids : k \in started \/ kids[k].isRunning
    BY <2>2, <2>4 DEF MasterKnows
  <2> HIDE DEF due
  <2>6. /\ kids' \in [workload.kids -> KidRecord]
        /\ proc' \in [workload.kids -> ProcRecord]
    <3>1. \A k \in workload.kids : kids'[k] \in KidRecord /\ proc'[k] \in ProcRecord
      BY <2>1, RecordsChange DEF MasterKnows
    <3> QED
      BY <2>1, <3>1
  <2>7. \A k \in workload.kids :
          IF k \in started
          THEN /\ kids'[k].isRunning /\ kids'[k].pid = kids[k].pid + 1 /\ proc'[k].alive
               /\ ~proc[k].alive /\ kids[k].pid \in Nat
          ELSE kids'[k] = kids[k] /\ proc'[k] = proc[k]
    BY <2>1, <2>3, RecordsChange DEF MasterKnows
  <2>8. MasterKnows'
    <3>1. \A k \in workload.kids : (proc'[k].alive => kids'[k].isRunning)
                                   /\ (kids'[k].isRunning => kids'[k].pid > 0)
      BY <2>7 DEF MasterKnows
    <3>2. master' = "waiting" => \E k \in workload.kids : kids'[k].isRunning
      BY <2>1, <2>5, <2>7
    <3> QED
      BY <1>0, <2>1, <2>6, <3>1, <3>2 DEF MasterKnows
  <2> QED
    BY <1>0, <2>2, <2>6, <2>7, <2>8
<1>2. CASE CollectKids
  <2> DEFINE dead == {k \in workload.kids : kids[k].isRunning /\ ~proc[k].alive}
             after == [k \in workload.kids |-> IF k \in dead THEN stop(kids[k], proc[k]) ELSE kids[k]]
  <2>1. /\ kids' = after /\ UNCHANGED <<shutting_down, proc>>
        /\ master' = IF \A k \in workload.kids : /\ ~after[k].isRunning
                                          /\ ~shouldRestart(after[k], shutting_down)
                     THEN "exited" ELSE "starting"
    BY <1>2, ConfiguredKids DEF CollectKids
  <2>2. \A k \in workload.kids :
          /\ after[k] \in KidRecord
          /\ after[k].pid = kids[k].pid
          /\ after[k].isRunning => kids[k].isRunning
          /\ proc[k].alive => after[k].isRunning
    BY RecordsChange DEF MasterKnows
  <2>3. after \in [workload.kids -> KidRecord]
    BY <2>2
  <2> HIDE DEF after, dead
  <2>4. MasterKnows'
    BY <1>0, <2>1, <2>2, <2>3 DEF MasterKnows
  <2> QED
    BY <1>0, <2>1, <2>2, <2>3, <2>4
<1> QED
  BY <1>1, <1>2 DEF MasterSteps

\* The master knows enough of the kids after every step.
LEMMA MasterKnowsStep ==
    ASSUME MasterKnows, KeptTyped, GoneForgotten, [SmpNext]_smpVars
    PROVE  MasterKnows' /\ workload' = workload
<1>1. CASE UNCHANGED smpVars
  <2>1. UNCHANGED <<master, shutting_down, kids, proc, workload>>
    BY <1>1 DEF smpVars, kidVars
  <2> QED
    BY <2>1 DEF MasterKnows
<1>2. CASE MasterSteps
  BY <1>2, MasterKids
<1>3. CASE Shutdown
  <2>1. /\ UNCHANGED <<master, kids, workload>> /\ shutting_down' = TRUE
        /\ port[coord] # "none"
        /\ \E heard : proc' = [k \in workload.kids |->
              [proc[k] EXCEPT !.told = @ \/ (k \in heard \cup {coord} /\ proc[k].alive)]]
    BY <1>3, ConfiguredKids DEF Shutdown
  <2>2. kids[coord].isRunning /\ coord \in workload.kids
    BY <2>1, KidNames, LoadNames DEF GoneForgotten, Alive, MasterKnows
  <2>3. /\ proc' \in [workload.kids -> ProcRecord]
        /\ \A k \in workload.kids : proc'[k].alive = proc[k].alive
    <3>1. PICK heard : proc' = [k \in workload.kids |->
            [proc[k] EXCEPT !.told = @ \/ (k \in heard \cup {coord} /\ proc[k].alive)]]
      BY <2>1
    <3>2. ASSUME NEW k \in workload.kids
          PROVE  proc'[k] \in ProcRecord /\ proc'[k].alive = proc[k].alive
      <4>1. PICK b \in BOOLEAN : b = (proc[k].told \/ (k \in heard \cup {coord} /\ proc[k].alive))
        OBVIOUS
      <4>2. proc'[k] = [proc[k] EXCEPT !.told = b]
        BY <3>1, <4>1
      <4>3. proc[k] \in ProcRecord
        BY DEF MasterKnows
      <4> QED
        BY <4>2, <4>3, TellingIsNoEnd
    <3> QED
      BY <3>1, <3>2
  <2> QED
    BY <2>1, <2>2, <2>3 DEF MasterKnows
<1>4. ASSUME NEW k \in workload.kids, Dying(k) PROVE MasterKnows' /\ workload' = workload
  BY <1>4, DyingKids DEF MasterKnows
<1>5. CASE ProcessActs
  BY <1>5, KidsStay DEF MasterKnows
<1> QED
  BY <1>1, <1>2, <1>3, <1>4, <1>5, SmpCases

-----------------------------------------------------------------------------
(* The flow of datagrams                                                   *)

\* Process k gets new jobs for datagrams of N at most; process k reads, or
\* loses, what is in its socket.
Posts(k, N) == /\ out' = [out EXCEPT ![k] = out'[k]]
               /\ BagToSet(out'[k]) \subseteq BagToSet(out[k]) \cup N
               /\ \A n \in BagToSet(out'[k]) : (n \notin N /\ out[k][n] = 1) => out'[k][n] = 1
Reads(k) == /\ inbox' = [inbox EXCEPT ![k] = inbox'[k]]
            /\ \/ inbox'[k] = inbox[k] \/ inbox'[k] = <<>>
               \/ inbox[k] # <<>> /\ inbox'[k] = Tail(inbox[k])

LEMMA SentIsPosted ==
    ASSUME MailTyped, NEW k \in Kid, NEW b
    PROVE  /\ SendMessages(k, b) => Posts(k, BagToSet(b))
           /\ \A m : Send(k, m) => Posts(k, {m})
           /\ out' = out => Posts(k, {})
<1>1. ASSUME NEW c, SendMessages(k, c) PROVE Posts(k, BagToSet(c))
  <2>1. out' = [out EXCEPT ![k] = (out[k] (+) c)]
    BY <1>1 DEF SendMessages
  <2>2. out'[k] = (out[k] (+) c)
    BY <2>1 DEF MailTyped
  <2>3. out' = [out EXCEPT ![k] = out'[k]]
    BY <2>1, <2>2
  <2>4. PICK a, b2 : a = out[k] /\ b2 = (a (+) c)
    OBVIOUS
  <2>5. \A n \in BagToSet(b2) : (n \notin BagToSet(c) /\ a[n] = 1) => b2[n] = 1
    BY <2>4, BagKeeps
  <2>6. BagToSet(b2) = BagToSet(a) \cup BagToSet(c)
    BY <2>4, BagSum
  <2> QED
    BY <2>2, <2>3, <2>4, <2>5, <2>6 DEF Posts
<1>2. ASSUME NEW m, Send(k, m) PROVE Posts(k, {m})
  BY <1>1, <1>2, BagOne DEF Send
<1>3. ASSUME out' = out PROVE Posts(k, {})
  BY <1>3 DEF Posts, MailTyped
<1> QED
  BY <1>1, <1>2, <1>3

LEMMA DroppedIsPosted ==
    ASSUME MailTyped, NEW k \in Kid, NEW m, out' = [out EXCEPT ![k] = (out[k] (-) SetToBag({m}))]
    PROVE  Posts(k, {})
<1>1. out'[k] = (out[k] (-) SetToBag({m}))
  BY DEF MailTyped
<1>2. out' = [out EXCEPT ![k] = out'[k]]
  BY <1>1
<1>3. PICK a, b : a = out[k] /\ b = (a (-) SetToBag({m}))
  OBVIOUS
<1>4. /\ BagToSet(b) \subseteq BagToSet(a)
      /\ \A n \in BagToSet(b) : n # m => b[n] = a[n]
      /\ m \in BagToSet(a) /\ a[m] = 1 => m \notin BagToSet(b)
  <2>1. /\ BagToSet((a (-) SetToBag({m}))) \subseteq BagToSet(a)
        /\ \A n \in BagToSet((a (-) SetToBag({m}))) : n # m => (a (-) SetToBag({m}))[n] = a[n]
        /\ (m \in BagToSet(a) /\ a[m] = 1) => m \notin BagToSet((a (-) SetToBag({m})))
    BY BagTake
  <2> QED
    BY <1>3, <2>1
<1> QED
  BY <1>1, <1>2, <1>3, <1>4 DEF Posts

LEMMA ReceivedIsRead ==
    ASSUME MailTyped, NEW k \in Kid
    PROVE  /\ \A t : Received(k, t) => Reads(k)
           /\ PortDies(k) => Reads(k)
           /\ inbox' = inbox => Reads(k)
  BY DEF MailTyped, Received, PortDies, Reads

\* Who has a datagram in its socket lives, and the datagram is for it.
LEMMA Reading ==
    ASSUME MailTyped, GoneForgotten, NEW k \in Kid, inbox[k] # <<>>
    PROVE  /\ Head(inbox[k]) \in Datagrams /\ Head(inbox[k]).to = k /\ Head(inbox[k]) \in Under
           /\ port[k] = "listening" /\ Alive(k) /\ inbox[k] \in Seq(Datagrams)
           /\ Head(inbox[k]) = inbox[k][1] /\ 1 \in 1 .. Len(inbox[k])
<1>1. inbox[k] \in Seq(Datagrams)
  BY DEF MailTyped
<1>2. Head(inbox[k]) \in Datagrams /\ Head(inbox[k]) = inbox[k][1] /\ 1 \in 1 .. Len(inbox[k])
  BY <1>1, HeadTail
<1>3. Head(inbox[k]).to = k /\ Head(inbox[k]) \in Under
  BY <1>2 DEF MailTyped, Under
<1>4. port[k] = "listening" /\ Alive(k)
  BY DEF GoneForgotten
<1> QED
  BY <1>1, <1>2, <1>3, <1>4

\* What is under way after a step was so before, or is new.
LEMMA UnderStep ==
    ASSUME MailTyped, NEW j \in Kid, NEW k \in Kid, NEW N \in SUBSET Datagrams, Posts(j, N), Reads(k)
    PROVE  /\ MailTyped' /\ Under' \subseteq Under \cup N
           /\ \A h \in Kid : \A i \in 1 .. Len(inbox'[h]) :
                 /\ h # k => inbox'[h] = inbox[h]
                 /\ \E g \in 1 .. Len(inbox[h]) : inbox'[h][i] = inbox[h][g]
<1>1. /\ out' = [h \in Kid |-> out'[h]]
      /\ \A h \in Kid : BagToSet(out'[h]) \subseteq BagToSet(out[h]) \cup N
  BY DEF Posts, MailTyped
<1>2. /\ inbox[k] \in Seq(Datagrams) /\ inbox'[k] \in Seq(Datagrams)
      /\ \A i \in 1 .. Len(inbox'[k]) : \E g \in 1 .. Len(inbox[k]) : inbox'[k][i] = inbox[k][g]
  <2>1. inbox[k] \in Seq(Datagrams)
    BY DEF MailTyped
  <2>2. CASE inbox'[k] = inbox[k]
    BY <2>1, <2>2
  <2>3. CASE inbox'[k] = <<>>
    BY <2>1, <2>3
  <2>4. CASE inbox[k] # <<>> /\ inbox'[k] = Tail(inbox[k])
    BY <2>1, <2>4, HeadTail
  <2> QED
    BY <2>1, <2>2, <2>3, <2>4 DEF Reads
<1>3. /\ inbox' \in [Kid -> Seq(Datagrams)]
      /\ \A h \in Kid : h # k => inbox'[h] = inbox[h]
  BY <1>2 DEF Reads, MailTyped
<1>4. \A h \in Kid : \A i \in 1 .. Len(inbox'[h]) :
        /\ h # k => inbox'[h] = inbox[h]
        /\ \E g \in 1 .. Len(inbox[h]) : inbox'[h][i] = inbox[h][g]
  BY <1>2, <1>3
<1>5. MailTyped'
  <2>1. \A h \in Kid : BagToSet(out'[h]) \subseteq Datagrams
    BY <1>1 DEF MailTyped
  <2>2. \A h \in Kid : \A i \in 1 .. Len(inbox'[h]) : inbox'[h][i].to = h
    BY <1>4 DEF MailTyped
  <2> QED
    BY <1>1, <1>3, <2>1, <2>2 DEF MailTyped
<1>6. Under' \subseteq Under \cup N
  <2> SUFFICES ASSUME NEW m \in Under' PROVE m \in Under \cup N
    OBVIOUS
  <2>1. m \in Datagrams
    BY DEF Under
  <2>2. ASSUME NEW h \in Kid, m \in BagToSet(out'[h]) PROVE m \in Under \cup N
    BY <1>1, <2>1, <2>2 DEF Under
  <2>3. ASSUME NEW h \in Kid, NEW i \in 1 .. Len(inbox'[h]), inbox'[h][i] = m PROVE m \in Under \cup N
    BY <1>4, <2>1, <2>3 DEF Under
  <2> QED
    BY <2>2, <2>3 DEF Under
<1> QED
  BY <1>4, <1>5, <1>6

\* A datagram goes from its job to the end of the queue of a socket.
LEMMA WroteMail ==
    ASSUME MailTyped, NEW k \in Kid, NEW m \in BagToSet(out[k]), Wrote(k, m)
    PROVE  /\ MailTyped' /\ Under' \subseteq Under /\ m \in Under /\ Posts(k, {})
           /\ m \in Datagrams /\ m.to \in Kid /\ port[m.to] = "listening"
           /\ inbox' = [inbox EXCEPT ![m.to] = Append(inbox[m.to], m)]
           /\ out'[k] = (out[k] (-) SetToBag({m}))
<1>1. m \in Datagrams /\ m.to \in Kid /\ m \in Under
  BY KindsOfMail DEF MailTyped, Under
<1>2. /\ port[m.to] = "listening" /\ inbox' = [inbox EXCEPT ![m.to] = Append(inbox[m.to], m)]
      /\ out' = [out EXCEPT ![k] = (out[k] (-) SetToBag({m}))]
  BY DEF Wrote
<1>3. Posts(k, {})
  BY <1>2, DroppedIsPosted
<1>4. /\ out' = [h \in Kid |-> out'[h]] /\ out'[k] = (out[k] (-) SetToBag({m}))
      /\ \A h \in Kid : BagToSet(out'[h]) \subseteq BagToSet(out[h])
  BY <1>2, <1>3 DEF Posts, MailTyped
<1>5. PICK q \in Seq(Datagrams) : q = inbox[m.to]
  BY <1>1 DEF MailTyped
<1>6. /\ Append(q, m) \in Seq(Datagrams) /\ Len(Append(q, m)) = Len(q) + 1 /\ Len(q) \in Nat
      /\ \A i \in 1 .. Len(q) : Append(q, m)[i] = q[i]
      /\ Append(q, m)[Len(q) + 1] = m
  BY <1>1
<1>7. /\ inbox' \in [Kid -> Seq(Datagrams)] /\ inbox'[m.to] = Append(q, m)
      /\ \A h \in Kid : h # m.to => inbox'[h] = inbox[h]
  BY <1>1, <1>2, <1>5, <1>6 DEF MailTyped
<1>8. \A h \in Kid : \A i \in 1 .. Len(inbox'[h]) :
         \/ h = m.to /\ inbox'[h][i] = m
         \/ i \in 1 .. Len(inbox[h]) /\ inbox'[h][i] = inbox[h][i]
  <2>1. \A i \in 1 .. Len(q) + 1 : i \in 1 .. Len(q) \/ i = Len(q) + 1
    BY <1>6
  <2> QED
    BY <1>5, <1>6, <1>7, <2>1
<1>9. MailTyped'
  <2>1. \A h \in Kid : BagToSet(out'[h]) \subseteq Datagrams
    BY <1>4 DEF MailTyped
  <2>2. \A h \in Kid : \A i \in 1 .. Len(inbox'[h]) : inbox'[h][i].to = h
    <3> SUFFICES ASSUME NEW h \in Kid, NEW i \in 1 .. Len(inbox'[h]) PROVE inbox'[h][i].to = h
      OBVIOUS
    <3>1. CASE h = m.to /\ inbox'[h][i] = m
      BY <3>1
    <3>2. CASE i \in 1 .. Len(inbox[h]) /\ inbox'[h][i] = inbox[h][i]
      BY <3>2 DEF MailTyped
    <3> QED
      BY <1>8, <3>1, <3>2
  <2> QED
    BY <1>4, <1>7, <2>1, <2>2 DEF MailTyped
<1>10. Under' \subseteq Under
  <2> SUFFICES ASSUME NEW n \in Under' PROVE n \in Under
    OBVIOUS
  <2>1. n \in Datagrams
    BY DEF Under
  <2>2. ASSUME NEW h \in Kid, n \in BagToSet(out'[h]) PROVE n \in Under
    BY <1>4, <2>1, <2>2 DEF Under
  <2>3. ASSUME NEW h \in Kid, NEW i \in 1 .. Len(inbox'[h]), inbox'[h][i] = n PROVE n \in Under
    BY <1>1, <1>8, <2>1, <2>3 DEF Under
  <2> QED
    BY <2>2, <2>3 DEF Under
<1> QED
  BY <1>1, <1>2, <1>3, <1>4, <1>9, <1>10

-----------------------------------------------------------------------------
(* The datagrams that each handler sends                                   *)

LEMMA BaseKids ==
    ASSUME SmpBase
    PROVE  /\ MasterKnows /\ MailTyped /\ KeptTyped /\ GoneForgotten
           /\ workload.kids \subseteq Kid /\ coord \in workload.kids /\ coord \in Kid
           /\ \A k \in workload.kids : kids[k].pid \in Nat
  BY LoadNames DEF SmpBase, MasterKnows, KidRecord

OwnRegistrations(k) == {m \in Registrations : m.body.kid = k /\ m.body.pid = kids[k].pid}

LEMMA BootMail ==
    ASSUME SmpBase, NEW k \in workload.kids, Boot(k)
    PROVE  /\ Posts(k, SearchRequests \cup OwnRegistrations(k)) /\ Reads(k)
           /\ inbox' = inbox
           /\ SearchRequests \cup OwnRegistrations(k) \subseteq Datagrams
<1>0. MailTyped /\ k \in Kid /\ kids[k].pid \in Nat
  BY BaseKids
<1> DEFINE ann(tag) == Msg(coord, "registration", Coord(k, tag))
           search(t) == Msg(coord, "searchRequest", [requestor |-> k, tag |-> t])
           opens == IF k \in Workers /\ workload.asks = "open" THEN Tags ELSE {}
           sent == IF k = coord THEN {}
                   ELSE {ann(NoTag)} \cup {search(t) : t \in opens}
                          \cup {ann(DbOf[d]) : d \in {k} \cap Diskers}
<1>1. SendMessages(k, SetToBag(sent)) /\ inbox' = inbox
  BY DEF Boot
<1>2. sent \subseteq SearchRequests \cup OwnRegistrations(k)
  <2>1. CASE k = coord
    BY <2>1
  <2>2. CASE k # coord
    <3>1. k \in Strand
      BY <1>0, <2>2, KidNames
    <3>2. ann(NoTag) \in OwnRegistrations(k)
      BY <1>0, <3>1 DEF OwnRegistrations, Registrations, StrandCoords, Msg, Coord
    <3>3. ASSUME NEW t \in opens PROVE search(t) \in SearchRequests
      <4>1. k \in Workers /\ t \in Tags
        BY <3>3
      <4> QED
        BY <4>1 DEF SearchRequests, Searches, Msg
    <3>4. ASSUME NEW d \in {k} \cap Diskers PROVE ann(DbOf[d]) \in OwnRegistrations(k)
      <4>1. d = k /\ k \in Diskers /\ DbOf[k] \in Tags
        BY KidNames
      <4> QED
        BY <1>0, <3>1, <4>1 DEF OwnRegistrations, Registrations, StrandCoords, Msg, Coord
    <3> QED
      BY <2>2, <3>2, <3>3, <3>4
  <2> QED
    BY <2>1, <2>2
<1> HIDE DEF sent
<1>3. Posts(k, sent)
  BY <1>0, <1>1, SentIsPosted, BagOne
<1> QED
  BY <1>0, <1>1, <1>2, <1>3, ReceivedIsRead DEF Posts, OwnRegistrations, Datagrams

AckOf(s) == [to |-> s.kid, type |-> "ack", body |-> [pid |-> s.pid, by |-> kids[coord].pid]]

LEMMA RegistrationMail ==
    ASSUME SmpBase, handleRegistrationRequest
    PROVE  LET s == Head(inbox[coord]).body IN
           /\ inbox[coord] # <<>> /\ Head(inbox[coord]) \in Registrations /\ s \in StrandCoords
           /\ Posts(coord, SearchResponses \cup {AckOf(s)}) /\ Reads(coord)
           /\ inbox' = [inbox EXCEPT ![coord] = Tail(inbox[coord])]
           /\ SearchResponses \cup {AckOf(s)} \subseteq Datagrams
<1>0. MailTyped /\ KeptTyped /\ GoneForgotten /\ coord \in Kid /\ kids[coord].pid \in Nat
  BY BaseKids
<1> DEFINE s == Head(inbox[coord]).body
           found == {r \in BagToSet(searchers) : r.tag = s.tag}
           response(r) == SearchResponse(r.requestor, s)
           answer == [m \in {response(r) : r \in found} |->
                         searchers[CHOOSE r \in found : m = response(r)]]
           ack == Msg(s.kid, "ack", [pid |-> s.pid, by |-> kids[coord].pid])
<1>1. /\ inbox[coord] # <<>> /\ Head(inbox[coord]).type = "registration"
      /\ Received(coord, "registration")
      /\ inbox' = [inbox EXCEPT ![coord] = Tail(inbox[coord])]
      /\ SendMessages(coord, (answer (+) SetToBag({ack})))
  BY DEF handleRegistrationRequest, Received, Body
<1>2. Head(inbox[coord]) \in Registrations
  BY <1>0, <1>1, Reading, KindsOfMail
<1>3. s \in StrandCoords
  BY <1>2 DEF Registrations
<1>4. ack = AckOf(s) /\ ack \in Acks
  <2>1. s.kid \in Strand /\ s.pid \in Nat
    BY <1>3 DEF StrandCoords
  <2> QED
    BY <1>0, <2>1 DEF AckOf, Msg, Acks
<1>5. ASSUME NEW r \in found PROVE response(r) \in SearchResponses
  <2>1. r \in Searches /\ r.tag = s.tag
    BY <1>0 DEF KeptTyped
  <2>2. r.requestor \in Workers /\ s.tag \in Tags
    BY <2>1 DEF Searches
  <2>3. s.tag # NoTag
    BY <2>2, KidNames
  <2> QED
    BY <1>3, <2>2, <2>3 DEF SearchResponses, SearchResponse, Msg
<1>6. BagToSet(answer) \subseteq SearchResponses
  BY <1>5 DEF BagToSet
<1> HIDE DEF answer, ack
<1>7. BagToSet((answer (+) SetToBag({ack}))) \subseteq SearchResponses \cup {AckOf(s)}
  BY <1>4, <1>6, BagSum, BagOne
<1>8. Posts(coord, SearchResponses \cup {AckOf(s)})
  BY <1>0, <1>1, <1>7, SentIsPosted DEF Posts
<1>9. Reads(coord)
  BY <1>0, <1>1, ReceivedIsRead
<1> QED
  BY <1>1, <1>2, <1>3, <1>4, <1>8, <1>9 DEF Datagrams

LEMMA SearchMail ==
    ASSUME SmpBase, handleSearchRequest
    PROVE  /\ inbox[coord] # <<>> /\ Head(inbox[coord]) \in SearchRequests
           /\ Head(inbox[coord]).body \in Searches
           /\ Posts(coord, SearchResponses) /\ Reads(coord)
           /\ inbox' = [inbox EXCEPT ![coord] = Tail(inbox[coord])]
           /\ SearchResponses \subseteq Datagrams
<1>0. MailTyped /\ KeptTyped /\ GoneForgotten /\ coord \in Kid
  BY BaseKids
<1> DEFINE q == Head(inbox[coord]).body
           match == {s \in strands : s.tag = q.tag}
<1>1. /\ inbox[coord] # <<>> /\ Head(inbox[coord]).type = "searchRequest"
      /\ Received(coord, "searchRequest")
      /\ inbox' = [inbox EXCEPT ![coord] = Tail(inbox[coord])]
      /\ out' = out \/ \E s \in match : Send(coord, SearchResponse(q.requestor, s))
  BY DEF handleSearchRequest, Received, Body
<1>2. Head(inbox[coord]) \in SearchRequests
  BY <1>0, <1>1, Reading, KindsOfMail
<1>3. q \in Searches /\ q.requestor \in Workers /\ q.tag \in Tags
  BY <1>2 DEF SearchRequests, Searches
<1>4. ASSUME NEW s \in match PROVE SearchResponse(q.requestor, s) \in SearchResponses
  <2>1. s \in StrandCoords /\ s.tag # NoTag
    BY <1>0, <1>3, KidNames DEF KeptTyped
  <2> QED
    BY <1>3, <2>1 DEF SearchResponses, SearchResponse, Msg
<1> HIDE DEF q, match
<1>5. Posts(coord, SearchResponses)
  <2>1. CASE out' = out
    BY <1>0, <2>1, SentIsPosted DEF Posts
  <2>2. ASSUME NEW s \in match, Send(coord, SearchResponse(q.requestor, s))
        PROVE  Posts(coord, SearchResponses)
    <3>1. Posts(coord, {SearchResponse(q.requestor, s)})
      BY <1>0, <2>2, SentIsPosted
    <3> QED
      BY <1>4, <3>1 DEF Posts
  <2> QED
    BY <1>1, <2>1, <2>2
<1> QED
  BY <1>0, <1>1, <1>2, <1>3, <1>5, ReceivedIsRead DEF Datagrams, q

\* What is left in a socket keeps its order.
LEMMA Shift ==
    ASSUME MailTyped, NEW k \in Kid, Reads(k), NEW h \in Kid
    PROVE  \E d \in {0, 1} : \A i \in 1 .. Len(inbox'[h]) :
              i \in Nat /\ i + d \in 1 .. Len(inbox[h]) /\ inbox'[h][i] = inbox[h][i + d]
<1>1. inbox[h] \in Seq(Datagrams)
  BY DEF MailTyped
<1>2. PICK q \in Seq(Datagrams) : q = inbox[h]
  BY <1>1
<1>3. inbox'[h] = q \/ inbox'[h] = <<>> \/ (q # <<>> /\ inbox'[h] = Tail(q))
  BY <1>2 DEF Reads, MailTyped
<1>4. CASE inbox'[h] = q
  <2>1. \A i \in 1 .. Len(q) : i \in Nat /\ i + 0 \in 1 .. Len(q) /\ q[i] = q[i + 0]
    OBVIOUS
  <2> QED
    BY <1>2, <1>4, <2>1
<1>5. CASE inbox'[h] = <<>>
  <2>1. 1 .. Len(inbox'[h]) = {}
    BY <1>5
  <2> QED
    BY <2>1
<1>6. CASE q # <<>> /\ inbox'[h] = Tail(q)
  <2>1. /\ Len(q) \in Nat /\ Len(Tail(q)) = Len(q) - 1
        /\ \A i \in 1 .. Len(q) - 1 : Tail(q)[i] = q[i + 1]
    BY <1>6, HeadTail
  <2>2. \A i \in 1 .. Len(Tail(q)) : i \in Nat /\ i + 1 \in 1 .. Len(q) /\ Tail(q)[i] = q[i + 1]
    BY <2>1
  <2> QED
    BY <1>2, <1>6, <2>2
<1> QED
  BY <1>3, <1>4, <1>5, <1>6

\* Listening sockets.
ListenRequest(w, id, a) ==
    [to |-> coord, type |-> "listenRequest", body |-> [requestor |-> w, mapId |-> id, addr |-> a]]
ListenResponse(w, id, a) ==
    [to |-> w, type |-> "listenResponse", body |-> [mapId |-> id, addr |-> a]]

\* AddToMap() finds a number that is not in use.
LEMMA FreeId ==
    ASSUME SmpBase, NEW w \in Workers, asks[w] < workload.max
    PROVE  AddToMap(w) \in Nat /\ \A r \in asked[w] : r.id # AddToMap(w)
<1> DEFINE ids == {r.id : r \in asked[w]}
           S == (0 .. workload.max) \ ids
<1>1. /\ IsFiniteSet(asked[w]) /\ Cardinality(asked[w]) <= asks[w]
      /\ asks[w] \in Nat /\ workload.max \in Nat
  BY LoadNames DEF SmpBase, KeptTyped, MasterKnows
<1>2. IsFiniteSet(ids) /\ Cardinality(ids) <= Cardinality(asked[w])
  <2> DEFINE f == [r \in asked[w] |-> r.id]
  <2>1. f \in Surjection(asked[w], ids)
    BY DEF Surjection
  <2> QED
    BY <1>1, <2>1, FS_Surjection
<1>3. Cardinality(asked[w]) \in Nat /\ Cardinality(ids) \in Nat
  BY <1>1, <1>2, FS_CardinalityType
<1>4. IsFiniteSet(0 .. workload.max) /\ Cardinality(0 .. workload.max) = workload.max + 1
  <2>1. 0 \in Int /\ workload.max \in Int /\ ~(0 > workload.max) /\ workload.max - 0 + 1 = workload.max + 1
    BY <1>1
  <2> QED
    BY <2>1, FS_Interval
<1>5. S # {}
  <2> SUFFICES ASSUME 0 .. workload.max \subseteq ids PROVE FALSE
    OBVIOUS
  <2>1. Cardinality(0 .. workload.max) <= Cardinality(ids)
    BY <1>2, FS_Subset
  <2> QED
    BY <1>1, <1>2, <1>3, <1>4, <2>1
<1>6. Min(S) \in S
  <2>1. S \in SUBSET Nat
    BY <1>1
  <2> QED
    BY <1>5, <2>1, Least
<1>7. AddToMap(w) = Min(S)
  BY DEF AddToMap
<1>8. Min(S) \in Nat /\ Min(S) \notin ids
  BY <1>1, <1>6
<1> QED
  BY <1>7, <1>8

LEMMA JoinMail ==
    ASSUME SmpBase, NEW w \in Workers, NEW a \in Addrs, JoinSharedListen(w, a)
    PROVE  /\ w \in Kid /\ Alive(w) /\ inbox' = inbox /\ Reads(w)
           /\ asks' = [asks EXCEPT ![w] = asks[w] + 1]
           /\ UNCHANGED <<joined, port, acked, file, strands, searchers, inquirers, answers, lastId>>
           /\ \E id \in Nat :
                 LET m == ListenRequest(w, id, a) IN
                 /\ \A r \in asked[w] : r.id # id
                 /\ asked' = [asked EXCEPT ![w] = asked[w] \cup {[id |-> id, addr |-> a]}]
                 /\ m \in ListenRequests /\ m \in Datagrams
                 /\ out' = [out EXCEPT ![w] = (out[w] (+) SetToBag({m}))]
                 /\ Posts(w, {m})
<1>0. MailTyped /\ KeptTyped /\ GoneForgotten /\ w \in Kid /\ coord \in Kid
  BY BaseKids, KidNames
<1>1. /\ port[w] # "none" /\ asks[w] < workload.max
      /\ asks' = [asks EXCEPT ![w] = asks[w] + 1]
      /\ inbox' = inbox
      /\ UNCHANGED <<joined, port, acked, file, strands, searchers, inquirers, answers, lastId>>
  BY DEF JoinSharedListen, coordVars
<1>2. PICK id : id = AddToMap(w)
  OBVIOUS
<1>3. id \in Nat /\ \A r \in asked[w] : r.id # id
  BY <1>1, <1>2, FreeId
<1>4. /\ asked' = [asked EXCEPT ![w] = asked[w] \cup {[id |-> id, addr |-> a]}]
      /\ Send(w, ListenRequest(w, id, a))
  BY <1>2 DEF JoinSharedListen, Msg, ListenRequest
<1>5. ListenRequest(w, id, a) \in ListenRequests /\ ListenRequest(w, id, a) \in Datagrams
  BY <1>3 DEF ListenRequest, ListenRequests, Datagrams
<1>6. Posts(w, {ListenRequest(w, id, a)}) /\ Reads(w)
  BY <1>0, <1>1, <1>4, SentIsPosted, ReceivedIsRead
<1>7. out' = [out EXCEPT ![w] = (out[w] (+) SetToBag({ListenRequest(w, id, a)}))]
  BY <1>4 DEF Send, SendMessages
<1>8. Alive(w)
  BY <1>0, <1>1 DEF GoneForgotten
<1> QED
  BY <1>0, <1>1, <1>3, <1>4, <1>5, <1>6, <1>7, <1>8

\* The Coordinator opens the socket and answers.
LEMMA ListenMail ==
    ASSUME SmpBase, handleSharedListenRequest, port' = port
    PROVE  LET r == Head(inbox[coord]).body
               m == ListenResponse(r.requestor, r.mapId, r.addr) IN
           /\ inbox[coord] # <<>> /\ Head(inbox[coord]) \in ListenRequests
           /\ inbox' = [inbox EXCEPT ![coord] = Tail(inbox[coord])] /\ Reads(coord)
           /\ m \in ListenResponses /\ m \in Datagrams /\ Posts(coord, {m})
           /\ out' = [out EXCEPT ![coord] = (out[coord] (+) SetToBag({m}))]
           /\ UNCHANGED <<asked, asks, joined, port, acked, file, strands, searchers, inquirers,
                          answers, lastId>>
<1>0. MailTyped /\ KeptTyped /\ GoneForgotten /\ coord \in Kid
  BY BaseKids
<1> DEFINE r == Head(inbox[coord]).body
           m == ListenResponse(r.requestor, r.mapId, r.addr)
<1>a. ~(inbox[coord] # <<>> /\ PortDies(coord))
  <2>1. inbox[coord] # <<>> => port[coord] = "listening"
    BY <1>0, Reading
  <2>2. PortDies(coord) => port'[coord] = "dead"
    BY <1>0 DEF PortDies, KeptTyped
  <2> QED
    BY <2>1, <2>2
<1>b. ~(inbox[coord] # <<>> /\ CoordinatorDies)
  BY <1>a DEF CoordinatorDies
<1>1. /\ inbox[coord] # <<>> /\ Head(inbox[coord]).type = "listenRequest"
      /\ Received(coord, "listenRequest")
      /\ inbox' = [inbox EXCEPT ![coord] = Tail(inbox[coord])]
      /\ Send(coord, Msg(r.requestor, "listenResponse", [mapId |-> r.mapId, addr |-> r.addr]))
      /\ UNCHANGED <<asked, asks, joined, port, acked, file, strands, searchers, inquirers,
                     answers, lastId>>
  BY <1>b DEF handleSharedListenRequest, Received, Body, strandVars
<1>2. Head(inbox[coord]) \in ListenRequests
  BY <1>0, <1>1, Reading, KindsOfMail
<1>3. r.requestor \in Workers /\ r.mapId \in Nat /\ r.addr \in Addrs
  BY <1>2 DEF ListenRequests
<1>4. m \in ListenResponses /\ m \in Datagrams
  BY <1>3 DEF ListenResponse, ListenResponses, Datagrams
<1>5. Send(coord, m)
  BY <1>1 DEF Msg, ListenResponse
<1> HIDE DEF m
<1>6. /\ Posts(coord, {m}) /\ Reads(coord)
      /\ out' = [out EXCEPT ![coord] = (out[coord] (+) SetToBag({m}))]
  BY <1>0, <1>1, <1>5, SentIsPosted, ReceivedIsRead DEF Send, SendMessages
<1> QED
  BY <1>1, <1>2, <1>4, <1>6 DEF m

\* A worker gets an answer, or its Port job ends with it.
LEMMA JoinedMail ==
    ASSUME SmpBase, NEW w \in Workers, SharedListenJoined(w)
    PROVE  LET n == Head(inbox[w])
               pending == {r \in asked[w] : r.id = n.body.mapId} IN
           /\ w \in Kid /\ inbox[w] # <<>> /\ n \in ListenResponses /\ n \in Under
           /\ Posts(w, {}) /\ Reads(w) /\ out' = out
           /\ asked' = [asked EXCEPT ![w] = asked[w] \ pending]
           /\ joined' = [joined EXCEPT ![w] = joined[w] \cup {<<r.addr, n.body.addr>> : r \in pending}]
           /\ \/ inbox' = [inbox EXCEPT ![w] = Tail(inbox[w])] /\ port' = port
              \/ inbox' = [inbox EXCEPT ![w] = <<>>] /\ port' = [port EXCEPT ![w] = "dead"]
           /\ UNCHANGED <<asks, acked, file, strands, searchers, inquirers, answers, lastId>>
<1>0. MailTyped /\ KeptTyped /\ GoneForgotten /\ w \in Kid /\ coord \in Kid
  BY BaseKids, KidNames
<1> DEFINE n == Head(inbox[w])
           pending == {r \in asked[w] : r.id = n.body.mapId}
<1>1. /\ inbox[w] # <<>> /\ n.type = "listenResponse" /\ out' = out
      /\ asked' = [asked EXCEPT ![w] = asked[w] \ pending]
      /\ joined' = [joined EXCEPT ![w] = joined[w] \cup {<<r.addr, n.body.addr>> : r \in pending}]
      /\ UNCHANGED <<asks, acked, file, strands, searchers, inquirers, answers, lastId>>
      /\ \/ Received(w, "listenResponse") /\ port' = port
         \/ PortDies(w)
  BY DEF SharedListenJoined, Body, coordVars
<1>2. n \in ListenResponses /\ n \in Under
  BY <1>0, <1>1, Reading, KindsOfMail
<1>3. Posts(w, {}) /\ Reads(w)
  BY <1>0, <1>1, SentIsPosted, ReceivedIsRead
<1>4. \/ inbox' = [inbox EXCEPT ![w] = Tail(inbox[w])] /\ port' = port
      \/ inbox' = [inbox EXCEPT ![w] = <<>>] /\ port' = [port EXCEPT ![w] = "dead"]
  BY <1>1 DEF Received, PortDies
<1> QED
  BY <1>0, <1>1, <1>2, <1>3, <1>4

\* Inquiries.
Inquiry(s, id) ==
    [to |-> s, type |-> "inquiry", body |-> [id |-> id, by |-> kids[coord].pid, of |-> s]]
InquirerRecord == [for: [requestor: Workers, id: Nat], id: Nat, todo: SUBSET Strand]

\* Inquirer i asks the next strand, or is done.
Advances(i) ==
    \/ inquirers' = inquirers \ {i} /\ out' = out /\ lastId' = lastId
    \/ \E x \in InquirerRecord :
          LET m == Inquiry(Min(x.todo), x.id) IN
          /\ x.id = lastId[coord] + 1 /\ x.todo # {} /\ Min(x.todo) \in Strand
          /\ inquirers' = (inquirers \ {i}) \cup {x}
          /\ lastId' = [lastId EXCEPT ![coord] = lastId[coord] + 1]
          /\ m \in Inquiries /\ m \in Datagrams /\ Posts(coord, {m})

LEMMA InquireMail ==
    ASSUME SmpBase, NEW i \in inquirers, NEW done, inquire(i, done)
    PROVE  Advances(i)
<1>0. MailTyped /\ KeptTyped /\ coord \in Kid /\ kids[coord].pid \in Nat /\ lastId[coord] \in Nat
  BY BaseKids DEF KeptTyped
<1>1. i \in InquirerRecord
  BY <1>0 DEF KeptTyped, InquirerRecord
<1> DEFINE x == [i EXCEPT !.todo = i.todo \ done, !.id = lastId[coord] + 1]
<1>2. x \in InquirerRecord /\ x.id = lastId[coord] + 1 /\ x.todo \in SUBSET Strand
  <2>1. PICK t \in SUBSET Strand : t = i.todo \ done
    <3>1. i.todo \in SUBSET Strand
      BY <1>1 DEF InquirerRecord
    <3> QED
      BY <3>1
  <2>2. PICK n \in Nat : n = lastId[coord] + 1
    BY <1>0
  <2>3. [i EXCEPT !.todo = t, !.id = n] \in InquirerRecord
    BY <1>1 DEF InquirerRecord
  <2>4. x = [i EXCEPT !.todo = t, !.id = n]
    BY <2>1, <2>2
  <2>5. x.id = n /\ x.todo = t
    BY <1>1, <2>4 DEF InquirerRecord
  <2> QED
    BY <2>1, <2>2, <2>3, <2>4, <2>5
<1>3. \/ x.todo = {} /\ inquirers' = inquirers \ {i} /\ UNCHANGED <<out, lastId>>
      \/ /\ x.todo # {} /\ inquirers' = (inquirers \ {i}) \cup {x}
         /\ lastId' = [lastId EXCEPT ![coord] = lastId[coord] + 1]
         /\ Send(coord, InquiryOf(x))
  BY DEF inquire
<1> HIDE DEF x
<1>4. CASE x.todo = {}
  BY <1>3, <1>4 DEF Advances
<1>5. CASE x.todo # {}
  <2>1. Min(x.todo) \in Strand
    <3>1. x.todo \in SUBSET Nat
      BY <1>2, KidNames
    <3> QED
      BY <1>2, <1>5, <3>1, Least
  <2>2. PICK s \in Strand : s = Min(x.todo)
    BY <2>1
  <2>3. InquiryOf(x) = Inquiry(s, x.id)
    BY <2>2 DEF InquiryOf, Inquiry, Msg
  <2>4. Inquiry(s, x.id) \in Inquiries
    <3>1. x.id \in Nat
      BY <1>0, <1>2
    <3> QED
      BY <1>0, <3>1 DEF Inquiry, Inquiries, Questions
  <2>5. Inquiry(s, x.id) \in Datagrams
    BY <2>4 DEF Datagrams
  <2>6. Posts(coord, {Inquiry(s, x.id)})
    BY <1>0, <1>3, <1>5, <2>3, SentIsPosted
  <2> QED
    BY <1>2, <1>3, <1>5, <2>2, <2>4, <2>5, <2>6 DEF Advances
<1> QED
  BY <1>4, <1>5

\* An Inquirer moves on, in answer to a strand or not.
InquirerTakes(i) ==
    /\ Advances(i) /\ Reads(coord)
    /\ UNCHANGED <<asked, asks, joined, port, acked, file, strands, searchers>>
    /\ \/ answers' = answers
       \/ LET m == Head(inbox[coord]) IN
          /\ inbox[coord] # <<>> /\ m \in Answers /\ m \in Under /\ i.id = m.body.id
          /\ answers' = answers \cup {[asked |-> Min(i.todo), of |-> m.body.of,
                                       own |-> m.body.by = kids[coord].pid]}

LEMMA InquirerMail ==
    ASSUME SmpBase, NEW i \in inquirers,
           noteWroteHeader(i) \/ requestTimedOut(i)
    PROVE  InquirerTakes(i)
<1>0. MailTyped /\ coord \in Kid
  BY BaseKids
<1>1. /\ \E done : inquire(i, done)
      /\ inbox' = inbox /\ answers' = answers
      /\ UNCHANGED <<asked, asks, joined, port, acked, file, strands, searchers>>
  BY DEF noteWroteHeader, requestTimedOut, strandVars
<1>2. Advances(i)
  BY <1>1, InquireMail
<1>3. Reads(coord)
  BY <1>0, <1>1, ReceivedIsRead
<1> QED
  BY <1>1, <1>2, <1>3 DEF InquirerTakes

LEMMA AnswerMail ==
    ASSUME SmpBase, HandleRemoteAck
    PROVE  \/ \E i \in inquirers : InquirerTakes(i)
           \/ /\ Posts(coord, {}) /\ Reads(coord)
              /\ UNCHANGED <<asked, asks, joined, port, acked, file, strands, searchers,
                             inquirers, answers, lastId>>
<1>0. MailTyped /\ KeptTyped /\ GoneForgotten /\ coord \in Kid
  BY BaseKids
<1> DEFINE m == Head(inbox[coord])
           match == {i \in inquirers : i.id = m.body.id}
<1>1. /\ inbox[coord] # <<>> /\ m.type = "answer" /\ Received(coord, "answer")
      /\ UNCHANGED <<asked, asks, joined, port, acked, file, strands, searchers>>
      /\ \/ UNCHANGED <<inquirers, answers, out, lastId>>
         \/ \E i \in match :
               /\ answers' = answers \cup {[asked |-> Min(i.todo), of |-> m.body.of,
                                            own |-> m.body.by = kids[coord].pid]}
               /\ inquire(i, {Min(i.todo)})
  BY DEF HandleRemoteAck, Received, Body, strandVars
<1>2. m \in Answers /\ m \in Under
  BY <1>0, <1>1, Reading, KindsOfMail
<1>3. Reads(coord)
  BY <1>0, <1>1, ReceivedIsRead
<1>4. CASE UNCHANGED <<inquirers, answers, out, lastId>>
  BY <1>0, <1>1, <1>3, <1>4, SentIsPosted
<1>5. ASSUME NEW i \in match,
             answers' = answers \cup {[asked |-> Min(i.todo), of |-> m.body.of,
                                       own |-> m.body.by = kids[coord].pid]},
             inquire(i, {Min(i.todo)})
      PROVE  i \in inquirers /\ InquirerTakes(i)
  <2>1. i \in inquirers /\ i.id = m.body.id
    OBVIOUS
  <2>2. Advances(i)
    BY <1>5, <2>1, InquireMail
  <2> QED
    BY <1>1, <1>2, <1>3, <1>5, <2>1, <2>2 DEF InquirerTakes
<1> QED
  BY <1>1, <1>4, <1>5

AnswerTo(m) == [m EXCEPT !.to = coord, !.type = "answer"]

LEMMA RespondMail ==
    ASSUME SmpBase, NEW k \in workload.kids \ {coord}, respond(k)
    PROVE  LET m == Head(inbox[k]) IN
           /\ inbox[k] # <<>> /\ m \in Inquiries /\ m \in Under /\ k \in Kid
           /\ AnswerTo(m) \in Answers /\ AnswerTo(m) \in Datagrams /\ AnswerTo(m).body = m.body
           /\ Posts(k, {AnswerTo(m)}) /\ Reads(k)
           /\ UNCHANGED <<asked, asks, joined, port, acked, file, strands, searchers,
                          inquirers, answers, lastId>>
<1>0. MailTyped /\ GoneForgotten /\ k \in Kid
  BY BaseKids
<1>1. /\ inbox[k] # <<>> /\ Head(inbox[k]).type = "inquiry" /\ Received(k, "inquiry")
      /\ Send(k, AnswerTo(Head(inbox[k])))
      /\ UNCHANGED <<asked, asks, joined, port, acked, file, strands, searchers,
                     inquirers, answers, lastId>>
  BY DEF respond, Received, AnswerTo, strandVars, coordVars
<1>2. Head(inbox[k]) \in Inquiries /\ Head(inbox[k]) \in Under
  BY <1>0, <1>1, Reading, KindsOfMail
<1>3. PICK m \in Inquiries : m = Head(inbox[k])
  BY <1>2
<1>4. AnswerTo(m) \in Answers /\ AnswerTo(m).body = m.body
  BY DEF AnswerTo, Answers, Inquiries
<1>5. AnswerTo(m) \in Datagrams
  BY <1>4 DEF Datagrams
<1> QED
  BY <1>0, <1>1, <1>2, <1>3, <1>4, <1>5, SentIsPosted, ReceivedIsRead

\* Steps that have nothing to do with registrations, inquiries and listening
\* sockets, except that they may lose datagrams, Inquirers, or begin one, or end
\* the Coordinator job.
QuietMail == SearchResponses \cup MgrRequests \cup MgrAcks
Quiet(j, k, N) ==
    /\ Posts(j, N) /\ Reads(k) /\ N \subseteq QuietMail /\ N \subseteq Datagrams
    /\ out' = out \/ Alive(j)
    /\ UNCHANGED <<acked, asked, joined, answers>>
    /\ lastId'[coord] = lastId[coord]
    /\ \A i \in inquirers' : i \in inquirers \/ i.id = 0
SomeQuiet == \E j \in Kid, k \in Kid, N \in SUBSET Datagrams : Quiet(j, k, N)

LEMMA QuietUds ==
    ASSUME SmpBase, NEW k \in workload.kids, NEW m \in BagToSet(out[k]), GaveUp(k, m)
    PROVE  SomeQuiet
<1>0. MailTyped /\ k \in Kid /\ Alive(k)
  BY BaseKids, BagNone DEF GoneForgotten
<1>1. /\ out' = [out EXCEPT ![k] = (out[k] (-) SetToBag({m}))] /\ inbox' = inbox
      /\ UNCHANGED <<strands, acked, asked, joined, asks, answers, inquirers, lastId>>
  BY DEF GaveUp, strandVars, coordVars
<1>2. Posts(k, {}) /\ Reads(k)
  BY <1>0, <1>1, DroppedIsPosted, ReceivedIsRead
<1>3. Quiet(k, k, {})
  BY <1>0, <1>1, <1>2 DEF Quiet
<1> QED
  BY <1>0, <1>3 DEF SomeQuiet

LEMMA QuietCoordinator ==
    ASSUME SmpBase,
           \/ handleSearchRequest \/ handleCacheMgrRequest
           \/ handleSharedListenRequest /\ port' # port
           \/ \E i \in inquirers : noteCommClosed(i)
    PROVE  SomeQuiet
<1>0. MailTyped /\ GoneForgotten /\ KeptTyped /\ coord \in Kid
  BY BaseKids
<1>1. CASE handleSearchRequest
  <2>1. UNCHANGED <<strands, acked, asked, joined, asks, answers, inquirers, lastId>>
    BY <1>1 DEF handleSearchRequest, strandVars
  <2>2. Quiet(coord, coord, SearchResponses) /\ SearchResponses \in SUBSET Datagrams
    <3>1. Alive(coord)
      BY <1>0, <1>1, SearchMail, Reading
    <3> QED
      BY <1>1, <2>1, <3>1, SearchMail DEF Quiet, QuietMail
  <2> QED
    BY <1>0, <2>2 DEF SomeQuiet
<1>2. CASE handleCacheMgrRequest
  <2> DEFINE r == Head(inbox[coord]).body
             m == Msg(r.requestor, "mgrAck", [id |-> r.id])
  <2>1. /\ inbox[coord] # <<>> /\ Head(inbox[coord]).type = "mgrRequest"
        /\ Received(coord, "mgrRequest")
        /\ UNCHANGED <<strands, acked, asked, joined, asks, answers, lastId>>
        /\ inquirers' = inquirers \cup {[for |-> r, id |-> 0, todo |-> {s.kid : s \in strands}]}
        /\ Send(coord, m)
    BY <1>2 DEF handleCacheMgrRequest, Received, Body, strandVars
  <2>2. Head(inbox[coord]) \in MgrRequests
    BY <1>0, <2>1, Reading, KindsOfMail
  <2>3. r.requestor \in Workers /\ r.id \in Nat
    BY <2>2 DEF MgrRequests
  <2>4. m \in MgrAcks
    BY <2>3 DEF MgrAcks, Msg
  <2>5. m \in Datagrams
    BY <2>4 DEF Datagrams
  <2> HIDE DEF m
  <2>6. Posts(coord, {m}) /\ Reads(coord)
    BY <1>0, <2>1, SentIsPosted, ReceivedIsRead
  <2>7. Quiet(coord, coord, {m})
    BY <1>0, <2>1, <2>4, <2>5, <2>6, Reading DEF Quiet, QuietMail
  <2> QED
    BY <1>0, <2>5, <2>7 DEF SomeQuiet
<1>3. CASE handleSharedListenRequest /\ port' # port
  <2>1. /\ PortDies(coord) /\ out' = out
        /\ UNCHANGED <<acked, asked, joined, asks, answers, inquirers, lastId>>
    BY <1>3 DEF handleSharedListenRequest, CoordinatorDies, strandVars
  <2>2. Posts(coord, {}) /\ Reads(coord)
    BY <1>0, <2>1, SentIsPosted, ReceivedIsRead
  <2>3. Quiet(coord, coord, {})
    BY <2>1, <2>2 DEF Quiet
  <2> QED
    BY <1>0, <2>3 DEF SomeQuiet
<1>4. ASSUME NEW i \in inquirers, noteCommClosed(i) PROVE SomeQuiet
  <2>1. /\ inbox' = inbox /\ out' = out /\ inquirers' = inquirers \ {i}
        /\ UNCHANGED <<strands, acked, asked, joined, asks, answers, lastId>>
    BY <1>4 DEF noteCommClosed, strandVars, ipcVars
  <2>2. Posts(coord, {}) /\ Reads(coord)
    BY <1>0, <2>1, SentIsPosted, ReceivedIsRead
  <2>3. Quiet(coord, coord, {})
    BY <2>1, <2>2 DEF Quiet
  <2> QED
    BY <1>0, <2>3 DEF SomeQuiet
<1> QED
  BY <1>1, <1>2, <1>3, <1>4

LEMMA QuietWorker ==
    ASSUME SmpBase, NEW w \in Workers,
           \/ HandleOpenResponse(w) \/ ForwarderAck(w)
           \/ \E t \in Tags : OpenTimeout(w, t)
           \/ ForwarderStart(w) \/ ForwarderTimeout(w)
    PROVE  SomeQuiet
<1>0. MailTyped /\ KeptTyped /\ GoneForgotten /\ w \in Kid /\ w # coord /\ coord \in Kid /\ lastId[w] \in Nat
  BY BaseKids, KidNames DEF KeptTyped
<1>1. CASE ForwarderStart(w)
  <2> DEFINE m == Msg(coord, "mgrRequest", [requestor |-> w, id |-> lastId[w] + 1])
  <2>1. /\ inbox' = inbox /\ Send(w, m) /\ lastId' = [lastId EXCEPT ![w] = lastId[w] + 1]
        /\ UNCHANGED <<strands, acked, asked, joined, answers, inquirers>>
    BY <1>1 DEF ForwarderStart, coordVars
  <2>2. m \in MgrRequests
    BY <1>0 DEF MgrRequests, Msg
  <2>3. m \in Datagrams
    BY <2>2 DEF Datagrams
  <2> HIDE DEF m
  <2>4. Posts(w, {m}) /\ Reads(w) /\ lastId'[coord] = lastId[coord]
    BY <1>0, <2>1, SentIsPosted, ReceivedIsRead DEF KeptTyped
  <2>5. Quiet(w, w, {m})
    <3>1. Alive(w)
      BY <1>0, <1>1 DEF ForwarderStart, GoneForgotten
    <3> QED
      BY <3>1, <2>1, <2>2, <2>3, <2>4 DEF Quiet, QuietMail
  <2> QED
    BY <1>0, <2>3, <2>5 DEF SomeQuiet
<1>2. CASE ~ForwarderStart(w)
  <2>1. /\ out' = out
        /\ inbox' = inbox \/ \E t : Received(w, t)
        /\ UNCHANGED <<strands, acked, asked, joined, asks, answers, inquirers, lastId>>
    BY <1>2 DEF HandleOpenResponse, ForwarderAck, OpenTimeout, ForwarderTimeout,
        ipcVars, coordVars
  <2>2. Posts(w, {}) /\ Reads(w)
    BY <1>0, <2>1, SentIsPosted, ReceivedIsRead
  <2>3. Quiet(w, w, {})
    BY <2>1, <2>2 DEF Quiet
  <2> QED
    BY <1>0, <2>3 DEF SomeQuiet
<1> QED
  BY <1>1, <1>2

\* Every step of a process is one of these.
LEMMA ActsOnMail ==
    ASSUME SmpBase, ProcessActs
    PROVE  \/ \E k \in workload.kids : Boot(k)
           \/ \E k \in workload.kids : \E m \in BagToSet(out[k]) : Wrote(k, m)
           \/ SomeQuiet
           \/ handleRegistrationRequest
           \/ \E k \in workload.kids \ {coord} : handleRegistrationResponse(k)
           \/ \E k \in workload.kids \ {coord} : respond(k)
           \/ \E w \in Workers, a \in Addrs : JoinSharedListen(w, a)
           \/ handleSharedListenRequest /\ port' = port
           \/ \E w \in Workers : SharedListenJoined(w)
           \/ \E i \in inquirers : InquirerTakes(i)
<1>1. ASSUME NEW k \in workload.kids, NEW m \in BagToSet(out[k]), GaveUp(k, m) PROVE SomeQuiet
  BY <1>1, QuietUds
<1>2. ASSUME NEW i \in inquirers, InquirerActs(i)
      PROVE  SomeQuiet \/ \E x \in inquirers : InquirerTakes(x)
  BY <1>2, QuietCoordinator, InquirerMail DEF InquirerActs
<1>3. ASSUME HandleRemoteAck PROVE SomeQuiet \/ \E x \in inquirers : InquirerTakes(x)
  <2>1. CASE /\ Posts(coord, {}) /\ Reads(coord)
             /\ UNCHANGED <<asked, asks, joined, port, acked, file, strands, searchers,
                            inquirers, answers, lastId>>
    <3>1. inbox[coord] # <<>>
      BY <1>3 DEF HandleRemoteAck, Received
    <3>2. coord \in Kid /\ Alive(coord)
      BY <3>1, BaseKids, Reading
    <3>3. Quiet(coord, coord, {})
      BY <2>1, <3>2 DEF Quiet
    <3> QED
      BY <3>2, <3>3 DEF SomeQuiet
  <2> QED
    BY <1>3, <2>1, AnswerMail
<1>4. ASSUME NEW w \in Workers, WorkerActs(w)
      PROVE  \/ SomeQuiet \/ SharedListenJoined(w)
             \/ \E a \in Addrs : JoinSharedListen(w, a)
  BY <1>4, QuietWorker DEF WorkerActs
<1>5. ASSUME CoordinatorReceives
      PROVE  \/ SomeQuiet \/ handleRegistrationRequest
             \/ handleSharedListenRequest /\ port' = port
             \/ \E x \in inquirers : InquirerTakes(x)
  BY <1>3, <1>5, QuietCoordinator DEF CoordinatorReceives
<1> QED
  BY <1>1, <1>2, <1>4, <1>5 DEF ProcessActs, KidActs, StrandActs

-----------------------------------------------------------------------------
(* What processes keep                                                     *)

\* What the end of the Coordinator job makes of its lists.
JobEnds == strands' = {} /\ searchers' = EmptyBag /\ PortDies(coord)

\* Which handlers change what.
Changes ==
    /\ strands' = strands \/ handleRegistrationRequest \/ JobEnds
    /\ \/ searchers' = searchers \/ JobEnds
       \/ handleRegistrationRequest \/ handleSearchRequest
    /\ acked' = acked \/ \E k \in workload.kids \ {coord} : handleRegistrationResponse(k)
    /\ \/ file' = file \/ \E k \in workload.kids : Boot(k)
       \/ \E w \in Workers : HandleOpenResponse(w) \/ \E t \in Tags : OpenTimeout(w, t)
    /\ \/ asked' = asked /\ joined' = joined
       \/ \E w \in Workers : SharedListenJoined(w) \/ \E a \in Addrs : JoinSharedListen(w, a)
    /\ \/ asks' = asks
       \/ \E w \in Workers : /\ asks' = [asks EXCEPT ![w] = asks[w] + 1]
                             /\ asked' = asked \/ \E a \in Addrs : JoinSharedListen(w, a)
    /\ \/ inquirers' \subseteq inquirers \/ handleCacheMgrRequest
       \/ \E i \in inquirers : \E done : inquire(i, done)
    /\ \/ lastId' = lastId \/ \E w \in Workers : ForwarderStart(w)
       \/ \E i \in inquirers : \E done : inquire(i, done)
    /\ \/ port' = port
       \/ \E k \in workload.kids : Boot(k)
       \/ \E k \in Kid : inbox[k] # <<>> /\ PortDies(k)

LEMMA ActsChange ==
    ASSUME ProcessActs
    PROVE  Changes
<1>0. Workers \subseteq Kid /\ coord \in Kid
  BY KidNames
<1>1. ASSUME NEW k \in workload.kids, KidActs(k) PROVE Changes
  BY <1>1 DEF KidActs, Boot, Wrote, GaveUp, strandVars, coordVars, Changes
<1>2. ASSUME NEW k \in workload.kids \ {coord}, StrandActs(k) PROVE Changes
  BY <1>2 DEF StrandActs, handleRegistrationResponse, respond, strandVars, coordVars, Changes
<1>3. ASSUME NEW w \in Workers, WorkerActs(w) PROVE Changes
  <2>1. CASE HandleOpenResponse(w) \/ \E t \in Tags : OpenTimeout(w, t)
    BY <2>1 DEF HandleOpenResponse, OpenTimeout, ipcVars, coordVars, Changes
  <2>2. CASE SharedListenJoined(w)
    <3>1. /\ UNCHANGED <<strands, searchers, acked, file, asks, inquirers, lastId>>
          /\ port' = port \/ (inbox[w] # <<>> /\ PortDies(w))
      BY <2>2 DEF SharedListenJoined, coordVars
    <3> QED
      BY <1>0, <2>2, <3>1 DEF Changes
  <2>3. CASE \E a \in Addrs : JoinSharedListen(w, a)
    BY <2>3 DEF JoinSharedListen, coordVars, Changes
  <2>4. CASE ForwarderAck(w) \/ ForwarderStart(w) \/ ForwarderTimeout(w)
    BY <2>4 DEF ForwarderAck, ForwarderStart, ForwarderTimeout, ipcVars, coordVars, Changes
  <2> QED
    BY <1>3, <2>1, <2>2, <2>3, <2>4 DEF WorkerActs
<1>4. ASSUME CoordinatorReceives PROVE Changes
  <2>1. CASE handleRegistrationRequest \/ handleSearchRequest
    BY <2>1 DEF handleRegistrationRequest, handleSearchRequest, strandVars, Changes
  <2>2. CASE handleSharedListenRequest
    <3>1. /\ UNCHANGED <<acked, file, asked, joined, asks, inquirers, lastId>>
          /\ \/ UNCHANGED <<strands, searchers, port>>
             \/ inbox[coord] # <<>> /\ JobEnds
      BY <2>2 DEF handleSharedListenRequest, CoordinatorDies, JobEnds, strandVars
    <3>2. JobEnds => PortDies(coord)
      BY DEF JobEnds
    <3> QED
      BY <1>0, <3>1, <3>2 DEF Changes
  <2>3. CASE handleCacheMgrRequest
    BY <2>3 DEF handleCacheMgrRequest, strandVars, Changes
  <2>4. CASE HandleRemoteAck
    <3>1. /\ UNCHANGED <<strands, searchers, acked, file, asked, joined, asks, port>>
          /\ \/ UNCHANGED <<inquirers, lastId>>
             \/ \E i \in inquirers : \E done : inquire(i, done)
      BY <2>4 DEF HandleRemoteAck, strandVars
    <3> QED
      BY <3>1 DEF Changes
  <2> QED
    BY <1>4, <2>1, <2>2, <2>3, <2>4 DEF CoordinatorReceives
<1>5. ASSUME NEW i \in inquirers, InquirerActs(i) PROVE Changes
  <2>1. /\ UNCHANGED <<strands, searchers, acked, file, asked, joined, asks, port>>
        /\ \/ inquirers' = inquirers \ {i} /\ lastId' = lastId
           \/ \E done : inquire(i, done)
    BY <1>5 DEF InquirerActs, noteWroteHeader, noteCommClosed, requestTimedOut,
        strandVars, ipcVars
  <2> QED
    BY <2>1 DEF Changes
<1> QED
  BY <1>1, <1>2, <1>3, <1>4, <1>5 DEF ProcessActs

\* The record of a strand is replaced; a registration without a tag keeps the
\* tag that is known.
LEMMA RegistrationKeeps ==
    ASSUME SmpBase, handleRegistrationRequest
    PROVE  LET s == Head(inbox[coord]).body IN
           /\ \E n \in StrandCoords :
                 /\ n.kid = s.kid /\ n.pid = s.pid
                 /\ n.tag = s.tag \/ \E r \in strands : r.tag = n.tag
                 /\ strands' = {r \in strands : r.kid # s.kid} \cup {n}
           /\ BagToSet(searchers') = {r \in BagToSet(searchers) : r.tag # s.tag}
<1>0. KeptTyped /\ kids[coord].pid \in Nat
  BY BaseKids
<1>1. PICK s \in StrandCoords : s = Head(inbox[coord]).body
  BY RegistrationMail
<1> DEFINE old == {r \in strands : r.kid = s.kid}
           kept == {r.tag : r \in old} \ {NoTag}
           tag == IF s.tag = NoTag /\ kept # {} THEN CHOOSE t \in kept : TRUE ELSE s.tag
           found == {r \in BagToSet(searchers) : r.tag = s.tag}
           n == [s EXCEPT !.tag = tag]
<1>2. /\ strands' = (strands \ old) \cup {n}
      /\ searchers' = [r \in BagToSet(searchers) \ found |-> searchers[r]]
  BY <1>1 DEF handleRegistrationRequest, Body
<1>3. BagToSet(searchers') = {r \in BagToSet(searchers) : r.tag # s.tag}
  <2>1. BagToSet(searchers') = BagToSet(searchers) \ found
    BY <1>2 DEF BagToSet
  <2> QED
    BY <2>1
<1>4. tag = s.tag \/ \E r \in old : tag = r.tag /\ r.tag # NoTag
  <2>1. CASE s.tag = NoTag /\ kept # {}
    <3>1. tag \in kept
      BY <2>1
    <3> QED
      BY <3>1
  <2> QED
    BY <2>1
<1>5. PICK t : t = tag
  OBVIOUS
<1>6. n = [s EXCEPT !.tag = t] /\ (t = s.tag \/ \E r \in strands : r.kid = s.kid /\ t = r.tag /\ r.tag # NoTag)
  BY <1>4, <1>5
<1>7. strands' = {r \in strands : r.kid # s.kid} \cup {n}
  BY <1>2
<1> HIDE DEF n, tag, kept, old, found
<1>8. n \in StrandCoords /\ n.kid = s.kid /\ n.pid = s.pid /\ n.tag = t
  <2>1. CASE t = s.tag
    <3>1. n = s
      BY <1>6, <2>1 DEF StrandCoords
    <3> QED
      BY <2>1, <3>1
  <2>2. ASSUME NEW r \in strands, r.kid = s.kid, t = r.tag, r.tag # NoTag
        PROVE  n \in StrandCoords /\ n.kid = s.kid /\ n.pid = s.pid /\ n.tag = t
    <3>1. r \in StrandCoords
      BY <1>0 DEF KeptTyped
    <3>2. s.kid \in Diskers /\ t = DbOf[s.kid] /\ t \in Tags
      BY <2>2, <3>1, KidNames DEF StrandCoords
    <3>3. s \in [kid: Strand, pid: Nat, tag: Tags \cup {NoTag}]
      BY DEF StrandCoords
    <3>4. n \in [kid: Strand, pid: Nat, tag: Tags \cup {NoTag}] /\ n.kid = s.kid /\ n.pid = s.pid /\ n.tag = t
      BY <1>6, <3>2, <3>3
    <3> QED
      BY <3>2, <3>4 DEF StrandCoords
  <2> QED
    BY <1>6, <2>1, <2>2
<1> QED
  BY <1>1, <1>3, <1>6, <1>7, <1>8

\* Inquirers, old and new.
LEMMA InquirersKept ==
    ASSUME SmpBase, ProcessActs
    PROVE  /\ inquirers' \subseteq InquirerRecord
           /\ \A i \in inquirers' : i.id # 0 => i.todo # {}
<1>0. KeptTyped /\ MailTyped /\ GoneForgotten /\ coord \in Kid /\ lastId[coord] \in Nat
  BY BaseKids DEF KeptTyped
<1>1. inquirers \subseteq InquirerRecord /\ \A i \in inquirers : i.id # 0 => i.todo # {}
  BY <1>0 DEF KeptTyped, InquirerRecord
<1>2. CASE inquirers' \subseteq inquirers
  BY <1>1, <1>2
<1>3. CASE handleCacheMgrRequest
  <2> DEFINE r == Head(inbox[coord]).body
             todo == {s.kid : s \in strands}
  <2>1. /\ inbox[coord] # <<>> /\ Head(inbox[coord]).type = "mgrRequest"
        /\ inquirers' = inquirers \cup {[for |-> r, id |-> 0, todo |-> todo]}
    BY <1>3 DEF handleCacheMgrRequest, Received, Body
  <2>2. Head(inbox[coord]) \in MgrRequests
    BY <1>0, <2>1, Reading, KindsOfMail
  <2>3. r \in [requestor: Workers, id: Nat] /\ todo \in SUBSET Strand
    BY <1>0, <2>2 DEF MgrRequests, KeptTyped, StrandCoords
  <2> HIDE DEF r, todo
  <2>4. [for |-> r, id |-> 0, todo |-> todo] \in InquirerRecord
    BY <2>3 DEF InquirerRecord
  <2> QED
    BY <1>1, <2>1, <2>4
<1>4. ASSUME NEW i \in inquirers, NEW done, inquire(i, done)
      PROVE  /\ inquirers' \subseteq InquirerRecord
             /\ \A x \in inquirers' : x.id # 0 => x.todo # {}
  <2>1. Advances(i)
    BY <1>4, InquireMail
  <2> QED
    BY <1>1, <2>1 DEF Advances
<1> QED
  BY <1>2, <1>3, <1>4, ActsChange DEF Changes

LEMMA IdsKept ==
    ASSUME SmpBase, ProcessActs
    PROVE  lastId' \in [Kid -> Nat]
<1>0. lastId \in [Kid -> Nat]
  BY DEF SmpBase, KeptTyped
<1>1. ASSUME NEW w \in Workers, ForwarderStart(w) PROVE lastId' \in [Kid -> Nat]
  BY <1>0, <1>1, KidNames DEF ForwarderStart
<1>2. ASSUME NEW i \in inquirers, NEW done, inquire(i, done) PROVE lastId' \in [Kid -> Nat]
  <2>1. Advances(i)
    BY <1>2, InquireMail
  <2>2. lastId' = lastId \/ lastId' = [lastId EXCEPT ![coord] = lastId[coord] + 1]
    BY <2>1 DEF Advances
  <2>3. coord \in Kid
    BY KidNames
  <2> QED
    BY <1>0, <2>2, <2>3
<1> QED
  BY <1>0, <1>1, <1>2, ActsChange DEF Changes

LEMMA AckedKept ==
    ASSUME SmpBase, ProcessActs
    PROVE  acked' \in [Kid -> Nat]
<1>0. acked \in [Kid -> Nat] /\ MailTyped /\ GoneForgotten
  BY DEF SmpBase, KeptTyped
<1>1. ASSUME NEW k \in workload.kids \ {coord}, handleRegistrationResponse(k)
      PROVE  acked' \in [Kid -> Nat]
  <2>1. /\ inbox[k] # <<>> /\ Head(inbox[k]).type = "ack"
        /\ acked' = acked \/ acked' = [acked EXCEPT ![k] = Head(inbox[k]).body.by]
    BY <1>1 DEF handleRegistrationResponse, Received, Body
  <2>2. k \in Kid
    BY BaseKids
  <2>3. Head(inbox[k]) \in Acks
    BY <1>0, <2>1, <2>2, Reading, KindsOfMail
  <2>4. Head(inbox[k]).body.by \in Nat
    BY <2>3 DEF Acks
  <2> QED
    BY <1>0, <2>1, <2>4
<1> QED
  BY <1>0, <1>1, ActsChange DEF Changes

LEMMA SearchersKept ==
    ASSUME SmpBase, ProcessActs
    PROVE  strands' \subseteq StrandCoords /\ BagToSet(searchers') \subseteq Searches
<1>0. strands \subseteq StrandCoords /\ BagToSet(searchers) \subseteq Searches
  BY DEF SmpBase, KeptTyped
<1>1. CASE handleRegistrationRequest
  BY <1>0, <1>1, RegistrationKeeps
<1>2. CASE handleSearchRequest
  <2>1. PICK q \in Searches : q = Head(inbox[coord]).body
    BY <1>2, SearchMail
  <2>2. strands' = strands /\ (searchers' = searchers \/ searchers' = (searchers (+) SetToBag({q})))
    BY <1>2, <2>1 DEF handleSearchRequest, Body
  <2> QED
    BY <1>0, <2>1, <2>2, BagSum, BagOne
<1>3. JobEnds => strands' = {} /\ BagToSet(searchers') = {}
  BY BagNone DEF JobEnds
<1>4. \/ strands' = strands \/ handleRegistrationRequest \/ JobEnds
  BY ActsChange DEF Changes
<1>5. \/ searchers' = searchers \/ JobEnds \/ handleRegistrationRequest \/ handleSearchRequest
  BY ActsChange DEF Changes
<1> QED
  BY <1>0, <1>1, <1>2, <1>3, <1>4, <1>5

LEMMA AskedKept ==
    ASSUME SmpBase, ProcessActs
    PROVE  /\ asked' \in [Workers -> SUBSET [id: Nat, addr: Addrs]]
           /\ joined' \in [Workers -> SUBSET (Addrs \X Addrs)]
           /\ asks' \in [Workers -> Nat]
           /\ \A w \in Workers : IsFiniteSet(asked'[w]) /\ Cardinality(asked'[w]) <= asks'[w]
<1>0. /\ asked \in [Workers -> SUBSET [id: Nat, addr: Addrs]]
      /\ joined \in [Workers -> SUBSET (Addrs \X Addrs)]
      /\ asks \in [Workers -> Nat]
      /\ \A w \in Workers : IsFiniteSet(asked[w]) /\ Cardinality(asked[w]) <= asks[w]
  BY DEF SmpBase, KeptTyped
<1>1. \A w \in Workers : Cardinality(asked[w]) \in Nat
  BY <1>0, FS_CardinalityType
<1>2. ASSUME asked' = asked, joined' = joined, NEW w \in Workers, asks' = [asks EXCEPT ![w] = asks[w] + 1]
      PROVE  /\ asks' \in [Workers -> Nat]
             /\ \A v \in Workers : IsFiniteSet(asked'[v]) /\ Cardinality(asked'[v]) <= asks'[v]
  <2>1. \A v \in Workers : asks'[v] \in Nat /\ asks'[v] >= asks[v]
    BY <1>0, <1>2
  <2> QED
    BY <1>0, <1>1, <1>2, <2>1
<1>3. ASSUME NEW w \in Workers, NEW a \in Addrs, JoinSharedListen(w, a)
      PROVE  /\ asked' \in [Workers -> SUBSET [id: Nat, addr: Addrs]] /\ joined' = joined
             /\ asks' \in [Workers -> Nat]
             /\ \A v \in Workers : IsFiniteSet(asked'[v]) /\ Cardinality(asked'[v]) <= asks'[v]
  <2>1. PICK id \in Nat : asked' = [asked EXCEPT ![w] = asked[w] \cup {[id |-> id, addr |-> a]}]
    <3>1. \E id \in Nat :
             LET m == ListenRequest(w, id, a) IN
             /\ \A r \in asked[w] : r.id # id
             /\ asked' = [asked EXCEPT ![w] = asked[w] \cup {[id |-> id, addr |-> a]}]
             /\ m \in ListenRequests /\ m \in Datagrams
             /\ out' = [out EXCEPT ![w] = (out[w] (+) SetToBag({m}))]
             /\ Posts(w, {m})
      BY <1>3, JoinMail
    <3> QED
      BY <3>1
  <2>2. asks' = [asks EXCEPT ![w] = asks[w] + 1] /\ joined' = joined
    BY <1>3, JoinMail
  <2>3. PICK r \in [id: Nat, addr: Addrs] : r = [id |-> id, addr |-> a]
    OBVIOUS
  <2>4. asked' = [asked EXCEPT ![w] = asked[w] \cup {r}]
    BY <2>1, <2>3
  <2>5. IsFiniteSet(asked[w] \cup {r}) /\ Cardinality(asked[w] \cup {r}) <= Cardinality(asked[w]) + 1
    <3>1. /\ IsFiniteSet(asked[w] \cup {r})
          /\ Cardinality(asked[w] \cup {r}) = IF r \in asked[w] THEN Cardinality(asked[w])
                                              ELSE Cardinality(asked[w]) + 1
      BY <1>0, FS_AddElement
    <3> QED
      BY <1>1, <3>1
  <2>6. /\ asked'[w] = asked[w] \cup {r} /\ asks'[w] = asks[w] + 1
        /\ \A v \in Workers : v # w => asked'[v] = asked[v] /\ asks'[v] = asks[v]
    BY <1>0, <2>2, <2>4
  <2>7. IsFiniteSet(asked'[w]) /\ Cardinality(asked'[w]) <= asks'[w]
    <3>1. Cardinality(asked'[w]) \in Nat /\ asks[w] \in Nat
      BY <1>0, <2>5, <2>6, FS_CardinalityType
    <3> QED
      BY <1>0, <1>1, <2>5, <2>6, <3>1
  <2> QED
    BY <1>0, <2>2, <2>4, <2>6, <2>7
<1>4. ASSUME NEW w \in Workers, SharedListenJoined(w)
      PROVE  /\ asked' \in [Workers -> SUBSET [id: Nat, addr: Addrs]] /\ asks' = asks
             /\ joined' \in [Workers -> SUBSET (Addrs \X Addrs)]
             /\ \A v \in Workers : IsFiniteSet(asked'[v]) /\ Cardinality(asked'[v]) <= asks'[v]
  <2>1. PICK n \in ListenResponses : n = Head(inbox[w])
    BY <1>4, JoinedMail
  <2> DEFINE pending == {r \in asked[w] : r.id = n.body.mapId}
             pairs == {<<r.addr, n.body.addr>> : r \in pending}
  <2>2. /\ asked' = [asked EXCEPT ![w] = asked[w] \ pending] /\ asks' = asks
        /\ joined' = [joined EXCEPT ![w] = joined[w] \cup pairs]
    BY <1>4, <2>1, JoinedMail
  <2>3. n.body.addr \in Addrs
    BY DEF ListenResponses
  <2>4. pairs \subseteq Addrs \X Addrs
    BY <1>0, <2>3
  <2> HIDE DEF pairs, pending
  <2>5. IsFiniteSet(asked[w] \ pending) /\ Cardinality(asked[w] \ pending) <= Cardinality(asked[w])
    <3>1. asked[w] \ pending \in SUBSET asked[w]
      OBVIOUS
    <3> QED
      BY <1>0, <3>1, FS_Subset
  <2>6. /\ asked'[w] = asked[w] \ pending
        /\ \A v \in Workers : v # w => asked'[v] = asked[v]
    BY <1>0, <2>2
  <2>7. IsFiniteSet(asked'[w]) /\ Cardinality(asked'[w]) <= asks'[w]
    <3>1. Cardinality(asked'[w]) \in Nat /\ asks[w] \in Nat
      BY <1>0, <2>5, <2>6, FS_CardinalityType
    <3> QED
      BY <1>0, <1>1, <2>2, <2>5, <2>6, <3>1
  <2> QED
    BY <1>0, <2>2, <2>4, <2>6, <2>7
<1> QED
  BY <1>0, <1>2, <1>3, <1>4, ActsChange DEF Changes

LEMMA PortKept ==
    ASSUME SmpBase, ProcessActs
    PROVE  port' \in [Kid -> {"none", "listening", "dead"}]
<1>0. port \in [Kid -> {"none", "listening", "dead"}] /\ workload.kids \subseteq Kid
  BY BaseKids DEF KeptTyped
<1>1. ASSUME NEW k \in workload.kids, Boot(k) PROVE port' \in [Kid -> {"none", "listening", "dead"}]
  BY <1>0, <1>1 DEF Boot
<1>2. ASSUME NEW k \in Kid, PortDies(k) PROVE port' \in [Kid -> {"none", "listening", "dead"}]
  BY <1>0, <1>2 DEF PortDies
<1> QED
  BY <1>0, <1>1, <1>2, ActsChange DEF Changes

LEMMA KeptActs ==
    ASSUME SmpBase, ProcessActs
    PROVE  KeptTyped'
  BY PortKept, AckedKept, IdsKept, SearchersKept, InquirersKept, AskedKept DEF KeptTyped, InquirerRecord

-----------------------------------------------------------------------------
(* Steps of processes: the dead do not act                                 *)

MailMoves ==
    /\ MailTyped'
    /\ \A k \in Kid : out'[k] = out[k] \/ Alive(k)
    /\ \A k \in Kid : inbox[k] = <<>> => inbox'[k] = <<>> \/ port[k] = "listening"

LEMMA PostMoves ==
    ASSUME MailTyped, NEW j \in Kid, NEW k \in Kid, NEW N \in SUBSET Datagrams, Posts(j, N), Reads(k),
           out' = out \/ Alive(j)
    PROVE  MailMoves
<1>1. MailTyped'
  BY UnderStep
<1>2. \A h \in Kid : out'[h] = out[h] \/ Alive(h)
  BY DEF Posts, MailTyped
<1>3. \A h \in Kid : inbox[h] = <<>> => inbox'[h] = <<>>
  BY DEF Reads, MailTyped
<1> QED
  BY <1>1, <1>2, <1>3 DEF MailMoves

LEMMA MailActs ==
    ASSUME SmpBase, ProcessActs
    PROVE  MailMoves
<1>0. MailTyped /\ GoneForgotten /\ coord \in Kid /\ workload.kids \subseteq Kid /\ Workers \subseteq Kid
  BY BaseKids, KidNames
<1>1. ASSUME NEW k \in workload.kids, Boot(k) PROVE MailMoves
  <2>1. Alive(k)
    BY <1>1 DEF Boot, Alive
  <2>2. PICK N \in SUBSET Datagrams : Posts(k, N) /\ Reads(k)
    BY <1>1, BootMail
  <2> QED
    BY <1>0, <2>1, <2>2, PostMoves
<1>2. ASSUME NEW k \in workload.kids, NEW m \in BagToSet(out[k]), Wrote(k, m) PROVE MailMoves
  <2>1. /\ MailTyped' /\ Posts(k, {}) /\ m.to \in Kid /\ port[m.to] = "listening"
        /\ inbox' = [inbox EXCEPT ![m.to] = Append(inbox[m.to], m)]
    BY <1>0, <1>2, WroteMail
  <2>2. Alive(k)
    BY <1>0, BagNone DEF GoneForgotten
  <2>3. \A h \in Kid : out'[h] = out[h] \/ Alive(h)
    BY <1>0, <2>1, <2>2 DEF Posts, MailTyped
  <2>4. \A h \in Kid : inbox[h] = <<>> => inbox'[h] = <<>> \/ port[h] = "listening"
    BY <1>0, <2>1 DEF MailTyped
  <2> QED
    BY <2>1, <2>3, <2>4 DEF MailMoves
<1>3. CASE SomeQuiet
  BY <1>0, <1>3, PostMoves DEF SomeQuiet, Quiet
<1>4. CASE handleRegistrationRequest
  <2>1. PICK N \in SUBSET Datagrams : Posts(coord, N) /\ Reads(coord)
    BY <1>4, RegistrationMail
  <2>2. Alive(coord)
    BY <1>0, <1>4, RegistrationMail, Reading
  <2> QED
    BY <1>0, <2>1, <2>2, PostMoves
<1>5. ASSUME NEW k \in workload.kids \ {coord}, handleRegistrationResponse(k) PROVE MailMoves
  <2>1. out' = out /\ Received(k, "ack")
    BY <1>5 DEF handleRegistrationResponse
  <2>2. Posts(k, {}) /\ Reads(k) /\ k \in Kid
    BY <1>0, <2>1, SentIsPosted, ReceivedIsRead
  <2> QED
    BY <1>0, <2>1, <2>2, PostMoves
<1>6. ASSUME NEW k \in workload.kids \ {coord}, respond(k) PROVE MailMoves
  <2>1. PICK N \in SUBSET Datagrams : Posts(k, N) /\ Reads(k)
    BY <1>6, RespondMail
  <2>2. k \in Kid /\ Alive(k)
    BY <1>0, <1>6, RespondMail, Reading
  <2> QED
    BY <1>0, <2>1, <2>2, PostMoves
<1>7. ASSUME NEW w \in Workers, NEW a \in Addrs, JoinSharedListen(w, a) PROVE MailMoves
  <2>1. PICK id \in Nat : ListenRequest(w, id, a) \in Datagrams /\ Posts(w, {ListenRequest(w, id, a)})
    <3>1. \E id \in Nat :
             LET m == ListenRequest(w, id, a) IN
             /\ \A r \in asked[w] : r.id # id
             /\ asked' = [asked EXCEPT ![w] = asked[w] \cup {[id |-> id, addr |-> a]}]
             /\ m \in ListenRequests /\ m \in Datagrams
             /\ out' = [out EXCEPT ![w] = (out[w] (+) SetToBag({m}))]
             /\ Posts(w, {m})
      BY <1>7, JoinMail
    <3> QED
      BY <3>1
  <2>2. w \in Kid /\ Alive(w) /\ Reads(w)
    BY <1>7, JoinMail
  <2> QED
    BY <1>0, <2>1, <2>2, PostMoves
<1>8. CASE handleSharedListenRequest /\ port' = port
  <2>1. PICK N \in SUBSET Datagrams : Posts(coord, N) /\ Reads(coord)
    BY <1>8, ListenMail
  <2>2. Alive(coord)
    BY <1>0, <1>8, ListenMail, Reading
  <2> QED
    BY <1>0, <2>1, <2>2, PostMoves
<1>9. ASSUME NEW w \in Workers, SharedListenJoined(w) PROVE MailMoves
  <2>1. Posts(w, {}) /\ Reads(w) /\ out' = out /\ w \in Kid
    BY <1>9, JoinedMail
  <2> QED
    BY <1>0, <2>1, PostMoves
<1>10. ASSUME NEW i \in inquirers, InquirerTakes(i) PROVE MailMoves
  <2>1. Alive(coord)
    BY <1>0 DEF GoneForgotten
  <2>2. Reads(coord) /\ Advances(i)
    BY <1>10 DEF InquirerTakes
  <2>3. CASE out' = out
    <3>1. Posts(coord, {})
      BY <1>0, <2>3, SentIsPosted
    <3> QED
      BY <1>0, <2>1, <2>2, <3>1, PostMoves
  <2>4. CASE \E m \in Datagrams : Posts(coord, {m})
    BY <1>0, <2>1, <2>2, <2>4, PostMoves
  <2> QED
    BY <2>2, <2>3, <2>4 DEF Advances
<1> QED
  BY <1>1, <1>2, <1>3, <1>4, <1>5, <1>6, <1>7, <1>8, <1>9, <1>10, ActsOnMail

LEMMA GoneActs ==
    ASSUME SmpBase, ProcessActs
    PROVE  GoneForgotten'
<1>0. /\ MailTyped /\ GoneForgotten /\ KeptTyped /\ coord \in Kid /\ workload.kids \subseteq Kid
      /\ Workers \subseteq Kid /\ UNCHANGED <<workload, proc, kids>>
  BY BaseKids, KidNames, KidsStay
<1>1. \A k \in Kid : (Alive(k))' = Alive(k)
  BY <1>0 DEF Alive
<1>2. Changes /\ MailMoves
  BY ActsChange, MailActs
<1>3. \A k \in Kid : ~Alive(k) => out'[k] = EmptyBag
  BY <1>0, <1>2 DEF MailMoves, GoneForgotten
<1>4. \A k \in Kid : inbox[k] # <<>> => Alive(k) /\ port[k] = "listening"
  BY <1>0, Reading
<1>5. \A k \in Kid : ~Alive(k) => port'[k] = "none"
  <2>1. ASSUME NEW k \in workload.kids, Boot(k) PROVE \A h \in Kid : ~Alive(h) => port'[h] = "none"
    BY <1>0, <2>1 DEF Boot, Alive, GoneForgotten, KeptTyped
  <2>2. ASSUME NEW k \in Kid, inbox[k] # <<>>, PortDies(k)
        PROVE  \A h \in Kid : ~Alive(h) => port'[h] = "none"
    BY <1>0, <1>4, <2>2 DEF PortDies, GoneForgotten, KeptTyped
  <2> QED
    BY <1>0, <1>2, <2>1, <2>2 DEF Changes, GoneForgotten
<1>6. \A k \in Kid : port'[k] # "listening" => inbox'[k] = <<>>
  <2>1. ASSUME port' = port PROVE \A k \in Kid : port'[k] # "listening" => inbox'[k] = <<>>
    BY <1>0, <1>2, <2>1 DEF MailMoves, GoneForgotten
  <2>2. ASSUME NEW k \in workload.kids, Boot(k)
        PROVE  \A h \in Kid : port'[h] # "listening" => inbox'[h] = <<>>
    BY <1>0, <2>2 DEF Boot, GoneForgotten, KeptTyped
  <2>3. ASSUME NEW k \in Kid, PortDies(k)
        PROVE  \A h \in Kid : port'[h] # "listening" => inbox'[h] = <<>>
    BY <1>0, <2>3 DEF PortDies, GoneForgotten, KeptTyped, MailTyped
  <2> QED
    BY <1>2, <2>1, <2>2, <2>3 DEF Changes
<1>7. \A k \in Kid : ~Alive(k) => acked'[k] = 0
  <2>1. ASSUME NEW k \in workload.kids \ {coord}, handleRegistrationResponse(k)
        PROVE  \A h \in Kid : ~Alive(h) => acked'[h] = 0
    <3>1. /\ inbox[k] # <<>>
          /\ acked' = acked \/ acked' = [acked EXCEPT ![k] = Head(inbox[k]).body.by]
      BY <2>1 DEF handleRegistrationResponse, Received, Body
    <3> QED
      BY <1>0, <1>4, <3>1 DEF GoneForgotten, KeptTyped
  <2> QED
    BY <1>0, <1>2, <2>1 DEF Changes, GoneForgotten
<1>8. \A w \in Workers : ~Alive(w) => asked'[w] = {} /\ joined'[w] = {}
  <2>1. ASSUME NEW w \in Workers, Alive(w),
               \E S : asked' = [asked EXCEPT ![w] = S],
               joined' = joined \/ \E S : joined' = [joined EXCEPT ![w] = S]
        PROVE  \A v \in Workers : ~Alive(v) => asked'[v] = {} /\ joined'[v] = {}
    BY <1>0, <2>1 DEF GoneForgotten, KeptTyped
  <2>2. ASSUME NEW w \in Workers, SharedListenJoined(w)
        PROVE  \A v \in Workers : ~Alive(v) => asked'[v] = {} /\ joined'[v] = {}
    <3>1. /\ inbox[w] # <<>> /\ \E S : asked' = [asked EXCEPT ![w] = S]
          /\ \E S : joined' = [joined EXCEPT ![w] = S]
      BY <2>2, JoinedMail
    <3> QED
      BY <1>0, <1>4, <2>1, <3>1
  <2>3. ASSUME NEW w \in Workers, NEW a \in Addrs, JoinSharedListen(w, a)
        PROVE  \A v \in Workers : ~Alive(v) => asked'[v] = {} /\ joined'[v] = {}
    <3>1. Alive(w) /\ joined' = joined
      BY <2>3, JoinMail
    <3>2. \E S : asked' = [asked EXCEPT ![w] = S]
      BY <2>3 DEF JoinSharedListen
    <3> QED
      BY <2>1, <3>1, <3>2
  <2> QED
    BY <1>0, <1>2, <2>2, <2>3 DEF Changes, GoneForgotten
<1>9. ~Alive(coord) => strands' = {} /\ searchers' = EmptyBag /\ inquirers' = {}
  <2> SUFFICES ASSUME ~Alive(coord) PROVE strands' = {} /\ searchers' = EmptyBag /\ inquirers' = {}
    OBVIOUS
  <2>1. inbox[coord] = <<>> /\ inquirers = {} /\ strands = {} /\ searchers = EmptyBag
    BY <1>0, <1>4 DEF GoneForgotten
  <2>2. ~handleRegistrationRequest /\ ~handleSearchRequest /\ ~handleCacheMgrRequest
    BY <2>1 DEF handleRegistrationRequest, handleSearchRequest, handleCacheMgrRequest, Received
  <2>3. JobEnds => strands' = {} /\ searchers' = EmptyBag
    BY DEF JobEnds
  <2> QED
    BY <1>2, <2>1, <2>2, <2>3 DEF Changes
<1> QED
  BY <1>0, <1>1, <1>3, <1>5, <1>6, <1>7, <1>8, <1>9 DEF GoneForgotten

\* SmpBase is kept by the processes, by their end and by the master.
LEMMA BaseActs ==
    ASSUME SmpBase, ProcessActs
    PROVE  SmpBase' /\ UNCHANGED <<workload, kids, proc>>
<1>1. MasterKnows' /\ UNCHANGED <<workload, kids, proc>>
  BY KidsStay DEF MasterKnows, SmpBase
<1> QED
  BY <1>1, MailActs, KeptActs, GoneActs DEF SmpBase, MailMoves

LEMMA DyingMail ==
    ASSUME SmpBase, NEW k \in workload.kids, Dying(k)
    PROVE  /\ k \in Kid /\ Alive(k) /\ ~(Alive(k))' /\ kids[k].pid > 0
           /\ UNCHANGED <<workload, kids>> /\ \A j \in Kid : j # k => (Alive(j))' = Alive(j)
           /\ Posts(k, {}) /\ Reads(k)
           /\ \A j \in Kid : /\ out'[j] = IF j = k THEN EmptyBag ELSE out[j]
                             /\ inbox'[j] = IF j = k THEN <<>> ELSE inbox[j]
                             /\ port'[j] = IF j = k THEN "none" ELSE port[j]
                             /\ acked'[j] = IF j = k THEN 0 ELSE acked[j]
                             /\ lastId'[j] = IF j = k THEN 0 ELSE lastId[j]
           /\ \A w \in Workers : /\ asked'[w] = IF w = k THEN {} ELSE asked[w]
                                 /\ joined'[w] = IF w = k THEN {} ELSE joined[w]
           /\ answers' = answers
           /\ IF k = coord THEN strands' = {} /\ searchers' = EmptyBag /\ inquirers' = {}
              ELSE UNCHANGED <<strands, searchers, inquirers>>
<1>0. MasterKnows /\ MailTyped /\ KeptTyped /\ GoneForgotten /\ k \in Kid /\ workload.kids \subseteq Kid
  BY BaseKids
<1>1. /\ UNCHANGED <<workload, kids>> /\ proc[k].alive /\ ~proc'[k].alive
      /\ \A j \in workload.kids : j # k => proc'[j] = proc[j]
  BY <1>0, DyingKids DEF Dying
<1>2. kids[k].pid > 0
  BY <1>0, <1>1 DEF MasterKnows
<1>3. Alive(k) /\ ~(Alive(k))' /\ \A j \in Kid : j # k => (Alive(j))' = Alive(j)
  BY <1>0, <1>1 DEF Alive
<1>4. /\ out' = [x \in DOMAIN out |-> IF x = k THEN EmptyBag ELSE out[x]]
      /\ inbox' = [x \in DOMAIN inbox |-> IF x = k THEN <<>> ELSE inbox[x]]
      /\ port' = [x \in DOMAIN port |-> IF x = k THEN "none" ELSE port[x]]
      /\ acked' = [x \in DOMAIN acked |-> IF x = k THEN 0 ELSE acked[x]]
      /\ lastId' = [x \in DOMAIN lastId |-> IF x = k THEN 0 ELSE lastId[x]]
      /\ asked' = [x \in DOMAIN asked |-> IF x = k THEN {} ELSE asked[x]]
      /\ joined' = [x \in DOMAIN joined |-> IF x = k THEN {} ELSE joined[x]]
      /\ answers' = answers
  BY DEF Dying, Forget
<1>5. IF k = coord THEN strands' = {} /\ searchers' = EmptyBag /\ inquirers' = {}
      ELSE UNCHANGED <<strands, searchers, inquirers>>
  BY DEF Dying, Forget
<1>6. DOMAIN out = Kid /\ DOMAIN inbox = Kid
  BY <1>0 DEF MailTyped
<1>7. DOMAIN port = Kid /\ DOMAIN acked = Kid /\ DOMAIN lastId = Kid /\ DOMAIN asked = Workers /\ DOMAIN joined = Workers
  BY <1>0 DEF KeptTyped
<1>8. Posts(k, {})
  <2>1. out' = [out EXCEPT ![k] = EmptyBag] /\ out'[k] = EmptyBag
    BY <1>0, <1>4, <1>6
  <2> QED
    BY <2>1, BagNone DEF Posts
<1>9. Reads(k)
  BY <1>0, <1>4, <1>6 DEF Reads
<1> QED
  BY <1>0, <1>1, <1>2, <1>3, <1>4, <1>5, <1>6, <1>7, <1>8, <1>9

LEMMA KeptDying ==
    ASSUME SmpBase, NEW k \in workload.kids, Dying(k)
    PROVE  KeptTyped'
<1>0. KeptTyped
  BY DEF SmpBase
<1>1. /\ port' = [x \in DOMAIN port |-> IF x = k THEN "none" ELSE port[x]]
      /\ acked' = [x \in DOMAIN acked |-> IF x = k THEN 0 ELSE acked[x]]
      /\ lastId' = [x \in DOMAIN lastId |-> IF x = k THEN 0 ELSE lastId[x]]
      /\ asked' = [x \in DOMAIN asked |-> IF x = k THEN {} ELSE asked[x]]
      /\ joined' = [x \in DOMAIN joined |-> IF x = k THEN {} ELSE joined[x]]
      /\ asks' = asks
  BY DEF Dying, Forget
<1>2. /\ port' \in [Kid -> {"none", "listening", "dead"}]
      /\ acked' \in [Kid -> Nat] /\ lastId' \in [Kid -> Nat]
      /\ asked' \in [Workers -> SUBSET [id: Nat, addr: Addrs]]
      /\ joined' \in [Workers -> SUBSET (Addrs \X Addrs)]
      /\ asks' \in [Workers -> Nat]
  BY <1>0, <1>1 DEF KeptTyped
<1>3. /\ strands' \subseteq strands /\ inquirers' \subseteq inquirers
      /\ BagToSet(searchers') \subseteq BagToSet(searchers)
  BY DyingMail, BagNone
<1>4. \A w \in Workers : IsFiniteSet(asked'[w]) /\ Cardinality(asked'[w]) <= asks'[w]
  <2>1. IsFiniteSet({}) /\ Cardinality({}) = 0
    BY FS_EmptySet
  <2>2. \A w \in Workers : asks[w] \in Nat /\ asked'[w] = IF w = k THEN {} ELSE asked[w]
    BY <1>0, DyingMail DEF KeptTyped
  <2> QED
    BY <1>0, <1>1, <2>1, <2>2 DEF KeptTyped
<1>5. /\ strands' \subseteq StrandCoords /\ BagToSet(searchers') \subseteq Searches
      /\ inquirers' \subseteq [for: [requestor: Workers, id: Nat], id: Nat, todo: SUBSET Strand]
      /\ \A i \in inquirers' : i.id # 0 => i.todo # {}
  BY <1>0, <1>3 DEF KeptTyped
<1> QED
  BY <1>2, <1>4, <1>5 DEF KeptTyped

LEMMA BaseDying ==
    ASSUME SmpBase, NEW k \in workload.kids, Dying(k)
    PROVE  SmpBase'
<1>0. MasterKnows /\ MailTyped /\ KeptTyped /\ GoneForgotten /\ k \in Kid /\ Workers \subseteq Kid /\ coord \in Kid
  BY BaseKids, KidNames
<1>1. MasterKnows'
  BY <1>0, DyingKids DEF MasterKnows
<1>2. MailTyped'
  <2>1. {} \in SUBSET Datagrams
    OBVIOUS
  <2> QED
    BY <1>0, <2>1, DyingMail, UnderStep
<1>3. GoneForgotten'
  <2>1. \A j \in Kid : /\ ~(Alive(j))' => out'[j] = EmptyBag /\ port'[j] = "none" /\ acked'[j] = 0
                       /\ port'[j] # "listening" => inbox'[j] = <<>>
    BY <1>0, DyingMail DEF GoneForgotten
  <2>2. \A w \in Workers : ~(Alive(w))' => asked'[w] = {} /\ joined'[w] = {}
    BY <1>0, DyingMail DEF GoneForgotten
  <2>3. ~(Alive(coord))' => strands' = {} /\ searchers' = EmptyBag /\ inquirers' = {}
    BY <1>0, DyingMail DEF GoneForgotten
  <2> QED
    BY <2>1, <2>2, <2>3 DEF GoneForgotten
<1> QED
  BY <1>1, <1>2, <1>3, KeptDying DEF SmpBase

\* The master's steps, and shutdowns: processes are born, no more.
KidsMove ==
    /\ UNCHANGED <<workload, out, inbox, port, acked, strands, searchers, inquirers, answers,
                   lastId, file, asked, joined, asks>>
    /\ \A k \in workload.kids :
          \/ kids'[k].pid = kids[k].pid /\ proc'[k].alive = proc[k].alive
          \/ /\ kids'[k].pid = kids[k].pid + 1
             /\ ~proc[k].alive /\ proc'[k].alive

LEMMA KidsMoves ==
    ASSUME SmpBase, MasterSteps \/ Shutdown \/ UNCHANGED smpVars
    PROVE  KidsMove
<1>0. MasterKnows
  BY DEF SmpBase
<1>1. CASE MasterSteps
  <2>1. UNCHANGED <<workload, out, inbox, port, acked, strands, searchers, inquirers, answers,
                    lastId, file, asked, joined, asks>>
    BY <1>1 DEF MasterSteps, ipcVars, strandVars, coordVars
  <2> QED
    BY <1>0, <1>1, <2>1, MasterKids DEF KidsMove
<1>2. CASE Shutdown
  <2>1. UNCHANGED <<kids, workload, out, inbox, port, acked, strands, searchers, inquirers, answers,
                    lastId, file, asked, joined, asks>>
    BY <1>2 DEF Shutdown, ipcVars, strandVars, coordVars
  <2>2. PICK heard : proc' = [k \in workload.kids |->
           [proc[k] EXCEPT !.told = @ \/ (k \in heard \cup {coord} /\ proc[k].alive)]]
    <3>1. Configured = workload.kids
      BY <1>0, ConfiguredKids
    <3>2. \E heard \in broadcastSignal :
             proc' = [k \in Configured |-> [proc[k] EXCEPT
                        !.told = @ \/ (k \in heard \cup {coord} /\ proc[k].alive)]]
      BY <1>2 DEF Shutdown
    <3> QED
      BY <3>1, <3>2
  <2>3. \A k \in workload.kids : proc'[k].alive = proc[k].alive
    BY <1>0, <2>2 DEF MasterKnows, ProcRecord
  <2> QED
    BY <2>1, <2>3 DEF KidsMove
<1>3. CASE UNCHANGED smpVars
  BY <1>3 DEF smpVars, kidVars, ipcVars, strandVars, coordVars, KidsMove
<1> QED
  BY <1>1, <1>2, <1>3

LEMMA MoveAlive ==
    ASSUME KidsMove
    PROVE  \A k \in Kid : Alive(k) => (Alive(k))'
  BY DEF KidsMove, Alive

LEMMA BaseStep ==
    ASSUME SmpBase, [SmpNext]_smpVars
    PROVE  /\ SmpBase' /\ workload' = workload
           /\ KidsMove \/ (\E k \in workload.kids : Dying(k)) \/ ProcessActs
<1>0. MasterKnows /\ MailTyped /\ KeptTyped /\ GoneForgotten /\ Workers \subseteq Kid /\ coord \in Kid
  BY BaseKids, KidNames
<1>1. MasterKnows' /\ workload' = workload
  BY <1>0, MasterKnowsStep
<1>2. KidsMove \/ (\E k \in workload.kids : Dying(k)) \/ ProcessActs
  BY <1>0, SmpCases, KidsMoves
<1>3. ASSUME KidsMove PROVE SmpBase'
  <2>1. MailTyped' /\ KeptTyped'
    BY <1>0, <1>3 DEF KidsMove, MailTyped, KeptTyped
  <2>2. GoneForgotten'
    BY <1>0, <1>3, MoveAlive DEF KidsMove, GoneForgotten
  <2> QED
    BY <1>1, <2>1, <2>2 DEF SmpBase
<1> QED
  BY <1>1, <1>2, <1>3, BaseDying, BaseActs

-----------------------------------------------------------------------------
(* Opening files, and searches                                             *)

FileRecord == [state: {"none", "waiting", "open", "error"}, diskId: Kid, notified: Nat]
\* What OpenCompletesOnce says of one file.
OpenedOnce(t, f) ==
    /\ f.state = "waiting" => f.notified = 0
    /\ f.state \in {"open", "error"} => f.notified = 1
    /\ f.state = "open" => f.diskId \in Diskers /\ DbOf[f.diskId] = t
FilesFine(g) == \A t \in Tags : OpenedOnce(t, g[t])

LEMMA FilesAre ==
    FilesMatch <=> file \in [Workers -> [Tags -> FileRecord]] /\ \A w \in Workers : FilesFine(file[w])
  BY DEF FilesMatch, FileRecord, OpenCompletesOnce, FilesFine, OpenedOnce

LEMMA FreshFiles ==
    /\ NoFile \in FileRecord /\ [NoFile EXCEPT !.state = "waiting"] \in FileRecord
    /\ \A t : OpenedOnce(t, NoFile) /\ OpenedOnce(t, [NoFile EXCEPT !.state = "waiting"])
<1>1. coord \in Kid
  BY KidNames
<1> QED
  BY <1>1 DEF NoFile, FileRecord, OpenedOnce

LEMMA FileCompletes ==
    ASSUME NEW f \in FileRecord, NEW d \in Kid, NEW st \in {"open", "error"}
    PROVE  /\ [f EXCEPT !.state = st] \in FileRecord /\ [f EXCEPT !.state = st].state = st
           /\ [f EXCEPT !.diskId = d] \in FileRecord /\ [f EXCEPT !.diskId = d].diskId = d
           /\ [f EXCEPT !.diskId = d].state = f.state
           /\ [f EXCEPT !.notified = 1] \in FileRecord /\ [f EXCEPT !.notified = 1].notified = 1
           /\ [f EXCEPT !.notified = 1].state = f.state /\ [f EXCEPT !.notified = 1].diskId = f.diskId
  BY DEF FileRecord

FileEnd(f, st, d) == [f EXCEPT !.state = st, !.diskId = d, !.notified = 1]

LEMMA FileEnds ==
    ASSUME NEW f \in FileRecord, NEW d \in Kid, NEW st \in {"open", "error"}
    PROVE  LET r == FileEnd(f, st, d) IN
           r \in FileRecord /\ r.state = st /\ r.diskId = d /\ r.notified = 1
<1>1. PICK a : a = [f EXCEPT !.state = st]
  OBVIOUS
<1>2. a \in FileRecord /\ a.state = st
  BY <1>1, FileCompletes
<1>3. PICK b : b = [a EXCEPT !.diskId = d]
  OBVIOUS
<1>4. b \in FileRecord /\ b.state = st /\ b.diskId = d
  BY <1>2, <1>3, FileCompletes
<1>5. PICK c : c = [b EXCEPT !.notified = 1]
  OBVIOUS
<1>6. c \in FileRecord /\ c.state = st /\ c.diskId = d /\ c.notified = 1
  BY <1>4, <1>5, FileCompletes
<1>7. c = FileEnd(f, st, d)
  BY <1>1, <1>3, <1>5, Zenon DEF FileEnd
<1> QED
  BY <1>6, <1>7

LEMMA FileOpens ==
    ASSUME NEW f \in FileRecord, f.notified = 0, NEW k \in Diskers, k \in Kid
    PROVE  openCompleted(f, {k}) \in FileRecord /\ OpenedOnce(DbOf[k], openCompleted(f, {k}))
<1>1. {k} # {} /\ (CHOOSE x \in {k} : TRUE) = k /\ 0 + 1 = 1
  OBVIOUS
<1>2. openCompleted(f, {k}) = FileEnd(f, "open", k)
  BY <1>1, Zenon DEF openCompleted, FileRecord, FileEnd
<1> QED
  BY <1>2, FileEnds DEF OpenedOnce

LEMMA FileErrs ==
    ASSUME NEW f \in FileRecord, f.notified = 0
    PROVE  openCompleted(f, {}) \in FileRecord /\ \A t : OpenedOnce(t, openCompleted(f, {}))
<1>1. f.diskId \in Kid /\ 0 + 1 = 1
  BY DEF FileRecord
<1>2. openCompleted(f, {}) = FileEnd(f, "error", f.diskId)
  BY <1>1, Zenon DEF openCompleted, FileRecord, FileEnd
<1> QED
  BY <1>1, <1>2, FileEnds DEF OpenedOnce

LEMMA FilesChange ==
    ASSUME FilesMatch, NEW w \in Workers, NEW t \in Tags, NEW f \in FileRecord, OpenedOnce(t, f),
           file' = [file EXCEPT ![w][t] = f]
    PROVE  FilesMatch'
<1>1. file \in [Workers -> [Tags -> FileRecord]] /\ \A v \in Workers : FilesFine(file[v])
  BY FilesAre
<1>2. file' = [file EXCEPT ![w] = [file[w] EXCEPT ![t] = f]]
  OBVIOUS
<1>3. [file[w] EXCEPT ![t] = f] \in [Tags -> FileRecord] /\ FilesFine([file[w] EXCEPT ![t] = f])
  BY <1>1 DEF FilesFine
<1>4. file' \in [Workers -> [Tags -> FileRecord]] /\ \A v \in Workers : FilesFine(file'[v])
  BY <1>1, <1>2, <1>3
<1> QED
  BY <1>4 DEF FilesMatch, FileRecord, OpenCompletesOnce, FilesFine, OpenedOnce

LEMMA FilesReset ==
    ASSUME FilesMatch, NEW k, NEW g, g \in [Tags -> FileRecord], FilesFine(g),
           file' = [w \in Workers |-> IF w = k THEN g ELSE file[w]]
    PROVE  FilesMatch'
<1>1. file \in [Workers -> [Tags -> FileRecord]] /\ \A v \in Workers : FilesFine(file[v])
  BY FilesAre
<1>2. file' \in [Workers -> [Tags -> FileRecord]] /\ \A v \in Workers : FilesFine(file'[v])
  BY <1>1
<1> QED
  BY <1>2 DEF FilesMatch, FileRecord, OpenCompletesOnce, FilesFine, OpenedOnce

LEMMA FilesStep ==
    ASSUME SmpBase, FilesMatch, [SmpNext]_smpVars
    PROVE  FilesMatch'
<1>0. /\ MailTyped /\ GoneForgotten /\ Workers \subseteq Kid
      /\ file \in [Workers -> [Tags -> FileRecord]] /\ \A v \in Workers : FilesFine(file[v])
  BY BaseKids, KidNames, FilesAre
<1>1. CASE file' = file
  BY <1>1 DEF FilesMatch, OpenCompletesOnce
<1>2. ASSUME NEW k \in workload.kids, Boot(k) PROVE FilesMatch'
  <2> DEFINE opens == IF k \in Workers /\ workload.asks = "open" THEN Tags ELSE {}
             g == [t \in Tags |-> IF t \in opens THEN [NoFile EXCEPT !.state = "waiting"] ELSE NoFile]
  <2>1. file' = [w \in Workers |-> IF w = k THEN g ELSE file[w]]
    BY <1>2 DEF Boot
  <2>2. g \in [Tags -> FileRecord] /\ FilesFine(g)
    BY FreshFiles DEF FilesFine
  <2> HIDE DEF g
  <2> QED
    BY <2>1, <2>2, FilesReset
<1>3. ASSUME NEW k \in workload.kids, Dying(k) PROVE FilesMatch'
  <2> DEFINE g == [t \in Tags |-> NoFile]
  <2>1. file' = [w \in DOMAIN file |-> IF w = k THEN g ELSE file[w]]
    BY <1>3 DEF Dying, Forget
  <2>2. g \in [Tags -> FileRecord] /\ FilesFine(g)
    BY FreshFiles DEF FilesFine
  <2>3. DOMAIN file = Workers
    BY <1>0
  <2> HIDE DEF g
  <2> QED
    BY <2>1, <2>2, <2>3, FilesReset
<1>4. ASSUME NEW w \in Workers, HandleOpenResponse(w), file' # file PROVE FilesMatch'
  <2> DEFINE s == Head(inbox[w]).body
  <2>1. /\ inbox[w] # <<>> /\ Head(inbox[w]).type = "searchResponse"
        /\ file[w][s.tag].state = "waiting"
        /\ file' = [file EXCEPT ![w][s.tag] = openCompleted(file[w][s.tag], {s.kid})]
    BY <1>4 DEF HandleOpenResponse, Received, Body
  <2>2. Head(inbox[w]) \in SearchResponses
    BY <1>0, <2>1, Reading, KindsOfMail
  <2>3. s.kid \in Diskers /\ s.tag = DbOf[s.kid] /\ s.tag \in Tags
    BY <2>2, KidNames DEF SearchResponses, StrandCoords
  <2>4. PICK k \in Diskers, t \in Tags : k = s.kid /\ t = s.tag /\ t = DbOf[k]
    BY <2>3
  <2>5. file[w][t] \in FileRecord /\ file[w][t].state = "waiting" /\ file[w][t].notified = 0
    BY <1>0, <2>1, <2>4 DEF FilesFine, OpenedOnce
  <2>6. PICK f \in FileRecord : f = openCompleted(file[w][t], {k}) /\ OpenedOnce(t, f)
    BY <2>4, <2>5, FileOpens, KidNames
  <2>7. file' = [file EXCEPT ![w][t] = f]
    BY <2>1, <2>4, <2>6
  <2> QED
    BY <2>6, <2>7, FilesChange
<1>5. ASSUME NEW w \in Workers, NEW t \in Tags, OpenTimeout(w, t), file' # file PROVE FilesMatch'
  <2>1. /\ file[w][t].state = "waiting"
        /\ file' = [file EXCEPT ![w][t] = openCompleted(file[w][t], {})]
    BY <1>5 DEF OpenTimeout
  <2>2. file[w][t] \in FileRecord /\ file[w][t].notified = 0
    BY <1>0, <2>1 DEF FilesFine, OpenedOnce
  <2>3. PICK f \in FileRecord : f = openCompleted(file[w][t], {}) /\ OpenedOnce(t, f)
    BY <2>1, <2>2, FileErrs
  <2>4. file' = [file EXCEPT ![w][t] = f]
    BY <2>1, <2>3
  <2> QED
    BY <2>3, <2>4, FilesChange
<1>6. CASE KidsMove
  BY <1>1, <1>6 DEF KidsMove
<1>7. CASE ProcessActs
  BY <1>1, <1>2, <1>4, <1>5, <1>7, ActsChange DEF Changes
<1> QED
  BY <1>3, <1>6, <1>7, BaseStep

LEMMA SearchersStep ==
    ASSUME SmpBase, SearchersUnanswerable, [SmpNext]_smpVars
    PROVE  SearchersUnanswerable'
<1>1. CASE UNCHANGED <<strands, searchers>>
  BY <1>1 DEF SearchersUnanswerable
<1>2. CASE handleRegistrationRequest
  <2>1. PICK s \in StrandCoords : s = Head(inbox[coord]).body
    BY <1>2, RegistrationMail
  <2>2. /\ \E n \in StrandCoords :
              /\ n.kid = s.kid /\ n.pid = s.pid
              /\ n.tag = s.tag \/ \E r \in strands : r.tag = n.tag
              /\ strands' = {r \in strands : r.kid # s.kid} \cup {n}
        /\ BagToSet(searchers') = {r \in BagToSet(searchers) : r.tag # s.tag}
    BY <1>2, <2>1, RegistrationKeeps
  <2> QED
    BY <2>2 DEF SearchersUnanswerable
<1>3. CASE handleSearchRequest
  <2>1. PICK q \in Searches : q = Head(inbox[coord]).body
    BY <1>3, SearchMail
  <2> DEFINE match == {s \in strands : s.tag = q.tag}
  <2>2. /\ strands' = strands
        /\ IF match = {} THEN searchers' = (searchers (+) SetToBag({q})) ELSE searchers' = searchers
    BY <1>3, <2>1 DEF handleSearchRequest, Body
  <2>3. CASE match = {}
    <3>1. BagToSet(searchers') = BagToSet(searchers) \cup {q}
      BY <2>2, <2>3, BagSum, BagOne
    <3>2. \A s \in strands : s.tag # q.tag
      BY <2>3
    <3> QED
      BY <2>2, <3>1, <3>2 DEF SearchersUnanswerable
  <2>4. CASE match # {}
    BY <1>1, <2>2, <2>4
  <2> QED
    BY <2>3, <2>4
<1>4. ASSUME NEW k \in workload.kids, Dying(k) PROVE SearchersUnanswerable'
  BY <1>4, DyingMail, BagNone DEF SearchersUnanswerable
<1>5. CASE KidsMove
  BY <1>1, <1>5 DEF KidsMove
<1>6. CASE ProcessActs
  <2>1. \/ (UNCHANGED <<strands, searchers>>) \/ handleRegistrationRequest \/ handleSearchRequest
        \/ strands' = {}
    BY <1>6, ActsChange DEF Changes, JobEnds
  <2>2. CASE strands' = {}
    BY <2>2 DEF SearchersUnanswerable
  <2> QED
    BY <1>1, <1>2, <1>3, <2>1, <2>2
<1> QED
  BY <1>4, <1>5, <1>6, BaseStep

-----------------------------------------------------------------------------
(* Registrations                                                           *)

\* Steps that do not record a strand.
LEMMA RegistrationsFrame ==
    ASSUME MailTyped, RegistrationsMatch, NEW j \in Kid, NEW k \in Kid,
           NEW N \in SUBSET Datagrams, Posts(j, N), Reads(k),
           \A m \in N : m.type = "registration" => m \in OwnRegistrations(j) /\ j \in workload.kids,
           kids' = kids, workload' = workload, strands' \subseteq strands
    PROVE  RegistrationsMatch'
<1>0. coord \in Kid
  BY KidNames
<1>1. RegistrationsSent'
  <2> SUFFICES ASSUME NEW h \in Kid, NEW m \in BagToSet(out'[h]), m.type = "registration"
               PROVE  h \in workload.kids /\ m.body.kid = h /\ m.body.pid = kids[h].pid
    BY DEF RegistrationsSent
  <2>1. m \in BagToSet(out[h]) \/ (h = j /\ m \in N)
    BY DEF Posts, MailTyped
  <2> QED
    BY <2>1 DEF RegistrationsMatch, RegistrationsSent, OwnRegistrations
<1>2. RegistrationsQueued'
  <2>1. PICK p, q : p = inbox'[coord] /\ q = inbox[coord]
    OBVIOUS
  <2>a. \E d \in {0, 1} : \A i \in 1 .. Len(inbox'[coord]) :
           i \in Nat /\ i + d \in 1 .. Len(inbox[coord]) /\ inbox'[coord][i] = inbox[coord][i + d]
    BY <1>0, Shift
  <2>2. PICK d \in {0, 1} : \A i \in 1 .. Len(p) : i \in Nat /\ i + d \in 1 .. Len(q) /\ p[i] = q[i + d]
    BY <2>1, <2>a
  <2>3. \A i \in 1 .. Len(q) : q[i].type = "registration" =>
           LET s == q[i].body IN
           /\ s.kid \in workload.kids /\ s.pid <= kids[s.kid].pid
           /\ \A g \in 1 .. Len(q) : (g > i /\ q[g].type = "registration" /\ q[g].body.kid = s.kid)
                                        => s.pid <= q[g].body.pid
           /\ \A r \in strands : r.kid = s.kid => r.pid <= s.pid
    BY <2>1 DEF RegistrationsMatch, RegistrationsQueued
  <2> SUFFICES ASSUME NEW i \in 1 .. Len(p), p[i].type = "registration"
               PROVE  LET s == p[i].body IN
                      /\ s.kid \in workload.kids /\ s.pid <= kids[s.kid].pid
                      /\ \A g \in 1 .. Len(p) :
                            (g > i /\ p[g].type = "registration" /\ p[g].body.kid = s.kid)
                               => s.pid <= p[g].body.pid
                      /\ \A r \in strands' : r.kid = s.kid => r.pid <= s.pid
    BY <2>1 DEF RegistrationsQueued
  <2>4. \A g \in 1 .. Len(p) : g > i => g + d > i + d
    BY <2>2
  <2>5. PICK s : s = q[i + d].body
    OBVIOUS
  <2>6. /\ s.kid \in workload.kids /\ s.pid <= kids[s.kid].pid
        /\ \A g \in 1 .. Len(q) : (g > i + d /\ q[g].type = "registration" /\ q[g].body.kid = s.kid)
                                        => s.pid <= q[g].body.pid
        /\ \A r \in strands : r.kid = s.kid => r.pid <= s.pid
    BY <2>2, <2>3, <2>5
  <2> QED
    BY <2>2, <2>4, <2>5, <2>6
<1>3. RegistrationsKept'
  BY DEF RegistrationsMatch, RegistrationsKept
<1> QED
  BY <1>1, <1>2, <1>3 DEF RegistrationsMatch

LEMMA RegistrationsWrote ==
    ASSUME SmpBase, RegistrationsMatch, NEW k \in workload.kids,
           NEW m \in BagToSet(out[k]), Wrote(k, m)
    PROVE  RegistrationsMatch'
<1>0. MailTyped /\ k \in Kid /\ coord \in Kid /\ kids[k].pid \in Nat
  BY BaseKids
<1>1. /\ m \in Datagrams /\ m.to \in Kid /\ Posts(k, {})
      /\ inbox' = [inbox EXCEPT ![m.to] = Append(inbox[m.to], m)]
  BY <1>0, WroteMail
<1>2. UNCHANGED <<kids, workload, strands>>
  BY DEF Wrote, kidVars, coordVars
<1>3. RegistrationsSent'
  <2> SUFFICES ASSUME NEW h \in Kid, NEW n \in BagToSet(out'[h]), n.type = "registration"
               PROVE  h \in workload.kids /\ n.body.kid = h /\ n.body.pid = kids[h].pid
    BY <1>2 DEF RegistrationsSent
  <2>1. n \in BagToSet(out[h])
    BY <1>0, <1>1 DEF Posts, MailTyped
  <2> QED
    BY <2>1 DEF RegistrationsMatch, RegistrationsSent
<1>4. RegistrationsKept'
  BY <1>2 DEF RegistrationsMatch, RegistrationsKept
<1>5. RegistrationsQueued'
  <2>1. CASE m.to # coord
    <3>1. inbox'[coord] = inbox[coord]
      BY <1>0, <1>1, <2>1 DEF MailTyped
    <3> QED
      BY <1>2, <3>1 DEF RegistrationsMatch, RegistrationsQueued
  <2>2. CASE m.to = coord
    <3>1. PICK q \in Seq(Datagrams) : q = inbox[coord]
      BY <1>0 DEF MailTyped
    <3>2. inbox'[coord] = Append(q, m)
      BY <1>0, <1>1, <2>2, <3>1 DEF MailTyped
    <3>3. /\ Len(Append(q, m)) = Len(q) + 1 /\ Len(q) \in Nat
          /\ \A i \in 1 .. Len(q) : Append(q, m)[i] = q[i]
          /\ Append(q, m)[Len(q) + 1] = m
      BY <1>1
    <3>4. m.type = "registration" => /\ m.body.kid = k /\ m.body.pid = kids[k].pid
      BY <1>0 DEF RegistrationsMatch, RegistrationsSent
    <3>5. \A i \in 1 .. Len(q) : q[i].type = "registration" =>
             LET s == q[i].body IN
             /\ s.kid \in workload.kids /\ s.pid <= kids[s.kid].pid
             /\ \A g \in 1 .. Len(q) : (g > i /\ q[g].type = "registration" /\ q[g].body.kid = s.kid)
                                          => s.pid <= q[g].body.pid
             /\ \A r \in strands : r.kid = s.kid => r.pid <= s.pid
      BY <3>1 DEF RegistrationsMatch, RegistrationsQueued
    <3> SUFFICES ASSUME NEW i \in 1 .. Len(q) + 1, Append(q, m)[i].type = "registration"
                 PROVE  LET s == Append(q, m)[i].body IN
                        /\ s.kid \in workload.kids /\ s.pid <= kids[s.kid].pid
                        /\ \A g \in 1 .. Len(q) + 1 :
                              (g > i /\ Append(q, m)[g].type = "registration"
                                 /\ Append(q, m)[g].body.kid = s.kid) => s.pid <= Append(q, m)[g].body.pid
                        /\ \A r \in strands : r.kid = s.kid => r.pid <= s.pid
      BY <1>2, <3>2, <3>3 DEF RegistrationsQueued
    <3>6. CASE i \in 1 .. Len(q)
      <4>1. Append(q, m)[i] = q[i] /\ q[i].type = "registration"
        BY <3>3, <3>6
      <4>2. PICK s : s = q[i].body
        OBVIOUS
      <4>3. /\ s.kid \in workload.kids /\ s.pid <= kids[s.kid].pid
            /\ \A g \in 1 .. Len(q) : (g > i /\ q[g].type = "registration" /\ q[g].body.kid = s.kid)
                                          => s.pid <= q[g].body.pid
            /\ \A r \in strands : r.kid = s.kid => r.pid <= s.pid
        BY <3>5, <3>6, <4>1, <4>2
      <4>4. ASSUME NEW g \in 1 .. Len(q) + 1, g > i, Append(q, m)[g].type = "registration",
                   Append(q, m)[g].body.kid = s.kid
            PROVE  s.pid <= Append(q, m)[g].body.pid
        <5>1. CASE g \in 1 .. Len(q)
          BY <3>3, <4>3, <4>4, <5>1
        <5>2. CASE g = Len(q) + 1
          BY <3>3, <3>4, <4>3, <4>4, <5>2
        <5> QED
          BY <3>3, <5>1, <5>2
      <4> QED
        BY <4>1, <4>2, <4>3, <4>4
    <3>7. CASE i = Len(q) + 1
      <4>1. Append(q, m)[i] = m /\ m.body.kid = k /\ m.body.pid = kids[k].pid
        BY <3>3, <3>4, <3>7
      <4>2. \A g \in 1 .. Len(q) + 1 : ~(g > i)
        BY <3>3, <3>7
      <4>3. \A r \in strands : r.kid = k => r.pid <= kids[k].pid
        BY DEF RegistrationsMatch, RegistrationsKept
      <4> QED
        BY <1>0, <4>1, <4>2, <4>3
    <3> QED
      BY <3>3, <3>6, <3>7
  <2> QED
    BY <2>1, <2>2
<1> QED
  BY <1>3, <1>4, <1>5 DEF RegistrationsMatch

LEMMA RegistrationsHandled ==
    ASSUME SmpBase, RegistrationsMatch, handleRegistrationRequest
    PROVE  RegistrationsMatch'
<1>0. MailTyped /\ KeptTyped /\ coord \in Kid
  BY BaseKids
<1>1. PICK s \in StrandCoords : s = Head(inbox[coord]).body
  BY RegistrationMail
<1>2. /\ inbox[coord] # <<>> /\ Head(inbox[coord]) \in Registrations
      /\ Posts(coord, SearchResponses \cup {AckOf(s)}) /\ SearchResponses \cup {AckOf(s)} \subseteq Datagrams
      /\ inbox' = [inbox EXCEPT ![coord] = Tail(inbox[coord])]
  BY <1>1, RegistrationMail
<1>3. UNCHANGED <<kids, workload>>
  BY DEF handleRegistrationRequest, kidVars
<1>4. PICK n \in StrandCoords : /\ n.kid = s.kid /\ n.pid = s.pid
                                /\ strands' = {r \in strands : r.kid # s.kid} \cup {n}
  BY <1>1, RegistrationKeeps
<1>5. PICK q \in Seq(Datagrams) : q = inbox[coord]
  BY <1>0 DEF MailTyped
<1>6. /\ inbox'[coord] = Tail(q) /\ q # <<>> /\ q[1].type = "registration" /\ q[1].body = s
      /\ Len(q) \in Nat /\ Len(q) > 0 /\ Len(Tail(q)) = Len(q) - 1
      /\ \A i \in 1 .. Len(q) - 1 : Tail(q)[i] = q[i + 1]
  <2>1. /\ Head(q) = q[1] /\ Len(q) \in Nat /\ Len(q) > 0 /\ Len(Tail(q)) = Len(q) - 1
        /\ \A i \in 1 .. Len(q) - 1 : Tail(q)[i] = q[i + 1]
    BY <1>2, <1>5, HeadTail
  <2>2. Head(q).type = "registration"
    BY <1>2, <1>5 DEF Registrations
  <2> QED
    BY <1>0, <1>1, <1>2, <1>5, <2>1, <2>2 DEF MailTyped
<1>7. \A i \in 1 .. Len(q) : q[i].type = "registration" =>
             LET x == q[i].body IN
             /\ x.kid \in workload.kids /\ x.pid <= kids[x.kid].pid
             /\ \A g \in 1 .. Len(q) : (g > i /\ q[g].type = "registration" /\ q[g].body.kid = x.kid)
                                          => x.pid <= q[g].body.pid
             /\ \A r \in strands : r.kid = x.kid => r.pid <= x.pid
  BY <1>5 DEF RegistrationsMatch, RegistrationsQueued
<1>8. /\ s.kid \in workload.kids /\ s.pid <= kids[s.kid].pid
      /\ \A g \in 1 .. Len(q) : (g > 1 /\ q[g].type = "registration" /\ q[g].body.kid = s.kid)
                                    => s.pid <= q[g].body.pid
  <2>1. 1 \in 1 .. Len(q)
    BY <1>6
  <2> QED
    BY <1>6, <1>7, <2>1
<1>9. RegistrationsSent'
  <2> SUFFICES ASSUME NEW h \in Kid, NEW m \in BagToSet(out'[h]), m.type = "registration"
               PROVE  h \in workload.kids /\ m.body.kid = h /\ m.body.pid = kids[h].pid
    BY <1>3 DEF RegistrationsSent
  <2>1. m \in BagToSet(out[h]) \/ m \in SearchResponses \/ m = AckOf(s)
    BY <1>0, <1>2 DEF Posts, MailTyped
  <2>2. m \in BagToSet(out[h])
    BY <2>1 DEF SearchResponses, AckOf
  <2> QED
    BY <2>2 DEF RegistrationsMatch, RegistrationsSent
<1>10. RegistrationsKept'
  <2> SUFFICES ASSUME NEW r \in strands' PROVE r.kid \in workload.kids /\ r.pid <= kids[r.kid].pid
    BY <1>3 DEF RegistrationsKept
  <2> QED
    BY <1>4, <1>8 DEF RegistrationsMatch, RegistrationsKept
<1>11. RegistrationsQueued'
  <2> SUFFICES ASSUME NEW i \in 1 .. Len(Tail(q)), Tail(q)[i].type = "registration"
               PROVE  LET x == Tail(q)[i].body IN
                      /\ x.kid \in workload.kids /\ x.pid <= kids[x.kid].pid
                      /\ \A g \in 1 .. Len(Tail(q)) :
                            (g > i /\ Tail(q)[g].type = "registration"
                               /\ Tail(q)[g].body.kid = x.kid) => x.pid <= Tail(q)[g].body.pid
                      /\ \A r \in strands' : r.kid = x.kid => r.pid <= x.pid
    BY <1>3, <1>6 DEF RegistrationsQueued
  <2>1. /\ i + 1 \in 1 .. Len(q) /\ Tail(q)[i] = q[i + 1] /\ i + 1 > 1
        /\ \A g \in 1 .. Len(Tail(q)) : g + 1 \in 1 .. Len(q) /\ Tail(q)[g] = q[g + 1]
        /\ \A g \in 1 .. Len(Tail(q)) : g > i => g + 1 > i + 1
    BY <1>6
  <2>2. PICK x : x = q[i + 1].body
    OBVIOUS
  <2>3. /\ x.kid \in workload.kids /\ x.pid <= kids[x.kid].pid
        /\ \A g \in 1 .. Len(q) : (g > i + 1 /\ q[g].type = "registration" /\ q[g].body.kid = x.kid)
                                      => x.pid <= q[g].body.pid
        /\ \A r \in strands : r.kid = x.kid => r.pid <= x.pid
    BY <1>7, <2>1, <2>2
  <2>4. \A r \in strands' : r.kid = x.kid => r.pid <= x.pid
    BY <1>4, <1>8, <2>1, <2>2, <2>3
  <2> QED
    BY <2>1, <2>2, <2>3, <2>4
<1> QED
  BY <1>9, <1>10, <1>11 DEF RegistrationsMatch

LEMMA RegistrationsMove ==
    ASSUME SmpBase, RegistrationsMatch, KidsMove
    PROVE  RegistrationsMatch'
<1>0. /\ MailTyped /\ KeptTyped /\ GoneForgotten /\ coord \in Kid /\ workload.kids \subseteq Kid
      /\ \A k \in workload.kids : kids[k].pid \in Nat
  BY BaseKids
<1>1. UNCHANGED <<workload, out, inbox, strands>>
  BY DEF KidsMove
<1>2. \A k \in workload.kids : kids'[k].pid \in Nat /\ kids'[k].pid >= kids[k].pid
  BY <1>0 DEF KidsMove
<1>3. \A k \in workload.kids : proc[k].alive => kids'[k].pid = kids[k].pid
  BY DEF KidsMove
<1>4. RegistrationsSent'
  <2> SUFFICES ASSUME NEW k \in Kid, NEW m \in BagToSet(out[k]), m.type = "registration"
               PROVE  k \in workload.kids /\ m.body.kid = k /\ m.body.pid = kids'[k].pid
    BY <1>1 DEF RegistrationsSent
  <2>1. Alive(k)
    BY <1>0, BagNone DEF GoneForgotten
  <2> QED
    BY <1>3, <2>1 DEF RegistrationsMatch, RegistrationsSent, Alive
<1>5. RegistrationsKept'
  <2> SUFFICES ASSUME NEW s \in strands PROVE s.kid \in workload.kids /\ s.pid <= kids'[s.kid].pid
    BY <1>1 DEF RegistrationsKept
  <2>1. s.pid \in Nat /\ s.kid \in workload.kids /\ s.pid <= kids[s.kid].pid
    BY <1>0 DEF RegistrationsMatch, RegistrationsKept, KeptTyped, StrandCoords
  <2> QED
    BY <1>0, <1>2, <2>1
<1>6. RegistrationsQueued'
  <2>1. ASSUME NEW i \in 1 .. Len(inbox[coord]), inbox[coord][i].type = "registration"
        PROVE  LET s == inbox[coord][i].body IN s.kid \in workload.kids /\ s.pid <= kids'[s.kid].pid
    <3>1. PICK s : s = inbox[coord][i].body
      OBVIOUS
    <3>2. inbox[coord][i] \in Datagrams
      BY <1>0 DEF MailTyped
    <3>3. inbox[coord][i] \in Registrations
      BY <2>1, <3>2, KindsOfMail
    <3>4. s.pid \in Nat
      BY <3>1, <3>3 DEF Registrations, StrandCoords
    <3>5. s.kid \in workload.kids /\ s.pid <= kids[s.kid].pid
      BY <2>1, <3>1 DEF RegistrationsMatch, RegistrationsQueued
    <3> QED
      BY <1>0, <1>2, <3>1, <3>4, <3>5
  <2> QED
    BY <1>1, <2>1 DEF RegistrationsMatch, RegistrationsQueued
<1> QED
  BY <1>4, <1>5, <1>6 DEF RegistrationsMatch

\* What a step sends, by kind.
Flow(T) == \E j \in Kid, k \in Kid, N \in SUBSET Datagrams :
              Posts(j, N) /\ Reads(k) /\ \A m \in N : m.type \in T

LEMMA FlowUnder ==
    ASSUME MailTyped, NEW T, Flow(T)
    PROVE  \A m \in Under' : m \in Under \/ m.type \in T
<1>1. PICK j \in Kid, k \in Kid, N \in SUBSET Datagrams :
         Posts(j, N) /\ Reads(k) /\ \A m \in N : m.type \in T
  BY DEF Flow
<1>2. Under' \subseteq Under \cup N
  BY <1>1, UnderStep
<1> QED
  BY <1>1, <1>2

LEMMA Flows ==
    ASSUME SmpBase
    PROVE  /\ \A k \in workload.kids : Boot(k) => Flow({"registration", "searchRequest"})
           /\ SomeQuiet => Flow({"searchResponse", "mgrRequest", "mgrAck"})
           /\ handleRegistrationRequest => Flow({"searchResponse", "ack"})
           /\ \A k \in workload.kids \ {coord} : handleRegistrationResponse(k) => Flow({})
           /\ \A k \in workload.kids \ {coord} : respond(k) => Flow({"answer"})
           /\ \A w \in Workers, a \in Addrs : JoinSharedListen(w, a) => Flow({"listenRequest"})
           /\ handleSharedListenRequest /\ port' = port => Flow({"listenResponse"})
           /\ \A w \in Workers : SharedListenJoined(w) => Flow({})
           /\ \A i \in inquirers : InquirerTakes(i) => Flow({"inquiry"})
<1>0. MailTyped /\ GoneForgotten /\ coord \in Kid /\ workload.kids \subseteq Kid /\ Workers \subseteq Kid
  BY BaseKids, KidNames
<1>1. ASSUME NEW k \in workload.kids, Boot(k) PROVE Flow({"registration", "searchRequest"})
  <2>1. PICK N \in SUBSET Datagrams :
           N = SearchRequests \cup OwnRegistrations(k) /\ Posts(k, N) /\ Reads(k)
    BY <1>1, BootMail
  <2>2. \A m \in N : m.type \in {"registration", "searchRequest"}
    BY <2>1 DEF SearchRequests, OwnRegistrations, Registrations
  <2> QED
    BY <1>0, <2>1, <2>2 DEF Flow
<1>2. ASSUME SomeQuiet PROVE Flow({"searchResponse", "mgrRequest", "mgrAck"})
  <2>1. \A m \in QuietMail : m.type \in {"searchResponse", "mgrRequest", "mgrAck"}
    BY DEF QuietMail, SearchResponses, MgrRequests, MgrAcks
  <2> QED
    BY <1>2, <2>1 DEF SomeQuiet, Quiet, Flow
<1>3. ASSUME handleRegistrationRequest PROVE Flow({"searchResponse", "ack"})
  <2>1. PICK s \in StrandCoords : s = Head(inbox[coord]).body
    BY <1>3, RegistrationMail
  <2>2. PICK N \in SUBSET Datagrams :
           N = SearchResponses \cup {AckOf(s)} /\ Posts(coord, N) /\ Reads(coord)
    BY <1>3, <2>1, RegistrationMail
  <2>3. \A m \in N : m.type \in {"searchResponse", "ack"}
    BY <2>2 DEF SearchResponses, AckOf
  <2> QED
    BY <1>0, <2>2, <2>3 DEF Flow
<1>4. ASSUME NEW k \in workload.kids \ {coord}, handleRegistrationResponse(k) PROVE Flow({})
  <2>1. out' = out /\ Received(k, "ack")
    BY <1>4 DEF handleRegistrationResponse
  <2>2. Posts(k, {}) /\ Reads(k) /\ k \in Kid
    BY <1>0, <2>1, SentIsPosted, ReceivedIsRead
  <2> QED
    BY <2>2 DEF Flow
<1>5. ASSUME NEW k \in workload.kids \ {coord}, respond(k) PROVE Flow({"answer"})
  <2>1. PICK m \in Datagrams : m = AnswerTo(Head(inbox[k])) /\ m \in Answers /\ Posts(k, {m}) /\ Reads(k)
    BY <1>5, RespondMail
  <2>2. m.type = "answer" /\ k \in Kid
    BY <1>0, <2>1 DEF Answers
  <2> QED
    BY <2>1, <2>2 DEF Flow
<1>6. ASSUME NEW w \in Workers, NEW a \in Addrs, JoinSharedListen(w, a) PROVE Flow({"listenRequest"})
  <2>1. \E id \in Nat :
           LET m == ListenRequest(w, id, a) IN
           /\ \A r \in asked[w] : r.id # id
           /\ asked' = [asked EXCEPT ![w] = asked[w] \cup {[id |-> id, addr |-> a]}]
           /\ m \in ListenRequests /\ m \in Datagrams
           /\ out' = [out EXCEPT ![w] = (out[w] (+) SetToBag({m}))]
           /\ Posts(w, {m})
    BY <1>6, JoinMail
  <2>2. PICK m \in Datagrams : m \in ListenRequests /\ Posts(w, {m})
    BY <2>1
  <2>3. w \in Kid /\ Reads(w) /\ m.type = "listenRequest"
    BY <1>6, <2>2, JoinMail DEF ListenRequests
  <2> QED
    BY <2>2, <2>3 DEF Flow
<1>7. ASSUME handleSharedListenRequest, port' = port PROVE Flow({"listenResponse"})
  <2>1. PICK m \in Datagrams : m \in ListenResponses /\ Posts(coord, {m}) /\ Reads(coord)
    BY <1>7, ListenMail
  <2>2. m.type = "listenResponse"
    BY <2>1 DEF ListenResponses
  <2> QED
    BY <1>0, <2>1, <2>2 DEF Flow
<1>8. ASSUME NEW w \in Workers, SharedListenJoined(w) PROVE Flow({})
  BY <1>0, <1>8, JoinedMail DEF Flow
<1>9. ASSUME NEW i \in inquirers, InquirerTakes(i) PROVE Flow({"inquiry"})
  <2>1. Reads(coord) /\ Advances(i)
    BY <1>9 DEF InquirerTakes
  <2>2. CASE out' = out
    <3>1. Posts(coord, {})
      BY <1>0, <2>2, SentIsPosted
    <3> QED
      BY <1>0, <2>1, <3>1 DEF Flow
  <2>3. ASSUME NEW m \in Datagrams, m \in Inquiries, Posts(coord, {m}) PROVE Flow({"inquiry"})
    BY <1>0, <2>1, <2>3 DEF Flow, Inquiries
  <2> QED
    BY <2>1, <2>2, <2>3 DEF Advances
<1> QED
  BY <1>1, <1>2, <1>3, <1>4, <1>5, <1>6, <1>7, <1>8, <1>9

LEMMA RegistrationsFlow ==
    ASSUME SmpBase, RegistrationsMatch, NEW T, Flow(T), "registration" \notin T,
           kids' = kids, workload' = workload, strands' \subseteq strands
    PROVE  RegistrationsMatch'
  BY RegistrationsFrame DEF Flow, SmpBase

LEMMA RegistrationsStep ==
    ASSUME SmpBase, RegistrationsMatch, [SmpNext]_smpVars
    PROVE  RegistrationsMatch'
<1>0. MailTyped /\ coord \in Kid /\ workload.kids \subseteq Kid
  BY BaseKids
<1>1. ASSUME NEW k \in workload.kids, Dying(k) PROVE RegistrationsMatch'
  <2>1. /\ k \in Kid /\ Posts(k, {}) /\ Reads(k) /\ UNCHANGED <<workload, kids>>
        /\ strands' \subseteq strands
    BY <1>1, DyingMail
  <2> QED
    BY <1>0, <2>1, RegistrationsFrame
<1>2. CASE ProcessActs
  <2>0. UNCHANGED <<kids, workload>>
    BY <1>2, KidsStay
  <2>1. CASE handleRegistrationRequest
    BY <2>1, RegistrationsHandled
  <2>2. CASE ~handleRegistrationRequest
    <3>0. strands' \subseteq strands
      BY <1>2, <2>2, ActsChange DEF Changes, JobEnds
    <3>1. ASSUME NEW k \in workload.kids, Boot(k) PROVE RegistrationsMatch'
      <4>1. PICK N \in SUBSET Datagrams :
               N = SearchRequests \cup OwnRegistrations(k) /\ Posts(k, N) /\ Reads(k)
        BY <3>1, BootMail
      <4>2. \A m \in N : m.type = "registration" => m \in OwnRegistrations(k) /\ k \in workload.kids
        BY <4>1 DEF SearchRequests
      <4> QED
        BY <1>0, <2>0, <3>0, <4>1, <4>2, RegistrationsFrame
    <3>2. ASSUME NEW k \in workload.kids, NEW m \in BagToSet(out[k]), Wrote(k, m)
          PROVE  RegistrationsMatch'
      BY <3>2, RegistrationsWrote
    <3>3. ASSUME NEW T, Flow(T), "registration" \notin T PROVE RegistrationsMatch'
      BY <2>0, <3>0, <3>3, RegistrationsFlow
    <3>4. /\ "registration" \notin {"searchResponse", "mgrRequest", "mgrAck"}
          /\ "registration" \notin {"answer"} /\ "registration" \notin {"listenRequest"}
          /\ "registration" \notin {"listenResponse"} /\ "registration" \notin {"inquiry"}
      OBVIOUS
    <3> QED
      BY <1>2, <2>2, <3>1, <3>2, <3>3, <3>4, ActsOnMail, Flows
  <2> QED
    BY <2>1, <2>2
<1> QED
  BY <1>1, <1>2, BaseStep, RegistrationsMove

-----------------------------------------------------------------------------
(* Acknowledgements                                                        *)

LEMMA AckTypes ==
    ASSUME SmpBase
    PROVE  /\ kids[coord].pid \in Nat /\ coord \in workload.kids
           /\ \A k \in workload.kids : kids[k].pid \in Nat /\ acked[k] \in Nat
           /\ \A s \in strands : s.pid \in Nat
           /\ \A m \in Under : m.type = "ack" => m.body.by \in Nat /\ m.body.pid \in Nat
<1>1. \A m \in Under : m.type = "ack" => m \in Acks
  BY KindsOfMail DEF Under
<1> QED
  BY <1>1, BaseKids DEF KeptTyped, StrandCoords, Acks

LEMMA AcksFrame ==
    ASSUME AcksMatch, \A m \in Under' : m \in Under \/ m.type # "ack",
           UNCHANGED <<kids, proc, workload, acked>>, Recording' => Recording /\ strands' = strands
    PROVE  AcksMatch'
  BY DEF AcksMatch, Recorded

LEMMA AcksHandled ==
    ASSUME SmpBase, RegistrationsMatch, AcksMatch, handleRegistrationRequest
    PROVE  AcksMatch'
<1>0. MailTyped /\ GoneForgotten /\ coord \in Kid
  BY BaseKids
<1>1. PICK s \in StrandCoords : s = Head(inbox[coord]).body
  BY RegistrationMail
<1>2. /\ inbox[coord] # <<>> /\ Head(inbox[coord]) \in Registrations /\ Reads(coord)
      /\ Posts(coord, SearchResponses \cup {AckOf(s)}) /\ SearchResponses \cup {AckOf(s)} \subseteq Datagrams
  BY <1>1, RegistrationMail
<1>3. UNCHANGED <<kids, proc, workload, acked, port>>
  BY DEF handleRegistrationRequest, kidVars, strandVars
<1>4. PICK n \in StrandCoords : /\ n.kid = s.kid /\ n.pid = s.pid
                                /\ strands' = {r \in strands : r.kid # s.kid} \cup {n}
  BY <1>1, RegistrationKeeps
<1>5. \A m \in Under' : m \in Under \/ m.type # "ack" \/ m = AckOf(s)
  <2>1. Under' \subseteq Under \cup (SearchResponses \cup {AckOf(s)})
    BY <1>0, <1>2, UnderStep
  <2>2. \A m \in SearchResponses : m.type # "ack"
    BY DEF SearchResponses
  <2> QED
    BY <2>1, <2>2
<1>6. \A r \in strands : r.kid = s.kid => r.pid <= s.pid
  <2>1. 1 \in 1 .. Len(inbox[coord]) /\ inbox[coord][1].body = s /\ inbox[coord][1].type = "registration"
    BY <1>0, <1>1, <1>2, Reading DEF Registrations
  <2> QED
    BY <2>1 DEF RegistrationsMatch, RegistrationsQueued
<1>7. s.pid \in Nat /\ s.kid \in Strand
  BY DEF StrandCoords
<1>8. ASSUME NEW k, NEW pid \in Nat, Recorded(k, pid) PROVE Recorded(k, pid)'
  <2>1. PICK r \in strands : r.kid = k /\ r.pid >= pid
    BY <1>8 DEF Recorded
  <2>2. r.pid \in Nat
    BY AckTypes
  <2>3. CASE r.kid = s.kid
    <3>1. n \in strands' /\ n.kid = k /\ n.pid >= pid
      BY <1>4, <1>6, <1>7, <2>1, <2>2, <2>3
    <3> QED
      BY <3>1 DEF Recorded
  <2>4. CASE r.kid # s.kid
    <3>1. r \in strands'
      BY <1>4, <2>4
    <3> QED
      BY <2>1, <3>1 DEF Recorded
  <2> QED
    BY <2>3, <2>4
<1>9. Recorded(s.kid, s.pid)'
  BY <1>4, <1>7 DEF Recorded
<1>10. /\ AckOf(s).body.by = kids[coord].pid /\ AckOf(s).to = s.kid /\ AckOf(s).body.pid = s.pid
  BY DEF AckOf
<1>11. Recording' = Recording
  BY <1>3 DEF Alive, Recording
<1>12. \A m \in Under' : m.type = "ack" =>
          /\ m.body.by <= kids'[coord].pid
          /\ (Recording' /\ m.body.by = kids'[coord].pid) => Recorded(m.to, m.body.pid)'
  <2> SUFFICES ASSUME NEW m \in Under', m.type = "ack"
               PROVE  /\ m.body.by <= kids[coord].pid
                      /\ (Recording /\ m.body.by = kids[coord].pid) => Recorded(m.to, m.body.pid)'
    BY <1>3, <1>11
  <2>1. CASE m = AckOf(s)
    BY <1>9, <1>10, <2>1, AckTypes
  <2>2. CASE m \in Under
    BY <1>8, <2>2, AckTypes DEF AcksMatch
  <2> QED
    BY <1>5, <2>1, <2>2
<1>13. \A k \in workload.kids \ {coord} :
          /\ acked[k] <= kids[coord].pid
          /\ (acked[k] # 0 /\ Recording /\ acked[k] = kids[coord].pid)
                => \E r \in strands' : r.kid = k /\ r.pid >= kids[k].pid
  <2> SUFFICES ASSUME NEW k \in workload.kids \ {coord}
               PROVE  /\ acked[k] <= kids[coord].pid
                      /\ (acked[k] # 0 /\ Recording /\ acked[k] = kids[coord].pid)
                            => \E r \in strands' : r.kid = k /\ r.pid >= kids[k].pid
    OBVIOUS
  <2>1. PICK pid \in Nat : pid = kids[k].pid
    BY AckTypes
  <2>2. (acked[k] # 0 /\ Recording /\ acked[k] = kids[coord].pid) => Recorded(k, pid)
    BY <2>1 DEF AcksMatch
  <2>3. (acked[k] # 0 /\ Recording /\ acked[k] = kids[coord].pid) => Recorded(k, pid)'
    BY <1>8, <2>2
  <2> QED
    BY <2>1, <2>3 DEF AcksMatch, Recorded
<1> QED
  BY <1>3, <1>11, <1>12, <1>13 DEF AcksMatch, Recorded

LEMMA AcksTaken ==
    ASSUME SmpBase, AcksMatch, NEW k \in workload.kids \ {coord},
           handleRegistrationResponse(k)
    PROVE  AcksMatch'
<1>0. MailTyped /\ GoneForgotten /\ KeptTyped /\ k \in Kid
  BY BaseKids
<1>1. PICK m : m = Head(inbox[k])
  OBVIOUS
<1>2. /\ inbox[k] # <<>> /\ m.type = "ack"
      /\ acked' = IF m.body.pid = kids[k].pid THEN [acked EXCEPT ![k] = m.body.by] ELSE acked
      /\ UNCHANGED <<kids, proc, workload, strands, port>>
  BY <1>1 DEF handleRegistrationResponse, Received, Body, kidVars, coordVars
<1>3. m \in Under /\ m.to = k
  BY <1>0, <1>1, <1>2, Reading
<1>4. \A n \in Under' : n \in Under
  BY <1>0, Flows, FlowUnder
<1>5. /\ m.body.by <= kids[coord].pid
      /\ (Recording /\ m.body.by = kids[coord].pid) => Recorded(k, m.body.pid)
  BY <1>2, <1>3 DEF AcksMatch
<1>6. \A j \in workload.kids \ {coord} :
          /\ acked'[j] <= kids[coord].pid
          /\ (acked'[j] # 0 /\ Recording /\ acked'[j] = kids[coord].pid)
                => Recorded(j, kids[j].pid)
  <2> SUFFICES ASSUME NEW j \in workload.kids \ {coord}
               PROVE  /\ acked'[j] <= kids[coord].pid
                      /\ (acked'[j] # 0 /\ Recording /\ acked'[j] = kids[coord].pid)
                            => Recorded(j, kids[j].pid)
    OBVIOUS
  <2>1. CASE acked'[j] = acked[j]
    BY <2>1 DEF AcksMatch
  <2>2. CASE j = k /\ acked'[j] = m.body.by /\ m.body.pid = kids[k].pid
    BY <1>5, <2>2
  <2> QED
    BY <1>0, <1>2, <2>1, <2>2 DEF KeptTyped
<1> QED
  BY <1>2, <1>4, <1>6 DEF AcksMatch, Recorded, Recording, Alive

LEMMA AcksMove ==
    ASSUME SmpBase, AcksMatch, KidsMove
    PROVE  AcksMatch'
<1>0. GoneForgotten /\ coord \in Kid /\ workload.kids \subseteq Kid
  BY BaseKids
<1>1. UNCHANGED <<workload, strands, acked>> /\ Under' = Under
  BY DEF KidsMove, Under
<1>2. \/ kids'[coord].pid = kids[coord].pid /\ Recording' = Recording
      \/ kids'[coord].pid = kids[coord].pid + 1
  BY AckTypes DEF KidsMove, Alive, Recording
<1>3. \A m \in Under : m.type = "ack" =>
          /\ m.body.by <= kids'[coord].pid
          /\ (Recording' /\ m.body.by = kids'[coord].pid) => Recorded(m.to, m.body.pid)
  BY <1>2, AckTypes DEF AcksMatch
<1>4. \A k \in workload.kids \ {coord} :
          /\ acked[k] <= kids'[coord].pid
          /\ (acked[k] # 0 /\ Recording' /\ acked[k] = kids'[coord].pid)
                => Recorded(k, kids'[k].pid)
  <2> SUFFICES ASSUME NEW k \in workload.kids \ {coord}
               PROVE  /\ acked[k] <= kids'[coord].pid
                      /\ (acked[k] # 0 /\ Recording' /\ acked[k] = kids'[coord].pid)
                            => Recorded(k, kids'[k].pid)
    OBVIOUS
  <2>1. acked[k] <= kids'[coord].pid
    BY <1>2, AckTypes DEF AcksMatch
  <2>2. ASSUME acked[k] # 0, Recording', acked[k] = kids'[coord].pid
        PROVE  Recorded(k, kids'[k].pid)
    <3>1. Alive(k)
      BY <1>0, <2>2 DEF GoneForgotten
    <3>2. kids'[k].pid = kids[k].pid
      BY <3>1 DEF KidsMove, Alive
    <3>3. Recording /\ acked[k] = kids[coord].pid
      <4>1. acked[k] \in Nat /\ kids[coord].pid \in Nat
        BY AckTypes
      <4>2. acked[k] <= kids[coord].pid
        BY DEF AcksMatch
      <4>3. kids'[coord].pid # kids[coord].pid + 1
        BY <2>2, <4>1, <4>2
      <4> QED
        BY <1>2, <2>2, <4>3, Zenon
    <3> QED
      BY <2>2, <3>2, <3>3 DEF AcksMatch
  <2> QED
    BY <2>1, <2>2
<1> QED
  BY <1>1, <1>3, <1>4 DEF AcksMatch, Recorded

LEMMA AcksDying ==
    ASSUME SmpBase, AcksMatch, NEW k \in workload.kids, Dying(k)
    PROVE  AcksMatch'
<1>0. MailTyped /\ coord \in Kid /\ workload.kids \subseteq Kid
  BY BaseKids
<1>1. /\ k \in Kid /\ ~(Alive(k))' /\ UNCHANGED <<workload, kids>> /\ Posts(k, {}) /\ Reads(k)
      /\ \A j \in Kid : j # k => (Alive(j))' = Alive(j)
      /\ \A j \in Kid : acked'[j] = IF j = k THEN 0 ELSE acked[j]
      /\ k # coord => strands' = strands
  BY DyingMail
<1>2. Under' \subseteq Under
  <2>1. {} \in SUBSET Datagrams
    OBVIOUS
  <2> QED
    BY <1>0, <1>1, <2>1, UnderStep
<1>3. CASE k = coord
  <2>1. ~Recording'
    BY <1>1, <1>3 DEF Recording
  <2>2. \A j \in workload.kids \ {coord} : acked'[j] <= kids[coord].pid
    BY <1>0, <1>1, <1>3 DEF AcksMatch
  <2> QED
    BY <1>1, <1>2, <2>1, <2>2 DEF AcksMatch
<1>4. CASE k # coord
  <2>0. port'[coord] = port[coord]
    BY <1>0, <1>1, <1>4, DyingMail
  <2>1. Recording' = Recording /\ strands' = strands
    BY <1>0, <1>1, <1>4, <2>0 DEF Recording
  <2>2. \A j \in workload.kids \ {coord} :
          /\ acked'[j] <= kids[coord].pid
          /\ (acked'[j] # 0 /\ Recording /\ acked'[j] = kids[coord].pid)
                => Recorded(j, kids[j].pid)
    BY <1>0, <1>1, AckTypes DEF AcksMatch
  <2> QED
    BY <1>1, <1>2, <2>1, <2>2 DEF AcksMatch, Recorded
<1> QED
  BY <1>3, <1>4

LEMMA AcksStep ==
    ASSUME SmpBase, RegistrationsMatch, AcksMatch, [SmpNext]_smpVars
    PROVE  AcksMatch'
<1>0. MailTyped /\ workload.kids \subseteq Kid
  BY BaseKids
<1>1. CASE ProcessActs
  <2>0. UNCHANGED <<kids, proc, workload>>
    BY <1>1, KidsStay
  <2>1. CASE handleRegistrationRequest
    BY <2>1, AcksHandled
  <2>2. CASE \E k \in workload.kids \ {coord} : handleRegistrationResponse(k)
    BY <2>2, AcksTaken
  <2>3. ASSUME Recording' => Recording /\ strands' = strands, acked' = acked PROVE AcksMatch'
    <3>1. ASSUME NEW T, Flow(T), "ack" \notin T PROVE AcksMatch'
      <4>1. \A m \in Under' : m \in Under \/ m.type # "ack"
        BY <1>0, <3>1, FlowUnder
      <4> QED
        BY <2>0, <2>3, <4>1, AcksFrame
    <3>2. ASSUME NEW k \in workload.kids, NEW m \in BagToSet(out[k]), Wrote(k, m) PROVE AcksMatch'
      <4>1. Under' \subseteq Under
        BY <1>0, <3>2, WroteMail
      <4> QED
        BY <2>0, <2>3, <4>1, AcksFrame
    <3>3. /\ "ack" \notin {"searchResponse", "mgrRequest", "mgrAck"}
          /\ "ack" \notin {"registration", "searchRequest"}
          /\ "ack" \notin {"answer"} /\ "ack" \notin {"listenRequest"}
          /\ "ack" \notin {"listenResponse"} /\ "ack" \notin {"inquiry"} /\ "ack" \notin {}
      OBVIOUS
    <3> QED
      BY <1>1, <2>1, <2>2, <3>1, <3>2, <3>3, ActsOnMail, Flows
  <2>4. port[coord] = "dead" => port'[coord] = "dead"
    <3>1. port \in [Kid -> {"none", "listening", "dead"}] /\ coord \in Kid
      BY BaseKids DEF KeptTyped
    <3>2. ASSUME NEW k \in workload.kids, Boot(k) PROVE port[coord] = "dead" => port'[coord] = "dead"
      BY <3>1, <3>2 DEF Boot
    <3>3. ASSUME NEW k \in Kid, PortDies(k) PROVE port[coord] = "dead" => port'[coord] = "dead"
      BY <3>1, <3>3 DEF PortDies
    <3> QED
      BY <1>1, <3>2, <3>3, ActsChange DEF Changes
  <2>5. Recording' => Recording
    BY <2>0, <2>4 DEF Recording, Alive
  <2>6. JobEnds => ~Recording'
    <3>1. port \in [Kid -> {"none", "listening", "dead"}] /\ coord \in Kid
      BY BaseKids DEF KeptTyped
    <3> QED
      BY <3>1 DEF JobEnds, PortDies, Recording
  <2> QED
    BY <1>1, <2>1, <2>2, <2>3, <2>5, <2>6, ActsChange DEF Changes
<1> QED
  BY <1>1, BaseStep, AcksMove, AcksDying

-----------------------------------------------------------------------------
(* Inquiries                                                               *)

LEMMA InquiryTypes ==
    ASSUME SmpBase
    PROVE  /\ kids[coord].pid \in Nat /\ coord \in workload.kids /\ lastId[coord] \in Nat
           /\ \A i \in inquirers : i.id \in Nat
           /\ \A m \in Under : m.type \in {"inquiry", "answer"} => m.body.by \in Nat /\ m.body.id \in Nat
<1>1. \A m \in Under : m.type \in {"inquiry", "answer"} => m \in Inquiries \cup Answers
  BY KindsOfMail DEF Under
<1> QED
  BY <1>1, BaseKids DEF KeptTyped, Inquiries, Answers, Questions

\* What InquiriesMatch says of one datagram.
AsksRight(m) ==
    /\ m.body.by <= kids[coord].pid /\ m.body.id > 0
    /\ (Alive(coord) /\ m.body.by = kids[coord].pid) =>
          /\ m.body.id <= lastId[coord]
          /\ \A i \in inquirers : i.id = m.body.id => m.body.of = Min(i.todo)

LEMMA InquiriesAre ==
    InquiriesMatch <=> /\ \A m \in Under : m.type \in {"inquiry", "answer"} => AsksRight(m)
                       /\ \A i \in inquirers : i.id <= lastId[coord]
                       /\ \A a \in answers : a.own => a.asked = a.of
  BY DEF InquiriesMatch, AsksRight

LEMMA InquiriesFrame ==
    ASSUME SmpBase, InquiriesMatch,
           \A m \in Under' : m \in Under \/ m.type \notin {"inquiry", "answer"},
           UNCHANGED <<kids, proc, workload, answers>>, lastId'[coord] = lastId[coord],
           \A i \in inquirers' : i \in inquirers \/ i.id = 0
    PROVE  InquiriesMatch'
<1>1. (Alive(coord))' = Alive(coord)
  BY DEF Alive
<1>2. ASSUME NEW m \in Under', m.type \in {"inquiry", "answer"} PROVE AsksRight(m)'
  <2>1. m \in Under /\ AsksRight(m) /\ m.body.id \in Nat
    BY <1>2, InquiriesAre, InquiryTypes
  <2>2. \A i \in inquirers' : i.id = m.body.id => i \in inquirers
    BY <2>1 DEF AsksRight
  <2> QED
    BY <1>1, <2>1, <2>2 DEF AsksRight
<1>3. \A i \in inquirers' : i.id <= lastId'[coord]
  BY InquiryTypes DEF InquiriesMatch
<1>4. \A a \in answers' : a.own => a.asked = a.of
  BY DEF InquiriesMatch
<1> QED
  BY <1>2, <1>3, <1>4 DEF InquiriesMatch, AsksRight

LEMMA InquiriesTaken ==
    ASSUME SmpBase, InquiriesMatch, NEW i \in inquirers, InquirerTakes(i),
           UNCHANGED <<kids, proc, workload>>
    PROVE  InquiriesMatch'
<1>0. MailTyped /\ GoneForgotten /\ coord \in Kid /\ KeptTyped
  BY BaseKids
<1>1. (Alive(coord))' = Alive(coord) /\ Alive(coord)
  BY <1>0 DEF Alive, GoneForgotten
<1>2. \A a \in answers' : a.own => a.asked = a.of
  <2>1. CASE answers' = answers
    BY <2>1 DEF InquiriesMatch
  <2>2. ASSUME NEW m, m \in Answers, m \in Under, i.id = m.body.id,
               answers' = answers \cup {[asked |-> Min(i.todo), of |-> m.body.of,
                                         own |-> m.body.by = kids[coord].pid]}
        PROVE  \A a \in answers' : a.own => a.asked = a.of
    <3>1. m.type \in {"inquiry", "answer"}
      BY <2>2 DEF Answers
    <3>2. m.body.by = kids[coord].pid => m.body.of = Min(i.todo)
      BY <1>1, <2>2, <3>1 DEF InquiriesMatch
    <3>3. PICK own : own = (m.body.by = kids[coord].pid)
      OBVIOUS
    <3>4. PICK r : r = [asked |-> Min(i.todo), of |-> m.body.of, own |-> own]
      OBVIOUS
    <3>5. r.asked = Min(i.todo) /\ r.of = m.body.of /\ r.own = own
      BY <3>4
    <3>6. r.own => r.asked = r.of
      <4>1. own => m.body.by = kids[coord].pid
        BY <3>3, Zenon
      <4> QED
        BY <3>2, <3>5, <4>1, Zenon
    <3>7. answers' = answers \cup {r}
      BY <2>2, <3>3, <3>4, Zenon
    <3>8. \A a \in answers : a.own => a.asked = a.of
      BY DEF InquiriesMatch
    <3> QED
      BY <3>6, <3>7, <3>8, Zenon
  <2> QED
    BY <2>1, <2>2 DEF InquirerTakes
<1>3. Reads(coord) /\ Advances(i)
  BY DEF InquirerTakes
<1>4. CASE inquirers' = inquirers \ {i} /\ out' = out /\ lastId' = lastId
  <2>1. Posts(coord, {}) /\ {} \in SUBSET Datagrams
    BY <1>0, <1>4, SentIsPosted
  <2>2. Under' \subseteq Under \cup {}
    BY <1>0, <1>3, <2>1, UnderStep
  <2>3. \A m \in Under' : m.type \in {"inquiry", "answer"} => AsksRight(m)'
    BY <1>1, <1>4, <2>2, InquiriesAre DEF AsksRight
  <2>4. \A x \in inquirers' : x.id <= lastId'[coord]
    BY <1>4 DEF InquiriesMatch
  <2> QED
    BY <1>2, <2>3, <2>4 DEF InquiriesMatch, AsksRight
<1>5. ASSUME NEW x \in InquirerRecord, x.id = lastId[coord] + 1, x.todo # {},
             inquirers' = (inquirers \ {i}) \cup {x},
             lastId' = [lastId EXCEPT ![coord] = lastId[coord] + 1],
             Inquiry(Min(x.todo), x.id) \in Datagrams,
             Posts(coord, {Inquiry(Min(x.todo), x.id)})
      PROVE  InquiriesMatch'
  <2>1. PICK n \in Datagrams : n = Inquiry(Min(x.todo), x.id)
    BY <1>5
  <2>2. n.body.id = x.id /\ n.body.by = kids[coord].pid /\ n.body.of = Min(x.todo)
    BY <2>1 DEF Inquiry
  <2>3. Under' \subseteq Under \cup {n}
    BY <1>0, <1>3, <1>5, <2>1, UnderStep
  <2>4. lastId'[coord] = lastId[coord] + 1 /\ lastId[coord] \in Nat
    BY <1>0, <1>5 DEF KeptTyped
  <2>5. \A y \in inquirers : y.id \in Nat /\ y.id <= lastId[coord]
    BY InquiryTypes DEF InquiriesMatch
  <2>6. \A y \in inquirers' : y.id <= lastId'[coord]
    BY <1>5, <2>4, <2>5
  <2>7. AsksRight(n)'
    <3>1. \A y \in inquirers' : y.id = x.id => y = x
      BY <1>5, <2>4, <2>5
    <3>2. n.body.by <= kids'[coord].pid /\ n.body.id > 0 /\ n.body.id <= lastId'[coord]
      BY <1>5, <2>2, <2>4, InquiryTypes
    <3> QED
      BY <2>2, <3>1, <3>2 DEF AsksRight
  <2>8. ASSUME NEW m \in Under, m.type \in {"inquiry", "answer"} PROVE AsksRight(m)'
    <3>1. AsksRight(m) /\ m.body.id \in Nat
      BY <2>8, InquiriesAre, InquiryTypes
    <3>2. m.body.by <= kids'[coord].pid /\ m.body.id > 0
      BY <3>1 DEF AsksRight
    <3>3. ASSUME m.body.by = kids[coord].pid
          PROVE  /\ m.body.id <= lastId'[coord]
                 /\ \A y \in inquirers' : y.id = m.body.id => m.body.of = Min(y.todo)
      <4>1. /\ m.body.id <= lastId[coord]
            /\ \A y \in inquirers : y.id = m.body.id => m.body.of = Min(y.todo)
        BY <1>1, <3>1, <3>3 DEF AsksRight
      <4>2. x.id # m.body.id /\ m.body.id <= lastId'[coord]
        BY <1>5, <2>4, <3>1, <4>1
      <4> QED
        BY <1>5, <4>1, <4>2
    <3> QED
      BY <3>2, <3>3 DEF AsksRight
  <2>9. \A m \in Under' : m.type \in {"inquiry", "answer"} => AsksRight(m)'
    BY <2>3, <2>7, <2>8
  <2> QED
    BY <1>2, <2>6, <2>9 DEF InquiriesMatch, AsksRight
<1> QED
  BY <1>3, <1>4, <1>5 DEF Advances

LEMMA InquiriesAnswered ==
    ASSUME SmpBase, InquiriesMatch, NEW k \in workload.kids \ {coord}, respond(k),
           UNCHANGED <<kids, proc, workload>>
    PROVE  InquiriesMatch'
<1>0. MailTyped /\ GoneForgotten /\ coord \in Kid
  BY BaseKids
<1>1. PICK m, n : m = Head(inbox[k]) /\ n = AnswerTo(m)
  OBVIOUS
<1>2. /\ m \in Inquiries /\ m \in Under /\ k \in Kid /\ n \in Datagrams /\ n.body = m.body
      /\ Posts(k, {n}) /\ Reads(k) /\ UNCHANGED <<inquirers, answers, lastId>>
  BY <1>1, RespondMail
<1>3. Under' \subseteq Under \cup {n}
  BY <1>0, <1>2, UnderStep
<1>4. AsksRight(m)
  <2>1. m.type = "inquiry"
    BY <1>2 DEF Inquiries
  <2> QED
    BY <1>2, <2>1, InquiriesAre
<1>5. \A x \in Under' : x.type \in {"inquiry", "answer"} => AsksRight(x)
  BY <1>2, <1>3, <1>4, InquiriesAre DEF AsksRight
<1>6. \A x : AsksRight(x) => AsksRight(x)'
  BY <1>2 DEF AsksRight, Alive
<1> QED
  BY <1>2, <1>5, <1>6 DEF InquiriesMatch, AsksRight

LEMMA InquiriesMove ==
    ASSUME SmpBase, InquiriesMatch, KidsMove
    PROVE  InquiriesMatch'
<1>1. UNCHANGED <<workload, inquirers, answers, lastId>> /\ Under' = Under
  BY DEF KidsMove, Under
<1>2. \/ kids'[coord].pid = kids[coord].pid /\ (Alive(coord))' = Alive(coord)
      \/ kids'[coord].pid = kids[coord].pid + 1
  BY InquiryTypes DEF KidsMove, Alive
<1>3. ASSUME NEW m \in Under, m.type \in {"inquiry", "answer"} PROVE AsksRight(m)'
  <2>1. AsksRight(m) /\ m.body.by \in Nat /\ kids[coord].pid \in Nat
    BY <1>3, InquiriesAre, InquiryTypes
  <2>2. CASE kids'[coord].pid = kids[coord].pid /\ (Alive(coord))' = Alive(coord)
    BY <1>1, <2>1, <2>2 DEF AsksRight
  <2>3. CASE kids'[coord].pid = kids[coord].pid + 1
    <3>1. m.body.by <= kids'[coord].pid /\ m.body.by # kids'[coord].pid /\ m.body.id > 0
      BY <2>1, <2>3 DEF AsksRight
    <3> QED
      BY <3>1 DEF AsksRight
  <2> QED
    BY <1>2, <2>2, <2>3
<1> QED
  BY <1>1, <1>3 DEF InquiriesMatch, AsksRight

LEMMA InquiriesDying ==
    ASSUME SmpBase, InquiriesMatch, NEW k \in workload.kids, Dying(k)
    PROVE  InquiriesMatch'
<1>0. MailTyped /\ coord \in Kid
  BY BaseKids
<1>1. /\ k \in Kid /\ ~(Alive(k))' /\ UNCHANGED <<workload, kids>> /\ Posts(k, {}) /\ Reads(k)
      /\ \A j \in Kid : j # k => (Alive(j))' = Alive(j) /\ lastId'[j] = lastId[j]
      /\ answers' = answers
      /\ IF k = coord THEN inquirers' = {} ELSE inquirers' = inquirers
  BY DyingMail
<1>2. Under' \subseteq Under
  <2>1. {} \in SUBSET Datagrams
    OBVIOUS
  <2> QED
    BY <1>0, <1>1, <2>1, UnderStep
<1>3. CASE k = coord
  <2>1. ~(Alive(coord))' /\ inquirers' = {}
    BY <1>1, <1>3
  <2> QED
    BY <1>1, <1>2, <2>1 DEF InquiriesMatch
<1>4. CASE k # coord
  <2>1. (Alive(coord))' = Alive(coord) /\ inquirers' = inquirers /\ lastId'[coord] = lastId[coord]
    BY <1>0, <1>1, <1>4
  <2> QED
    BY <1>1, <1>2, <2>1 DEF InquiriesMatch
<1> QED
  BY <1>3, <1>4

LEMMA InquiriesStep ==
    ASSUME SmpBase, InquiriesMatch, [SmpNext]_smpVars
    PROVE  InquiriesMatch'
<1>0. MailTyped /\ workload.kids \subseteq Kid
  BY BaseKids
<1>1. CASE ProcessActs
  <2>0. UNCHANGED <<kids, proc, workload>>
    BY <1>1, KidsStay
  <2>1. ASSUME UNCHANGED <<answers, inquirers, lastId>>, NEW T, Flow(T), "inquiry" \notin T, "answer" \notin T
        PROVE  InquiriesMatch'
    <3>1. \A m \in Under' : m \in Under \/ m.type \notin {"inquiry", "answer"}
      BY <1>0, <2>1, FlowUnder
    <3> QED
      BY <2>0, <2>1, <3>1, InquiriesFrame
  <2>2. ASSUME NEW k \in workload.kids, NEW m \in BagToSet(out[k]), Wrote(k, m) PROVE InquiriesMatch'
    <3>1. Under' \subseteq Under
      BY <1>0, <2>2, WroteMail
    <3>2. UNCHANGED <<answers, inquirers, lastId>>
      BY <2>2 DEF Wrote, coordVars
    <3> QED
      BY <2>0, <3>1, <3>2, InquiriesFrame
  <2>3. CASE SomeQuiet
    <3>1. /\ answers' = answers /\ lastId'[coord] = lastId[coord]
          /\ \A i \in inquirers' : i \in inquirers \/ i.id = 0
      BY <2>3 DEF SomeQuiet, Quiet
    <3>2. \A m \in Under' : m \in Under \/ m.type \notin {"inquiry", "answer"}
      BY <1>0, <2>3, Flows, FlowUnder
    <3> QED
      BY <2>0, <3>1, <3>2, InquiriesFrame
  <2>4. CASE \E i \in inquirers : InquirerTakes(i)
    BY <2>0, <2>4, InquiriesTaken
  <2>5. CASE \E k \in workload.kids \ {coord} : respond(k)
    BY <2>0, <2>5, InquiriesAnswered
  <2>6. ASSUME NEW k \in workload.kids, Boot(k) PROVE InquiriesMatch'
    <3>1. UNCHANGED <<answers, inquirers, lastId>>
      BY <2>6 DEF Boot, coordVars
    <3>2. Flow({"registration", "searchRequest"})
      BY <2>6, Flows
    <3> QED
      BY <2>1, <3>1, <3>2
  <2>7. CASE handleRegistrationRequest
    <3>1. UNCHANGED <<answers, inquirers, lastId>>
      BY <2>7 DEF handleRegistrationRequest
    <3>2. Flow({"searchResponse", "ack"})
      BY <2>7, Flows
    <3> QED
      BY <2>1, <3>1, <3>2
  <2>8. ASSUME NEW k \in workload.kids \ {coord}, handleRegistrationResponse(k) PROVE InquiriesMatch'
    <3>1. UNCHANGED <<answers, inquirers, lastId>>
      BY <2>8 DEF handleRegistrationResponse, coordVars
    <3> QED
      BY <2>1, <2>8, <3>1, Flows
  <2>9. ASSUME NEW w \in Workers, NEW a \in Addrs, JoinSharedListen(w, a) PROVE InquiriesMatch'
    <3>1. (UNCHANGED <<answers, inquirers, lastId>>) /\ Flow({"listenRequest"})
      BY <2>9, JoinMail, Flows
    <3> QED
      BY <2>1, <3>1
  <2>10. CASE handleSharedListenRequest /\ port' = port
    <3>1. (UNCHANGED <<answers, inquirers, lastId>>) /\ Flow({"listenResponse"})
      BY <2>10, ListenMail, Flows
    <3> QED
      BY <2>1, <3>1
  <2>11. ASSUME NEW w \in Workers, SharedListenJoined(w) PROVE InquiriesMatch'
    <3>1. (UNCHANGED <<answers, inquirers, lastId>>) /\ Flow({})
      BY <2>11, JoinedMail, Flows
    <3> QED
      BY <2>1, <3>1
  <2> QED
    BY <1>1, <2>2, <2>3, <2>4, <2>5, <2>6, <2>7, <2>8, <2>9, <2>10, <2>11, ActsOnMail
<1> QED
  BY <1>1, BaseStep, InquiriesMove, InquiriesDying

-----------------------------------------------------------------------------
(* Listening sockets                                                       *)

\* One step later, every datagram of w is still in one place: the new ones are
\* like none of those that are left.
LEMMA PlacesKept ==
    ASSUME MailTyped, NEW w \in Workers, OnePlace(w), NEW j \in Kid, NEW k \in Kid,
           NEW N \in SUBSET Datagrams, Posts(j, N), Reads(k),
           \A n \in N : Mine(w, n) =>
              /\ n \in BagToSet(out'[j]) => out'[j][n] = 1
              /\ \A x \in N : Same(w, n, x) => n = x
              /\ \A h \in Kid : \A x \in BagToSet(out[h]) : ~Same(w, n, x)
              /\ \A h \in Kid : \A i \in 1 .. Len(inbox'[h]) : ~Same(w, n, inbox'[h][i])
    PROVE  OnePlace(w)'
<1>1. /\ \A h \in Kid : h # j => out'[h] = out[h]
      /\ BagToSet(out'[j]) \subseteq BagToSet(out[j]) \cup N
  BY DEF Posts, MailTyped
<1>2. \A m, n : Same(w, m, n) => Same(w, n, m)
  BY DEF Same
<1>3. \A h \in Kid : \A m \in BagToSet(out'[h]) : m \in BagToSet(out[h]) \/ (h = j /\ m \in N)
  BY <1>1
<1>4. \A h \in Kid : \A m \in BagToSet(out'[h]) : Mine(w, m) => out'[h][m] = 1
  <2> SUFFICES ASSUME NEW h \in Kid, NEW m \in BagToSet(out'[h]), Mine(w, m) PROVE out'[h][m] = 1
    OBVIOUS
  <2>1. CASE h = j /\ m \in N
    BY <2>1
  <2>2. CASE m \in BagToSet(out[h]) /\ ~(h = j /\ m \in N)
    <3>1. out[h][m] = 1
      BY <2>2 DEF OnePlace
    <3>2. CASE h # j
      BY <1>1, <3>1, <3>2
    <3>3. CASE h = j
      BY <2>2, <3>1, <3>3 DEF Posts
    <3> QED
      BY <3>2, <3>3
  <2> QED
    BY <1>3, <2>1, <2>2
<1>5. ASSUME NEW g \in Kid, NEW h \in Kid, NEW m \in BagToSet(out'[g]), NEW n \in BagToSet(out'[h]),
             Same(w, m, n)
      PROVE  g = h /\ m = n
  <2>0. Mine(w, m) /\ Mine(w, n) /\ Same(w, n, m)
    BY <1>5 DEF Same
  <2>1. CASE m \in BagToSet(out[g]) /\ n \in BagToSet(out[h])
    BY <1>5, <2>1 DEF OnePlace
  <2>2. CASE h = j /\ n \in N /\ ~(g = j /\ m \in N)
    BY <1>3, <2>0, <2>2
  <2>3. CASE g = j /\ m \in N /\ ~(h = j /\ n \in N)
    BY <1>3, <1>5, <2>0, <2>3
  <2>4. CASE g = j /\ h = j /\ m \in N /\ n \in N
    BY <1>5, <2>0, <2>4
  <2> QED
    BY <1>3, <2>1, <2>2, <2>3, <2>4
<1>6. ASSUME NEW g \in Kid, NEW h \in Kid, NEW m \in BagToSet(out'[g]), NEW i \in 1 .. Len(inbox'[h]),
             Same(w, m, inbox'[h][i])
      PROVE  FALSE
  <2>0. Mine(w, m)
    BY <1>6 DEF Same
  <2>1. CASE m \in N
    BY <1>6, <2>0, <2>1
  <2>2. CASE m \in BagToSet(out[g])
    <3>1. PICK x \in 1 .. Len(inbox[h]) : inbox'[h][i] = inbox[h][x]
      BY UnderStep
    <3>2. \A y \in 1 .. Len(inbox[h]) : ~Same(w, m, inbox[h][y])
      BY <2>2 DEF OnePlace
    <3>3. ~Same(w, m, inbox[h][x])
      BY <3>2
    <3> QED
      BY <1>6, <3>1, <3>3
  <2> QED
    BY <1>3, <2>1, <2>2
<1>7. ASSUME NEW g \in Kid, NEW h \in Kid, NEW a \in 1 .. Len(inbox'[g]), NEW b \in 1 .. Len(inbox'[h]),
             Same(w, inbox'[g][a], inbox'[h][b])
      PROVE  g = h /\ a = b
  <2>1. PICK d \in {0, 1} : \A i \in 1 .. Len(inbox'[g]) :
            i \in Nat /\ i + d \in 1 .. Len(inbox[g]) /\ inbox'[g][i] = inbox[g][i + d]
    BY Shift
  <2>2. PICK e \in {0, 1} : \A i \in 1 .. Len(inbox'[h]) :
            i \in Nat /\ i + e \in 1 .. Len(inbox[h]) /\ inbox'[h][i] = inbox[h][i + e]
    BY Shift
  <2>3. g = h
    BY <1>7, <2>1, <2>2 DEF OnePlace
  <2>4. inbox'[h][a] = inbox[h][a + d] /\ a + d \in 1 .. Len(inbox[h]) /\ a \in Nat
    BY <2>1, <2>3
  <2>5. inbox'[h][b] = inbox[h][b + d] /\ b + d \in 1 .. Len(inbox[h]) /\ b \in Nat
    BY <2>1, <2>3
  <2>6. a + d = b + d
    BY <1>7, <2>3, <2>4, <2>5 DEF OnePlace
  <2> QED
    BY <2>3, <2>4, <2>5, <2>6
<1> QED
  BY <1>4, <1>5, <1>6, <1>7 DEF OnePlace, Same, Mine

LEMMA FreshStays ==
    ASSUME UNCHANGED <<kids, proc, workload>>
    PROVE  \A w : Fresh(w)' = Fresh(w)
  BY DEF Fresh

\* Steps that send nothing about listening sockets.
LEMMA ListensFrame ==
    ASSUME MailTyped, NEW w \in Workers, OnePlace(w), Pending(w), NEW j \in Kid, NEW k \in Kid,
           NEW N \in SUBSET Datagrams, Posts(j, N), Reads(k), \A n \in N : ~Mine(w, n),
           asked'[w] = asked[w], joined'[w] = joined[w]
    PROVE  OnePlace(w)' /\ Pending(w)'
<1>1. OnePlace(w)'
  BY PlacesKept
<1>2. \A m \in Under' : Mine(w, m) => m \in Under
  BY UnderStep
<1> QED
  BY <1>1, <1>2 DEF Pending, Mine

LEMMA ListensFlow ==
    ASSUME SmpBase, ListensMatch, NEW T, Flow(T), "listenRequest" \notin T, "listenResponse" \notin T,
           UNCHANGED <<kids, proc, workload, asked, joined>>
    PROVE  ListensMatch'
<1>1. PICK j \in Kid, k \in Kid, N \in SUBSET Datagrams :
         Posts(j, N) /\ Reads(k) /\ \A m \in N : m.type \in T
  BY DEF Flow
<1>2. MailTyped
  BY BaseKids
<1> SUFFICES ASSUME NEW w \in Workers, Fresh(w) PROVE OnePlace(w)' /\ Pending(w)'
  BY FreshStays DEF ListensMatch
<1>3. OnePlace(w) /\ Pending(w)
  BY DEF ListensMatch
<1>4. \A n \in N : ~Mine(w, n)
  BY <1>1 DEF Mine
<1> QED
  BY <1>1, <1>2, <1>3, <1>4, ListensFrame

LEMMA ListensMove ==
    ASSUME SmpBase, ListensMatch, KidsMove
    PROVE  ListensMatch'
<1>1. UNCHANGED <<workload, out, inbox, asked, joined>>
  BY DEF KidsMove
<1> SUFFICES ASSUME NEW w \in Workers, Fresh(w)' PROVE OnePlace(w)' /\ Pending(w)'
  BY DEF ListensMatch
<1>2. Fresh(w)
  <2>1. w \in workload.kids /\ kids[w].pid \in Nat
    BY <1>1, BaseKids DEF Fresh
  <2> QED
    BY <2>1 DEF Fresh, KidsMove
<1>3. OnePlace(w) /\ Pending(w)
  BY <1>2 DEF ListensMatch
<1> QED
  BY <1>1, <1>3 DEF OnePlace, Pending, Under, Same, Mine

LEMMA ListensDying ==
    ASSUME SmpBase, ListensMatch, NEW k \in workload.kids, Dying(k)
    PROVE  ListensMatch'
<1>0. MailTyped
  BY BaseKids
<1>1. /\ k \in Kid /\ ~(Alive(k))' /\ kids[k].pid > 0 /\ UNCHANGED <<workload, kids>>
      /\ \A j \in Kid : j # k => (Alive(j))' = Alive(j)
      /\ Posts(k, {}) /\ Reads(k)
      /\ \A w \in Workers : w # k => asked'[w] = asked[w] /\ joined'[w] = joined[w]
  BY DyingMail
<1> SUFFICES ASSUME NEW w \in Workers, Fresh(w)' PROVE OnePlace(w)' /\ Pending(w)'
  BY DEF ListensMatch
<1>2. w # k /\ w \in Kid
  BY <1>1, KidNames, BaseKids DEF Fresh, Alive
<1>3. Fresh(w)
  BY <1>1, <1>2 DEF Fresh, Alive
<1>4. OnePlace(w) /\ Pending(w) /\ {} \in SUBSET Datagrams /\ \A n \in {} : ~Mine(w, n)
  BY <1>3 DEF ListensMatch
<1> QED
  BY <1>0, <1>1, <1>2, <1>4, ListensFrame

\* UdsSender hands a datagram over: it leaves its job.
LEMMA ListensWrote ==
    ASSUME SmpBase, ListensMatch, NEW k \in workload.kids,
           NEW m \in BagToSet(out[k]), Wrote(k, m)
    PROVE  ListensMatch'
<1>0. MailTyped /\ k \in Kid
  BY BaseKids
<1>1. /\ m \in Datagrams /\ m.to \in Kid /\ Posts(k, {}) /\ Under' \subseteq Under
      /\ inbox' = [inbox EXCEPT ![m.to] = Append(inbox[m.to], m)]
      /\ out'[k] = (out[k] (-) SetToBag({m}))
  BY <1>0, WroteMail
<1>2. UNCHANGED <<kids, proc, workload, asked, joined>>
  BY DEF Wrote, kidVars, strandVars
<1> SUFFICES ASSUME NEW w \in Workers, Fresh(w) PROVE OnePlace(w)' /\ Pending(w)'
  BY <1>2, FreshStays DEF ListensMatch
<1>3. OnePlace(w) /\ Pending(w)
  BY DEF ListensMatch
<1>4. Pending(w)'
  BY <1>1, <1>2, <1>3 DEF Pending, Mine
<1>5. \A h \in Kid : /\ BagToSet(out'[h]) \subseteq BagToSet(out[h])
                     /\ h # k => out'[h] = out[h]
  BY <1>0, <1>1 DEF Posts, MailTyped
<1>6. Mine(w, m) => m \notin BagToSet(out'[k])
  <2>1. PICK a : a = out[k]
    OBVIOUS
  <2>2. Mine(w, m) => a[m] = 1
    BY <1>0, <1>3, <2>1 DEF OnePlace
  <2>3. (m \in BagToSet(a) /\ a[m] = 1) => m \notin BagToSet((a (-) SetToBag({m})))
    BY BagTake
  <2> QED
    BY <1>1, <2>1, <2>2, <2>3
<1>7. \A h \in Kid : \A i \in 1 .. Len(inbox'[h]) :
         \/ h = m.to /\ i = Len(inbox[m.to]) + 1 /\ inbox'[h][i] = m
         \/ i \in 1 .. Len(inbox[h]) /\ inbox'[h][i] = inbox[h][i]
  <2>1. PICK q \in Seq(Datagrams) : q = inbox[m.to]
    BY <1>0, <1>1 DEF MailTyped
  <2>2. /\ Len(Append(q, m)) = Len(q) + 1 /\ Len(q) \in Nat
        /\ \A i \in 1 .. Len(q) : Append(q, m)[i] = q[i]
        /\ Append(q, m)[Len(q) + 1] = m
    BY <1>1
  <2>3. /\ inbox'[m.to] = Append(q, m)
        /\ \A h \in Kid : h # m.to => inbox'[h] = inbox[h]
    BY <1>0, <1>1, <2>1 DEF MailTyped
  <2>4. \A i \in 1 .. Len(q) + 1 : i \in 1 .. Len(q) \/ i = Len(q) + 1
    BY <2>2
  <2> QED
    BY <2>1, <2>2, <2>3, <2>4
<1>8. \A x, y : Same(w, x, y) => Same(w, y, x) /\ Mine(w, x)
  BY DEF Same
<1>9. \A h \in Kid : \A x \in BagToSet(out'[h]) : Mine(w, x) => out'[h][x] = 1
  <2> SUFFICES ASSUME NEW h \in Kid, NEW x \in BagToSet(out'[h]), Mine(w, x) PROVE out'[h][x] = 1
    OBVIOUS
  <2>1. x \in BagToSet(out[h])
    BY <1>5
  <2>2. out[h][x] = 1
    BY <1>3, <2>1 DEF OnePlace
  <2>3. CASE h # k
    BY <1>5, <2>2, <2>3
  <2>4. CASE h = k
    BY <1>1, <2>2, <2>4 DEF Posts
  <2> QED
    BY <2>3, <2>4
<1>10. \A g, h \in Kid : \A x \in BagToSet(out'[g]), y \in BagToSet(out'[h]) :
          Same(w, x, y) => g = h /\ x = y
  <2> SUFFICES ASSUME NEW g \in Kid, NEW h \in Kid, NEW x \in BagToSet(out'[g]),
                      NEW y \in BagToSet(out'[h]), Same(w, x, y)
               PROVE  g = h /\ x = y
    OBVIOUS
  <2>1. x \in BagToSet(out[g]) /\ y \in BagToSet(out[h])
    BY <1>5
  <2> QED
    BY <1>3, <2>1 DEF OnePlace
<1>11. ASSUME NEW g \in Kid, NEW h \in Kid, NEW x \in BagToSet(out'[g]), NEW i \in 1 .. Len(inbox'[h])
       PROVE  ~Same(w, x, inbox'[h][i])
  <2>0. x \in BagToSet(out[g])
    BY <1>5
  <2>1. CASE inbox'[h][i] = m
    <3>1. Same(w, x, m) => g = k /\ x = m
      BY <1>0, <1>3, <2>0 DEF OnePlace
    <3> QED
      BY <1>6, <1>8, <2>1, <3>1
  <2>2. CASE i \in 1 .. Len(inbox[h]) /\ inbox'[h][i] = inbox[h][i]
    <3>1. \A z \in 1 .. Len(inbox[h]) : ~Same(w, x, inbox[h][z])
      BY <1>3, <2>0 DEF OnePlace
    <3>2. ~Same(w, x, inbox[h][i])
      BY <2>2, <3>1
    <3> QED
      BY <2>2, <3>2
  <2> QED
    BY <1>7, <2>1, <2>2
<1>12. \A h \in Kid : \A i \in 1 .. Len(inbox[h]) : ~Same(w, m, inbox[h][i])
  BY <1>0, <1>3 DEF OnePlace
<1>13. ASSUME NEW g \in Kid, NEW h \in Kid, NEW a \in 1 .. Len(inbox'[g]), NEW b \in 1 .. Len(inbox'[h]),
              Same(w, inbox'[g][a], inbox'[h][b])
       PROVE  g = h /\ a = b
  <2>1. CASE a \in 1 .. Len(inbox[g]) /\ inbox'[g][a] = inbox[g][a]
    <3>1. CASE b \in 1 .. Len(inbox[h]) /\ inbox'[h][b] = inbox[h][b]
      <4>1. Same(w, inbox[g][a], inbox[h][b])
        BY <1>13, <2>1, <3>1
      <4> QED
        BY <1>3, <2>1, <3>1, <4>1 DEF OnePlace
    <3>2. CASE inbox'[h][b] = m
      <4>1. Same(w, m, inbox[g][a])
        BY <1>8, <1>13, <2>1, <3>2
      <4> QED
        BY <1>12, <2>1, <4>1
    <3> QED
      BY <1>7, <3>1, <3>2
  <2>2. CASE g = m.to /\ a = Len(inbox[m.to]) + 1 /\ inbox'[g][a] = m
    <3>1. CASE b \in 1 .. Len(inbox[h]) /\ inbox'[h][b] = inbox[h][b]
      <4>1. Same(w, m, inbox[h][b])
        BY <1>13, <2>2, <3>1
      <4> QED
        BY <1>12, <3>1, <4>1
    <3>2. CASE h = m.to /\ b = Len(inbox[m.to]) + 1
      BY <2>2, <3>2
    <3> QED
      BY <1>7, <3>1, <3>2
  <2> QED
    BY <1>7, <2>1, <2>2
<1>14. OnePlace(w)'
  BY <1>9, <1>10, <1>11, <1>13 DEF OnePlace, Same, Mine
<1> QED
  BY <1>4, <1>14

\* What a process leaves in the sockets when it has read its first datagram.
LEMMA RestOfMail ==
    ASSUME MailTyped, NEW k \in Kid, inbox[k] # <<>>,
           \/ inbox' = [inbox EXCEPT ![k] = Tail(inbox[k])]
           \/ inbox' = [inbox EXCEPT ![k] = <<>>]
    PROVE  \A h \in Kid : \A i \in 1 .. Len(inbox'[h]) :
              \E g \in 1 .. Len(inbox[h]) : inbox'[h][i] = inbox[h][g] /\ (h = k => g # 1)
<1>1. PICK q \in Seq(Datagrams) : q = inbox[k]
  BY DEF MailTyped
<1>2. /\ Len(q) \in Nat /\ Len(Tail(q)) = Len(q) - 1
      /\ \A i \in 1 .. Len(q) - 1 : Tail(q)[i] = q[i + 1]
  BY <1>1, HeadTail
<1>3. /\ inbox'[k] = Tail(q) \/ inbox'[k] = <<>>
      /\ \A h \in Kid : h # k => inbox'[h] = inbox[h]
  BY <1>1 DEF MailTyped
<1>4. ASSUME NEW i \in 1 .. Len(inbox'[k]) PROVE \E g \in 1 .. Len(q) : inbox'[k][i] = q[g] /\ g # 1
  <2>1. CASE inbox'[k] = Tail(q)
    <3>1. i + 1 \in 1 .. Len(q) /\ i + 1 # 1 /\ Tail(q)[i] = q[i + 1]
      BY <1>2, <2>1
    <3> QED
      BY <2>1, <3>1
  <2>2. CASE inbox'[k] = <<>>
    BY <2>2
  <2> QED
    BY <1>3, <2>1, <2>2
<1> QED
  BY <1>1, <1>3, <1>4

\* What is left after the first datagram of k has been read is unlike it.
LEMMA RestUnlike ==
    ASSUME MailTyped, GoneForgotten, NEW w \in Workers, OnePlace(w),
           NEW k \in Kid, inbox[k] # <<>>,
           \/ inbox' = [inbox EXCEPT ![k] = Tail(inbox[k])]
           \/ inbox' = [inbox EXCEPT ![k] = <<>>]
    PROVE  LET m == Head(inbox[k]) IN
           /\ \A h \in Kid : \A x \in BagToSet(out[h]) : ~Same(w, x, m)
           /\ \A h \in Kid : \A i \in 1 .. Len(inbox'[h]) : ~Same(w, inbox'[h][i], m)
<1>1. Head(inbox[k]) = inbox[k][1] /\ 1 \in 1 .. Len(inbox[k])
  BY Reading
<1>2. PICK m : m = Head(inbox[k])
  OBVIOUS
<1>3. ASSUME NEW h \in Kid, NEW x \in BagToSet(out[h]) PROVE ~Same(w, x, m)
  <2>1. \A i \in 1 .. Len(inbox[k]) : ~Same(w, x, inbox[k][i])
    BY DEF OnePlace
  <2>2. ~Same(w, x, inbox[k][1])
    BY <1>1, <2>1
  <2> QED
    BY <1>1, <1>2, <2>2
<1>r. \A h \in Kid : \A i \in 1 .. Len(inbox'[h]) :
         \E g \in 1 .. Len(inbox[h]) : inbox'[h][i] = inbox[h][g] /\ (h = k => g # 1)
  BY RestOfMail
<1>4. ASSUME NEW h \in Kid, NEW i \in 1 .. Len(inbox'[h]), Same(w, inbox'[h][i], m) PROVE FALSE
  <2>1. PICK g \in 1 .. Len(inbox[h]) : inbox'[h][i] = inbox[h][g] /\ (h = k => g # 1)
    BY <1>r
  <2>2. Same(w, inbox[h][g], inbox[k][1])
    BY <1>1, <1>2, <1>4, <2>1
  <2>3. h = k /\ g = 1
    BY <1>1, <2>2 DEF OnePlace
  <2> QED
    BY <2>1, <2>3
<1> QED
  BY <1>2, <1>3, <1>4

LEMMA UnderIs ==
    ASSUME MailTyped
    PROVE  /\ \A h \in Kid : \A x \in BagToSet(out[h]) : x \in Under
           /\ \A h \in Kid : \A i \in 1 .. Len(inbox[h]) : inbox[h][i] \in Under
<1>1. ASSUME NEW h \in Kid, NEW x \in BagToSet(out[h]) PROVE x \in Under
  BY DEF MailTyped, Under
<1>2. ASSUME NEW h \in Kid, NEW i \in 1 .. Len(inbox[h]) PROVE inbox[h][i] \in Under
  <2>1. PICK q \in Seq(Datagrams) : q = inbox[h]
    BY DEF MailTyped
  <2>2. q[i] \in Datagrams
    BY <2>1
  <2> QED
    BY <2>1, <2>2 DEF Under
<1> QED
  BY <1>1, <1>2

LEMMA ListensJoin ==
    ASSUME SmpBase, ListensMatch, NEW v \in Workers, NEW a \in Addrs,
           JoinSharedListen(v, a), UNCHANGED <<kids, proc, workload>>
    PROVE  ListensMatch'
<1>0. MailTyped /\ KeptTyped /\ v \in Kid /\ Reads(v) /\ inbox' = inbox /\ joined' = joined
  BY BaseKids, JoinMail
<1>1. \E id \in Nat :
         LET m == ListenRequest(v, id, a) IN
         /\ \A r \in asked[v] : r.id # id
         /\ asked' = [asked EXCEPT ![v] = asked[v] \cup {[id |-> id, addr |-> a]}]
         /\ m \in ListenRequests /\ m \in Datagrams
         /\ out' = [out EXCEPT ![v] = (out[v] (+) SetToBag({m}))]
         /\ Posts(v, {m})
  BY JoinMail
<1>2. PICK id \in Nat, m \in Datagrams :
         /\ m = ListenRequest(v, id, a) /\ \A r \in asked[v] : r.id # id
         /\ asked' = [asked EXCEPT ![v] = asked[v] \cup {[id |-> id, addr |-> a]}]
         /\ out' = [out EXCEPT ![v] = (out[v] (+) SetToBag({m}))]
         /\ Posts(v, {m})
  BY <1>1
<1>3. /\ m.type = "listenRequest" /\ m.body.requestor = v /\ m.body.mapId = id /\ m.body.addr = a
  BY <1>2 DEF ListenRequest
<1>4. /\ asked'[v] = asked[v] \cup {[id |-> id, addr |-> a]}
      /\ \A w \in Workers : w # v => asked'[w] = asked[w]
  BY <1>0, <1>2 DEF KeptTyped
<1> SUFFICES ASSUME NEW w \in Workers, Fresh(w) PROVE OnePlace(w)' /\ Pending(w)'
  BY FreshStays DEF ListensMatch
<1>5. OnePlace(w) /\ Pending(w)
  BY DEF ListensMatch
<1>6. CASE w # v
  <2>1. ~Mine(w, m) /\ {m} \in SUBSET Datagrams
    BY <1>3, <1>6 DEF Mine
  <2> QED
    BY <1>0, <1>2, <1>4, <1>5, <1>6, <2>1, ListensFrame
<1>7. CASE w = v
  <2>1. \A x \in Under : ~Same(w, m, x)
    <3> SUFFICES ASSUME NEW x \in Under, Mine(w, x) PROVE x.body.mapId # id
      BY <1>3 DEF Same
    <3>1. \E r \in asked[w] : r.id = x.body.mapId
      BY <1>5 DEF Pending
    <3> QED
      BY <1>2, <1>7, <3>1
  <2>2. /\ \A h \in Kid : \A x \in BagToSet(out[h]) : x \in Under
        /\ \A h \in Kid : \A i \in 1 .. Len(inbox[h]) : inbox[h][i] \in Under
    BY <1>0, UnderIs
  <2>3. m \notin BagToSet(out[v])
    <3>1. Same(w, m, m)
      BY <1>3, <1>7 DEF Same, Mine
    <3> QED
      BY <1>0, <2>1, <2>2, <3>1
  <2>4. out'[v][m] = 1
    <3>1. PICK o, b : o = out[v] /\ b = SetToBag({m})
      OBVIOUS
    <3>2. m \in BagToSet(b) /\ b[m] = 1
      BY <3>1, BagOne
    <3>3. (o (+) b)[m] = 0 + b[m]
      BY <2>3, <3>1, <3>2, BagSum
    <3>4. out'[v] = (o (+) b)
      BY <1>0, <1>2, <3>1 DEF MailTyped
    <3> QED
      BY <3>2, <3>3, <3>4
  <2>5. OnePlace(w)'
    <3>1. PICK N \in SUBSET Datagrams : N = {m}
      OBVIOUS
    <3>2. ASSUME NEW n \in N
          PROVE  /\ out'[v][n] = 1 /\ \A x \in N : n = x
                 /\ \A h \in Kid : \A x \in BagToSet(out[h]) : ~Same(w, n, x)
                 /\ \A h \in Kid : \A i \in 1 .. Len(inbox'[h]) : ~Same(w, n, inbox'[h][i])
      BY <1>0, <2>1, <2>2, <2>4, <3>1
    <3>3. \A n \in N : Mine(w, n) =>
             /\ n \in BagToSet(out'[v]) => out'[v][n] = 1
             /\ \A x \in N : Same(w, n, x) => n = x
             /\ \A h \in Kid : \A x \in BagToSet(out[h]) : ~Same(w, n, x)
             /\ \A h \in Kid : \A i \in 1 .. Len(inbox'[h]) : ~Same(w, n, inbox'[h][i])
      BY <3>2
    <3>4. Posts(v, N)
      BY <1>2, <3>1
    <3> QED
      BY <1>0, <1>5, <3>3, <3>4, PlacesKept
  <2>6. \A x \in Under' : Mine(w, x) => \E r \in asked'[w] : r.id = x.body.mapId /\ r.addr = x.body.addr
    <3>1. Under' \subseteq Under \cup {m}
      BY <1>0, <1>2, UnderStep
    <3>2. PICK r : r = [id |-> id, addr |-> a]
      OBVIOUS
    <3>3. r.id = m.body.mapId /\ r.addr = m.body.addr /\ r \in asked'[w]
      BY <1>3, <1>4, <1>7, <3>2
    <3>4. \A x \in Under : Mine(w, x) => \E s \in asked[w] : s.id = x.body.mapId /\ s.addr = x.body.addr
      BY <1>5 DEF Pending
    <3> QED
      BY <1>4, <1>7, <3>1, <3>3, <3>4
  <2>7. \A r, s \in asked'[w] : r.id = s.id => r = s
    <3>1. PICK r : r = [id |-> id, addr |-> a]
      OBVIOUS
    <3>2. r.id = id /\ asked'[w] = asked[w] \cup {r}
      BY <1>4, <1>7, <3>1
    <3>3. \A x, y \in asked[w] : x.id = y.id => x = y
      BY <1>5 DEF Pending
    <3> QED
      BY <1>2, <1>7, <3>2, <3>3
  <2>8. \A j \in joined'[w] : j[1] = j[2]
    BY <1>0, <1>5 DEF Pending
  <2> QED
    BY <2>5, <2>6, <2>7, <2>8 DEF Pending, Mine
<1> QED
  BY <1>6, <1>7

LEMMA ListensAnswered ==
    ASSUME SmpBase, ListensMatch, handleSharedListenRequest, port' = port,
           UNCHANGED <<kids, proc, workload>>
    PROVE  ListensMatch'
<1>0. MailTyped /\ GoneForgotten /\ coord \in Kid
  BY BaseKids
<1>1. PICK q, n : q = Head(inbox[coord]) /\ n = ListenResponse(q.body.requestor, q.body.mapId, q.body.addr)
  OBVIOUS
<1>2. /\ inbox[coord] # <<>> /\ q \in ListenRequests /\ n \in Datagrams /\ Posts(coord, {n}) /\ Reads(coord)
      /\ inbox' = [inbox EXCEPT ![coord] = Tail(inbox[coord])]
      /\ out' = [out EXCEPT ![coord] = (out[coord] (+) SetToBag({n}))]
      /\ UNCHANGED <<asked, joined>>
  BY <1>1, ListenMail
<1>3. /\ n.type = "listenResponse" /\ n.to = q.body.requestor /\ n.body.mapId = q.body.mapId
      /\ n.body.addr = q.body.addr
  BY <1>1 DEF ListenResponse
<1>4. q.type = "listenRequest" /\ q \in Under
  BY <1>0, <1>1, <1>2, Reading DEF ListenRequests
<1> SUFFICES ASSUME NEW w \in Workers, Fresh(w) PROVE OnePlace(w)' /\ Pending(w)'
  BY FreshStays DEF ListensMatch
<1>5. OnePlace(w) /\ Pending(w)
  BY DEF ListensMatch
<1>6. CASE w # q.body.requestor
  <2>1. ~Mine(w, n) /\ {n} \in SUBSET Datagrams
    BY <1>2, <1>3, <1>6 DEF Mine
  <2> QED
    BY <1>0, <1>2, <1>5, <2>1, ListensFrame
<1>7. CASE w = q.body.requestor
  <2>0. Mine(w, n) /\ Mine(w, q) /\ \A x : Same(w, n, x) => Same(w, x, q)
    BY <1>3, <1>4, <1>7 DEF Mine, Same
  <2>1. /\ \A h \in Kid : \A x \in BagToSet(out[h]) : ~Same(w, n, x)
        /\ \A h \in Kid : \A i \in 1 .. Len(inbox'[h]) : ~Same(w, n, inbox'[h][i])
    <3>1. /\ \A h \in Kid : \A x \in BagToSet(out[h]) : ~Same(w, x, q)
          /\ \A h \in Kid : \A i \in 1 .. Len(inbox'[h]) : ~Same(w, inbox'[h][i], q)
      <4>1. \/ inbox' = [inbox EXCEPT ![coord] = Tail(inbox[coord])]
            \/ inbox' = [inbox EXCEPT ![coord] = <<>>]
        BY <1>2
      <4>2. /\ \A h \in Kid : \A x \in BagToSet(out[h]) : ~Same(w, x, Head(inbox[coord]))
            /\ \A h \in Kid : \A i \in 1 .. Len(inbox'[h]) : ~Same(w, inbox'[h][i], Head(inbox[coord]))
        BY <1>0, <1>2, <1>5, <4>1, RestUnlike
      <4> QED
        BY <1>1, <4>2
    <3> QED
      BY <2>0, <3>1
  <2>2. n \notin BagToSet(out[coord])
    <3>1. Same(w, n, n)
      BY <2>0 DEF Same
    <3> QED
      BY <1>0, <2>1, <3>1
  <2>3. out'[coord][n] = 1
    <3>1. PICK o, b : o = out[coord] /\ b = SetToBag({n})
      OBVIOUS
    <3>2. n \in BagToSet(b) /\ b[n] = 1
      BY <3>1, BagOne
    <3>3. (o (+) b)[n] = 0 + b[n]
      BY <2>2, <3>1, <3>2, BagSum
    <3>4. out'[coord] = (o (+) b)
      BY <1>0, <1>2, <3>1 DEF MailTyped
    <3> QED
      BY <3>2, <3>3, <3>4
  <2>4. OnePlace(w)'
    <3>1. PICK N \in SUBSET Datagrams : N = {n}
      BY <1>2
    <3>2. ASSUME NEW x \in N
          PROVE  /\ out'[coord][x] = 1 /\ \A y \in N : x = y
                 /\ \A h \in Kid : \A y \in BagToSet(out[h]) : ~Same(w, x, y)
                 /\ \A h \in Kid : \A i \in 1 .. Len(inbox'[h]) : ~Same(w, x, inbox'[h][i])
      BY <2>1, <2>3, <3>1
    <3>3. \A x \in N : Mine(w, x) =>
             /\ x \in BagToSet(out'[coord]) => out'[coord][x] = 1
             /\ \A y \in N : Same(w, x, y) => x = y
             /\ \A h \in Kid : \A y \in BagToSet(out[h]) : ~Same(w, x, y)
             /\ \A h \in Kid : \A i \in 1 .. Len(inbox'[h]) : ~Same(w, x, inbox'[h][i])
      BY <3>2
    <3>4. Posts(coord, N) /\ Reads(coord)
      BY <1>2, <3>1
    <3> QED
      BY <1>0, <1>5, <3>3, <3>4, PlacesKept
  <2>5. \A x \in Under' : Mine(w, x) => \E r \in asked[w] : r.id = x.body.mapId /\ r.addr = x.body.addr
    <3>1. Under' \subseteq Under \cup {n}
      BY <1>0, <1>2, UnderStep
    <3>2. \A x \in Under : Mine(w, x) => \E r \in asked[w] : r.id = x.body.mapId /\ r.addr = x.body.addr
      BY <1>5 DEF Pending
    <3>3. \E r \in asked[w] : r.id = n.body.mapId /\ r.addr = n.body.addr
      BY <1>3, <1>4, <2>0, <3>2
    <3> QED
      BY <3>1, <3>2, <3>3
  <2> QED
    BY <1>2, <1>5, <2>4, <2>5 DEF Pending, Mine
<1> QED
  BY <1>6, <1>7

LEMMA ListensJoined ==
    ASSUME SmpBase, ListensMatch, NEW v \in Workers, SharedListenJoined(v),
           UNCHANGED <<kids, proc, workload>>
    PROVE  ListensMatch'
<1>0. MailTyped /\ GoneForgotten /\ KeptTyped
  BY BaseKids
<1>1. PICK n, pending : n = Head(inbox[v]) /\ pending = {r \in asked[v] : r.id = n.body.mapId}
  OBVIOUS
<1>2. /\ v \in Kid /\ inbox[v] # <<>> /\ n \in ListenResponses /\ n \in Under
      /\ Posts(v, {}) /\ Reads(v) /\ out' = out
      /\ asked' = [asked EXCEPT ![v] = asked[v] \ pending]
      /\ joined' = [joined EXCEPT ![v] = joined[v] \cup {<<r.addr, n.body.addr>> : r \in pending}]
      /\ \/ inbox' = [inbox EXCEPT ![v] = Tail(inbox[v])]
         \/ inbox' = [inbox EXCEPT ![v] = <<>>]
  BY <1>1, JoinedMail
<1>3. /\ asked'[v] = asked[v] \ pending
      /\ joined'[v] = joined[v] \cup {<<r.addr, n.body.addr>> : r \in pending}
      /\ \A w \in Workers : w # v => asked'[w] = asked[w] /\ joined'[w] = joined[w]
  BY <1>0, <1>2 DEF KeptTyped
<1> SUFFICES ASSUME NEW w \in Workers, Fresh(w) PROVE OnePlace(w)' /\ Pending(w)'
  BY FreshStays DEF ListensMatch
<1>4. OnePlace(w) /\ Pending(w) /\ {} \in SUBSET Datagrams /\ \A x \in {} : ~Mine(w, x)
  BY DEF ListensMatch
<1>5. CASE w # v
  BY <1>0, <1>2, <1>3, <1>4, <1>5, ListensFrame
<1>6. CASE w = v
  <2>0. Mine(w, n)
    <3>1. n.type = "listenResponse" /\ n.to = v
      BY <1>0, <1>1, <1>2, Reading DEF ListenResponses
    <3> QED
      BY <1>6, <3>1 DEF Mine
  <2>1. OnePlace(w)'
    BY <1>0, <1>2, <1>4, PlacesKept
  <2>2. ASSUME NEW x \in Under', Mine(w, x)
        PROVE  \E r \in asked'[w] : r.id = x.body.mapId /\ r.addr = x.body.addr
    <3>1. x \in Under
      BY <1>0, <1>2, <1>4, UnderStep
    <3>2. PICK r \in asked[w] : r.id = x.body.mapId /\ r.addr = x.body.addr
      BY <1>4, <2>2, <3>1 DEF Pending
    <3>3. ~Same(w, x, n)
      <4>1. /\ \A h \in Kid : \A y \in BagToSet(out[h]) : ~Same(w, y, n)
            /\ \A h \in Kid : \A i \in 1 .. Len(inbox'[h]) : ~Same(w, inbox'[h][i], n)
        BY <1>0, <1>1, <1>2, <1>4, RestUnlike
      <4>2. \/ \E h \in Kid : x \in BagToSet(out'[h])
            \/ \E h \in Kid : \E i \in 1 .. Len(inbox'[h]) : inbox'[h][i] = x
        BY DEF Under
      <4> QED
        BY <1>2, <4>1, <4>2
    <3>4. x.body.mapId # n.body.mapId
      BY <2>0, <2>2, <3>3 DEF Same
    <3> QED
      BY <1>1, <1>3, <1>6, <3>2, <3>4
  <2>3. \A r, s \in asked'[w] : r.id = s.id => r = s
    BY <1>3, <1>4, <1>6 DEF Pending
  <2>4. ASSUME NEW j \in joined'[w] PROVE j[1] = j[2]
    <3>1. CASE j \in joined[w]
      BY <1>4, <3>1 DEF Pending
    <3>2. ASSUME NEW r \in pending, j = <<r.addr, n.body.addr>> PROVE j[1] = j[2]
      <4>1. PICK s \in asked[w] : s.id = n.body.mapId /\ s.addr = n.body.addr
        BY <1>2, <1>4, <2>0 DEF Pending
      <4>2. r \in asked[w] /\ r.id = n.body.mapId
        BY <1>1, <1>6, <3>2
      <4>3. r = s
        BY <1>4, <4>1, <4>2 DEF Pending
      <4> QED
        BY <3>2, <4>1, <4>3
    <3> QED
      BY <1>3, <1>6, <3>1, <3>2
  <2> QED
    BY <2>1, <2>2, <2>3, <2>4 DEF Pending, Mine
<1> QED
  BY <1>5, <1>6

LEMMA ListensStep ==
    ASSUME SmpBase, ListensMatch, [SmpNext]_smpVars
    PROVE  ListensMatch'
<1>1. CASE ProcessActs
  <2>0. UNCHANGED <<kids, proc, workload>>
    BY <1>1, KidsStay
  <2>1. ASSUME NEW T, Flow(T), "listenRequest" \notin T, "listenResponse" \notin T, asked' = asked, joined' = joined
        PROVE  ListensMatch'
    BY <2>0, <2>1, ListensFlow
  <2>2. ASSUME NEW k \in workload.kids, NEW m \in BagToSet(out[k]), Wrote(k, m) PROVE ListensMatch'
    BY <2>2, ListensWrote
  <2>3. CASE SomeQuiet
    <3>1. asked' = asked /\ joined' = joined /\ Flow({"searchResponse", "mgrRequest", "mgrAck"})
      BY <2>3, Flows DEF SomeQuiet, Quiet
    <3> QED
      BY <2>1, <3>1
  <2>4. ASSUME NEW i \in inquirers, InquirerTakes(i) PROVE ListensMatch'
    <3>1. asked' = asked /\ joined' = joined /\ Flow({"inquiry"})
      BY <2>4, Flows DEF InquirerTakes
    <3> QED
      BY <2>1, <3>1
  <2>5. ASSUME NEW k \in workload.kids \ {coord}, respond(k) PROVE ListensMatch'
    <3>1. asked' = asked /\ joined' = joined /\ Flow({"answer"})
      BY <2>5, Flows DEF respond, strandVars
    <3> QED
      BY <2>1, <3>1
  <2>6. ASSUME NEW k \in workload.kids, Boot(k) PROVE ListensMatch'
    <3>1. asked' = asked /\ joined' = joined
      BY <2>6 DEF Boot
    <3>2. Flow({"registration", "searchRequest"})
      BY <2>6, Flows
    <3> QED
      BY <2>1, <3>1, <3>2
  <2>7. CASE handleRegistrationRequest
    <3>1. asked' = asked /\ joined' = joined
      BY <2>7 DEF handleRegistrationRequest, strandVars
    <3>2. Flow({"searchResponse", "ack"})
      BY <2>7, Flows
    <3> QED
      BY <2>1, <3>1, <3>2
  <2>8. ASSUME NEW k \in workload.kids \ {coord}, handleRegistrationResponse(k) PROVE ListensMatch'
    <3>1. asked' = asked /\ joined' = joined
      BY <2>8 DEF handleRegistrationResponse
    <3> QED
      BY <2>1, <2>8, <3>1, Flows
  <2>9. ASSUME NEW w \in Workers, NEW a \in Addrs, JoinSharedListen(w, a) PROVE ListensMatch'
    BY <2>0, <2>9, ListensJoin
  <2>10. CASE handleSharedListenRequest /\ port' = port
    BY <2>0, <2>10, ListensAnswered
  <2>11. ASSUME NEW w \in Workers, SharedListenJoined(w) PROVE ListensMatch'
    BY <2>0, <2>11, ListensJoined
  <2> QED
    BY <1>1, <2>2, <2>3, <2>4, <2>5, <2>6, <2>7, <2>8, <2>9, <2>10, <2>11, ActsOnMail
<1> QED
  BY <1>1, BaseStep, ListensMove, ListensDying

-----------------------------------------------------------------------------
(* The invariant                                                           *)

LEMMA SmpInvInit ==
    ASSUME SmpInit
    PROVE  SmpInv
<1>0. /\ workload \in Workloads /\ coord \in workload.kids /\ workload.kids \subseteq Kid /\ Workers \subseteq Kid
      /\ badFailureLimit \in Nat /\ coord \in Kid /\ Diskers \subseteq Kid
  BY KidAssumption, LoadNames, KidNames DEF SmpInit
<1>1. /\ master = "starting" /\ shutting_down = FALSE
      /\ kids = [k \in workload.kids |-> [isRunning |-> FALSE, pid |-> 0, badFailures |-> 0, status |-> "none"]]
      /\ proc = [k \in workload.kids |-> [alive |-> FALSE, told |-> FALSE, exit |-> "none", fast |-> FALSE]]
  BY DEF SmpInit, KidsInit
<1>2. /\ out = [k \in Kid |-> EmptyBag] /\ inbox = [k \in Kid |-> <<>>]
      /\ port = [k \in Kid |-> "none"] /\ acked = [k \in Kid |-> 0] /\ lastId = [k \in Kid |-> 0]
      /\ strands = {} /\ searchers = EmptyBag /\ inquirers = {} /\ answers = {}
      /\ asked = [w \in Workers |-> {}] /\ joined = [w \in Workers |-> {}] /\ asks = [w \in Workers |-> 0]
      /\ file = [w \in Workers |-> [t \in Tags |-> NoFile]]
  BY DEF SmpInit
<1>3. Under = {} /\ \A k \in Kid : BagToSet(out[k]) = {} /\ inbox[k] = <<>> /\ 1 .. Len(inbox[k]) = {}
  <2>1. \A k \in Kid : BagToSet(out[k]) = {} /\ inbox[k] = <<>>
    BY <1>2, BagNone
  <2>2. 1 .. Len(<<>>) = {}
    OBVIOUS
  <2> QED
    BY <2>1, <2>2 DEF Under
<1>4. MasterKnows
  <2>1. kids \in [workload.kids -> KidRecord] /\ proc \in [workload.kids -> ProcRecord]
    BY <1>1 DEF KidRecord, ProcRecord, ExitStatus
  <2>2. shouldRestart(kids[coord], shutting_down)
    BY <1>0, <1>1 DEF shouldRestart, hopeless
  <2>3. \A k \in workload.kids : ~proc[k].alive /\ ~kids[k].isRunning
    BY <1>1
  <2> QED
    BY <1>0, <1>1, <2>1, <2>2, <2>3 DEF MasterKnows
<1>5. MailTyped
  <2>1. inbox \in [Kid -> Seq(Datagrams)]
    BY <1>2
  <2> QED
    BY <1>2, <1>3, <2>1 DEF MailTyped
<1>6. KeptTyped
  <2>1. IsFiniteSet({}) /\ Cardinality({}) = 0
    BY FS_EmptySet
  <2> QED
    BY <1>2, <2>1, BagNone DEF KeptTyped
<1>7. GoneForgotten
  BY <1>0, <1>2 DEF GoneForgotten
<1>8. FilesMatch
  <2>1. NoFile \in [state: {"none", "waiting", "open", "error"}, diskId: Kid, notified: Nat]
    BY <1>0 DEF NoFile
  <2>2. NoFile.state = "none"
    BY DEF NoFile
  <2>3. OpenCompletesOnce
    BY <1>2, <2>2 DEF OpenCompletesOnce
  <2> QED
    BY <1>2, <2>1, <2>3 DEF FilesMatch
<1>9. SearchersUnanswerable
  BY <1>2 DEF SearchersUnanswerable
<1>10. RegistrationsMatch
  BY <1>0, <1>2, <1>3 DEF RegistrationsMatch, RegistrationsSent, RegistrationsQueued, RegistrationsKept
<1>11. AcksMatch
  <2>1. \A k \in workload.kids : acked[k] = 0 /\ kids[coord].pid = 0
    BY <1>0, <1>1, <1>2
  <2> QED
    BY <1>3, <2>1 DEF AcksMatch
<1>12. InquiriesMatch
  BY <1>2, <1>3 DEF InquiriesMatch
<1>13. ListensMatch
  BY <1>2, <1>3 DEF ListensMatch, OnePlace, Pending
<1> QED
  BY <1>4, <1>5, <1>6, <1>7, <1>8, <1>9, <1>10, <1>11, <1>12, <1>13 DEF SmpInv

LEMMA SmpInvStep ==
    ASSUME SmpInv, [SmpNext]_smpVars
    PROVE  SmpInv'
<1>1. SmpBase
  BY DEF SmpInv, SmpBase
<1>2. SmpBase'
  BY <1>1, BaseStep
<1>3. FilesMatch' /\ SearchersUnanswerable'
  BY <1>1, FilesStep, SearchersStep DEF SmpInv
<1>4. RegistrationsMatch' /\ AcksMatch'
  BY <1>1, RegistrationsStep, AcksStep DEF SmpInv
<1>5. InquiriesMatch' /\ ListensMatch'
  BY <1>1, InquiriesStep, ListensStep DEF SmpInv
<1> QED
  BY <1>2, <1>3, <1>4, <1>5 DEF SmpInv, SmpBase

\* Whatever kids crash, restart and say to each other, the master's records,
\* the sockets, the UdsSender jobs and the maps of requests stay matched.
THEOREM SmpInvHolds == SmpSpec => []SmpInv
<1>1. SmpInit => SmpInv
  BY SmpInvInit
<1>2. SmpInv /\ [SmpNext]_smpVars => SmpInv'
  BY SmpInvStep
<1> QED
  BY <1>1, <1>2, PTL DEF SmpSpec

\* watch_child() never calls waitpid() without a child, and does not exit while
\* a kid process lives.
THEOREM MasterAlwaysWatches == SmpSpec => []MasterWatches
<1>1. SmpInv => MasterWatches
  <2> SUFFICES ASSUME MasterKnows PROVE MasterWatches
    BY DEF SmpInv
  <2>1. Configured = workload.kids
    BY ConfiguredKids
  <2> QED
    BY <2>1 DEF MasterKnows, MasterWatches
<1> QED
  BY <1>1, SmpInvHolds, PTL

\* A kid that has cleared its registration timeout is a strand of the
\* Coordinator that acknowledged it, under its own pid, for as long as that
\* Coordinator job exists.
THEOREM AckedAlwaysRecorded == SmpSpec => []AckedIsRecorded
<1>1. SmpInv => AckedIsRecorded
  <2> SUFFICES ASSUME SmpInv, NEW k \in Strands,
                      acked[k] # 0, port[coord] = "listening", acked[k] = kids[coord].pid
               PROVE  \E s \in strands : s.kid = k /\ s.pid = kids[k].pid
    BY DEF AckedIsRecorded
  <2>1. SmpBase /\ AcksMatch /\ RegistrationsKept
    BY DEF SmpInv, SmpBase, RegistrationsMatch
  <2>2. /\ k \in workload.kids \ {coord} /\ coord \in workload.kids
        /\ kids[k].pid \in Nat /\ strands \subseteq StrandCoords
    BY <2>1, BaseKids, ConfiguredKids DEF KeptTyped
  <2>a. Recording
    BY <2>1, BaseKids DEF GoneForgotten, Recording
  <2>3. Recorded(k, kids[k].pid)
    BY <2>1, <2>2, <2>a DEF AcksMatch
  <2>4. PICK s \in strands : s.kid = k /\ s.pid >= kids[k].pid
    BY <2>3 DEF Recorded
  <2>5. s.pid <= kids[k].pid /\ s.pid \in Nat
    BY <2>1, <2>2, <2>4 DEF RegistrationsKept, StrandCoords
  <2> QED
    BY <2>2, <2>4, <2>5
<1> QED
  BY <1>1, SmpInvHolds, PTL

\* The Coordinator leaves no searcher waiting for a strand it knows.
THEOREM SearchersAlwaysAnswered == SmpSpec => []SearchersUnanswerable
<1>1. SmpInv => SearchersUnanswerable
  BY DEF SmpInv
<1> QED
  BY <1>1, SmpInvHolds, PTL

\* IpcIoFile::open() notifies once, with the disker of the dbName or an error.
THEOREM OpenAlwaysCompletesOnce == SmpSpec => []OpenCompletesOnce
<1>1. SmpInv => OpenCompletesOnce
  BY DEF SmpInv, FilesMatch
<1> QED
  BY <1>1, SmpInvHolds, PTL

\* The Inquirer counts an answer for the strand it asked, and a worker in its
\* first life gets the socket it asked for, although numbers are used again.
THEOREM AnswersAlwaysOwn == SmpSpec => []AnswersAreOwn
<1>1. SmpInv => AnswersAreOwn
  <2> SUFFICES ASSUME SmpInv PROVE AnswersAreOwn
    OBVIOUS
  <2>1. Configured = workload.kids /\ GoneForgotten /\ ListensMatch
    BY ConfiguredKids DEF SmpInv
  <2>2. \A a \in answers : a.own => a.asked = a.of
    BY DEF SmpInv, InquiriesMatch
  <2>3. ASSUME NEW w \in Workers \cap Configured, kids[w].pid = 1, NEW j \in joined[w] PROVE j[1] = j[2]
    <3>1. CASE proc[w].alive
      <4>1. Fresh(w)
        BY <2>1, <2>3, <3>1 DEF Fresh
      <4> QED
        BY <2>1, <4>1 DEF ListensMatch, Pending
    <3>2. CASE ~proc[w].alive
      BY <2>1, <3>2 DEF GoneForgotten, Alive
    <3> QED
      BY <3>1, <3>2
  <2> QED
    BY <2>2, <2>3 DEF AnswersAreOwn
<1> QED
  BY <1>1, SmpInvHolds, PTL

=============================================================================
