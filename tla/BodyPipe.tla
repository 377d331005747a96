------------------------------ MODULE BodyPipe ------------------------------
(***************************************************************************)
(* BodyPipe (src/BodyPipe.cc): a bounded buffer between the job that       *)
(* produces a message body and the job that consumes it (the client and    *)
(* server sides, ICAP and eCAP transactions).  Both sides learn what the   *)
(* other did through asynchronous calls that may arrive after more has     *)
(* happened; a call to a job that no longer produces for or consumes from  *)
(* the pipe is cancelled.  When the consumer is gone, a BodySink may       *)
(* consume and drop the rest.                                              *)
(*                                                                         *)
(* The actions are the calls that jobs make, one at a time, and the        *)
(* delivery of the next asynchronous call.                                 *)
(***************************************************************************)
EXTENDS Integers, Sequences, FiniteSets

CONSTANTS
    MaxBody,        \* bound: size of the largest body
    MaxCapacity,    \* of theBuf
    Consumers       \* jobs that may register as the consumer, once each

ASSUME BodyPipeAssumption ==
    /\ MaxBody \in Nat \ {0}
    /\ MaxCapacity \in Nat \ {0}
    /\ "none" \notin Consumers /\ "sink" \notin Consumers /\ "producer" \notin Consumers

VARIABLES
    theBodySize,        \* -1 while it is not known
    theProducer,        \* whether the producer is set
    theConsumer,        \* "none", "sink" or one of Consumers
    thePutSize, theGetSize,
    mustAutoConsume,
    abortedConsumption,
    calls,              \* scheduled asynchronous calls
    joined,             \* Consumers that have been set
    announced,          \* history: thePutSize when the consumer last heard of data
    spaceSeen,          \* history: theGetSize when the producer last heard of space
    told,               \* history: told[c]: the calls about the end of the body c got
    endedBy             \* history: how production ended

pipeVars == <<theBodySize, theProducer, theConsumer, thePutSize, theGetSize,
              mustAutoConsume, abortedConsumption>>
history == <<announced, spaceSeen, told, endedBy>>
vars == <<pipeVars, calls, joined, history>>

Init ==
    /\ theBodySize = -1
    /\ theProducer = TRUE
    /\ theConsumer = "none"
    /\ thePutSize = 0 /\ theGetSize = 0
    /\ mustAutoConsume = FALSE
    /\ abortedConsumption = FALSE
    /\ calls = <<>>
    /\ joined = {}
    /\ announced = 0 /\ spaceSeen = 0
    /\ told = [c \in Consumers |-> <<>>]
    /\ endedBy = "nobody"

contentSize == thePutSize - theGetSize
bodySizeKnown == theBodySize >= 0
mayNeedMoreData == bodySizeKnown => theBodySize > thePutSize
exhausted == contentSize = 0 /\ ~(theProducer /\ mayNeedMoreData)

Call(to, what) == <<[to |-> to, what |-> what]>>

\* scheduleBodyDataNotification() and scheduleBodyEndNotification() for a consumer
DataCall(consumer) == IF consumer = "none" THEN <<>> ELSE Call(consumer, "data")
EndCall(consumer, size, put) ==
    IF consumer = "none" THEN <<>>
    ELSE Call(consumer, IF size = put THEN "ended" ELSE "aborted")

----------------------------------------------------------------------------
(* called by producers *)

SetBodySize(size) ==                \* callers know a size that is not zero
    /\ theProducer /\ ~bodySizeKnown
    /\ thePutSize <= size /\ theConsumer = "none"       \* asserts
    /\ size > thePutSize
    /\ theBodySize' = size
    /\ UNCHANGED <<theProducer, theConsumer, thePutSize, theGetSize, mustAutoConsume,
                   abortedConsumption, calls, joined, history>>

\* ICAP ends the body at once when there is nothing to come.
ExpectProductionEndAfter(size) ==
    /\ theProducer /\ ~bodySizeKnown
    /\ size > 0
    /\ theBodySize' = thePutSize + size
    /\ theBodySize' <= MaxBody
    /\ UNCHANGED <<theProducer, theConsumer, thePutSize, theGetSize, mustAutoConsume,
                   abortedConsumption, calls, joined, history>>

\* Faulty variant: the body ends before its last bytes are announced.
PostAppendUnannounced(size) ==
    LET put == thePutSize + size
        complete == bodySizeKnown /\ put >= theBodySize
    IN  /\ thePutSize' = put
        /\ theProducer' = ~complete
        /\ endedBy' = IF complete THEN "eof" ELSE endedBy
        /\ calls' = calls \o (IF complete THEN EndCall(theConsumer, theBodySize, put)
                              ELSE DataCall(theConsumer))
        /\ UNCHANGED <<theBodySize, theConsumer, announced>>

\* postAppend(): maybe startAutoConsumption(); at the end of the body, clearProducer(true)
PostAppend(size) ==
    LET put == thePutSize + size
        startsSink == mustAutoConsume /\ theConsumer = "none"
        consumer == IF startsSink THEN "sink" ELSE theConsumer
        complete == bodySizeKnown /\ put >= theBodySize
    IN  /\ thePutSize' = put
        /\ theConsumer' = consumer
        /\ theProducer' = ~complete
        /\ announced' = IF startsSink THEN theGetSize ELSE announced
        /\ endedBy' = IF complete THEN "eof" ELSE endedBy
        /\ calls' = calls \o (IF startsSink THEN DataCall("sink") ELSE <<>>)
                          \o DataCall(consumer)
                          \o (IF complete THEN EndCall(consumer, theBodySize, put) ELSE <<>>)
        /\ UNCHANGED theBodySize

\* putMoreData() takes what fits the buffer and the body.  checkIn() of a buffer that a
\* chunked-body parser filled does the same; the body size is not known then.
PutMoreData(size) ==
    /\ theProducer
    /\ size > 0
    /\ thePutSize + size <= MaxBody
    /\ size <= MaxCapacity - contentSize
    /\ bodySizeKnown => size <= theBodySize - thePutSize
    /\ PostAppend(size)
    /\ UNCHANGED <<theGetSize, mustAutoConsume, abortedConsumption, joined, spaceSeen, told>>

\* Faulty variant: an aborted body gets the size it has reached.
ClearProducerSizes(atEof) ==
    /\ theProducer
    /\ theProducer' = FALSE
    /\ LET size == IF bodySizeKnown THEN theBodySize ELSE thePutSize
       IN  /\ theBodySize' = size
           /\ calls' = calls \o EndCall(theConsumer, size, thePutSize)
    /\ endedBy' = IF atEof THEN "eof" ELSE "abort"
    /\ UNCHANGED <<theConsumer, thePutSize, theGetSize, mustAutoConsume, abortedConsumption,
                   joined, announced, spaceSeen, told>>

ClearProducer(atEof) ==             \* stopProducingFor()
    /\ theProducer
    /\ theProducer' = FALSE
    /\ LET size == IF atEof /\ ~bodySizeKnown THEN thePutSize ELSE theBodySize
       IN  /\ theBodySize' = size
           /\ calls' = calls \o EndCall(theConsumer, size, thePutSize)
    /\ endedBy' = IF atEof THEN "eof" ELSE "abort"
    /\ UNCHANGED <<theConsumer, thePutSize, theGetSize, mustAutoConsume, abortedConsumption,
                   joined, announced, spaceSeen, told>>

----------------------------------------------------------------------------
(* called by consumers *)

\* Faulty variant: a consumer that comes after the end is not told.
SetConsumerUntold(c) ==
    /\ c \in Consumers \ joined
    /\ theConsumer = "none"
    /\ theGetSize = 0 /\ ~abortedConsumption
    /\ theConsumer' = c
    /\ joined' = joined \cup {c}
    /\ announced' = 0
    /\ calls' = calls \o (IF contentSize > 0 THEN DataCall(c) ELSE <<>>)
    /\ UNCHANGED <<theBodySize, theProducer, thePutSize, theGetSize, mustAutoConsume,
                   abortedConsumption, spaceSeen, told, endedBy>>

SetConsumerIfNotLate(c) ==
    /\ c \in Consumers \ joined
    /\ theConsumer = "none"                     \* assert
    /\ theGetSize = 0                           \* otherwise it is too late
    /\ ~abortedConsumption                      \* Must
    /\ theConsumer' = c
    /\ joined' = joined \cup {c}
    /\ announced' = 0
    /\ calls' = calls \o (IF contentSize > 0 THEN DataCall(c) ELSE <<>>)
                      \o (IF theProducer THEN <<>> ELSE EndCall(c, theBodySize, thePutSize))
    /\ UNCHANGED <<theBodySize, theProducer, thePutSize, theGetSize, mustAutoConsume,
                   abortedConsumption, spaceSeen, told, endedBy>>

\* Faulty variant: the producer hears of space only when all was consumed.
PostConsumeAll(size) ==
    /\ theGetSize' = theGetSize + size
    /\ calls' = IF mayNeedMoreData /\ size = contentSize THEN calls \o Call("producer", "space")
                ELSE calls

PostConsume(size) ==
    /\ theGetSize' = theGetSize + size
    /\ calls' = IF mayNeedMoreData THEN calls \o Call("producer", "space") ELSE calls

GetMoreData(size) ==                \* getMoreData(), consume(), checkIn() of a drained buffer
    /\ theConsumer \in Consumers
    /\ size \in 1 .. contentSize
    /\ PostConsume(size)
    /\ UNCHANGED <<theBodySize, theProducer, theConsumer, thePutSize, mustAutoConsume,
                   abortedConsumption, joined, history>>

\* Faulty variant: no sink takes over.
AbortConsumptionNoSink(queued) ==
    IF abortedConsumption \/ exhausted
    THEN /\ theConsumer' = "none"
         /\ calls' = queued
         /\ UNCHANGED <<abortedConsumption, announced>>
    ELSE /\ abortedConsumption' = TRUE
         /\ theConsumer' = "none"
         /\ calls' = queued \o Call("producer", "consumerAborted")
         /\ UNCHANGED announced

\* expectNoConsumption() when the pipe has no consumer: the producer is told, and
\* startAutoConsumption() if it is enabled
AbortConsumption(queued) ==
    IF abortedConsumption \/ exhausted
    THEN /\ theConsumer' = "none"
         /\ calls' = queued
         /\ UNCHANGED <<abortedConsumption, announced>>
    ELSE /\ abortedConsumption' = TRUE
         /\ theConsumer' = IF mustAutoConsume THEN "sink" ELSE "none"
         /\ announced' = IF mustAutoConsume THEN theGetSize ELSE announced
         /\ calls' = queued \o Call("producer", "consumerAborted")
                            \o (IF mustAutoConsume THEN DataCall("sink") ELSE <<>>)

\* A consumer that has consumed nothing may be replaced.
ClearConsumer(queued) ==
    IF theGetSize > 0 THEN AbortConsumption(queued)
    ELSE /\ theConsumer' = "none"
         /\ calls' = queued
         /\ UNCHANGED <<abortedConsumption, announced>>

StopConsuming ==                    \* stopConsumingFrom()
    /\ theConsumer \in Consumers
    /\ ClearConsumer(calls)
    /\ UNCHANGED <<theBodySize, theProducer, thePutSize, theGetSize, mustAutoConsume, joined,
                   spaceSeen, told, endedBy>>

ExpectNoConsumption ==              \* nobody will set a consumer any more
    /\ theConsumer = "none"
    /\ AbortConsumption(calls)
    /\ UNCHANGED <<theBodySize, theProducer, thePutSize, theGetSize, mustAutoConsume, joined,
                   spaceSeen, told, endedBy>>

EnableAutoConsumption ==
    /\ ~mustAutoConsume
    /\ mustAutoConsume' = TRUE
    /\ IF theConsumer = "none" /\ contentSize > 0
       THEN /\ theConsumer' = "sink"
            /\ announced' = theGetSize
            /\ calls' = calls \o DataCall("sink")
       ELSE UNCHANGED <<theConsumer, announced, calls>>
    /\ UNCHANGED <<theBodySize, theProducer, thePutSize, theGetSize, abortedConsumption,
                   joined, spaceSeen, told, endedBy>>

----------------------------------------------------------------------------
(* the next asynchronous call *)

Dialed(to, what) ==
    /\ calls # <<>>
    /\ Head(calls).to = to /\ Head(calls).what = what

DialProducer ==                     \* noteMoreBodySpaceAvailable(), noteBodyConsumerAborted()
    /\ theProducer
    /\ Dialed("producer", "space") \/ Dialed("producer", "consumerAborted")
    /\ spaceSeen' = theGetSize
    /\ calls' = Tail(calls)
    /\ UNCHANGED <<pipeVars, joined, announced, told, endedBy>>

DialConsumer ==                     \* what the consumer does about it are its own calls
    /\ theConsumer \in Consumers
    /\ calls # <<>>
    /\ Head(calls).to = theConsumer
    /\ announced' = thePutSize
    /\ told' = IF Head(calls).what = "data" THEN told
               ELSE [told EXCEPT ![theConsumer] = Append(@, Head(calls).what)]
    /\ calls' = Tail(calls)
    /\ UNCHANGED <<pipeVars, joined, spaceSeen, endedBy>>

DialSinkData ==                     \* BodySink::noteMoreBodyDataAvailable()
    /\ theConsumer = "sink"
    /\ Dialed("sink", "data")
    /\ theGetSize' = thePutSize
    /\ announced' = thePutSize
    /\ calls' = Tail(calls) \o (IF mayNeedMoreData THEN Call("producer", "space") ELSE <<>>)
    /\ UNCHANGED <<theBodySize, theProducer, theConsumer, thePutSize, mustAutoConsume,
                   abortedConsumption, joined, spaceSeen, told, endedBy>>

DialSinkEnd ==                      \* the sink calls stopConsumingFrom()
    /\ theConsumer = "sink"
    /\ Dialed("sink", "ended") \/ Dialed("sink", "aborted")
    /\ ClearConsumer(Tail(calls))
    /\ UNCHANGED <<theBodySize, theProducer, thePutSize, theGetSize, mustAutoConsume, joined,
                   spaceSeen, told, endedBy>>

DialCancelled ==                    \* canDial(): no longer producing or consuming
    /\ calls # <<>>
    /\ \/ Head(calls).to = "producer" /\ ~theProducer
       \/ Head(calls).to # "producer" /\ Head(calls).to # theConsumer
    /\ calls' = Tail(calls)
    /\ UNCHANGED <<pipeVars, joined, history>>

Dial == DialProducer \/ DialConsumer \/ DialSinkData \/ DialSinkEnd \/ DialCancelled

----------------------------------------------------------------------------
Sizes == 1 .. MaxBody

Next ==
    \/ \E size \in Sizes : \/ SetBodySize(size) \/ ExpectProductionEndAfter(size)
                           \/ PutMoreData(size) \/ GetMoreData(size)
    \/ \E atEof \in BOOLEAN : ClearProducer(atEof)
    \/ \E c \in Consumers : SetConsumerIfNotLate(c)
    \/ StopConsuming \/ ExpectNoConsumption \/ EnableAutoConsumption
    \/ Dial

Spec == Init /\ [][Next]_vars

\* The main loop fires all scheduled calls.
FairSpec == Spec /\ WF_vars(Dial)

----------------------------------------------------------------------------
\* Who is called about what.
CallKinds ==
    [to : Consumers \cup {"sink"}, what : {"data", "ended", "aborted"}]
        \cup [to : {"producer"}, what : {"space", "consumerAborted"}]

TypeOK ==
    /\ theBodySize \in -1 .. MaxBody
    /\ theProducer \in BOOLEAN
    /\ theConsumer \in Consumers \cup {"none", "sink"}
    /\ thePutSize \in 0 .. MaxBody
    /\ theGetSize \in 0 .. thePutSize
    /\ contentSize <= MaxCapacity
    /\ mustAutoConsume \in BOOLEAN /\ abortedConsumption \in BOOLEAN
    /\ calls \in Seq(CallKinds)
    /\ joined \in SUBSET Consumers
    /\ announced \in Nat /\ spaceSeen \in Nat
    /\ told \in [Consumers -> Seq({"ended", "aborted"})]
    /\ endedBy \in {"nobody", "eof", "abort"}

Pending(to, whats) == {i \in DOMAIN calls : calls[i].to = to /\ calls[i].what \in whats}

(***************************************************************************)
(* A consumer, the sink included, hears of all data: if bytes have come    *)
(* since it was last called, a call to it is under way, also when it       *)
(* joined late or replaced a consumer whose calls are still queued.        *)
(***************************************************************************)
DataAnnounced ==
    (theConsumer # "none" /\ thePutSize > announced) => Pending(theConsumer, {"data"}) # {}

(***************************************************************************)
(* A producer that waits for space hears of it: if bytes have been         *)
(* consumed since it was last called and the body is not complete, a call  *)
(* to it is under way.  A producer that is not called is stuck.            *)
(***************************************************************************)
SpaceAnnounced ==
    (theProducer /\ theGetSize > spaceSeen)
        => Pending("producer", {"space", "consumerAborted"}) # {}

(***************************************************************************)
(* A consumer is told once that the body ended, whether it came before or  *)
(* after the end, and not before the end.                                  *)
(***************************************************************************)
EndAnnouncedOnce ==
    theConsumer \in Consumers =>
        Cardinality(Pending(theConsumer, {"ended", "aborted"})) + Len(told[theConsumer])
            = (IF theProducer THEN 0 ELSE 1)

(***************************************************************************)
(* A body whose producer gave up is never presented to a consumer as       *)
(* complete: the two ends of a body stay distinguishable for consumers     *)
(* that join later, which is what the assert in clearProducer() is for.    *)
(***************************************************************************)
AbortIsNotEnd ==
    (endedBy = "abort") =>
        \A c \in Consumers : /\ Pending(c, {"ended"}) = {}
                             /\ \A i \in DOMAIN told[c] : told[c][i] = "aborted"

(***************************************************************************)
(* BodyPipe.h, line 124: auto-consumption means "start or continue         *)
(* consuming when there is no consumer".  A pipe in this mode that a       *)
(* consumer has begun to drain is drained to the end once that consumer is *)
(* gone, however it left and whatever calls were queued, so that its       *)
(* producer is not stuck behind a full buffer.  A consumer that leaves     *)
(* without having consumed anything starts no sink and is excluded.        *)
(***************************************************************************)
AutoConsumptionDrains ==
    (mustAutoConsume /\ theConsumer \notin Consumers /\ theGetSize > 0 /\ contentSize > 0)
        ~> (contentSize = 0)

----------------------------------------------------------------------------
(* The inductive invariant of the proofs, in parts. *)

\* A producer has more to come, and an aborted body is not as long as it should be.
SizesMatch ==
    /\ theProducer <=> endedBy = "nobody"
    /\ theProducer => mayNeedMoreData
    /\ endedBy = "abort" => theBodySize # thePutSize

\* Nobody is told of the end before the end, or before joining.
EndsMatch ==
    /\ theConsumer \in Consumers => theConsumer \in joined
    /\ \A c \in Consumers : theProducer \/ c \notin joined =>
            Pending(c, {"ended", "aborted"}) = {} /\ told[c] = <<>>

PipeInv ==
    /\ TypeOK /\ SizesMatch /\ EndsMatch
    /\ DataAnnounced /\ SpaceAnnounced /\ EndAnnouncedOnce /\ AbortIsNotEnd
=============================================================================
