------------------------------ MODULE IpcQueue ------------------------------
(***************************************************************************)
(* The incoming half of Ipc::FewToFewBiQueue (src/ipc/Queue.h, Queue.cc):  *)
(* one reading kid (a disker, or a worker waiting for responses) and, for  *)
(* every kid that writes to it, a OneToOneUniQueue, a lockless ring in     *)
(* shared memory.  A reader that finds all its queues empty marks its      *)
(* QueueReader as blocked and sleeps; a writer that pushes into an empty   *)
(* queue of a blocked reader sends it a notification message.              *)
(*                                                                         *)
(* Every action is one access to one shared word, with the accesses to     *)
(* words that only the acting kid uses.                                    *)
(***************************************************************************)
EXTENDS Integers, Sequences, FiniteSets

CONSTANTS
    NWriters,       \* remoteGroupSize(): number of kids writing to the reader
    Capacity,       \* theCapacity of each queue
    IndexRange,     \* number of values of theIn and theOut (unsigned int)
    Values          \* what the items hold

ASSUME QueueAssumption ==
    /\ NWriters \in Nat \ {0}
    /\ Capacity \in Nat \ {0}
    /\ IndexRange \in Nat \ {0}
    \* IpcIoFile.cc uses queues of 1024 items; 1024 divides 2^32
    /\ IndexRange % Capacity = 0

Writers == 1 .. NWriters

VARIABLES
    theIn, theOut, theSize, theBuffer,  \* [w]: the queue from writer w
    popBlocked,     \* the reader is waiting for a notification signal
    popSignal,      \* a notification has been sent and not received
    wpc,            \* wpc[w]: where writer w is in push()
    wasEmpty,       \* wasEmpty[w]: local of the current or last push() of w
    pushing,        \* pushing[w]: the value w has copied and not yet counted in theSize
    rpc,            \* where the reader is
    theLastPop,     \* theLastPopProcessId
    visited,        \* queues visited by the current pop() call
    messages,       \* notification messages sent and not received
    popped          \* local value of pop(), and its writer

queueVars == <<theIn, theOut, theSize, theBuffer>>
readerVars == <<popBlocked, popSignal>>
writerLocals == <<wpc, wasEmpty, pushing>>
readerLocals == <<rpc, theLastPop, visited, popped>>
vars == <<queueVars, readerVars, writerLocals, readerLocals, messages>>

Init ==
    /\ theIn = [w \in Writers |-> 0]
    /\ theOut = [w \in Writers |-> 0]
    /\ theSize = [w \in Writers |-> 0]
    /\ theBuffer \in {[w \in Writers |-> [i \in 0 .. Capacity - 1 |-> v]] : v \in Values}
    /\ popBlocked = 1
    /\ popSignal = 0
    /\ wpc = [w \in Writers |-> "idle"]
    /\ wasEmpty = [w \in Writers |-> FALSE]
    /\ pushing = [w \in Writers |-> <<>>]
    /\ rpc = "asleep"
    /\ theLastPop = NWriters
    /\ visited = 0
    /\ messages = 0
    /\ popped = <<>>

WGoto(w, from, to) ==
    /\ wpc[w] = from
    /\ wpc' = [wpc EXCEPT ![w] = to]

RGoto(from, to) ==
    /\ rpc = from
    /\ rpc' = to

----------------------------------------------------------------------------
(* push(value, reader), then the caller's notification *)

Push(w) ==                          \* if (full()) throw Full()
    /\ wpc[w] = "idle"
    /\ theSize[w] # Capacity
    /\ wpc' = [wpc EXCEPT ![w] = "testEmpty"]
    /\ UNCHANGED <<queueVars, readerVars, wasEmpty, pushing, readerLocals, messages>>

PushFull(w) ==                      \* throw Full(): the item is not pushed
    /\ wpc[w] = "idle"
    /\ theSize[w] = Capacity
    /\ UNCHANGED vars

PushTestEmpty(w) ==                 \* wasEmpty = empty()
    /\ WGoto(w, "testEmpty", "store")
    /\ wasEmpty' = [wasEmpty EXCEPT ![w] = theSize[w] = 0]
    /\ UNCHANGED <<queueVars, readerVars, pushing, readerLocals, messages>>

PushStore(w, v) ==                  \* pos = theIn++ % theCapacity; memcpy()
    /\ WGoto(w, "store", "size")
    /\ theBuffer' = [theBuffer EXCEPT ![w][theIn[w] % Capacity] = v]
    /\ theIn' = [theIn EXCEPT ![w] = (@ + 1) % IndexRange]
    /\ pushing' = [pushing EXCEPT ![w] = <<v>>]
    /\ UNCHANGED <<theOut, theSize, readerVars, wasEmpty, readerLocals, messages>>

PushSize(w) ==                      \* ++theSize; return wasEmpty && ...
    /\ WGoto(w, "size", IF wasEmpty[w] THEN "testBlocked" ELSE "idle")
    /\ theSize' = [theSize EXCEPT ![w] = @ + 1]
    /\ pushing' = [pushing EXCEPT ![w] = <<>>]
    /\ UNCHANGED <<theIn, theOut, theBuffer, readerVars, wasEmpty, readerLocals, messages>>

RaiseSignalTest(w) ==               \* blocked() &&
    /\ WGoto(w, "testBlocked", IF popBlocked = 1 THEN "raise" ELSE "idle")
    /\ UNCHANGED <<queueVars, readerVars, wasEmpty, pushing, readerLocals, messages>>

\* Faulty variant: a reader that has been notified is notified again.
RaiseSignalAlways(w) ==
    /\ WGoto(w, "raise", "notify")
    /\ popSignal' = 1
    /\ UNCHANGED <<queueVars, popBlocked, wasEmpty, pushing, readerLocals, messages>>

RaiseSignal(w) ==                   \* popSignal.swap_if(0, 1)
    /\ WGoto(w, "raise", IF popSignal = 0 THEN "notify" ELSE "idle")
    /\ popSignal' = 1
    /\ UNCHANGED <<queueVars, popBlocked, wasEmpty, pushing, readerLocals, messages>>

Notify(w) ==                        \* the caller sends the message
    /\ WGoto(w, "notify", "idle")
    /\ messages' = messages + 1
    /\ UNCHANGED <<queueVars, readerVars, wasEmpty, pushing, readerLocals>>

----------------------------------------------------------------------------
(* the reader: clearReaderSignal() on a notification, then pop() until it fails;  *)
(* a disker that has been busy for long pauses and resumes with a timed event; a  *)
(* worker also pops before it pushes and before it times requests out             *)

ReceiveNotification ==              \* clearSignal(): unblock()
    /\ messages > 0
    /\ rpc \in {"asleep", "paused"}
    /\ rpc' = "clear"
    /\ messages' = messages - 1
    /\ popBlocked' = 0
    /\ UNCHANGED <<queueVars, popSignal, writerLocals, theLastPop, visited, popped>>

ClearSignal ==                      \* popSignal.swap_if(1, 0)
    /\ RGoto("clear", "next")
    /\ popSignal' = 0
    /\ UNCHANGED <<queueVars, popBlocked, writerLocals, theLastPop, visited, popped,
                   messages>>

Poll ==                             \* pop without a notification
    /\ RGoto("asleep", "next")
    /\ UNCHANGED <<queueVars, readerVars, writerLocals, theLastPop, visited, popped, messages>>

Resume ==                           \* DiskerHandleMoreRequests()
    /\ RGoto("paused", "next")
    /\ UNCHANGED <<queueVars, readerVars, writerLocals, theLastPop, visited, popped, messages>>

\* FewToFewBiQueue::pop() picks the queue after the one it visited last.
PopNext ==
    /\ rpc = "next"
    /\ IF visited < NWriters
       THEN /\ rpc' = "testEmpty"
            /\ visited' = visited + 1
            /\ theLastPop' = IF theLastPop + 1 > NWriters THEN 1 ELSE theLastPop + 1
       ELSE /\ rpc' = "asleep"
            /\ visited' = 0
            /\ UNCHANGED theLastPop
    /\ UNCHANGED <<queueVars, readerVars, writerLocals, popped, messages>>

Pop ==                              \* if (empty())
    /\ RGoto("testEmpty", IF theSize[theLastPop] = 0 THEN "block" ELSE "unblock")
    /\ UNCHANGED <<queueVars, readerVars, writerLocals, theLastPop, visited, popped,
                   messages>>

PopBlock ==                         \* reader->block()
    /\ RGoto("block", "retest")
    /\ popBlocked' = 1
    /\ UNCHANGED <<queueVars, popSignal, writerLocals, theLastPop, visited, popped,
                   messages>>

\* Faulty variant: no second test after block().
PopRetestSkipped ==
    /\ RGoto("retest", "next")
    /\ UNCHANGED <<queueVars, readerVars, writerLocals, theLastPop, visited, popped,
                   messages>>

PopRetest ==                        \* if (empty()) return false
    /\ RGoto("retest", IF theSize[theLastPop] = 0 THEN "next" ELSE "unblock")
    /\ UNCHANGED <<queueVars, readerVars, writerLocals, theLastPop, visited, popped,
                   messages>>

PopUnblock ==                       \* reader->unblock()
    /\ RGoto("unblock", "take")
    /\ popBlocked' = 0
    /\ UNCHANGED <<queueVars, popSignal, writerLocals, theLastPop, visited, popped,
                   messages>>

\* Faulty variant: the output index is advanced before it is used.
PopTakePreIncrement ==
    LET pos == (theOut[theLastPop] + 1) % IndexRange IN
    /\ RGoto("take", "size")
    /\ popped' = <<theLastPop, theBuffer[theLastPop][pos % Capacity]>>
    /\ theOut' = [theOut EXCEPT ![theLastPop] = pos]
    /\ UNCHANGED <<theIn, theSize, theBuffer, readerVars, writerLocals, theLastPop, visited,
                   messages>>

PopTake ==                          \* pos = theOut++ % theCapacity; memcpy()
    /\ RGoto("take", "size")
    /\ popped' = <<theLastPop, theBuffer[theLastPop][theOut[theLastPop] % Capacity]>>
    /\ theOut' = [theOut EXCEPT ![theLastPop] = (@ + 1) % IndexRange]
    /\ UNCHANGED <<theIn, theSize, theBuffer, readerVars, writerLocals, theLastPop, visited,
                   messages>>

PopSize ==                          \* --theSize; return true; pop again or pause
    /\ rpc = "size"
    /\ rpc' \in {"next", "paused"}
    /\ theSize' = [theSize EXCEPT ![theLastPop] = @ - 1]
    /\ visited' = 0
    /\ popped' = <<>>
    /\ UNCHANGED <<theIn, theOut, theBuffer, readerVars, writerLocals, theLastPop, messages>>

----------------------------------------------------------------------------
WriterInside(w) ==
    \/ PushTestEmpty(w)
    \/ \E v \in Values : PushStore(w, v)
    \/ PushSize(w)
    \/ RaiseSignalTest(w) \/ RaiseSignal(w) \/ Notify(w)

ReaderStep ==
    \/ ReceiveNotification \/ ClearSignal \/ Resume
    \/ PopNext \/ Pop \/ PopBlock \/ PopRetest \/ PopUnblock \/ PopTake \/ PopSize

Next ==
    \/ \E w \in Writers : Push(w) \/ PushFull(w) \/ WriterInside(w)
    \/ ReaderStep
    \/ Poll

Spec == Init /\ [][Next]_vars

----------------------------------------------------------------------------
TypeOK ==
    /\ theIn \in [Writers -> 0 .. IndexRange - 1]
    /\ theOut \in [Writers -> 0 .. IndexRange - 1]
    /\ theSize \in [Writers -> 0 .. Capacity]
    /\ theBuffer \in [Writers -> [0 .. Capacity - 1 -> Values]]
    /\ popBlocked \in {0, 1} /\ popSignal \in {0, 1}
    /\ wpc \in [Writers -> {"idle", "testEmpty", "store", "size", "testBlocked", "raise",
                            "notify"}]
    /\ wasEmpty \in [Writers -> BOOLEAN]
    /\ pushing \in [Writers -> Seq(Values)]
    /\ rpc \in {"asleep", "paused", "clear", "next", "testEmpty", "block", "retest",
                "unblock", "take", "size"}
    /\ theLastPop \in Writers
    /\ visited \in 0 .. NWriters
    /\ messages \in Nat

\* Items that can be popped now: counted in theSize, and not yet taken.
Available(w) == theSize[w] - (IF rpc = "size" /\ theLastPop = w THEN 1 ELSE 0)
Unread(w) ==
    [i \in 1 .. Available(w) |-> theBuffer[w][(theOut[w] + i - 1) % Capacity]]

Fifo == INSTANCE FifoQueues WITH queue <- [w \in Writers |-> Unread(w)]

(***************************************************************************)
(* Each ring is a bounded first-in first-out queue: no item is lost,       *)
(* duplicated, reordered or overwritten before it is read, across the      *)
(* wrapping of theIn, theOut and of the positions in the ring.             *)
(***************************************************************************)
ImplementsFifo == Fifo!Spec

Raising == {w \in Writers : wpc[w] = "notify"}

(***************************************************************************)
(* Queue.h, line 45: popSignal says whether a "writer has sent and reader  *)
(* has not received notification".  There is never more than one           *)
(* outstanding notification for a reader, whatever its writers do.         *)
(***************************************************************************)
OneNotification ==
    popSignal = messages + Cardinality(Raising) + (IF rpc = "clear" THEN 1 ELSE 0)

(***************************************************************************)
(* A push that finds the queue empty does not leave its item with a        *)
(* sleeping reader: the reader has been or is being notified.  The second  *)
(* empty test in pop() and the order of the accesses to the two            *)
(* QueueReader words are what makes this true.                             *)
(***************************************************************************)
EmptyPushNotifies ==
    \A w \in Writers :
        (rpc = "asleep" /\ theSize[w] > 0 /\ wpc[w] = "idle" /\ wasEmpty[w])
            => popSignal = 1

(***************************************************************************)
(* Queue.h, lines 106-107: push() "returns true iff the caller must notify *)
(* the reader of the pushed item".  So no item waits for a reader that     *)
(* sleeps and has not been notified.                                       *)
(***************************************************************************)
ReaderNotified ==
    \A w \in Writers :
        (rpc = "asleep" /\ theSize[w] > 0 /\ wpc[w] = "idle") => popSignal = 1

----------------------------------------------------------------------------
(* The inductive invariants of the proofs, in parts. *)

\* The indexes of a ring are as far apart as it has items, the copied one included; there
\* is room for the item being pushed and there is an item to pop.
RingMatches ==
    /\ \A w \in Writers :
        /\ theIn[w] = (theOut[w] + Available(w) + (IF wpc[w] = "size" THEN 1 ELSE 0)) % IndexRange
        /\ wpc[w] \in {"testEmpty", "store", "size"} => theSize[w] < Capacity
        /\ pushing[w] = IF wpc[w] = "size"
                        THEN <<theBuffer[w][(theOut[w] + Available(w)) % Capacity]>> ELSE <<>>
    /\ rpc \in {"unblock", "take", "size"} => theSize[theLastPop] > 0
    /\ rpc # "size" => popped = <<>>

RingInv == TypeOK /\ RingMatches

\* The steps that pop() made from the queue of w to the one it visited last.
Distance(w) == IF w <= theLastPop THEN theLastPop - w ELSE theLastPop - w + NWriters

\* The queues that the reader has found empty since it last had an item.
Passed ==
    {w \in Writers :
        \/ rpc = "asleep"
        \/ rpc = "next" /\ Distance(w) < visited
        \/ /\ rpc \in {"testEmpty", "block", "retest", "unblock"}
           /\ w # theLastPop /\ Distance(w) < visited}

\* The reader stays blocked while it goes on to other queues.
ScanMatches ==
    /\ rpc \in {"asleep", "paused", "clear"} => visited = 0
    /\ rpc \in {"testEmpty", "block", "retest", "unblock", "take", "size"} => visited > 0
    /\ Passed # {} \/ rpc = "retest" => popBlocked = 1

\* EmptyPushNotifies, from the moment when the reader has passed the queue.
PassedNotified ==
    \A w \in Passed : theSize[w] > 0 /\ wpc[w] = "idle" /\ wasEmpty[w] => popSignal = 1

NotifyInv == RingInv /\ OneNotification /\ ScanMatches /\ PassedNotified
=============================================================================
