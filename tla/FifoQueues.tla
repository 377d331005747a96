----------------------------- MODULE FifoQueues -----------------------------
(***************************************************************************)
(* What the queues between kids promise: each writer has its own first-in  *)
(* first-out queue of bounded capacity to the reader.  A push may also be  *)
(* refused and a pop may find nothing; both change nothing.                *)
(***************************************************************************)
EXTENDS Sequences, Naturals

CONSTANTS Writers, Values, Capacity

VARIABLES
    queue,      \* queue[w]: items pushed by w and not popped yet
    pushing,    \* pushing[w]: the item that w is about to push
    popped      \* the item being returned to the reader, and its writer

Init ==
    /\ queue = [w \in Writers |-> <<>>]
    /\ pushing = [w \in Writers |-> <<>>]
    /\ popped = <<>>

Offer(w, v) ==
    /\ pushing[w] = <<>>
    /\ pushing' = [pushing EXCEPT ![w] = <<v>>]
    /\ UNCHANGED <<queue, popped>>

Push(w) ==
    /\ pushing[w] # <<>> /\ Len(queue[w]) < Capacity
    /\ queue' = [queue EXCEPT ![w] = Append(@, Head(pushing[w]))]
    /\ pushing' = [pushing EXCEPT ![w] = <<>>]
    /\ UNCHANGED popped

Pop(w) ==
    /\ popped = <<>> /\ queue[w] # <<>>
    /\ popped' = <<w, Head(queue[w])>>
    /\ queue' = [queue EXCEPT ![w] = Tail(@)]
    /\ UNCHANGED pushing

Return ==                           \* the reader has the item
    /\ popped' = <<>>
    /\ UNCHANGED <<queue, pushing>>

Next ==
    \/ \E w \in Writers : Push(w) \/ Pop(w) \/ \E v \in Values : Offer(w, v)
    \/ Return

Spec == Init /\ [][Next]_<<queue, pushing, popped>>
=============================================================================
