----------------------------- MODULE PageStack -----------------------------
(***************************************************************************)
(* Ipc::Mem::PageStack (src/ipc/mem/PageStack.cc): the lock-free container *)
(* of free page numbers in shared memory.  The kids pop a page when they   *)
(* need one and push it back when it is no longer needed; a page may be    *)
(* pushed by a different kid than the one that popped it.  Every action is *)
(* one atomic access to one shared word, so the kids interleave between    *)
(* any two of them.                                                        *)
(***************************************************************************)
EXTENDS Integers, FiniteSets

CONSTANTS
    Procs,      \* the kid processes
    Capacity    \* theCapacity: the number of pages and of stack slots

ASSUME ProcsAssumption == IsFiniteSet(Procs)
ASSUME CapacityAssumption == Capacity \in Nat \ {0}

Pages == 1 .. Capacity          \* page numbers skip zero
Slots == 0 .. Capacity - 1      \* indexes of theItems
Writable == 0                   \* the value of a slot without a page

VARIABLES
    theSize,            \* lower bound for the number of free pages
    theLastReadable,    \* last readable item index; just a hint
    theFirstWritable,   \* first writable item index; just a hint
    theItems,           \* page number storage
    pc,                 \* pc[p]: where p is in its current call
    idx,                \* idx[p]: local variable of pop() and push()
    hand,               \* hand[p]: page number that p alone knows, or 0
    used                \* pages owned by the callers of pop() and push()

stackVars == <<theSize, theLastReadable, theFirstWritable, theItems>>
vars == <<theSize, theLastReadable, theFirstWritable, theItems, pc, idx, hand, used>>

next(i) == (i + 1) % Capacity

prev(i) == (Capacity + i - 1) % Capacity

\* Control points, named after the next shared access of the call.
PopPoints == {"popTest", "popIndex", "popTake", "popMove", "popHint", "popGiveUp"}
PushPoints == {"pushTest", "pushIndex", "pushStore", "pushMove",
               "pushedMove", "pushedHint", "pushedSize"}
Points == {"idle", "mustFailed"} \cup PopPoints \cup PushPoints

Init ==
    /\ theSize = Capacity
    /\ theLastReadable = prev(Capacity)
    /\ theFirstWritable = next(prev(Capacity))
    /\ theItems = [i \in Slots |-> i + 1]
    /\ pc = [p \in Procs |-> "idle"]
    /\ idx = [p \in Procs |-> 0]
    /\ hand = [p \in Procs |-> 0]
    /\ used = {}

Goto(p, from, to) ==
    /\ pc[p] = from
    /\ pc' = [pc EXCEPT ![p] = to]

\* Atomic::WordT::swap_if() on an index word: the word's next value.
SwapIf(word, comparand, replacement) ==
    IF word = comparand THEN replacement ELSE word

----------------------------------------------------------------------------
(* pop() *)

\* Faulty variant: the size is not reduced until a page has been found.
PopEnterOptimistic(p) ==
    /\ Goto(p, "idle", "popTest")
    /\ UNCHANGED <<stackVars, idx, hand, used>>

PopEnter(p) ==                          \* --theSize
    /\ Goto(p, "idle", "popTest")
    /\ theSize' = theSize - 1
    /\ UNCHANGED <<theLastReadable, theFirstWritable, theItems, idx, hand, used>>

PopTest(p) ==                           \* while (theSize >= 0)
    /\ Goto(p, "popTest", IF theSize >= 0 THEN "popIndex" ELSE "popGiveUp")
    /\ UNCHANGED <<stackVars, idx, hand, used>>

PopIndex(p) ==                          \* idx = theLastReadable
    /\ Goto(p, "popIndex", "popTake")
    /\ idx' = [idx EXCEPT ![p] = theLastReadable]
    /\ UNCHANGED <<stackVars, hand, used>>

\* Faulty variant: the slot is read and cleared in two steps, so that
\* another kid can read the page in between (here: before the clearing).
PopTakeReads(p) ==
    /\ Goto(p, "popTake", "popMove")
    /\ hand' = [hand EXCEPT ![p] = theItems[idx[p]]]
    /\ UNCHANGED <<stackVars, idx, used>>

PopTake(p) ==                           \* value = theItems[idx].fetchAndAnd(0)
    /\ Goto(p, "popTake", "popMove")
    /\ hand' = [hand EXCEPT ![p] = theItems[idx[p]]]
    /\ theItems' = [theItems EXCEPT ![idx[p]] = Writable]
    /\ UNCHANGED <<theSize, theLastReadable, theFirstWritable, idx, used>>

\* Faulty variant: the hint moves only after a successful pop.
PopMoveIfPopped(p) ==
    /\ Goto(p, "popMove", IF hand[p] # Writable THEN "popHint" ELSE "popTest")
    /\ theLastReadable' = IF hand[p] # Writable
                          THEN SwapIf(theLastReadable, idx[p], prev(idx[p]))
                          ELSE theLastReadable
    /\ UNCHANGED <<theSize, theFirstWritable, theItems, idx, hand, used>>

PopMove(p) ==                           \* theLastReadable.swap_if(idx, prev(idx))
    /\ Goto(p, "popMove", IF hand[p] # Writable THEN "popHint" ELSE "popTest")
    /\ theLastReadable' = SwapIf(theLastReadable, idx[p], prev(idx[p]))
    /\ UNCHANGED <<theSize, theFirstWritable, theItems, idx, hand, used>>

PopHint(p) ==                           \* theFirstWritable = idx; return true
    /\ Goto(p, "popHint", "idle")
    /\ theFirstWritable' = idx[p]
    /\ used' = used \cup {hand[p]}
    /\ hand' = [hand EXCEPT ![p] = 0]
    /\ idx' = [idx EXCEPT ![p] = 0]
    /\ UNCHANGED <<theSize, theLastReadable, theItems>>

PopGiveUp(p) ==                         \* ++theSize; return false
    /\ Goto(p, "popGiveUp", "idle")
    /\ theSize' = theSize + 1
    /\ idx' = [idx EXCEPT ![p] = 0]
    /\ UNCHANGED <<theLastReadable, theFirstWritable, theItems, hand, used>>

----------------------------------------------------------------------------
(* push(page).  A caller gives back a valid page, once. *)

PushEnter(p, page) ==
    /\ page \in used
    /\ Goto(p, "idle", "pushTest")
    /\ used' = used \ {page}
    /\ hand' = [hand EXCEPT ![p] = page]
    /\ UNCHANGED <<stackVars, idx>>

PushTest(p) ==                          \* while (theSize < theCapacity)
    /\ Goto(p, "pushTest", IF theSize < Capacity THEN "pushIndex" ELSE "mustFailed")
    /\ UNCHANGED <<stackVars, idx, hand, used>>

PushIndex(p) ==                         \* idx = theFirstWritable
    /\ Goto(p, "pushIndex", "pushStore")
    /\ idx' = [idx EXCEPT ![p] = theFirstWritable]
    /\ UNCHANGED <<stackVars, hand, used>>

\* Faulty variant: the hint is trusted and the slot overwritten.
PushStoreAlways(p) ==
    /\ Goto(p, "pushStore", "pushedMove")
    /\ theItems' = [theItems EXCEPT ![idx[p]] = hand[p]]
    /\ hand' = [hand EXCEPT ![p] = 0]
    /\ UNCHANGED <<theSize, theLastReadable, theFirstWritable, idx, used>>

PushStore(p) ==                         \* theItems[idx].swap_if(Writable, page.number)
    IF theItems[idx[p]] = Writable
    THEN /\ Goto(p, "pushStore", "pushedMove")
         /\ theItems' = [theItems EXCEPT ![idx[p]] = hand[p]]
         /\ hand' = [hand EXCEPT ![p] = 0]
         /\ UNCHANGED <<theSize, theLastReadable, theFirstWritable, idx, used>>
    ELSE /\ Goto(p, "pushStore", "pushMove")
         /\ UNCHANGED <<stackVars, idx, hand, used>>

PushMove(p) ==                          \* theFirstWritable.swap_if(idx, next(idx))
    /\ \/ Goto(p, "pushMove", "pushTest")
       \/ Goto(p, "pushedMove", "pushedHint")
    /\ theFirstWritable' = SwapIf(theFirstWritable, idx[p], next(idx[p]))
    /\ UNCHANGED <<theSize, theLastReadable, theItems, idx, hand, used>>

PushHint(p) ==                          \* theLastReadable = idx
    /\ Goto(p, "pushedHint", "pushedSize")
    /\ theLastReadable' = idx[p]
    /\ UNCHANGED <<theSize, theFirstWritable, theItems, idx, hand, used>>

PushSize(p) ==                          \* ++theSize; return
    /\ Goto(p, "pushedSize", "idle")
    /\ theSize' = theSize + 1
    /\ idx' = [idx EXCEPT ![p] = 0]
    /\ UNCHANGED <<theLastReadable, theFirstWritable, theItems, hand, used>>

----------------------------------------------------------------------------
Inside(p) ==        \* the steps of a call that has started
    \/ PopTest(p)  \/ PopIndex(p)  \/ PopTake(p)   \/ PopMove(p)
    \/ PopHint(p)  \/ PopGiveUp(p)
    \/ PushTest(p) \/ PushIndex(p) \/ PushStore(p) \/ PushMove(p)
    \/ PushHint(p) \/ PushSize(p)

Step(p) ==
    \/ PopEnter(p)
    \/ \E page \in Pages : PushEnter(p, page)
    \/ Inside(p)

Next == \E p \in Procs : Step(p)

Spec == Init /\ [][Next]_vars

----------------------------------------------------------------------------
TypeOK ==
    /\ theSize \in Int
    /\ theLastReadable \in Slots
    /\ theFirstWritable \in Slots
    /\ theItems \in [Slots -> Pages \cup {Writable}]
    /\ pc \in [Procs -> Points]
    /\ idx \in [Procs -> Slots]
    /\ hand \in [Procs -> Pages \cup {0}]
    /\ used \in SUBSET Pages

\* Where page numbers are kept.
Readable == {i \in Slots : theItems[i] # Writable}
Carriers == {p \in Procs : hand[p] # 0}
FreePages == {theItems[i] : i \in Readable}
Carried == {hand[p] : p \in Carriers}

(***************************************************************************)
(* PageStack.h, lines 19-20: page numbers are unique and "never trully     *)
(* lost".  Every page is in exactly one place: in one slot of the stack,   *)
(* in the hands of one kid inside pop() or push(), or owned by a caller.   *)
(***************************************************************************)
PagesKept ==
    /\ \A i, j \in Readable : theItems[i] = theItems[j] => i = j
    /\ \A p, q \in Carriers : hand[p] = hand[q] => p = q
    /\ FreePages \cap Carried = {}
    /\ FreePages \cap used = {}
    /\ Carried \cap used = {}
    /\ FreePages \cup Carried \cup used = Pages

\* The calls that have made theSize smaller than the number of free pages.
Reserving == {p \in Procs : \/ pc[p] \in {"popTest", "popIndex", "popTake", "popGiveUp"}
                            \/ pc[p] = "popMove" /\ hand[p] = 0}
Unfinished == {p \in Procs : pc[p] \in {"pushedMove", "pushedHint", "pushedSize"}}

(***************************************************************************)
(* "Lower bound for the number of free pages": theSize is the number of    *)
(* pages in the stack minus the calls that have reserved a page they have  *)
(* not found yet or have stored a page they have not counted yet.  It      *)
(* never drifts, so a pop() running alone is refused only when the stack   *)
(* is really empty.                                                        *)
(***************************************************************************)
SizeExact ==
    theSize = Cardinality(Readable) - Cardinality(Reserving) - Cardinality(Unfinished)

(***************************************************************************)
(* The Must(false) that ends push() is never reached: "the number of pages *)
(* cannot exceed theCapacity" (PageStack.cc, line 95).                     *)
(***************************************************************************)
PushFindsRoom == \A p \in Procs : pc[p] # "mustFailed"

\* A call has a page in its hands exactly between taking and delivering it.
HandsMatch ==
    \A p \in Procs :
        /\ pc[p] \in {"popHint", "pushTest", "pushIndex", "pushStore", "pushMove"} => hand[p] # 0
        /\ pc[p] \in {"idle", "popTest", "popIndex", "popTake", "popGiveUp",
                     "pushedMove", "pushedHint", "pushedSize"} => hand[p] = 0

\* The inductive invariant of the proofs.
StackInv == TypeOK /\ HandsMatch /\ PagesKept /\ SizeExact /\ PushFindsRoom

Alloc == INSTANCE PageAllocator
            WITH free <- FreePages, inUse <- used \cup Carried

(***************************************************************************)
(* pop() and push() act like atomic allocations and releases of a page.    *)
(***************************************************************************)
ImplementsPageAllocator == Alloc!Spec

Returns == \E p \in Procs : pc[p] # "idle" /\ pc'[p] = "idle"

(***************************************************************************)
(* Lock freedom of the searches for a readable or writable slot: as long   *)
(* as some kid is inside a call, calls keep returning, although the hints  *)
(* that direct the searches "may lie".                                     *)
(***************************************************************************)
LockFree ==
    \/ []<><<Returns>>_vars
    \/ <>[](\A p \in Procs : pc[p] = "idle")
============================================================================
