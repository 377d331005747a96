--------------------------- MODULE PageAllocator ---------------------------
(***************************************************************************)
(* What Ipc::Mem::PageStack promises: each page is either free or in use,  *)
(* a request is given some free page, and a page in use is given back      *)
(* once.  A request may also be refused; that changes nothing.             *)
(***************************************************************************)
CONSTANT Pages

VARIABLES
    free,      \* pages available to future requests
    inUse      \* pages handed out to a caller

allocVars == <<free, inUse>>

Init == free = Pages /\ inUse = {}

Allocate(page) ==
    /\ page \in free
    /\ free' = free \ {page}
    /\ inUse' = inUse \cup {page}

Release(page) ==
    /\ page \in inUse
    /\ free' = free \cup {page}
    /\ inUse' = inUse \ {page}

Next == \E page \in Pages : Allocate(page) \/ Release(page)

Spec == Init /\ [][Next]_allocVars
============================================================================
