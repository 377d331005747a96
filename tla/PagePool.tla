------------------------------ MODULE PagePool ------------------------------
(***************************************************************************)
(* Ipc::Mem::GetPage(), PutPage() and the per-purpose accounting of        *)
(* Ipc::Mem::PagePool (src/ipc/mem/Pages.cc, PagePool.cc) on top of the    *)
(* free page stack.  The pool has as many pages as all purposes claimed    *)
(* together (NotePageNeed); a purpose is meant to use only its own share.  *)
(***************************************************************************)
EXTENDS PageStack

CONSTANTS
    Purposes,       \* PageId::Purpose without maxPurpose
    PageLimit,      \* PageLimit[purpose]: TheLimits
    SizeTRange,     \* number of values of size_t
    maxPurpose      \* the purpose of a page that nobody uses

ASSUME PurposesAssumption ==
    /\ maxPurpose \notin Purposes
    /\ PageLimit \in [Purposes -> Nat]
    /\ SizeTRange \in Nat /\ SizeTRange > Capacity

VARIABLES
    theLevels,  \* theLevels[purpose]: pages used now for this purpose
    purpose,    \* purpose[page]: PageId::purpose of the page's current user
    getting,    \* getting[p]: what the GetPage() call of p is for, if any
    got         \* got[p]: the page that pop() gave p and p has not counted yet

poolVars == <<theLevels, purpose, getting, got>>
allVars == <<vars, poolVars>>

PoolInit ==
    /\ Init
    /\ theLevels = [u \in Purposes |-> 0]
    /\ purpose = [page \in Pages |-> maxPurpose]
    /\ getting = [p \in Procs |-> maxPurpose]
    /\ got = [p \in Procs |-> 0]

\* size_t arithmetic: a level above the limit makes this huge, not negative.
PagesAvailable(u) == (PageLimit[u] - theLevels[u]) % SizeTRange

----------------------------------------------------------------------------
(* GetPage(u, page): test the level, then PagePool::get() *)

GetPage(p, u) ==                        \* PagesAvailable(purpose) > 0 ? get() : false
    /\ pc[p] = "idle" /\ getting[p] = maxPurpose
    /\ PagesAvailable(u) > 0
    /\ getting' = [getting EXCEPT ![p] = u]
    /\ UNCHANGED <<vars, theLevels, purpose, got>>

GetPop(p) ==                            \* pageIndex->pop(page)
    /\ getting[p] # maxPurpose
    /\ got[p] = 0
    /\ PopEnter(p)
    /\ UNCHANGED poolVars

GotPage(p) ==                           \* pop() returns true
    /\ PopHint(p)
    /\ got' = [got EXCEPT ![p] = hand[p]]
    /\ UNCHANGED <<theLevels, purpose, getting>>

CountPage(p) ==                         \* page.purpose = purpose; ++theLevels[purpose]
    /\ got[p] # 0
    /\ purpose' = [purpose EXCEPT ![got[p]] = getting[p]]
    /\ theLevels' = [theLevels EXCEPT ![getting[p]] = @ + 1]
    /\ getting' = [getting EXCEPT ![p] = maxPurpose]
    /\ got' = [got EXCEPT ![p] = 0]
    /\ UNCHANGED vars

GotNothing(p) ==
    /\ PopGiveUp(p)
    /\ getting' = [getting EXCEPT ![p] = maxPurpose]
    /\ UNCHANGED <<theLevels, purpose, got>>

\* Faulty variant: the purpose is left in the page identifier.
PutPageKeepsPurpose(p, page) ==
    /\ getting[p] = maxPurpose
    /\ purpose[page] # maxPurpose
    /\ theLevels' = [theLevels EXCEPT ![purpose[page]] = @ - 1]
    /\ PushEnter(p, page)
    /\ UNCHANGED <<purpose, getting, got>>

(* PutPage(page): --theLevels[page.purpose], then push() *)

PutPage(p, page) ==
    /\ getting[p] = maxPurpose
    /\ purpose[page] # maxPurpose       \* Must(purpose < maxPurpose)
    /\ theLevels' = [theLevels EXCEPT ![purpose[page]] = @ - 1]
    /\ purpose' = [purpose EXCEPT ![page] = maxPurpose]
    /\ PushEnter(p, page)
    /\ UNCHANGED <<getting, got>>

StackStep(p) ==     \* the accesses of pop() and push() that change only the stack
    /\ \/ PopTest(p)  \/ PopIndex(p)  \/ PopTake(p)   \/ PopMove(p)
       \/ PushTest(p) \/ PushIndex(p) \/ PushStore(p) \/ PushMove(p)
       \/ PushHint(p) \/ PushSize(p)
    /\ UNCHANGED poolVars

PoolNext ==
    \E p \in Procs :
        \/ \E u \in Purposes : GetPage(p, u)
        \/ GetPop(p) \/ GotPage(p) \/ CountPage(p) \/ GotNothing(p)
        \/ \E page \in Pages : PutPage(p, page)
        \/ StackStep(p)

PoolSpec == PoolInit /\ [][PoolNext]_allVars

\* As in FairSpec: a kid does not stop inside pop() or push().
PoolFairSpec ==
    PoolSpec /\ \A p \in Procs : WF_allVars(StackStep(p) \/ GotPage(p) \/ GotNothing(p))

----------------------------------------------------------------------------
PoolTypeOK ==
    /\ TypeOK
    /\ theLevels \in [Purposes -> Nat]
    /\ purpose \in [Pages -> Purposes \cup {maxPurpose}]
    /\ getting \in [Procs -> Purposes \cup {maxPurpose}]
    /\ got \in [Procs -> Pages \cup {0}]

(***************************************************************************)
(* The level of a purpose is the number of pages handed out for it, and    *)
(* exactly the pages owned by callers have a purpose, unless get() is      *)
(* about to set it: the Must() of PagePool::put() holds for every page a   *)
(* caller can give back, and the levels do not drift however the gets and  *)
(* puts of different kids overlap.                                         *)
(***************************************************************************)
LevelsExact ==
    /\ \A u \in Purposes : theLevels[u] = Cardinality({page \in Pages : purpose[page] = u})
    /\ used \ {got[p] : p \in Procs} = {page \in Pages : purpose[page] # maxPurpose}

\* A call that is inside pop() has no page yet; a page that pop() delivered
\* belongs to its caller, who is about to count it, and has no purpose.
GotMatches ==
    /\ \A p \in Procs :
        /\ pc[p] \in PopPoints => getting[p] # maxPurpose /\ got[p] = 0
        /\ got[p] # 0 => /\ pc[p] = "idle" /\ getting[p] # maxPurpose
                         /\ got[p] \in used /\ purpose[got[p]] = maxPurpose
    /\ \A p, q \in Procs : got[p] # 0 /\ got[p] = got[q] => p = q

\* The inductive invariant of the proofs.
PoolInv == StackInv /\ PoolTypeOK /\ GotMatches /\ LevelsExact
============================================================================
