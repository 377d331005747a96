------------------------------ MODULE MemStore ------------------------------
(***************************************************************************)
(* MemStore (src/MemStore.cc): the memory cache that all workers share.    *)
(* An entry is a slot of the shared map and one shared memory page that    *)
(* holds its data.  This module composes a slot of StoreMap, step by step, *)
(* with the page allocator that PageStack implements: keep() fills a page  *)
(* and the slot, get() copies the page of a slot it locked for reading,    *)
(* and whoever frees the slot gives the page back (cleanReadable()).       *)
(***************************************************************************)
EXTENDS StoreMap, FiniteSetsExt

CONSTANTS
    Pages,          \* shared memory pages for cachePage
    NoPage,         \* PageId(): no page
    SizeRange       \* number of values of theCurrentSize, in pages

ASSUME PagesAssumption == NoPage \notin Pages
ASSUME SizeRangeAssumption == SizeRange \in Nat \ {0, 1}

VARIABLES
    extrasPage,     \* MemStoreMap::Extras::page of the slot
    content,        \* content[page]: version of the entry copied into the page
    page,           \* page[k]: local of copyToShm()
    free,           \* pages that GetPage() can give
    theCurrentSize  \* theCurrentSize[k]: the counter of kid k

memVars == <<extrasPage, content, page, free, theCurrentSize>>
memAllVars == <<vars, memVars>>

PagePool == INSTANCE PageAllocator WITH inUse <- Pages \ free

MemInit ==
    /\ Init
    /\ extrasPage = NoPage
    /\ content = [p \in Pages |-> 0]
    /\ page = [k \in Kids |-> NoPage]
    /\ free = Pages
    /\ theCurrentSize = [k \in Kids |-> 0]

----------------------------------------------------------------------------
(* keep(): openForWriting(), copyToShm(), then set() and closeForWriting(), or abortIo() *)

CopyToShm(k) ==                         \* GetPage(cachePage, page)
    /\ at[k] = "writing"
    /\ page[k] = NoPage
    /\ \E p \in free : /\ PagePool!Allocate(p)
                       /\ page' = [page EXCEPT ![k] = p]
    /\ UNCHANGED <<vars, extrasPage, content, theCurrentSize>>

\* Faulty variant: the slot is filled, its page is not recorded.
CopiedToShmForgets(k) ==
    /\ page[k] # NoPage
    /\ SetEntry(k)
    /\ content' = [content EXCEPT ![page[k]] = written']
    /\ page' = [page EXCEPT ![k] = NoPage]
    /\ theCurrentSize' = [theCurrentSize EXCEPT ![k] = (@ + 1) % SizeRange]
    /\ UNCHANGED <<extrasPage, free>>

CopiedToShm(k) ==                       \* the whole entry is in the page
    /\ page[k] # NoPage
    /\ SetEntry(k)
    /\ content' = [content EXCEPT ![page[k]] = written']
    /\ extrasPage' = page[k]
    /\ page' = [page EXCEPT ![k] = NoPage]
    /\ theCurrentSize' = [theCurrentSize EXCEPT ![k] = (@ + 1) % SizeRange]
    /\ UNCHANGED free

CopyToShmFails(k) ==                    \* no page, or not all was copied: PutPage(page)
    /\ at[k] = "writing"
    /\ AbortWriting(k)
    /\ \/ page[k] = NoPage /\ UNCHANGED free
       \/ PagePool!Release(page[k])
    /\ page' = [page EXCEPT ![k] = NoPage]
    /\ UNCHANGED <<extrasPage, content, theCurrentSize>>

----------------------------------------------------------------------------
(* freeLocked(): cleanReadable() for a readable slot *)

\* Faulty variant: the space is not discounted.
CleanReadableForgets(k) ==
    /\ FreeLockedClear(k)
    /\ IF state = "Readable"
       THEN /\ PagePool!Release(extrasPage)
            /\ extrasPage' = NoPage
       ELSE UNCHANGED <<extrasPage, free>>
    /\ UNCHANGED <<content, page, theCurrentSize>>

CleanReadable(k) ==                     \* PutPage() resets the page of the slot
    /\ FreeLockedClear(k)
    /\ IF state = "Readable"
       THEN /\ PagePool!Release(extrasPage)
            /\ extrasPage' = NoPage
            /\ theCurrentSize' = [theCurrentSize EXCEPT ![k] = (@ - 1) % SizeRange]
       ELSE UNCHANGED <<extrasPage, free, theCurrentSize>>
    /\ UNCHANGED <<content, page>>

----------------------------------------------------------------------------
(* get(): openForReading(), copyFromShm(), closeForReading(), and free() if the data *)
(* could not be parsed; copyFromShm() changes nothing that is shared                 *)

MapStep(k) ==
    /\ \/ \E key \in Keys : OpenForWriting(k, key) \/ OpenForReading(k, key)
       \/ OpenForWritingTest(k) \/ OpenForWritingRefused(k)
       \/ OpenForWritingLocked(k) \/ OpenForWritingBegin(k) \/ CloseForWriting(k)
       \/ OpenForReadingTest(k) \/ OpenForReadingRefused(k)
       \/ OpenForReadingCheck(k) \/ OpenForReadingUnlock(k)
       \/ CloseForReading(k) \/ Forget(k)
       \/ (at[k] = "stale" /\ Free(k)) \/ FreeTest(k) \/ FreeRefused(k) \/ FreeMark(k)
       \/ FreeLockedEmpty(k) \/ FreeLockedCount(k)
    /\ UNCHANGED memVars

MemNext ==
    \E k \in Kids :
        \/ CopyToShm(k) \/ CopiedToShm(k) \/ CopyToShmFails(k)
        \/ CleanReadable(k)
        \/ MapStep(k)

MemSpec == MemInit /\ [][MemNext]_memAllVars

----------------------------------------------------------------------------
MemTypeOK ==
    /\ TypeOK
    /\ extrasPage \in Pages \cup {NoPage}
    /\ content \in [Pages -> 0 .. MaxWrites]
    /\ page \in [Kids -> Pages \cup {NoPage}]
    /\ free \in SUBSET Pages
    /\ theCurrentSize \in [Kids -> 0 .. SizeRange - 1]

Held == ({page[k] : k \in Kids} \cup {extrasPage}) \ {NoPage}

(***************************************************************************)
(* No page of the shared memory cache is lost or given back twice: a page  *)
(* that is not free is the page of the slot or of exactly one keep() call, *)
(* however writers, readers, purges and failed copies overlap.             *)
(***************************************************************************)
MemPagesKept ==
    /\ Held = Pages \ free
    /\ \A j, k \in Kids : page[k] # NoPage =>
            /\ page[k] # extrasPage
            /\ page[j] = page[k] => j = k

(***************************************************************************)
(* From openForReading() to closeForReading(), the page of the slot holds  *)
(* the data of the entry that was opened and is not given to anybody else: *)
(* copyFromShm() copies that entry although it takes no lock on the page.  *)
(***************************************************************************)
ReaderSeesItsData ==
    \A k \in Kids : at[k] = "reading" =>
        /\ extrasPage \in Pages \ free
        /\ content[extrasPage] = opened[k].version

(***************************************************************************)
(* theCurrentSize, the "currently used space in the storage area"          *)
(* (MemStore.h, line 60), is local to a process: the one that frees an     *)
(* entry need not be the one that stored it, and its unsigned counter may  *)
(* wrap below zero.  No counter is right by itself; what holds is that the *)
(* counters of all kids add up to the space in use (modulo the range of    *)
(* uint64_t): however frees race, an entry is counted once, by whoever     *)
(* stored it, and discounted once, by whoever freed it.                    *)
(***************************************************************************)
SizesAddUp ==
    MapThenSumSet(LAMBDA k : theCurrentSize[k], Kids) % SizeRange
        = (IF extrasPage = NoPage THEN 0 ELSE 1)

\* The slot has a page while an entry is stored, from the copying of its data
\* to the cleaning of the slot; a keep() call has one while it copies.
PageMatches ==
    /\ \A k \in Kids : /\ page[k] # NoPage => at[k] = "writing"
                       /\ at[k] = "written" => extrasPage # NoPage
                       /\ freed[k] = "empty" => extrasPage = NoPage
    /\ extrasPage # NoPage => /\ content[extrasPage] = entry.version
                              /\ state = "Readable" \/ \E k \in Kids : at[k] = "written"
    /\ state = "Readable" => extrasPage # NoPage \/ \E k \in Kids : freed[k] = "empty"

\* The inductive invariant of the proofs.
MemInv == MapInv /\ MemTypeOK /\ PageMatches /\ MemPagesKept
=============================================================================
