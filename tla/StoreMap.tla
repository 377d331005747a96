------------------------------ MODULE StoreMap ------------------------------
(***************************************************************************)
(* One slot of Ipc::StoreMap (src/ipc/StoreMap.cc), the shared-memory      *)
(* index behind the shared memory cache (MemStore) and the rock disk cache.*)
(* No operation of the map touches two slots, and the slots share only the *)
(* count of used slots, so one slot and the count are modelled.            *)
(*                                                                         *)
(* A kid is single-threaded.  It holds at most one lock on the slot as a   *)
(* reader or writer (lock identity "entry") and may call free() with a     *)
(* slot number it learned from an earlier open, even while it holds the    *)
(* slot (identity "free").  Every action is one access to one shared word, *)
(* together with accesses to data that the held lock protects.             *)
(***************************************************************************)
EXTENDS Integers, FiniteSets

CONSTANTS
    Kids,       \* the processes attached to the map
    Keys,       \* keys that hash to this slot
    MaxWrites   \* bound: number of entries written into the slot

ASSUME KidsAssumption == IsFiniteSet(Kids)
ASSUME MaxWritesAssumption == MaxWrites \in Nat

VARIABLES
    readers, writers, lockpc,   \* the slot's ReadWriteLock
    state,              \* Slot::state
    waitingToBeFreed,   \* Slot::waitingToBeFreed
    entry,              \* key and identity of the data stored in the slot
    count,              \* Shared::count
    at,                 \* at[k]: what kid k does with the slot
    freeing,            \* freeing[k]: where k is in free(), or "no"
    freed,              \* freed[k]: where k is in freeLocked(), or "no"
    want,               \* want[k]: the key of k's current open call
    opened,             \* opened[k]: the entry k has open for reading
    written,            \* history: number of entries written so far
    dead,               \* history: entries whose free() has returned
    deadBefore,         \* history: dead when k's open for reading started
    victim              \* history: the entry stored when k called free()

lockVars == <<readers, writers, lockpc>>
slotVars == <<state, waitingToBeFreed, entry, count>>
history == <<written, dead, deadBefore, victim>>
vars == <<lockVars, slotVars, at, freeing, freed, want, opened, history>>

LockIds == Kids \X {"entry", "free"}
E(k) == <<k, "entry">>
F(k) == <<k, "free">>

Lock == INSTANCE ReadWriteLock WITH Procs <- LockIds, pc <- lockpc

NoEntry == [key |-> "none", version |-> 0]
Entries == [key : Keys, version : 1 .. MaxWrites]

Init ==
    /\ Lock!Init
    /\ state = "Empty"
    /\ waitingToBeFreed = FALSE
    /\ entry = NoEntry
    /\ count = 0
    /\ at = [k \in Kids |-> "idle"]
    /\ freeing = [k \in Kids |-> "no"]
    /\ freed = [k \in Kids |-> "no"]
    /\ want = [k \in Kids |-> "none"]
    /\ opened = [k \in Kids |-> NoEntry]
    /\ written = 0
    /\ dead = {}
    /\ deadBefore = [k \in Kids |-> {}]
    /\ victim = [k \in Kids |-> 0]

\* Kid k, outside free() and freeLocked(), goes from one point to another.
Goto(k, from, to) ==
    /\ at[k] = from
    /\ freeing[k] = "no" /\ freed[k] = "no"
    /\ at' = [at EXCEPT ![k] = to]

----------------------------------------------------------------------------
(* openForWriting(key) *)

OpenForWriting(k, key) ==               \* lock.lockExclusive()
    /\ Goto(k, "idle", "wLock")
    /\ Lock!LockExclusiveEnter(E(k))
    /\ want' = [want EXCEPT ![k] = key]
    /\ UNCHANGED <<slotVars, freeing, freed, opened, history>>

OpenForWritingTest(k) ==
    /\ Goto(k, "wLock", "wLock")
    /\ Lock!LockExclusiveTest(E(k))
    /\ UNCHANGED <<slotVars, freeing, freed, want, opened, history>>

OpenForWritingRefused(k) ==             \* return NULL
    /\ Goto(k, "wLock", "idle")
    /\ Lock!LockExclusiveUndo(E(k))
    /\ want' = [want EXCEPT ![k] = "none"]
    /\ UNCHANGED <<slotVars, freeing, freed, opened, history>>

OpenForWritingLocked(k) ==              \* waitingToBeFreed || state == Readable
    /\ at[k] = "wLock" /\ lockpc[E(k)] = "exclusive"
    /\ IF waitingToBeFreed \/ state = "Readable"
       THEN /\ at' = [at EXCEPT ![k] = "wFree"]
            /\ freed' = [freed EXCEPT ![k] = "clear"]
       ELSE /\ at' = [at EXCEPT ![k] = "wBegin"]
            /\ UNCHANGED freed
    /\ UNCHANGED <<lockVars, slotVars, freeing, want, opened, history>>

OpenForWritingBegin(k) ==               \* ++count; state = Writeable
    /\ Goto(k, "wBegin", "writing")
    /\ count' = count + 1
    /\ state' = "Writeable"
    /\ UNCHANGED <<lockVars, waitingToBeFreed, entry, freeing, freed, want, opened, history>>

SetEntry(k) ==                          \* Slot::set() by the caller
    /\ written < MaxWrites
    /\ Goto(k, "writing", "written")
    /\ entry' = [key |-> want[k], version |-> written + 1]
    /\ written' = written + 1
    /\ UNCHANGED <<lockVars, state, waitingToBeFreed, count, freeing, freed, want, opened,
                   dead, deadBefore, victim>>

(* closeForWriting() *)

\* Faulty variant: the lock is released with the entry still being written.
CloseForWritingKeepsState(k) ==
    /\ Goto(k, "written", "idle")
    /\ Lock!UnlockExclusive(E(k))
    /\ want' = [want EXCEPT ![k] = "none"]
    /\ UNCHANGED <<slotVars, freeing, freed, opened, history>>

CloseForWriting(k) ==                   \* state = Readable; unlockExclusive()
    /\ Goto(k, "written", "idle")
    /\ state' = "Readable"
    /\ Lock!UnlockExclusive(E(k))
    /\ want' = [want EXCEPT ![k] = "none"]
    /\ UNCHANGED <<waitingToBeFreed, entry, count, freeing, freed, opened, history>>

CloseForWritingSwitch(k) ==             \* state = Readable; switchExclusiveToShared()
    /\ Goto(k, "written", "switch")
    /\ state' = "Readable"
    /\ Lock!SwitchEnter(E(k))
    /\ UNCHANGED <<waitingToBeFreed, entry, count, freeing, freed, want, opened, history>>

CloseForWritingSwitched(k) ==
    /\ Goto(k, "switch", "kept")
    /\ Lock!SwitchLeave(E(k))
    /\ opened' = [opened EXCEPT ![k] = entry]
    /\ UNCHANGED <<slotVars, freeing, freed, want, history>>

AbortWriting(k) ==                      \* abortIo() of a writer: freeLocked(s, false)
    /\ freeing[k] = "no"
    /\ at[k] \in {"writing", "written"}
    /\ at' = [at EXCEPT ![k] = "aborting"]
    /\ freed' = [freed EXCEPT ![k] = "clear"]
    /\ UNCHANGED <<lockVars, slotVars, freeing, want, opened, history>>

----------------------------------------------------------------------------
(* openForReading(key) *)

OpenForReading(k, key) ==               \* lock.lockShared()
    /\ Goto(k, "idle", "rLock")
    /\ Lock!LockSharedEnter(E(k))
    /\ want' = [want EXCEPT ![k] = key]
    /\ deadBefore' = [deadBefore EXCEPT ![k] = dead]
    /\ UNCHANGED <<slotVars, freeing, freed, opened, written, dead, victim>>

OpenForReadingTest(k) ==
    /\ Goto(k, "rLock", "rLock")
    /\ Lock!LockSharedTest(E(k))
    /\ UNCHANGED <<slotVars, freeing, freed, want, opened, history>>

OpenForReadingRefused(k) ==             \* return NULL
    /\ Goto(k, "rLock", "idle")
    /\ Lock!LockSharedUndo(E(k))
    /\ want' = [want EXCEPT ![k] = "none"]
    /\ deadBefore' = [deadBefore EXCEPT ![k] = {}]
    /\ UNCHANGED <<slotVars, freeing, freed, opened, written, dead, victim>>

\* Faulty variant: the mark is not looked at.
OpenForReadingCheckNoMark(k) ==
    /\ at[k] = "rLock" /\ lockpc[E(k)] = "shared"
    /\ IF state # "Empty" /\ entry.key = want[k]
       THEN /\ at' = [at EXCEPT ![k] = "reading"]
            /\ opened' = [opened EXCEPT ![k] = entry]
       ELSE /\ at' = [at EXCEPT ![k] = "rUnlock"]
            /\ UNCHANGED opened
    /\ UNCHANGED <<lockVars, slotVars, freeing, freed, want, history>>

\* Faulty variant: an empty slot still has the key of the entry that was freed.
OpenForReadingCheckNoEmpty(k) ==
    /\ at[k] = "rLock" /\ lockpc[E(k)] = "shared"
    /\ IF ~waitingToBeFreed /\ entry.key = want[k]
       THEN /\ at' = [at EXCEPT ![k] = "reading"]
            /\ opened' = [opened EXCEPT ![k] = entry]
       ELSE /\ at' = [at EXCEPT ![k] = "rUnlock"]
            /\ UNCHANGED opened
    /\ UNCHANGED <<lockVars, slotVars, freeing, freed, want, history>>

OpenForReadingCheck(k) ==               \* Empty, dirty or of another key: unlock
    /\ at[k] = "rLock" /\ lockpc[E(k)] = "shared"
    /\ IF state # "Empty" /\ ~waitingToBeFreed /\ entry.key = want[k]
       THEN /\ at' = [at EXCEPT ![k] = "reading"]
            /\ opened' = [opened EXCEPT ![k] = entry]
       ELSE /\ at' = [at EXCEPT ![k] = "rUnlock"]
            /\ UNCHANGED opened
    /\ UNCHANGED <<lockVars, slotVars, freeing, freed, want, history>>

OpenForReadingUnlock(k) ==              \* unlockShared(); return NULL
    /\ Goto(k, "rUnlock", "idle")
    /\ Lock!UnlockShared(E(k))
    /\ want' = [want EXCEPT ![k] = "none"]
    /\ deadBefore' = [deadBefore EXCEPT ![k] = {}]
    /\ UNCHANGED <<slotVars, freeing, freed, opened, written, dead, victim>>

(***************************************************************************)
(* closeForReading(), also abortIo() of a reader.  A caller that opened    *)
(* the entry for reading remembers the slot number and may still free()    *)
(* the slot (MemStore::get()); one that wrote the entry does not.          *)
(***************************************************************************)
CloseForReading(k) ==                   \* unlockShared()
    /\ Goto(k, "reading", "stale") \/ Goto(k, "kept", "idle")
    /\ Lock!UnlockShared(E(k))
    /\ opened' = [opened EXCEPT ![k] = NoEntry]
    /\ want' = [want EXCEPT ![k] = "none"]
    /\ deadBefore' = [deadBefore EXCEPT ![k] = {}]
    /\ UNCHANGED <<slotVars, freeing, freed, written, dead, victim>>

Forget(k) ==
    /\ Goto(k, "stale", "idle")
    /\ UNCHANGED <<lockVars, slotVars, freeing, freed, want, opened, history>>

----------------------------------------------------------------------------
(* free(fileno) *)

Free(k) ==                              \* lock.lockExclusive()
    /\ at[k] \in {"reading", "kept", "writing", "written", "stale"}
    /\ freeing[k] = "no" /\ freed[k] = "no"
    /\ freeing' = [freeing EXCEPT ![k] = "lock"]
    /\ Lock!LockExclusiveEnter(F(k))
    /\ victim' = [victim EXCEPT ![k] = entry.version]
    /\ UNCHANGED <<slotVars, at, freed, want, opened, written, dead, deadBefore>>

FreeTest(k) ==                          \* locked: freeLocked(s, false)
    /\ freeing[k] = "lock"
    /\ Lock!LockExclusiveTest(F(k))
    /\ freed' = [freed EXCEPT ![k] = IF readers = 0 THEN "clear" ELSE "no"]
    /\ UNCHANGED <<slotVars, at, freeing, want, opened, history>>

FreeRefused(k) ==
    /\ freeing[k] = "lock"
    /\ Lock!LockExclusiveUndo(F(k))
    /\ freeing' = [freeing EXCEPT ![k] = "mark"]
    /\ UNCHANGED <<slotVars, at, freed, want, opened, history>>

\* free() returns to its caller.
FreeReturns(k) ==
    /\ freeing' = [freeing EXCEPT ![k] = "no"]
    /\ at' = [at EXCEPT ![k] = IF @ = "stale" THEN "idle" ELSE @]
    /\ dead' = dead \cup {victim[k]}
    /\ victim' = [victim EXCEPT ![k] = 0]
    /\ UNCHANGED <<written, deadBefore>>

FreeMark(k) ==                          \* waitingToBeFreed = true
    /\ freeing[k] = "mark"
    /\ waitingToBeFreed' = TRUE
    /\ FreeReturns(k)
    /\ UNCHANGED <<lockVars, state, entry, count, freed, want, opened>>

----------------------------------------------------------------------------
(* freeLocked(s, keepLocked): the slot is kept locked only for openForWriting() *)

FreeLockedClear(k) ==                   \* cleaner; waitingToBeFreed = false
    /\ freed[k] = "clear"
    /\ freed' = [freed EXCEPT ![k] = "empty"]
    /\ waitingToBeFreed' = FALSE
    /\ UNCHANGED <<lockVars, state, entry, count, at, freeing, want, opened, history>>

\* Faulty variant: the lock is released although the writer needs it.
FreeLockedEmptyUnlocks(k) ==
    /\ freed[k] = "empty"
    /\ freed' = [freed EXCEPT ![k] = "count"]
    /\ state' = "Empty"
    /\ Lock!UnlockExclusive(IF freeing[k] = "lock" THEN F(k) ELSE E(k))
    /\ UNCHANGED <<waitingToBeFreed, entry, count, at, freeing, want, opened, history>>

FreeLockedEmpty(k) ==                   \* state = Empty; unlock unless keepLocked
    /\ freed[k] = "empty"
    /\ freed' = [freed EXCEPT ![k] = "count"]
    /\ state' = "Empty"
    /\ IF freeing[k] = "lock" THEN Lock!UnlockExclusive(F(k))
       ELSE IF at[k] = "wFree" THEN UNCHANGED lockVars
       ELSE Lock!UnlockExclusive(E(k))
    /\ UNCHANGED <<waitingToBeFreed, entry, count, at, freeing, want, opened, history>>

\* The caller of freeLocked() goes on.
FreeLockedReturns(k) ==
    IF freeing[k] = "lock" THEN /\ FreeReturns(k)
                                /\ UNCHANGED want
    ELSE /\ at' = [at EXCEPT ![k] = IF @ = "wFree" THEN "wBegin" ELSE "idle"]
         /\ want' = [want EXCEPT ![k] = IF at[k] = "wFree" THEN @ ELSE "none"]
         /\ UNCHANGED <<freeing, history>>

\* Faulty variant: a slot that is reused at once stays counted.
FreeLockedCountUnlessKept(k) ==
    /\ freed[k] = "count"
    /\ freed' = [freed EXCEPT ![k] = "no"]
    /\ count' = IF at[k] = "wFree" /\ freeing[k] = "no" THEN count ELSE count - 1
    /\ FreeLockedReturns(k)
    /\ UNCHANGED <<lockVars, state, waitingToBeFreed, entry, opened>>

FreeLockedCount(k) ==                   \* --count
    /\ freed[k] = "count"
    /\ freed' = [freed EXCEPT ![k] = "no"]
    /\ count' = count - 1
    /\ FreeLockedReturns(k)
    /\ UNCHANGED <<lockVars, state, waitingToBeFreed, entry, opened>>

----------------------------------------------------------------------------
Next ==
    \E k \in Kids :
        \/ \E key \in Keys : OpenForWriting(k, key) \/ OpenForReading(k, key)
        \/ OpenForWritingTest(k) \/ OpenForWritingRefused(k)
        \/ OpenForWritingLocked(k) \/ OpenForWritingBegin(k) \/ SetEntry(k)
        \/ CloseForWriting(k) \/ CloseForWritingSwitch(k) \/ CloseForWritingSwitched(k)
        \/ AbortWriting(k)
        \/ OpenForReadingTest(k) \/ OpenForReadingRefused(k)
        \/ OpenForReadingCheck(k) \/ OpenForReadingUnlock(k)
        \/ CloseForReading(k) \/ Forget(k)
        \/ Free(k) \/ FreeTest(k) \/ FreeRefused(k) \/ FreeMark(k)
        \/ FreeLockedClear(k) \/ FreeLockedEmpty(k) \/ FreeLockedCount(k)

Spec == Init /\ [][Next]_vars

----------------------------------------------------------------------------
AtPoints == {"idle", "wLock", "wFree", "wBegin", "writing", "written", "switch",
             "aborting", "rLock", "rUnlock", "reading", "kept", "stale"}

TypeOK ==
    /\ Lock!TypeOK
    /\ state \in {"Empty", "Writeable", "Readable"}
    /\ waitingToBeFreed \in BOOLEAN
    /\ entry \in Entries \cup {NoEntry}
    /\ count \in Int
    /\ at \in [Kids -> AtPoints]
    /\ freeing \in [Kids -> {"no", "lock", "mark"}]
    /\ freed \in [Kids -> {"no", "clear", "empty", "count"}]
    /\ want \in [Kids -> Keys \cup {"none"}]
    /\ opened \in [Kids -> Entries \cup {NoEntry}]
    /\ written \in 0 .. MaxWrites
    /\ dead \in SUBSET (0 .. MaxWrites)
    /\ deadBefore \in [Kids -> SUBSET (0 .. MaxWrites)]
    /\ victim \in [Kids -> 0 .. MaxWrites]

(***************************************************************************)
(* The asserts of StoreMap.cc (lines 45, 51, 73, 89, 191 and 204, and the  *)
(* unreachable case of peekAtReader() at line 120): the state of the slot  *)
(* is what the holder of the lock expects, whatever other kids did before. *)
(***************************************************************************)
AssertsHold ==
    \A k \in Kids :
        /\ (at[k] = "wLock" /\ lockpc[E(k)] = "exclusive") => state # "Writeable"
        /\ at[k] = "wBegin" => state = "Empty"
        /\ at[k] \in {"writing", "written"} => state = "Writeable"
        /\ (at[k] = "rLock" /\ lockpc[E(k)] = "shared") => state # "Writeable"
        /\ at[k] \in {"reading", "kept"} => state = "Readable"

(***************************************************************************)
(* A kid that opened an entry for reading sees that entry, with the key it *)
(* asked for, until it closes it: no other kid overwrites or empties the   *)
(* slot under it, even when the entry is marked to be freed.               *)
(***************************************************************************)
ReaderStable ==
    \A k \in Kids :
        at[k] \in {"reading", "kept"} => entry = opened[k] /\ entry.key = want[k]

(***************************************************************************)
(* free(): once it has returned, no later openForReading() gets the entry  *)
(* that was stored in the slot, whether it was removed or only marked, and *)
(* however the marking overlaps with writers that reuse the slot.          *)
(***************************************************************************)
FreedStaysFreed ==
    \A k \in Kids : at[k] = "reading" => opened[k].version \notin deadBefore[k]

Quiet == \A k \in Kids : at[k] \in {"idle", "stale"} /\ freeing[k] = "no" /\ freed[k] = "no"
UsedSlots == IF state = "Empty" THEN 0 ELSE 1

(***************************************************************************)
(* When no call is in progress, the count does not exceed the number of    *)
(* used slots, so full() never refuses or purges without need.             *)
(***************************************************************************)
CountNeverHigh == Quiet => count <= UsedSlots

----------------------------------------------------------------------------
(* The inductive invariant of the proofs, in parts. *)

\* What kid k holds or attempts, by what it does with the slot.
EntryLock(k) ==
    CASE at[k] \in {"idle", "stale"} -> {"idle"}
      [] at[k] = "wLock" -> {"testReaders", "undoExclusive", "exclusive"}
      [] at[k] = "switch" -> {"switching"}
      [] at[k] = "rLock" -> {"testWriters", "undoShared", "shared"}
      [] at[k] \in {"rUnlock", "reading", "kept"} -> {"shared"}
      [] at[k] = "aborting" /\ freed[k] = "count" -> {"idle"}
      [] OTHER -> {"exclusive"}

FreeLock(k) ==
    CASE freeing[k] = "lock" /\ freed[k] = "no" -> {"testReaders", "undoExclusive"}
      [] freeing[k] = "lock" /\ freed[k] \in {"clear", "empty"} -> {"exclusive"}
      [] OTHER -> {"idle"}

LocksMatch ==
    \A k \in Kids :
        /\ lockpc[E(k)] \in EntryLock(k)
        /\ lockpc[F(k)] \in FreeLock(k)
        /\ at[k] \in {"wFree", "aborting"} => freed[k] # "no" /\ freeing[k] = "no"
        /\ freed[k] # "no" => freeing[k] = "lock" \/ at[k] \in {"wFree", "aborting"}
        /\ freeing[k] # "no" => at[k] \in {"reading", "kept", "writing", "written", "stale"}
        /\ freeing[k] = "mark" => freed[k] = "no"

\* An entry is being written only under a writer's lock.
StateMatches ==
    /\ state = "Writeable" =>
        \E k \in Kids : \/ at[k] \in {"writing", "written"}
                        \/ at[k] = "aborting" /\ freed[k] \in {"clear", "empty"}
    /\ \A k \in Kids :
        /\ at[k] = "wBegin" \/ (at[k] = "wFree" /\ freed[k] = "count") => state = "Empty"
        /\ at[k] \in {"writing", "written"} => state = "Writeable"
        /\ at[k] \in {"switch", "reading", "kept"} => state = "Readable"

\* What the holder of a lock knows of the stored entry.
EntryMatches ==
    \A k \in Kids :
        /\ at[k] \notin {"idle", "stale"} => want[k] \in Keys
        /\ at[k] \in {"written", "switch", "reading", "kept"} => entry.key = want[k]
        /\ at[k] \in {"reading", "kept"} => opened[k] = entry

\* Nobody can open version v for reading any more.
Unreachable(v) ==
    entry.version = v =>
        \/ waitingToBeFreed
        \/ state # "Readable" /\ \A k \in Kids : at[k] # "written"
        \/ \E k \in Kids : freed[k] = "empty"

DeadUnreachable ==
    /\ entry.version <= written
    /\ \A v \in dead : v <= written /\ Unreachable(v)
    /\ \A k \in Kids :
        /\ victim[k] <= written
        /\ freeing[k] = "lock" /\ freed[k] = "count" => Unreachable(victim[k])
        /\ deadBefore[k] \subseteq dead

\* The count is late by the calls that have emptied the slot and not counted it yet.
CountBounded == count <= UsedSlots + Cardinality({k \in Kids : freed[k] = "count"})

MapInv ==
    /\ TypeOK /\ Lock!LockInv /\ LocksMatch /\ StateMatches /\ EntryMatches
    /\ DeadUnreachable /\ FreedStaysFreed /\ CountBounded

=============================================================================
