--------------------------- MODULE MemStoreProofs ---------------------------
(***************************************************************************)
(* Proofs about a slot of Ipc::StoreMap, for any finite set of kids, any   *)
(* keys and any number of writes: the asserts of StoreMap.cc hold, readers *)
(* keep the entry they opened, a freed entry is never opened again, and    *)
(* the count of used slots is never too high.                              *)
(*                                                                         *)
(* The inductive invariant is MapInv.  The slot uses its ReadWriteLock     *)
(* only through the lock's own steps, so LockInv is taken over from the    *)
(* proofs of the lock.  LocksMatch says which lock a kid holds at each     *)
(* point; with the lock's Exclusion it makes a kid that writes or frees    *)
(* the entry the only holder (HolderAlone), and all that a step can        *)
(* disturb follows from that.  FreedStaysFreed needs most: free() may mark *)
(* the slot long after it looked at it, so every version whose free() has  *)
(* returned must be out of reach by one of three reasons (Unreachable).    *)
(*                                                                         *)
(* Proofs, for any kids, keys, pages and numbers of writes, that the       *)
(* shared memory cache loses no page and that a reader copies the data of  *)
(* the entry it opened.                                                    *)
(*                                                                         *)
(* The map is driven only through its own steps, so MapInv holds here too. *)
(* What it does not say is when the slot has a page: PageMatches ties the  *)
(* page of the slot to the state of the slot and to where the calls are.   *)
(* Its proof needs MapInv at every step that touches the page, since only  *)
(* the exclusive lock keeps two kids from storing or cleaning at once.     *)
(***************************************************************************)
EXTENDS MemStore, FiniteSetTheorems, TLAPS

-----------------------------------------------------------------------------
(* The map                                                                 *)

\* The theorems of the lock, for the lock of the slot.
LP == INSTANCE ReadWriteLockProofs WITH Procs <- LockIds, pc <- lockpc

----------------------------------------------------------------------------
(* The slot's lock *)

\* Two lock identities per kid.
LEMMA LockIdsFinite == IsFiniteSet(LockIds)
<1>1. IsFiniteSet({"entry"} \cup {"free"})
  BY FS_Singleton, FS_AddElement
<1>2. {"entry", "free"} = {"entry"} \cup {"free"}
  OBVIOUS
<1> QED
  BY <1>1, <1>2, FS_Product, KidsAssumption DEF LockIds

\* The lock identities of different kids, and of different uses, differ.
LEMMA LockIdsDiffer ==
    \A j, k \in Kids : /\ E(k) \in LockIds /\ F(k) \in LockIds
                       /\ E(j) # F(k)
                       /\ E(j) = E(k) => j = k
                       /\ F(j) = F(k) => j = k
  BY DEF LockIds, E, F

\* The lock of the slot is an instance of the lock that ReadWriteLockProofs is about.
LEMMA SameLockInv == Lock!LockInv <=> LP!LockInv
<1>1. Lock!ReaderPoints = LP!ReaderPoints /\ Lock!WriterPoints = LP!WriterPoints
  BY DEF Lock!ReaderPoints, LP!ReaderPoints, Lock!WriterPoints, LP!WriterPoints
<1>2. Lock!TypeOK <=> LP!TypeOK
  BY <1>1 DEF LP!TypeOK, Lock!TypeOK, LP!Points, Lock!Points
<1>3. Lock!CountedReaders = LP!CountedReaders /\ Lock!CountedWriters = LP!CountedWriters
  BY <1>1 DEF LP!CountedReaders, Lock!CountedReaders, LP!CountedWriters, Lock!CountedWriters
<1>4. Lock!CountersExact <=> LP!CountersExact
  BY <1>3 DEF LP!CountersExact, Lock!CountersExact, LP!Cardinality, Lock!Cardinality
<1>5. Lock!OneFirstWriter <=> LP!OneFirstWriter
  BY DEF LP!OneFirstWriter, Lock!OneFirstWriter
<1>6. Lock!Exclusion <=> LP!Exclusion
  BY DEF LP!Exclusion, Lock!Exclusion
<1> QED
  BY <1>2, <1>4, <1>5, <1>6 DEF LP!LockInv, Lock!LockInv

\* ... and makes the same steps.
LEMMA SameLockNext == [Lock!Next]_(Lock!vars) <=> [LP!Next]_(LP!vars)
  BY DEF Lock!Next, LP!Next, Lock!Step, LP!Step, Lock!vars, LP!vars, Lock!Goto, LP!Goto,
         Lock!LockSharedEnter, LP!LockSharedEnter, Lock!LockSharedTest, LP!LockSharedTest,
         Lock!LockSharedUndo, LP!LockSharedUndo, Lock!LockExclusiveEnter,
         LP!LockExclusiveEnter, Lock!LockExclusiveTest, LP!LockExclusiveTest,
         Lock!LockExclusiveUndo, LP!LockExclusiveUndo, Lock!UnlockShared, LP!UnlockShared,
         Lock!UnlockExclusive, LP!UnlockExclusive, Lock!SwitchEnter, LP!SwitchEnter,
         Lock!SwitchLeave, LP!SwitchLeave

\* The invariant of the lock holds initially and is kept by its steps.
LEMMA SlotLockInit == Lock!Init => Lock!LockInv
<1>1. LP!Init => LP!LockInv
  BY LP!LockInvInit, LockIdsFinite DEF LP!IsFiniteSet, IsFiniteSet
<1>2. Lock!Init <=> LP!Init
  BY DEF Lock!Init, LP!Init
<1> QED
  BY <1>1, <1>2, SameLockInv

LEMMA SlotLockStep == Lock!LockInv /\ [Lock!Next]_(Lock!vars) => Lock!LockInv'
<1>1. LP!LockInv /\ [LP!Next]_(LP!vars) => LP!LockInv'
  BY LP!LockInvStep, LockIdsFinite DEF LP!IsFiniteSet, IsFiniteSet
<1>2. Lock!LockInv' <=> LP!LockInv'
  BY SameLockInv, PTL
<1> QED
  BY <1>1, <1>2, SameLockInv, SameLockNext

----------------------------------------------------------------------------
\* The steps of kid k.
Step(k) ==
    \/ \E key \in Keys : OpenForWriting(k, key) \/ OpenForReading(k, key)
    \/ OpenForWritingTest(k) \/ OpenForWritingRefused(k)
    \/ OpenForWritingLocked(k) \/ OpenForWritingBegin(k) \/ SetEntry(k)
    \/ CloseForWriting(k) \/ CloseForWritingSwitch(k) \/ CloseForWritingSwitched(k)
    \/ AbortWriting(k)
    \/ OpenForReadingTest(k) \/ OpenForReadingRefused(k)
    \/ OpenForReadingCheck(k) \/ OpenForReadingUnlock(k)
    \/ CloseForReading(k) \/ Forget(k)
    \/ Free(k) \/ FreeTest(k) \/ FreeRefused(k) \/ FreeMark(k)
    \/ FreeLockedClear(k) \/ FreeLockedEmpty(k) \/ FreeLockedCount(k)

\* Every step of the slot is a step of some kid.
LEMMA NextSteps == Next <=> \E k \in Kids : Step(k)
  BY DEF Next, Step

\* A kid drives the lock only through the lock's own steps.
LEMMA DrivesLock ==
    ASSUME NEW k \in Kids, Step(k)
    PROVE  [Lock!Next]_(Lock!vars)
<1>0. E(k) \in LockIds /\ F(k) \in LockIds
  BY LockIdsDiffer
<1> USE <1>0 DEF Lock!Next, Lock!Step
<1> HIDE DEF E, F, LockIds
<1>1. CASE \/ \E key \in Keys : OpenForWriting(k, key) \/ OpenForReading(k, key)
           \/ OpenForWritingTest(k) \/ OpenForWritingRefused(k)
  BY <1>1 DEF OpenForWriting, OpenForReading, OpenForWritingTest, OpenForWritingRefused
<1>2. CASE CloseForWriting(k) \/ CloseForWritingSwitch(k) \/ CloseForWritingSwitched(k)
  BY <1>2 DEF CloseForWriting, CloseForWritingSwitch, CloseForWritingSwitched
<1>3. CASE \/ OpenForReadingTest(k) \/ OpenForReadingRefused(k)
           \/ OpenForReadingUnlock(k) \/ CloseForReading(k)
  BY <1>3 DEF OpenForReadingTest, OpenForReadingRefused, OpenForReadingUnlock, CloseForReading
<1>4. CASE Free(k) \/ FreeTest(k) \/ FreeRefused(k)
  BY <1>4 DEF Free, FreeTest, FreeRefused
<1>5. CASE FreeLockedEmpty(k)
  BY <1>5 DEF FreeLockedEmpty, lockVars, Lock!vars
<1>6. CASE UNCHANGED lockVars
  BY <1>6 DEF lockVars, Lock!vars
<1> QED
  BY <1>1, <1>2, <1>3, <1>4, <1>5, <1>6
  DEF Step, OpenForWritingLocked, OpenForWritingBegin, SetEntry, AbortWriting, 
      OpenForReadingCheck, Forget, FreeMark, FreeLockedClear, FreeLockedCount

\* Every step keeps the lock's invariant.
LEMMA LockStep ==
    ASSUME Lock!LockInv, NEW k \in Kids, Step(k)
    PROVE  Lock!LockInv'
  BY DrivesLock, SlotLockStep

----------------------------------------------------------------------------
\* Every step keeps the types.
LEMMA TypeStep ==
    ASSUME TypeOK, Lock!TypeOK', EntryMatches, NEW k \in Kids, Step(k)
    PROVE  TypeOK'
<1>0. {"idle", "wLock", "wFree", "wBegin", "writing", "written", "switch", "aborting", "rLock",
       "rUnlock", "reading", "kept", "stale"} \subseteq AtPoints
  BY DEF AtPoints
<1> USE <1>0, MaxWritesAssumption DEF Goto, TypeOK, lockVars, slotVars, history, FreeReturns, Entries, NoEntry
<1>1. CASE \E key \in Keys : OpenForWriting(k, key)   BY <1>1 DEF OpenForWriting
<1>2. CASE \E key \in Keys : OpenForReading(k, key)   BY <1>2 DEF OpenForReading
<1>3. CASE OpenForWritingTest(k)      BY <1>3 DEF OpenForWritingTest
<1>4. CASE OpenForWritingRefused(k)   BY <1>4 DEF OpenForWritingRefused
<1>5. CASE OpenForWritingLocked(k)    BY <1>5 DEF OpenForWritingLocked
<1>6. CASE OpenForWritingBegin(k)     BY <1>6 DEF OpenForWritingBegin
<1>7. CASE SetEntry(k)                
  <2>1. want[k] \in Keys
    BY <1>7 DEF SetEntry, EntryMatches
  <2> QED
    BY <1>7, <2>1 DEF SetEntry
<1>8. CASE CloseForWriting(k)         BY <1>8 DEF CloseForWriting
<1>9. CASE CloseForWritingSwitch(k)   BY <1>9 DEF CloseForWritingSwitch
<1>10. CASE CloseForWritingSwitched(k) BY <1>10 DEF CloseForWritingSwitched
<1>11. CASE AbortWriting(k)           BY <1>11 DEF AbortWriting
<1>12. CASE OpenForReadingTest(k)     BY <1>12 DEF OpenForReadingTest
<1>13. CASE OpenForReadingRefused(k)  BY <1>13 DEF OpenForReadingRefused
<1>14. CASE OpenForReadingCheck(k)    BY <1>14 DEF OpenForReadingCheck
<1>15. CASE OpenForReadingUnlock(k)   BY <1>15 DEF OpenForReadingUnlock
<1>16. CASE CloseForReading(k)        BY <1>16 DEF CloseForReading
<1>17. CASE Forget(k)                 BY <1>17 DEF Forget
<1>18. CASE Free(k)                   BY <1>18 DEF Free
<1>19. CASE FreeTest(k)               BY <1>19 DEF FreeTest
<1>20. CASE FreeRefused(k)            BY <1>20 DEF FreeRefused
<1>21. CASE FreeMark(k)
  <2>1. dead' \in SUBSET (0 .. MaxWrites) /\ victim' \in [Kids -> 0 .. MaxWrites]
    <3> DEFINE versions == 0 .. MaxWrites
    <3>1. 0 \in versions /\ dead \in SUBSET versions /\ victim \in [Kids -> versions]
      OBVIOUS
    <3>2. \/ dead' = dead \cup {victim[k]} /\ victim' = [victim EXCEPT ![k] = 0]
          \/ UNCHANGED <<dead, victim>>
      BY <1>21 DEF FreeMark
    <3> HIDE DEF versions
    <3>3. dead' \in SUBSET versions /\ victim' \in [Kids -> versions]
      BY <3>1, <3>2
    <3> QED
      BY <3>3 DEF versions
  <2>2. at' \in [Kids -> AtPoints]
    <3>1. PICK to \in AtPoints : at' = [at EXCEPT ![k] = to]
      BY <1>21 DEF FreeMark
    <3> QED
      BY <3>1
  <2> QED
    BY <1>21, <2>1, <2>2 DEF FreeMark
<1>22. CASE FreeLockedClear(k)        BY <1>22 DEF FreeLockedClear
<1>23. CASE FreeLockedEmpty(k)        BY <1>23 DEF FreeLockedEmpty
<1>24. CASE FreeLockedCount(k)
  <2>1. dead' \in SUBSET (0 .. MaxWrites) /\ victim' \in [Kids -> 0 .. MaxWrites]
    <3> DEFINE versions == 0 .. MaxWrites
    <3>1. 0 \in versions /\ dead \in SUBSET versions /\ victim \in [Kids -> versions]
      OBVIOUS
    <3>2. \/ dead' = dead \cup {victim[k]} /\ victim' = [victim EXCEPT ![k] = 0]
          \/ UNCHANGED <<dead, victim>>
      BY <1>24 DEF FreeLockedCount, FreeLockedReturns
    <3> HIDE DEF versions
    <3>3. dead' \in SUBSET versions /\ victim' \in [Kids -> versions]
      BY <3>1, <3>2
    <3> QED
      BY <3>3 DEF versions
  <2>2. at' \in [Kids -> AtPoints]
    <3>1. PICK to \in AtPoints : at' = [at EXCEPT ![k] = to]
      BY <1>24 DEF FreeLockedCount, FreeLockedReturns
    <3> QED
      BY <3>1
  <2> QED
    BY <1>24, <2>1, <2>2 DEF FreeLockedCount, FreeLockedReturns
<1> QED
  BY <1>1, <1>2, <1>3, <1>4, <1>5, <1>6, <1>7, <1>8, <1>9, <1>10, <1>11, <1>12, <1>13, <1>14,
     <1>15, <1>16, <1>17, <1>18, <1>19, <1>20, <1>21, <1>22, <1>23, <1>24 DEF Step

\* A step of one kid leaves the other kids where they are.
LEMMA OthersStay ==
    ASSUME TypeOK, NEW k \in Kids, Step(k), NEW j \in Kids, j # k
    PROVE  /\ at'[j] = at[j] /\ freeing'[j] = freeing[j] /\ freed'[j] = freed[j]
           /\ lockpc'[E(j)] = lockpc[E(j)] /\ lockpc'[F(j)] = lockpc[F(j)]
           /\ want'[j] = want[j] /\ opened'[j] = opened[j]
           /\ deadBefore'[j] = deadBefore[j] /\ victim'[j] = victim[j]
<1>0. /\ E(k) # E(j) /\ E(k) # F(j) /\ F(k) # F(j) /\ F(k) # E(j)
      /\ E(j) \in LockIds /\ F(j) \in LockIds /\ E(k) \in LockIds /\ F(k) \in LockIds
  BY LockIdsDiffer
<1> USE <1>0 DEF TypeOK, Lock!TypeOK, Goto, Lock!Goto, lockVars, slotVars, history
<1> HIDE DEF E, F, LockIds
<1>1. CASE \E key \in Keys : OpenForWriting(k, key)
  BY <1>1 DEF OpenForWriting, Lock!LockExclusiveEnter
<1>2. CASE \E key \in Keys : OpenForReading(k, key)
  BY <1>2 DEF OpenForReading, Lock!LockSharedEnter
<1>3. CASE OpenForWritingTest(k)  BY <1>3 DEF OpenForWritingTest, Lock!LockExclusiveTest
<1>4. CASE OpenForWritingRefused(k)  BY <1>4 DEF OpenForWritingRefused, Lock!LockExclusiveUndo
<1>5. CASE OpenForWritingLocked(k)  BY <1>5 DEF OpenForWritingLocked
<1>6. CASE OpenForWritingBegin(k)  BY <1>6 DEF OpenForWritingBegin
<1>7. CASE SetEntry(k)  BY <1>7 DEF SetEntry
<1>8. CASE CloseForWriting(k)  BY <1>8 DEF CloseForWriting, Lock!UnlockExclusive
<1>9. CASE CloseForWritingSwitch(k)  BY <1>9 DEF CloseForWritingSwitch, Lock!SwitchEnter
<1>10. CASE CloseForWritingSwitched(k)  BY <1>10 DEF CloseForWritingSwitched, Lock!SwitchLeave
<1>11. CASE AbortWriting(k)  BY <1>11 DEF AbortWriting
<1>12. CASE OpenForReadingTest(k)  BY <1>12 DEF OpenForReadingTest, Lock!LockSharedTest
<1>13. CASE OpenForReadingRefused(k)  BY <1>13 DEF OpenForReadingRefused, Lock!LockSharedUndo
<1>14. CASE OpenForReadingCheck(k)  BY <1>14 DEF OpenForReadingCheck
<1>15. CASE OpenForReadingUnlock(k)  BY <1>15 DEF OpenForReadingUnlock, Lock!UnlockShared
<1>16. CASE CloseForReading(k)  BY <1>16 DEF CloseForReading, Lock!UnlockShared
<1>17. CASE Forget(k)  BY <1>17 DEF Forget
<1>18. CASE Free(k)  BY <1>18 DEF Free, Lock!LockExclusiveEnter
<1>19. CASE FreeTest(k)  BY <1>19 DEF FreeTest, Lock!LockExclusiveTest
<1>20. CASE FreeRefused(k)  BY <1>20 DEF FreeRefused, Lock!LockExclusiveUndo
<1>21. CASE FreeMark(k)  BY <1>21 DEF FreeMark, FreeReturns
<1>22. CASE FreeLockedClear(k)  BY <1>22 DEF FreeLockedClear
<1>23. CASE FreeLockedEmpty(k)  BY <1>23 DEF FreeLockedEmpty, Lock!UnlockExclusive
<1>24. CASE FreeLockedCount(k)  BY <1>24 DEF FreeLockedCount, FreeLockedReturns, FreeReturns
<1> QED
  BY <1>1, <1>2, <1>3, <1>4, <1>5, <1>6, <1>7, <1>8, <1>9, <1>10, <1>11, <1>12, <1>13, <1>14,
     <1>15, <1>16, <1>17, <1>18, <1>19, <1>20, <1>21, <1>22, <1>23, <1>24 DEF Step

\* Every step keeps the relation of the locks to what the kids do.
LEMMA LocksMatchStep ==
    ASSUME TypeOK, LocksMatch, NEW k \in Kids, Step(k)
    PROVE  LocksMatch'
<1> DEFINE KidMatches(j) ==
        /\ lockpc[E(j)] \in EntryLock(j)
        /\ lockpc[F(j)] \in FreeLock(j)
        /\ at[j] \in {"wFree", "aborting"} => freed[j] # "no" /\ freeing[j] = "no"
        /\ freed[j] # "no" => freeing[j] = "lock" \/ at[j] \in {"wFree", "aborting"}
        /\ freeing[j] # "no" => at[j] \in {"reading", "kept", "writing", "written", "stale"}
        /\ freeing[j] = "mark" => freed[j] = "no"
<1>a. \A j \in Kids : KidMatches(j)
  BY DEF LocksMatch
<1>b. \A j \in Kids \ {k} : KidMatches(j)'
  <2> TAKE j \in Kids \ {k}
  <2> QED
    BY <1>a, OthersStay DEF EntryLock, FreeLock
<1>c. SUFFICES KidMatches(k)'
  BY <1>b DEF LocksMatch
<1>d. KidMatches(k)
  BY <1>a
<1>e. /\ E(k) # F(k) /\ E(k) \in LockIds /\ F(k) \in LockIds
  BY LockIdsDiffer
<1> USE <1>d, <1>e DEF TypeOK, Lock!TypeOK, Goto, Lock!Goto, lockVars, slotVars, history, EntryLock, FreeLock
<1> HIDE DEF E, F, LockIds
<1>1. CASE \E key \in Keys : OpenForWriting(k, key)
  BY <1>1 DEF OpenForWriting, Lock!LockExclusiveEnter
<1>2. CASE \E key \in Keys : OpenForReading(k, key)
  BY <1>2 DEF OpenForReading, Lock!LockSharedEnter
<1>3. CASE OpenForWritingTest(k)  BY <1>3 DEF OpenForWritingTest, Lock!LockExclusiveTest
<1>4. CASE OpenForWritingRefused(k)  BY <1>4 DEF OpenForWritingRefused, Lock!LockExclusiveUndo
<1>5. CASE OpenForWritingLocked(k)  BY <1>5 DEF OpenForWritingLocked
<1>6. CASE OpenForWritingBegin(k)  BY <1>6 DEF OpenForWritingBegin
<1>7. CASE SetEntry(k)  BY <1>7 DEF SetEntry
<1>8. CASE CloseForWriting(k)  BY <1>8 DEF CloseForWriting, Lock!UnlockExclusive
<1>9. CASE CloseForWritingSwitch(k)  BY <1>9 DEF CloseForWritingSwitch, Lock!SwitchEnter
<1>10. CASE CloseForWritingSwitched(k)  BY <1>10 DEF CloseForWritingSwitched, Lock!SwitchLeave
<1>11. CASE AbortWriting(k)  BY <1>11 DEF AbortWriting
<1>12. CASE OpenForReadingTest(k)  BY <1>12 DEF OpenForReadingTest, Lock!LockSharedTest
<1>13. CASE OpenForReadingRefused(k)  BY <1>13 DEF OpenForReadingRefused, Lock!LockSharedUndo
<1>14. CASE OpenForReadingCheck(k)  BY <1>14 DEF OpenForReadingCheck
<1>15. CASE OpenForReadingUnlock(k)  BY <1>15 DEF OpenForReadingUnlock, Lock!UnlockShared
<1>16. CASE CloseForReading(k)  BY <1>16 DEF CloseForReading, Lock!UnlockShared
<1>17. CASE Forget(k)  BY <1>17 DEF Forget
<1>18. CASE Free(k)  BY <1>18 DEF Free, Lock!LockExclusiveEnter
<1>19. CASE FreeTest(k)  BY <1>19 DEF FreeTest, Lock!LockExclusiveTest
<1>20. CASE FreeRefused(k)  BY <1>20 DEF FreeRefused, Lock!LockExclusiveUndo
<1>21. CASE FreeMark(k)  BY <1>21 DEF FreeMark, FreeReturns
<1>22. CASE FreeLockedClear(k)  BY <1>22 DEF FreeLockedClear
<1>23. CASE FreeLockedEmpty(k)  BY <1>23 DEF FreeLockedEmpty, Lock!UnlockExclusive
<1>24. CASE FreeLockedCount(k)  BY <1>24 DEF FreeLockedCount, FreeLockedReturns, FreeReturns
<1> QED
  BY <1>1, <1>2, <1>3, <1>4, <1>5, <1>6, <1>7, <1>8, <1>9, <1>10, <1>11, <1>12, <1>13, <1>14,
     <1>15, <1>16, <1>17, <1>18, <1>19, <1>20, <1>21, <1>22, <1>23, <1>24 DEF Step

----------------------------------------------------------------------------
\* Kid k holds the slot exclusively as a writer, exclusively in free(), or shared.
Writer(k) == \/ at[k] \in {"wFree", "wBegin", "writing", "written", "switch"}
             \/ at[k] = "wLock" /\ lockpc[E(k)] = "exclusive"
             \/ at[k] = "aborting" /\ freed[k] # "count"
Freer(k) == freeing[k] = "lock" /\ freed[k] \in {"clear", "empty"}
Reader(k) == \/ at[k] \in {"rUnlock", "reading", "kept"}
             \/ at[k] = "rLock" /\ lockpc[E(k)] = "shared"

\* A kid that writes or frees the entry is the only one to hold the slot.
LEMMA HolderAlone ==
    ASSUME TypeOK, Lock!Exclusion, LocksMatch, NEW j \in Kids, NEW k \in Kids
    PROVE  /\ Writer(j) => ~Freer(k) /\ ~Reader(k) /\ (Writer(k) => j = k)
           /\ Freer(j) => ~Writer(k) /\ ~Reader(k) /\ (Freer(k) => j = k)
<1>1. /\ E(j) # F(k) /\ E(k) # F(j)
      /\ E(j) = E(k) => j = k
      /\ F(j) = F(k) => j = k
      /\ E(j) \in LockIds /\ F(j) \in LockIds /\ E(k) \in LockIds /\ F(k) \in LockIds
  BY LockIdsDiffer
<1>2. \A i \in {j, k} :
        /\ Writer(i) => lockpc[E(i)] \in {"exclusive", "switching"}
        /\ Freer(i) => lockpc[F(i)] = "exclusive"
        /\ Reader(i) => lockpc[E(i)] = "shared"
  BY DEF LocksMatch, EntryLock, FreeLock, Writer, Freer, Reader, TypeOK, AtPoints
<1> HIDE DEF E, F, LockIds
<1>3. E(j) = E(k) => lockpc[E(j)] = lockpc[E(k)]
  OBVIOUS
<1> QED
  BY <1>1, <1>2, <1>3 DEF Lock!Exclusion, Writer, Reader

\* Every step keeps the relation of the slot's state to what the kids do.
LEMMA StateStep ==
    ASSUME TypeOK, Lock!Exclusion, LocksMatch, StateMatches, NEW k \in Kids, Step(k)
    PROVE  StateMatches'
<1>a. \A j \in Kids \ {k} : at'[j] = at[j] /\ freed'[j] = freed[j]
  BY OthersStay
<1>b. \A j \in Kids :
           /\ Writer(j) => ~Freer(k) /\ ~Reader(k) /\ (Writer(k) => j = k)
           /\ Freer(k) => ~Writer(j) /\ ~Reader(j)
           /\ Writer(k) => ~Reader(j)
  BY HolderAlone
<1>c. /\ at[k] \in {"wFree", "aborting"} => freed[k] # "no" /\ freeing[k] = "no"
      /\ freed[k] # "no" => freeing[k] = "lock" \/ at[k] \in {"wFree", "aborting"}
      /\ freeing[k] # "no" => at[k] \in {"reading", "kept", "writing", "written", "stale"}
  BY DEF LocksMatch
<1> USE <1>a, <1>b, <1>c DEF TypeOK, Goto, lockVars, slotVars, history, StateMatches, Writer, Freer, Reader
<1> HIDE DEF E, F
<1>1. CASE \E key \in Keys : OpenForWriting(k, key)  BY <1>1 DEF OpenForWriting
<1>2. CASE \E key \in Keys : OpenForReading(k, key)  BY <1>2 DEF OpenForReading
<1>3. CASE OpenForWritingTest(k)  BY <1>3 DEF OpenForWritingTest
<1>4. CASE OpenForWritingRefused(k)  BY <1>4 DEF OpenForWritingRefused
<1>5. CASE OpenForWritingLocked(k)  BY <1>5 DEF OpenForWritingLocked
<1>6. CASE OpenForWritingBegin(k)  BY <1>6 DEF OpenForWritingBegin
<1>7. CASE SetEntry(k)  BY <1>7 DEF SetEntry
<1>8. CASE CloseForWriting(k)  BY <1>8 DEF CloseForWriting
<1>9. CASE CloseForWritingSwitch(k)  BY <1>9 DEF CloseForWritingSwitch
<1>10. CASE CloseForWritingSwitched(k)  BY <1>10 DEF CloseForWritingSwitched
<1>11. CASE AbortWriting(k)  BY <1>11 DEF AbortWriting
<1>12. CASE OpenForReadingTest(k)  BY <1>12 DEF OpenForReadingTest
<1>13. CASE OpenForReadingRefused(k)  BY <1>13 DEF OpenForReadingRefused
<1>14. CASE OpenForReadingCheck(k)  BY <1>14 DEF OpenForReadingCheck
<1>15. CASE OpenForReadingUnlock(k)  BY <1>15 DEF OpenForReadingUnlock
<1>16. CASE CloseForReading(k)  BY <1>16 DEF CloseForReading
<1>17. CASE Forget(k)  BY <1>17 DEF Forget
<1>18. CASE Free(k)  BY <1>18 DEF Free
<1>19. CASE FreeTest(k)  BY <1>19 DEF FreeTest
<1>20. CASE FreeRefused(k)  BY <1>20 DEF FreeRefused
<1>21. CASE FreeMark(k)  BY <1>21 DEF FreeMark, FreeReturns
<1>22. CASE FreeLockedClear(k)  BY <1>22 DEF FreeLockedClear
<1>23. CASE FreeLockedEmpty(k)  BY <1>23 DEF FreeLockedEmpty
<1>24. CASE FreeLockedCount(k)  BY <1>24 DEF FreeLockedCount, FreeLockedReturns, FreeReturns
<1> QED
  BY <1>1, <1>2, <1>3, <1>4, <1>5, <1>6, <1>7, <1>8, <1>9, <1>10, <1>11, <1>12, <1>13, <1>14,
     <1>15, <1>16, <1>17, <1>18, <1>19, <1>20, <1>21, <1>22, <1>23, <1>24 DEF Step

\* Every step keeps what the holders of the lock know of the entry.
LEMMA EntryStep ==
    ASSUME TypeOK, Lock!Exclusion, LocksMatch, EntryMatches, NEW k \in Kids, Step(k)
    PROVE  EntryMatches'
<1>a. \A j \in Kids \ {k} : at'[j] = at[j] /\ want'[j] = want[j] /\ opened'[j] = opened[j]
  BY OthersStay
<1>b. \A j \in Kids : Writer(k) => ~Reader(j) /\ (Writer(j) => j = k)
  BY HolderAlone
<1>c. /\ at[k] \in {"wFree", "aborting"} => freed[k] # "no" /\ freeing[k] = "no"
      /\ freed[k] # "no" => freeing[k] = "lock" \/ at[k] \in {"wFree", "aborting"}
      /\ freeing[k] # "no" => at[k] \in {"reading", "kept", "writing", "written", "stale"}
  BY DEF LocksMatch
<1> USE <1>a, <1>b, <1>c DEF TypeOK, Goto, lockVars, slotVars, history, EntryMatches, Writer, Reader
<1> HIDE DEF E, F
<1>1. CASE \E key \in Keys : OpenForWriting(k, key)  BY <1>1 DEF OpenForWriting
<1>2. CASE \E key \in Keys : OpenForReading(k, key)  BY <1>2 DEF OpenForReading
<1>3. CASE OpenForWritingTest(k)  BY <1>3 DEF OpenForWritingTest
<1>4. CASE OpenForWritingRefused(k)  BY <1>4 DEF OpenForWritingRefused
<1>5. CASE OpenForWritingLocked(k)  BY <1>5 DEF OpenForWritingLocked
<1>6. CASE OpenForWritingBegin(k)  BY <1>6 DEF OpenForWritingBegin
<1>7. CASE SetEntry(k)  BY <1>7 DEF SetEntry
<1>8. CASE CloseForWriting(k)  BY <1>8 DEF CloseForWriting
<1>9. CASE CloseForWritingSwitch(k)  BY <1>9 DEF CloseForWritingSwitch
<1>10. CASE CloseForWritingSwitched(k)  BY <1>10 DEF CloseForWritingSwitched
<1>11. CASE AbortWriting(k)  BY <1>11 DEF AbortWriting
<1>12. CASE OpenForReadingTest(k)  BY <1>12 DEF OpenForReadingTest
<1>13. CASE OpenForReadingRefused(k)  BY <1>13 DEF OpenForReadingRefused
<1>14. CASE OpenForReadingCheck(k)  BY <1>14 DEF OpenForReadingCheck
<1>15. CASE OpenForReadingUnlock(k)  BY <1>15 DEF OpenForReadingUnlock
<1>16. CASE CloseForReading(k)  BY <1>16 DEF CloseForReading
<1>17. CASE Forget(k)  BY <1>17 DEF Forget
<1>18. CASE Free(k)  BY <1>18 DEF Free
<1>19. CASE FreeTest(k)  BY <1>19 DEF FreeTest
<1>20. CASE FreeRefused(k)  BY <1>20 DEF FreeRefused
<1>21. CASE FreeMark(k)  BY <1>21 DEF FreeMark, FreeReturns
<1>22. CASE FreeLockedClear(k)  BY <1>22 DEF FreeLockedClear
<1>23. CASE FreeLockedEmpty(k)  BY <1>23 DEF FreeLockedEmpty
<1>24. CASE FreeLockedCount(k)  BY <1>24 DEF FreeLockedCount, FreeLockedReturns, FreeReturns
<1> QED
  BY <1>1, <1>2, <1>3, <1>4, <1>5, <1>6, <1>7, <1>8, <1>9, <1>10, <1>11, <1>12, <1>13, <1>14,
     <1>15, <1>16, <1>17, <1>18, <1>19, <1>20, <1>21, <1>22, <1>23, <1>24 DEF Step

----------------------------------------------------------------------------
\* An entry that nobody can open any more stays so.
LEMMA UnreachableStep ==
    ASSUME TypeOK, Lock!Exclusion, LocksMatch, NEW k \in Kids, Step(k),
           NEW v \in Int, v <= written, Unreachable(v)
    PROVE  Unreachable(v)'
<1>a. \A j \in Kids \ {k} : at'[j] = at[j] /\ freed'[j] = freed[j]
  BY OthersStay
<1>b. \A j \in Kids : /\ Writer(k) => (Writer(j) => j = k)
                      /\ Freer(k) => ~Writer(j)
  BY HolderAlone
<1>c. /\ at[k] \in {"wFree", "aborting"} => freed[k] # "no" /\ freeing[k] = "no"
      /\ freed[k] # "no" => freeing[k] = "lock" \/ at[k] \in {"wFree", "aborting"}
      /\ freeing[k] # "no" => at[k] \in {"reading", "kept", "writing", "written", "stale"}
      /\ freeing[k] = "lock" /\ lockpc[F(k)] = "testReaders" => freed[k] = "no"
  BY DEF LocksMatch, FreeLock, TypeOK
<1>d. written \in Int
  BY MaxWritesAssumption DEF TypeOK
<1>e. /\ at \in [Kids -> AtPoints] /\ freed \in [Kids -> {"no", "clear", "empty", "count"}]
      /\ freeing \in [Kids -> {"no", "lock", "mark"}]
  BY DEF TypeOK
<1> USE <1>a, <1>b, <1>c, <1>d, <1>e DEF Goto, lockVars, slotVars, history, Unreachable, Writer, Freer
<1> HIDE DEF E, F
<1>1. CASE \E key \in Keys : OpenForWriting(k, key)  BY <1>1 DEF OpenForWriting
<1>2. CASE \E key \in Keys : OpenForReading(k, key)  BY <1>2 DEF OpenForReading
<1>3. CASE OpenForWritingTest(k)  BY <1>3 DEF OpenForWritingTest
<1>4. CASE OpenForWritingRefused(k)  BY <1>4 DEF OpenForWritingRefused
<1>5. CASE OpenForWritingLocked(k)  BY <1>5 DEF OpenForWritingLocked
<1>6. CASE OpenForWritingBegin(k)  BY <1>6 DEF OpenForWritingBegin
<1>7. CASE SetEntry(k)  BY <1>7 DEF SetEntry
<1>8. CASE CloseForWriting(k)  BY <1>8 DEF CloseForWriting
<1>9. CASE CloseForWritingSwitch(k)  BY <1>9 DEF CloseForWritingSwitch
<1>10. CASE CloseForWritingSwitched(k)  BY <1>10 DEF CloseForWritingSwitched
<1>11. CASE AbortWriting(k)  BY <1>11 DEF AbortWriting
<1>12. CASE OpenForReadingTest(k)  BY <1>12 DEF OpenForReadingTest
<1>13. CASE OpenForReadingRefused(k)  BY <1>13 DEF OpenForReadingRefused
<1>14. CASE OpenForReadingCheck(k)  BY <1>14 DEF OpenForReadingCheck
<1>15. CASE OpenForReadingUnlock(k)  BY <1>15 DEF OpenForReadingUnlock
<1>16. CASE CloseForReading(k)  BY <1>16 DEF CloseForReading
<1>17. CASE Forget(k)  BY <1>17 DEF Forget
<1>18. CASE Free(k)  BY <1>18 DEF Free
<1>19. CASE FreeTest(k)
  <2>1. freed[k] = "no"
    BY <1>19 DEF FreeTest, Lock!LockExclusiveTest, Lock!Goto
  <2> QED
    BY <1>19, <2>1 DEF FreeTest
<1>20. CASE FreeRefused(k)  BY <1>20 DEF FreeRefused
<1>21. CASE FreeMark(k)  BY <1>21 DEF FreeMark, FreeReturns
<1>22. CASE FreeLockedClear(k)  BY <1>22 DEF FreeLockedClear
<1>23. CASE FreeLockedEmpty(k)  BY <1>23 DEF FreeLockedEmpty
<1>24. CASE FreeLockedCount(k)  BY <1>24 DEF FreeLockedCount, FreeLockedReturns, FreeReturns
<1> QED
  BY <1>1, <1>2, <1>3, <1>4, <1>5, <1>6, <1>7, <1>8, <1>9, <1>10, <1>11, <1>12, <1>13, <1>14,
     <1>15, <1>16, <1>17, <1>18, <1>19, <1>20, <1>21, <1>22, <1>23, <1>24 DEF Step

\* free() leaves the slot empty, or the entry marked.
LEMMA FreedUnreachable ==
    ASSUME TypeOK, Lock!Exclusion, LocksMatch, NEW k \in Kids, NEW v,
           FreeMark(k) \/ FreeLockedEmpty(k)
    PROVE  Unreachable(v)'
<1>1. CASE FreeMark(k)
  BY <1>1 DEF FreeMark, Unreachable
<1>2. CASE FreeLockedEmpty(k)
  <2>1. Writer(k) \/ Freer(k)
    BY <1>2 DEF FreeLockedEmpty, Writer, Freer, LocksMatch
  <2>2. \A j \in Kids : at[j] # "written"
    <3> TAKE j \in Kids
    <3>1. j # k => at[j] # "written"
      BY <2>1, HolderAlone DEF Writer
    <3>2. Freer(k) => at[k] # "written"
      BY HolderAlone DEF Writer
    <3>3. ~Freer(k) => at[k] # "written"
      BY <1>2 DEF FreeLockedEmpty, Freer, LocksMatch
    <3> QED
      BY <3>1, <3>2, <3>3
  <2> QED
    BY <1>2, <2>2 DEF FreeLockedEmpty, Unreachable
<1> QED
  BY <1>1, <1>2

\* Every step keeps freed entries out of reach.
LEMMA DeadStep ==
    ASSUME TypeOK, TypeOK', Lock!Exclusion, LocksMatch, DeadUnreachable, NEW k \in Kids, Step(k)
    PROVE  DeadUnreachable'
<1>1. /\ entry.version \in Int /\ written \in Int /\ written' \in Int
      /\ dead \subseteq Int /\ \A j \in Kids : victim[j] \in Int
  BY MaxWritesAssumption DEF TypeOK, Entries, NoEntry
<1>2. /\ written <= written'
      /\ entry'.version <= written'
  BY <1>1 DEF DeadUnreachable, Step, OpenForWriting, OpenForReading, OpenForWritingTest,
     OpenForWritingRefused, OpenForWritingLocked, OpenForWritingBegin, SetEntry, CloseForWriting,
     CloseForWritingSwitch, CloseForWritingSwitched, AbortWriting, OpenForReadingTest,
     OpenForReadingRefused, OpenForReadingCheck, OpenForReadingUnlock, CloseForReading, Forget,
     Free, FreeTest, FreeRefused, FreeMark, FreeLockedClear, FreeLockedEmpty, FreeLockedCount,
     FreeLockedReturns, FreeReturns, slotVars, history
<1>3. ASSUME NEW v \in Int, v <= written, Unreachable(v)
      PROVE  v <= written' /\ Unreachable(v)'
  BY <1>1, <1>2, <1>3, UnreachableStep
<1>4. /\ victim[k] <= written
      /\ freeing[k] = "lock" /\ freed[k] = "count" => Unreachable(victim[k])
      /\ dead \subseteq dead' /\ dead' \subseteq dead \cup {victim[k]}
      /\ dead' = dead \/ FreeMark(k) \/ (FreeLockedCount(k) /\ freeing[k] = "lock")
      /\ victim' = victim \/ victim'[k] \in {0, entry.version}
      /\ deadBefore' = deadBefore \/ deadBefore'[k] \in {{}, dead}
  <2> USE DEF TypeOK, slotVars, history
  <2>1. /\ victim[k] <= written
        /\ freeing[k] = "lock" /\ freed[k] = "count" => Unreachable(victim[k])
    BY DEF DeadUnreachable
  <2>2. /\ dead \subseteq dead' /\ dead' \subseteq dead \cup {victim[k]}
        /\ dead' = dead \/ FreeMark(k) \/ (FreeLockedCount(k) /\ freeing[k] = "lock")
        /\ victim' = victim \/ victim'[k] \in {0, entry.version}
        /\ deadBefore' = deadBefore \/ deadBefore'[k] \in {{}, dead}
    <3>1. CASE \E key \in Keys : OpenForWriting(k, key)  BY <3>1 DEF OpenForWriting
    <3>2. CASE \E key \in Keys : OpenForReading(k, key)  BY <3>2 DEF OpenForReading
    <3>3. CASE OpenForWritingTest(k)  BY <3>3 DEF OpenForWritingTest
    <3>4. CASE OpenForWritingRefused(k)  BY <3>4 DEF OpenForWritingRefused
    <3>5. CASE OpenForWritingLocked(k)  BY <3>5 DEF OpenForWritingLocked
    <3>6. CASE OpenForWritingBegin(k)  BY <3>6 DEF OpenForWritingBegin
    <3>7. CASE SetEntry(k)  BY <3>7 DEF SetEntry
    <3>8. CASE CloseForWriting(k)  BY <3>8 DEF CloseForWriting
    <3>9. CASE CloseForWritingSwitch(k)  BY <3>9 DEF CloseForWritingSwitch
    <3>10. CASE CloseForWritingSwitched(k)  BY <3>10 DEF CloseForWritingSwitched
    <3>11. CASE AbortWriting(k)  BY <3>11 DEF AbortWriting
    <3>12. CASE OpenForReadingTest(k)  BY <3>12 DEF OpenForReadingTest
    <3>13. CASE OpenForReadingRefused(k)  BY <3>13 DEF OpenForReadingRefused
    <3>14. CASE OpenForReadingCheck(k)  BY <3>14 DEF OpenForReadingCheck
    <3>15. CASE OpenForReadingUnlock(k)  BY <3>15 DEF OpenForReadingUnlock
    <3>16. CASE CloseForReading(k)  BY <3>16 DEF CloseForReading
    <3>17. CASE Forget(k)  BY <3>17 DEF Forget
    <3>18. CASE Free(k)  BY <3>18 DEF Free
    <3>19. CASE FreeTest(k)  BY <3>19 DEF FreeTest
    <3>20. CASE FreeRefused(k)  BY <3>20 DEF FreeRefused
    <3>21. CASE FreeMark(k)  BY <3>21 DEF FreeMark, FreeReturns
    <3>22. CASE FreeLockedClear(k)  BY <3>22 DEF FreeLockedClear
    <3>23. CASE FreeLockedEmpty(k)  BY <3>23 DEF FreeLockedEmpty
    <3>24. CASE FreeLockedCount(k)  BY <3>24 DEF FreeLockedCount, FreeLockedReturns, FreeReturns
    <3> QED
      BY <3>1, <3>2, <3>3, <3>4, <3>5, <3>6, <3>7, <3>8, <3>9, <3>10, <3>11, <3>12, <3>13, <3>14,
         <3>15, <3>16, <3>17, <3>18, <3>19, <3>20, <3>21, <3>22, <3>23, <3>24 DEF Step
  <2> QED
    BY <2>1, <2>2
<1>5. ASSUME NEW v \in dead'
      PROVE  v <= written' /\ Unreachable(v)'
  <2>1. CASE v \in dead
    BY <1>1, <1>3, <2>1 DEF DeadUnreachable
  <2>2. CASE v \notin dead
    <3>1. v = victim[k] /\ (FreeMark(k) \/ (FreeLockedCount(k) /\ freeing[k] = "lock"))
      BY <1>4, <2>2
    <3>2. v \in Int /\ v <= written /\ v <= written'
      BY <1>1, <1>2, <1>4, <3>1
    <3>3. CASE FreeMark(k)
      BY <3>2, <3>3, FreedUnreachable
    <3>4. CASE FreeLockedCount(k) /\ freeing[k] = "lock"
      BY <1>3, <1>4, <3>1, <3>2, <3>4 DEF FreeLockedCount
    <3> QED
      BY <3>1, <3>3, <3>4
  <2> QED
    BY <2>1, <2>2
<1>6. \A j \in Kids : victim'[j] <= written' /\ deadBefore'[j] \subseteq dead'
  <2> TAKE j \in Kids
  <2>1. j # k => victim'[j] = victim[j] /\ deadBefore'[j] = deadBefore[j]
    BY OthersStay
  <2>2. victim'[j] \in {victim[j], 0, entry.version}
    BY <1>4, <2>1
  <2>3. deadBefore'[j] \in {deadBefore[j], {}, dead}
    BY <1>4, <2>1
  <2>4. victim[j] <= written /\ entry.version <= written /\ 0 <= written /\ deadBefore[j] \subseteq dead
    BY MaxWritesAssumption DEF DeadUnreachable, TypeOK
  <2> QED
    BY <1>1, <1>2, <1>4, <2>2, <2>3, <2>4
<1>7. ASSUME NEW j \in Kids, freeing'[j] = "lock", freed'[j] = "count"
      PROVE  \A v \in Int : v = victim'[j] => Unreachable(v)'
  <2>1. \/ freeing[j] = "lock" /\ freed[j] = "count" /\ victim'[j] = victim[j]
        \/ j = k /\ FreeLockedEmpty(k)
    <3>1. j # k => freeing[j] = "lock" /\ freed[j] = "count" /\ victim'[j] = victim[j]
      BY <1>7, OthersStay
    <3> USE <1>7, <3>1 DEF TypeOK, Goto, slotVars, history
    <3>2. CASE \E key \in Keys : OpenForWriting(k, key)  BY <3>2 DEF OpenForWriting
    <3>3. CASE \E key \in Keys : OpenForReading(k, key)  BY <3>3 DEF OpenForReading
    <3>4. CASE OpenForWritingTest(k)  BY <3>4 DEF OpenForWritingTest
    <3>5. CASE OpenForWritingRefused(k)  BY <3>5 DEF OpenForWritingRefused
    <3>6. CASE OpenForWritingLocked(k)  BY <3>6 DEF OpenForWritingLocked
    <3>7. CASE OpenForWritingBegin(k)  BY <3>7 DEF OpenForWritingBegin
    <3>8. CASE SetEntry(k)  BY <3>8 DEF SetEntry
    <3>9. CASE CloseForWriting(k)  BY <3>9 DEF CloseForWriting
    <3>10. CASE CloseForWritingSwitch(k)  BY <3>10 DEF CloseForWritingSwitch
    <3>11. CASE CloseForWritingSwitched(k)  BY <3>11 DEF CloseForWritingSwitched
    <3>12. CASE AbortWriting(k)  BY <3>12 DEF AbortWriting
    <3>13. CASE OpenForReadingTest(k)  BY <3>13 DEF OpenForReadingTest
    <3>14. CASE OpenForReadingRefused(k)  BY <3>14 DEF OpenForReadingRefused
    <3>15. CASE OpenForReadingCheck(k)  BY <3>15 DEF OpenForReadingCheck
    <3>16. CASE OpenForReadingUnlock(k)  BY <3>16 DEF OpenForReadingUnlock
    <3>17. CASE CloseForReading(k)  BY <3>17 DEF CloseForReading
    <3>18. CASE Forget(k)  BY <3>18 DEF Forget
    <3>19. CASE Free(k)  BY <3>19 DEF Free
    <3>20. CASE FreeTest(k)
      <4>1. freed'[k] # "count"
        BY <3>20 DEF FreeTest
      <4> QED
        BY <4>1
    <3>21. CASE FreeRefused(k)  BY <3>21 DEF FreeRefused
    <3>22. CASE FreeMark(k)  BY <3>22 DEF FreeMark, FreeReturns
    <3>23. CASE FreeLockedClear(k)  BY <3>23 DEF FreeLockedClear
    <3>24. CASE FreeLockedEmpty(k)  BY <3>24 DEF FreeLockedEmpty
    <3>25. CASE FreeLockedCount(k)  BY <3>25 DEF FreeLockedCount, FreeLockedReturns, FreeReturns
    <3> QED
      BY <3>2, <3>3, <3>4, <3>5, <3>6, <3>7, <3>8, <3>9, <3>10, <3>11, <3>12, <3>13, <3>14, <3>15,
         <3>16, <3>17, <3>18, <3>19, <3>20, <3>21, <3>22, <3>23, <3>24, <3>25 DEF Step
  <2>2. victim[j] \in Int /\ victim[j] <= written
    BY <1>1 DEF DeadUnreachable
  <2>3. CASE freeing[j] = "lock" /\ freed[j] = "count" /\ victim'[j] = victim[j]
    BY <1>3, <2>2, <2>3 DEF DeadUnreachable
  <2>4. CASE FreeLockedEmpty(k)
    BY <2>4, FreedUnreachable
  <2> QED
    BY <2>1, <2>3, <2>4
<1> QED
  <2>1. \A j \in Kids : victim'[j] \in Int
    BY MaxWritesAssumption DEF TypeOK
  <2>2. \A j \in Kids : freeing'[j] = "lock" /\ freed'[j] = "count" => Unreachable(victim[j])'
    BY <1>7, <2>1 DEF Unreachable
  <2> QED
    BY <1>2, <1>5, <1>6, <2>2 DEF DeadUnreachable

\* A reader gets no entry whose free() returned before it asked.
LEMMA FreedStep ==
    ASSUME TypeOK, Lock!Exclusion, LocksMatch, StateMatches, DeadUnreachable, FreedStaysFreed,
           NEW k \in Kids, Step(k)
    PROVE  FreedStaysFreed'
<1>1. \A j \in Kids \ {k} :
        at'[j] = at[j] /\ opened'[j] = opened[j] /\ deadBefore'[j] = deadBefore[j]
  BY OthersStay
<1>2. OpenForReadingCheck(k) /\ at'[k] = "reading" => entry.version \notin deadBefore[k]
  <2> SUFFICES ASSUME OpenForReadingCheck(k), at'[k] = "reading"
               PROVE  entry.version \notin deadBefore[k]
    OBVIOUS
  <2>1. state # "Empty" /\ ~waitingToBeFreed /\ Reader(k)
    BY DEF OpenForReadingCheck, Reader, TypeOK
  <2>2. \A j \in Kids : ~Writer(j) /\ ~Freer(j)
    BY <2>1, HolderAlone
  <2>3. state = "Readable"
    BY <2>1, <2>2 DEF StateMatches, Writer, TypeOK
  <2>4. \A j \in Kids : freed[j] # "empty"
    BY <2>2 DEF LocksMatch, Writer, Freer
  <2> QED
    BY <2>1, <2>3, <2>4 DEF DeadUnreachable, Unreachable
<1>3. at'[k] = "reading" => opened'[k].version \notin deadBefore'[k]
  <2> USE <1>2 DEF TypeOK, Goto, lockVars, slotVars, history, FreedStaysFreed
  <2>1. CASE \E key \in Keys : OpenForWriting(k, key)  BY <2>1 DEF OpenForWriting
  <2>2. CASE \E key \in Keys : OpenForReading(k, key)  BY <2>2 DEF OpenForReading
  <2>3. CASE OpenForWritingTest(k)  BY <2>3 DEF OpenForWritingTest
  <2>4. CASE OpenForWritingRefused(k)  BY <2>4 DEF OpenForWritingRefused
  <2>5. CASE OpenForWritingLocked(k)  BY <2>5 DEF OpenForWritingLocked
  <2>6. CASE OpenForWritingBegin(k)  BY <2>6 DEF OpenForWritingBegin
  <2>7. CASE SetEntry(k)  BY <2>7 DEF SetEntry
  <2>8. CASE CloseForWriting(k)  BY <2>8 DEF CloseForWriting
  <2>9. CASE CloseForWritingSwitch(k)  BY <2>9 DEF CloseForWritingSwitch
  <2>10. CASE CloseForWritingSwitched(k)  BY <2>10 DEF CloseForWritingSwitched
  <2>11. CASE AbortWriting(k)  BY <2>11 DEF AbortWriting
  <2>12. CASE OpenForReadingTest(k)  BY <2>12 DEF OpenForReadingTest
  <2>13. CASE OpenForReadingRefused(k)  BY <2>13 DEF OpenForReadingRefused
  <2>14. CASE OpenForReadingCheck(k)  BY <2>14 DEF OpenForReadingCheck
  <2>15. CASE OpenForReadingUnlock(k)  BY <2>15 DEF OpenForReadingUnlock
  <2>16. CASE CloseForReading(k)  BY <2>16 DEF CloseForReading
  <2>17. CASE Forget(k)  BY <2>17 DEF Forget
  <2>18. CASE Free(k)  BY <2>18 DEF Free
  <2>19. CASE FreeTest(k)  BY <2>19 DEF FreeTest
  <2>20. CASE FreeRefused(k)  BY <2>20 DEF FreeRefused
  <2>21. CASE FreeMark(k)  BY <2>21 DEF FreeMark, FreeReturns
  <2>22. CASE FreeLockedClear(k)  BY <2>22 DEF FreeLockedClear
  <2>23. CASE FreeLockedEmpty(k)  BY <2>23 DEF FreeLockedEmpty
  <2>24. CASE FreeLockedCount(k)  BY <2>24 DEF FreeLockedCount, FreeLockedReturns, FreeReturns
  <2> QED
    BY <2>1, <2>2, <2>3, <2>4, <2>5, <2>6, <2>7, <2>8, <2>9, <2>10, <2>11, <2>12, <2>13, <2>14,
       <2>15, <2>16, <2>17, <2>18, <2>19, <2>20, <2>21, <2>22, <2>23, <2>24 DEF Step
<1> QED
  BY <1>1, <1>3 DEF FreedStaysFreed

\* The calls that have emptied the slot and not counted it yet.
Uncounted == {k \in Kids : freed[k] = "count"}

\* Every step keeps the count below the used slots, up to calls in progress.
LEMMA CountStep ==
    ASSUME TypeOK, TypeOK', LocksMatch, StateMatches, CountBounded, NEW k \in Kids, Step(k)
    PROVE  CountBounded'
<1>1. IsFiniteSet(Uncounted) /\ Cardinality(Uncounted) \in Nat
  <2>1. Uncounted \in SUBSET Kids
    BY DEF Uncounted
  <2> QED
    BY <2>1, FS_Subset, FS_CardinalityType, KidsAssumption
<1>2. count \in Int /\ count' \in Int /\ count <= UsedSlots + Cardinality(Uncounted)
      /\ UsedSlots \in {0, 1} /\ UsedSlots' \in {0, 1}
  BY DEF TypeOK, CountBounded, UsedSlots, Uncounted
<1>3. SUFFICES count' <= UsedSlots' + Cardinality(Uncounted')
  BY DEF CountBounded, Uncounted
<1>4. CASE FreeLockedEmpty(k)
  <2>1. count' = count /\ Uncounted' = Uncounted \cup {k} /\ k \notin Uncounted
    BY <1>4 DEF FreeLockedEmpty, TypeOK, Uncounted
  <2>2. Cardinality(Uncounted') = Cardinality(Uncounted) + 1
    BY <1>1, <2>1, FS_AddElement
  <2> QED
    BY <1>1, <1>2, <2>1, <2>2
<1>5. CASE FreeLockedCount(k)
  <2>1. count' = count - 1 /\ Uncounted' = Uncounted \ {k} /\ k \in Uncounted /\ UsedSlots' = UsedSlots
    BY <1>5 DEF FreeLockedCount, TypeOK, Uncounted, UsedSlots
  <2>2. Cardinality(Uncounted') = Cardinality(Uncounted) - 1
    BY <1>1, <2>1, FS_RemoveElement
  <2> QED
    BY <1>1, <1>2, <2>1, <2>2
<1>6. CASE OpenForWritingBegin(k)
  <2>1. count' = count + 1 /\ Uncounted' = Uncounted /\ UsedSlots = 0 /\ UsedSlots' = 1
    BY <1>6 DEF OpenForWritingBegin, Goto, StateMatches, Uncounted, UsedSlots
  <2> QED
    BY <1>1, <1>2, <2>1
<1>7. CASE ~FreeLockedEmpty(k) /\ ~FreeLockedCount(k) /\ ~OpenForWritingBegin(k)
  <2>1. \A j \in Kids \ {k} : freed'[j] = freed[j]
    BY OthersStay
  <2>2. /\ count' = count /\ (state # "Empty" => state' # "Empty")
        /\ freed'[k] = "count" <=> freed[k] = "count"
    <3>0. /\ freed[k] # "no" => freeing[k] = "lock" \/ at[k] \in {"wFree", "aborting"}
          /\ freeing[k] # "no" => at[k] \in {"reading", "kept", "writing", "written", "stale"}
          /\ at[k] \in {"wFree", "aborting"} => freed[k] # "no" /\ freeing[k] = "no"
          /\ freeing[k] = "lock" /\ lockpc[F(k)] = "testReaders" => freed[k] = "no"
      BY DEF LocksMatch, FreeLock, TypeOK
    <3> USE <1>7, <3>0 DEF TypeOK, Goto, lockVars, slotVars, history
    <3> HIDE DEF F
    <3>1. CASE \E key \in Keys : OpenForWriting(k, key)  BY <3>1 DEF OpenForWriting
    <3>2. CASE \E key \in Keys : OpenForReading(k, key)  BY <3>2 DEF OpenForReading
    <3>3. CASE OpenForWritingTest(k)  BY <3>3 DEF OpenForWritingTest
    <3>4. CASE OpenForWritingRefused(k)  BY <3>4 DEF OpenForWritingRefused
    <3>5. CASE OpenForWritingLocked(k)  BY <3>5 DEF OpenForWritingLocked
    <3>6. CASE OpenForWritingBegin(k)
      BY <3>6
    <3>7. CASE SetEntry(k)  BY <3>7 DEF SetEntry
    <3>8. CASE CloseForWriting(k)  BY <3>8 DEF CloseForWriting
    <3>9. CASE CloseForWritingSwitch(k)  BY <3>9 DEF CloseForWritingSwitch
    <3>10. CASE CloseForWritingSwitched(k)  BY <3>10 DEF CloseForWritingSwitched
    <3>11. CASE AbortWriting(k)  BY <3>11 DEF AbortWriting
    <3>12. CASE OpenForReadingTest(k)  BY <3>12 DEF OpenForReadingTest
    <3>13. CASE OpenForReadingRefused(k)  BY <3>13 DEF OpenForReadingRefused
    <3>14. CASE OpenForReadingCheck(k)  BY <3>14 DEF OpenForReadingCheck
    <3>15. CASE OpenForReadingUnlock(k)  BY <3>15 DEF OpenForReadingUnlock
    <3>16. CASE CloseForReading(k)  BY <3>16 DEF CloseForReading
    <3>17. CASE Forget(k)  BY <3>17 DEF Forget
    <3>18. CASE Free(k)  BY <3>18 DEF Free
    <3>19. CASE FreeTest(k)
      <4>1. freed[k] = "no"
        BY <3>19 DEF FreeTest, Lock!LockExclusiveTest, Lock!Goto
      <4> QED
        BY <3>19, <4>1 DEF FreeTest
    <3>20. CASE FreeRefused(k)  BY <3>20 DEF FreeRefused
    <3>21. CASE FreeMark(k)  BY <3>21 DEF FreeMark, FreeReturns
    <3>22. CASE FreeLockedClear(k)  BY <3>22 DEF FreeLockedClear
    <3>23. CASE FreeLockedEmpty(k)
      BY <3>23
    <3>24. CASE FreeLockedCount(k)
      BY <3>24
    <3> QED
      BY <3>1, <3>2, <3>3, <3>4, <3>5, <3>6, <3>7, <3>8, <3>9, <3>10, <3>11, <3>12, <3>13, <3>14,
         <3>15, <3>16, <3>17, <3>18, <3>19, <3>20, <3>21, <3>22, <3>23, <3>24 DEF Step
  <2>3. Uncounted' = Uncounted
    BY <2>1, <2>2 DEF Uncounted
  <2>4. UsedSlots <= UsedSlots'
    BY <2>2 DEF UsedSlots
  <2> QED
    BY <1>1, <1>2, <2>2, <2>3, <2>4
<1> QED
  BY <1>4, <1>5, <1>6, <1>7

----------------------------------------------------------------------------
\* The empty slot satisfies the invariant.
LEMMA MapInvInit == Init => MapInv
<1> SUFFICES ASSUME Init PROVE MapInv
  OBVIOUS
<1>1. Lock!LockInv /\ Lock!TypeOK
  BY SlotLockInit DEF Init, Lock!LockInv
<1>2. TypeOK
  <2>1. 0 \in 0 .. MaxWrites /\ {} \in SUBSET (0 .. MaxWrites)
    BY MaxWritesAssumption
  <2>2. at \in [Kids -> AtPoints]
    BY DEF Init, AtPoints
  <2>3. /\ victim \in [Kids -> 0 .. MaxWrites] /\ deadBefore \in [Kids -> SUBSET (0 .. MaxWrites)]
        /\ written \in 0 .. MaxWrites /\ dead \in SUBSET (0 .. MaxWrites)
    BY <2>1 DEF Init
  <2>4. /\ freeing \in [Kids -> {"no", "lock", "mark"}]
        /\ freed \in [Kids -> {"no", "clear", "empty", "count"}]
        /\ want \in [Kids -> Keys \cup {"none"}]
        /\ opened \in [Kids -> Entries \cup {NoEntry}]
    BY DEF Init
  <2>5. waitingToBeFreed \in BOOLEAN
    BY DEF Init
  <2>6. state \in {"Empty", "Writeable", "Readable"} /\ entry \in Entries \cup {NoEntry}
    BY DEF Init
  <2>7. count \in Int
    BY DEF Init
  <2> QED
    BY <1>1, <2>2, <2>3, <2>4, <2>5, <2>6, <2>7 DEF TypeOK
<1>3. \A k \in Kids : lockpc[E(k)] = "idle" /\ lockpc[F(k)] = "idle"
  BY LockIdsDiffer DEF Init, Lock!Init
<1>4. LocksMatch
  BY <1>3 DEF Init, LocksMatch, EntryLock, FreeLock
<1>5. StateMatches /\ EntryMatches /\ FreedStaysFreed
  BY DEF Init, StateMatches, EntryMatches, FreedStaysFreed
<1>6. DeadUnreachable
  BY DEF Init, DeadUnreachable, NoEntry
<1>7. CountBounded
  <2>1. {k \in Kids : freed[k] = "count"} = {}
    BY DEF Init
  <2> QED
    BY <2>1, FS_EmptySet DEF Init, CountBounded, UsedSlots
<1> QED
  BY <1>1, <1>2, <1>4, <1>5, <1>6, <1>7 DEF MapInv

\* Every step keeps the invariant.
LEMMA MapInvStep == MapInv /\ [Next]_vars => MapInv'
<1> SUFFICES ASSUME MapInv, [Next]_vars PROVE MapInv'
  OBVIOUS
<1>0. /\ TypeOK /\ Lock!LockInv /\ LocksMatch /\ StateMatches /\ EntryMatches
      /\ DeadUnreachable /\ FreedStaysFreed /\ CountBounded /\ Lock!Exclusion
  BY DEF MapInv, Lock!LockInv
<1>1. CASE UNCHANGED vars
  <2> USE <1>0, <1>1 DEF vars, lockVars, slotVars, history
  <2>1. Lock!LockInv'
    BY SlotLockStep DEF Lock!vars
  <2>2. TypeOK' /\ LocksMatch' /\ StateMatches' /\ EntryMatches'
    BY <2>1 DEF TypeOK, LocksMatch, StateMatches, EntryMatches, EntryLock, FreeLock, Lock!LockInv
  <2>3. DeadUnreachable' /\ FreedStaysFreed'
    BY DEF DeadUnreachable, Unreachable, FreedStaysFreed
  <2>4. CountBounded'
    BY DEF CountBounded, UsedSlots
  <2> QED
    BY <2>1, <2>2, <2>3, <2>4 DEF MapInv
<1>2. CASE Next
  <2> PICK k \in Kids : Step(k)
    BY <1>2, NextSteps
  <2>1. Lock!LockInv' /\ Lock!TypeOK'
    BY <1>0, LockStep DEF Lock!LockInv
  <2>2. TypeOK'
    BY <1>0, <2>1, TypeStep
  <2>3. LocksMatch'
    BY <1>0, LocksMatchStep
  <2>4. StateMatches' /\ EntryMatches'
    BY <1>0, StateStep, EntryStep
  <2>5. DeadUnreachable' /\ FreedStaysFreed'
    BY <1>0, <2>2, DeadStep, FreedStep
  <2>6. CountBounded'
    BY <1>0, <2>2, CountStep
  <2> QED
    BY <2>1, <2>2, <2>3, <2>4, <2>5, <2>6 DEF MapInv
<1> QED
  BY <1>1, <1>2

\* MapInv is an invariant of the slot.
THEOREM MapInvariant == Spec => []MapInv
  BY MapInvInit, MapInvStep, PTL DEF Spec

\* What MapInv says of the asserts of StoreMap.cc and of the count.
LEMMA MapInvImplies == MapInv => AssertsHold /\ ReaderStable /\ FreedStaysFreed /\ CountNeverHigh
<1> SUFFICES ASSUME MapInv PROVE AssertsHold /\ ReaderStable /\ FreedStaysFreed /\ CountNeverHigh
  OBVIOUS
<1>0. /\ TypeOK /\ LocksMatch /\ StateMatches /\ EntryMatches /\ FreedStaysFreed /\ CountBounded
      /\ Lock!Exclusion
  BY DEF MapInv, Lock!LockInv
<1>1. AssertsHold
  <2> SUFFICES ASSUME NEW k \in Kids
      PROVE  /\ (at[k] = "wLock" /\ lockpc[E(k)] = "exclusive") => state # "Writeable"
             /\ at[k] = "wBegin" => state = "Empty"
             /\ at[k] \in {"writing", "written"} => state = "Writeable"
             /\ (at[k] = "rLock" /\ lockpc[E(k)] = "shared") => state # "Writeable"
             /\ at[k] \in {"reading", "kept"} => state = "Readable"
    BY DEF AssertsHold
  <2>1. state = "Writeable" =>
            \E j \in Kids : Writer(j) /\ at[j] \in {"writing", "written", "aborting"}
    BY <1>0 DEF StateMatches, Writer
  <2>2. \A j \in Kids : Writer(j) => ~Reader(k) /\ (Writer(k) => j = k)
    BY <1>0, HolderAlone
  <2> QED
    BY <1>0, <2>1, <2>2 DEF StateMatches, Writer, Reader
<1>2. ReaderStable
  BY <1>0 DEF ReaderStable, EntryMatches
<1>3. CountNeverHigh
  <2> SUFFICES ASSUME Quiet PROVE count <= UsedSlots
    BY DEF CountNeverHigh
  <2>1. {k \in Kids : freed[k] = "count"} = {}
    BY DEF Quiet
  <2>2. Cardinality({k \in Kids : freed[k] = "count"}) = 0
    BY <2>1, FS_EmptySet
  <2>3. count \in Int /\ UsedSlots \in Int
    BY <1>0 DEF TypeOK, UsedSlots
  <2> QED
    BY <1>0, <2>2, <2>3 DEF CountBounded
<1> QED
  BY <1>0, <1>1, <1>2, <1>3

(***************************************************************************)
(* The asserts of StoreMap.cc hold for any number of kids, keys and        *)
(* writes: the slot is in the state that the holder of its lock expects.   *)
(***************************************************************************)
THEOREM SlotStateAsExpected == Spec => []AssertsHold
  BY MapInvImplies, MapInvariant, PTL

(***************************************************************************)
(* An entry opened for reading is not overwritten or emptied before it is  *)
(* closed.                                                                 *)
(***************************************************************************)
THEOREM ReadersKeepTheirEntry == Spec => []ReaderStable
  BY MapInvImplies, MapInvariant, PTL

(***************************************************************************)
(* Once free() has returned, no later openForReading() gets the entry.     *)
(***************************************************************************)
THEOREM FreedEntriesStayFreed == Spec => []FreedStaysFreed
  BY MapInvImplies, MapInvariant, PTL

(***************************************************************************)
(* Between calls, the count does not exceed the number of used slots.      *)
(***************************************************************************)
THEOREM CountNeverTooHigh == Spec => []CountNeverHigh
  BY MapInvImplies, MapInvariant, PTL

-----------------------------------------------------------------------------
(* Sums over finite sets.  MapThenSumSet() is defined by recursion over    *)
(* the subsets of its set; Adds(c, K, g) says that g is what it computes   *)
(* for them.  There is such a g for every finite K (AddsExists), and it    *)
(* changes with c as a sum does (TotalChanges).                            *)

First(s) == CHOOSE x \in s : TRUE
Adds(c, K, g) == g = [s \in SUBSET K |-> IF s = {} THEN 0 ELSE c[First(s)] + g[s \ {First(s)}]]
Total(c, K) == MapThenSumSet(LAMBDA k : c[k], K)

LEMMA AddsFacts ==
    ASSUME NEW c, NEW K, NEW g, Adds(c, K, g)
    PROVE  /\ g[{}] = 0
           /\ \A s \in SUBSET K : s # {} =>
                 /\ First(s) \in s /\ s \ {First(s)} \in SUBSET K /\ s \ {First(s)} # s
                 /\ g[s] = c[First(s)] + g[s \ {First(s)}]
<1>1. {} \in SUBSET K
  OBVIOUS
<1>2. g[{}] = 0
  BY <1>1 DEF Adds
<1>3. ASSUME NEW s \in SUBSET K, s # {}
      PROVE  First(s) \in s
  BY <1>3 DEF First
<1>4. ASSUME NEW s \in SUBSET K, s # {}
      PROVE  g[s] = c[First(s)] + g[s \ {First(s)}]
  BY <1>4 DEF Adds
<1> QED
  BY <1>2, <1>3, <1>4

\* A property of some subsets of K has a smallest subset with it.
LEMMA LeastSubset ==
    ASSUME NEW K, IsFiniteSet(K), NEW T \in SUBSET (SUBSET K), T # {}
    PROVE  \E x \in T : \A y \in T : y \subseteq x => y = x
<1>1. FiniteSubsetsOf(K) = SUBSET K
  BY FS_FiniteSubsetsOfFinite
<1>2. IsWellFoundedOn(StrictSubsetOrdering(K), SUBSET K)
  BY <1>1, FS_StrictSubsetOrderingWellFounded
<1>3. PICK x \in T : \A y \in T : ~(<<y, x>> \in StrictSubsetOrdering(K))
  BY <1>2, WFMin
<1>4. ASSUME NEW y \in T, y \subseteq x, y # x
      PROVE  <<y, x>> \in StrictSubsetOrdering(K)
  BY <1>4 DEF StrictSubsetOrdering
<1>5. \A y \in T : y \subseteq x => y = x
  BY <1>3, <1>4
<1> QED
  BY <1>5

LEMMA AddsAgree ==
    ASSUME NEW c, NEW K, IsFiniteSet(K), NEW L, K \subseteq L,
           NEW g, Adds(c, K, g), NEW h, Adds(c, L, h)
    PROVE  \A s \in SUBSET K : g[s] = h[s]
<1> DEFINE T == {s \in SUBSET K : g[s] # h[s]}
<1>0. T \in SUBSET (SUBSET K) /\ \A s \in SUBSET K : s \in T <=> g[s] # h[s]
  OBVIOUS
<1> SUFFICES ASSUME T # {} PROVE FALSE
  BY <1>0
<1> HIDE DEF T
<1>a. g[{}] = 0 /\ h[{}] = 0
  BY AddsFacts
<1>b. \A s \in SUBSET K : s # {} =>
          /\ First(s) \in s /\ s \ {First(s)} \in SUBSET K /\ s \ {First(s)} # s
          /\ g[s] = c[First(s)] + g[s \ {First(s)}]
  BY AddsFacts
<1>1. PICK x \in T : \A y \in T : y \subseteq x => y = x
  BY <1>0, LeastSubset
<1>2. x # {} /\ x \in SUBSET K
  BY <1>0, <1>a
<1>3. /\ First(x) \in x /\ x \ {First(x)} \in SUBSET K /\ x \ {First(x)} # x
      /\ g[x] = c[First(x)] + g[x \ {First(x)}]
  BY <1>2, <1>b
<1>4. x \in SUBSET L
  BY <1>2
<1>5. h[x] = c[First(x)] + h[x \ {First(x)}]
  BY <1>2, <1>4, AddsFacts
<1>6. g[x \ {First(x)}] = h[x \ {First(x)}]
  BY <1>0, <1>1, <1>3
<1> QED
  BY <1>0, <1>2, <1>3, <1>5, <1>6

LEMMA AddsExists ==
    ASSUME NEW c, NEW K, IsFiniteSet(K)
    PROVE  \E g : Adds(c, K, g)
<1> DEFINE T == {t \in SUBSET K : ~\E g : Adds(c, t, g)}
<1>0. T \in SUBSET (SUBSET K) /\ \A t \in SUBSET K : t \in T <=> ~\E g : Adds(c, t, g)
  OBVIOUS
<1> SUFFICES ASSUME T # {} PROVE FALSE
  <2>1. K \in SUBSET K
    OBVIOUS
  <2> QED
    BY <1>0, <2>1
<1> HIDE DEF T
<1>1. PICK x \in T : \A y \in T : y \subseteq x => y = x
  BY <1>0, LeastSubset
<1>2. IsFiniteSet(x) /\ x \in SUBSET K
  BY <1>0, FS_Subset
<1> DEFINE g(t) == CHOOSE f : Adds(c, t, f)
           G(t) == g(t)[t]
           h == [s \in SUBSET x |-> IF s = {} THEN 0 ELSE c[First(s)] + G(s \ {First(s)})]
<1>3. ASSUME NEW t \in SUBSET x, t # x
      PROVE  Adds(c, t, g(t)) /\ IsFiniteSet(t)
  <2>1. t \in SUBSET K /\ t \notin T
    BY <1>0, <1>1, <1>2, <1>3
  <2>2. \E f : Adds(c, t, f)
    BY <1>0, <2>1
  <2> QED
    BY <1>2, <1>3, <2>2, FS_Subset
<1> HIDE DEF g
<1>4. ASSUME NEW s \in SUBSET x, s # {}
      PROVE  First(s) \in s /\ s \ {First(s)} \in SUBSET x /\ s \ {First(s)} # x
  BY <1>4 DEF First
<1>5. ASSUME NEW s \in SUBSET x, s # x
      PROVE  h[s] = G(s)
  <2>1. Adds(c, s, g(s)) /\ s \in SUBSET s
    BY <1>3, <1>5
  <2>2. CASE s = {}
    BY <2>1, <2>2, AddsFacts
  <2>3. CASE s # {}
    <3> DEFINE t == s \ {First(s)}
    <3>1. t \in SUBSET x /\ t # x /\ t \subseteq s /\ h[s] = c[First(s)] + G(t)
      BY <1>4, <1>5, <2>3
    <3>2. G(s) = c[First(s)] + g(s)[t]
      BY <2>1, <2>3, AddsFacts
    <3>3. Adds(c, t, g(t)) /\ IsFiniteSet(t)
      BY <1>3, <3>1
    <3> HIDE DEF t
    <3>4. t \in SUBSET t
      OBVIOUS
    <3>5. g(t)[t] = g(s)[t]
      BY <2>1, <3>1, <3>3, <3>4, AddsAgree
    <3> QED
      BY <3>1, <3>2, <3>5
  <2> QED
    BY <2>2, <2>3
<1>6. \A s \in SUBSET x : s # {} => h[s \ {First(s)}] = G(s \ {First(s)})
  BY <1>4, <1>5
<1>7. h = [s \in SUBSET x |-> IF s = {} THEN 0 ELSE c[First(s)] + h[s \ {First(s)}]]
  BY <1>6
<1>8. Adds(c, x, h)
  BY <1>7 DEF Adds
<1> QED
  BY <1>0, <1>2, <1>8

LEMMA TotalAdds ==
    ASSUME NEW c, NEW K, IsFiniteSet(K)
    PROVE  \E g : Adds(c, K, g) /\ Total(c, K) = g[K]
<1> DEFINE h == CHOOSE g : Adds(c, K, g)
<1>1. Adds(c, K, h)
  BY AddsExists
<1>2. Total(c, K) = h[K]
  BY DEF Total, MapThenSumSet, MapThenFoldSet, Adds, First
<1> QED
  BY <1>1, <1>2

LEMMA AddsTypes ==
    ASSUME NEW K, IsFiniteSet(K), NEW c \in [K -> Int], NEW g, Adds(c, K, g)
    PROVE  \A s \in SUBSET K : g[s] \in Int
<1> DEFINE T == {s \in SUBSET K : g[s] \notin Int}
<1>0. T \in SUBSET (SUBSET K) /\ \A s \in SUBSET K : s \in T <=> g[s] \notin Int
  OBVIOUS
<1> SUFFICES ASSUME T # {} PROVE FALSE
  BY <1>0
<1> HIDE DEF T
<1>a. g[{}] = 0
  BY AddsFacts
<1>1. PICK x \in T : \A y \in T : y \subseteq x => y = x
  BY <1>0, LeastSubset
<1>b. {} \in SUBSET K /\ g[{}] \in Int
  BY <1>a
<1>2. x # {} /\ x \in SUBSET K
  BY <1>0, <1>b
<1>3. /\ First(x) \in x /\ x \ {First(x)} \in SUBSET K /\ x \ {First(x)} # x
      /\ g[x] = c[First(x)] + g[x \ {First(x)}]
  BY <1>2, AddsFacts
<1>4. g[x \ {First(x)}] \in Int
  BY <1>0, <1>1, <1>3
<1>5. c[First(x)] \in Int
  BY <1>2, <1>3
<1> QED
  BY <1>0, <1>2, <1>3, <1>4, <1>5

\* One summand changes.
LEMMA TotalChanges ==
    ASSUME NEW K, IsFiniteSet(K), NEW c \in [K -> Int], NEW k \in K, NEW v \in Int,
           NEW d, d = [c EXCEPT ![k] = v]
    PROVE  /\ Total(c, K) \in Int /\ Total(d, K) \in Int
           /\ Total(d, K) = Total(c, K) + (v - c[k])
<1>1. d \in [K -> Int] /\ d[k] = v /\ \A j \in K : j # k => d[j] = c[j]
  OBVIOUS
<1>2. PICK g : Adds(c, K, g) /\ Total(c, K) = g[K]
  BY TotalAdds
<1>3. PICK h : Adds(d, K, h) /\ Total(d, K) = h[K]
  BY TotalAdds
<1>4. \A s \in SUBSET K : g[s] \in Int /\ h[s] \in Int
  BY <1>1, <1>2, <1>3, AddsTypes
<1> DEFINE T == {s \in SUBSET K : ~((k \in s => h[s] = g[s] + (v - c[k])) /\ (k \notin s => h[s] = g[s]))}
<1>0. /\ T \in SUBSET (SUBSET K)
      /\ \A s \in SUBSET K : s \in T <=>
            ~((k \in s => h[s] = g[s] + (v - c[k])) /\ (k \notin s => h[s] = g[s]))
  OBVIOUS
<1> HIDE DEF T
<1>a. g[{}] = 0 /\ h[{}] = 0
  BY <1>2, <1>3, AddsFacts
<1>b. ASSUME NEW s \in SUBSET K, s # {}
      PROVE  h[s] = d[First(s)] + h[s \ {First(s)}]
  BY <1>3, <1>b DEF Adds
<1>5. ASSUME T # {} PROVE FALSE
  <2>1. PICK x \in T : \A y \in T : y \subseteq x => y = x
    BY <1>0, <1>5, LeastSubset
  <2>2. x # {} /\ x \in SUBSET K
    BY <1>0, <1>a
  <2> DEFINE f == First(x)
             y == x \ {f}
  <2>3. f \in x /\ y \in SUBSET K /\ y # x /\ g[x] = c[f] + g[y]
    BY <1>2, <2>2, AddsFacts
  <2>4. h[x] = d[f] + h[y]
    BY <1>b, <2>2
  <2>5. (k \in y => h[y] = g[y] + (v - c[k])) /\ (k \notin y => h[y] = g[y])
    BY <1>0, <2>1, <2>3
  <2>6. (f = k => k \notin y) /\ (f # k => (k \in y <=> k \in x)) /\ x \in SUBSET K
    BY <2>2
  <2>7. g[x] \in Int /\ h[x] \in Int /\ g[y] \in Int /\ h[y] \in Int /\ f \in K
    BY <1>4, <2>2, <2>3
  <2>8. ~((k \in x => h[x] = g[x] + (v - c[k])) /\ (k \notin x => h[x] = g[x]))
    BY <1>0, <2>1, <2>2
  <2> HIDE DEF f, y
  <2>9. c[k] \in Int /\ c[f] \in Int /\ d[f] \in Int
    BY <1>1, <2>7
  <2>10. CASE f = k
    BY <1>1, <2>3, <2>4, <2>5, <2>6, <2>7, <2>8, <2>9, <2>10
  <2>11. CASE f # k
    <3>1. d[f] = c[f]
      BY <1>1, <2>7, <2>11
    <3> QED
      BY <2>3, <2>4, <2>5, <2>6, <2>7, <2>8, <2>9, <2>11, <3>1
  <2> QED
    BY <2>10, <2>11
<1>6. K \in SUBSET K
  OBVIOUS
<1>7. h[K] = g[K] + (v - c[k])
  BY <1>0, <1>5, <1>6
<1> QED
  BY <1>2, <1>3, <1>4, <1>6, <1>7

LEMMA TotalZero ==
    ASSUME NEW K, IsFiniteSet(K)
    PROVE  Total([k \in K |-> 0], K) = 0
<1> DEFINE c == [k \in K |-> 0]
<1>1. PICK g : Adds(c, K, g) /\ Total(c, K) = g[K]
  BY TotalAdds
<1> DEFINE T == {s \in SUBSET K : g[s] # 0}
<1>0. T \in SUBSET (SUBSET K) /\ \A s \in SUBSET K : s \in T <=> g[s] # 0
  OBVIOUS
<1> HIDE DEF T
<1>a. g[{}] = 0
  BY <1>1, AddsFacts
<1>2. ASSUME T # {} PROVE FALSE
  <2>1. PICK x \in T : \A y \in T : y \subseteq x => y = x
    BY <1>0, <1>2, LeastSubset
  <2>2. x # {} /\ x \in SUBSET K
    BY <1>0, <1>a
  <2>3. /\ First(x) \in x /\ x \ {First(x)} \in SUBSET K /\ x \ {First(x)} # x
        /\ g[x] = c[First(x)] + g[x \ {First(x)}]
    BY <1>1, <2>2, AddsFacts
  <2>4. g[x \ {First(x)}] = 0
    BY <1>0, <2>1, <2>3
  <2>5. c[First(x)] = 0
    BY <2>2, <2>3
  <2> QED
    BY <1>0, <2>1, <2>2, <2>3, <2>4, <2>5
<1>3. K \in SUBSET K
  OBVIOUS
<1> QED
  BY <1>0, <1>1, <1>2, <1>3

-----------------------------------------------------------------------------
(* The memory cache                                                        *)

\* The memory cache drives the map through the map's own steps only.
LEMMA MemDrivesMap ==
    ASSUME NEW k \in Kids,
           CopiedToShm(k) \/ CopyToShmFails(k) \/ CleanReadable(k) \/ MapStep(k)
    PROVE  Step(k)
<1>1. CASE CopiedToShm(k)      BY <1>1 DEF CopiedToShm, Step
<1>2. CASE CopyToShmFails(k)   BY <1>2 DEF CopyToShmFails, Step
<1>3. CASE CleanReadable(k)    BY <1>3 DEF CleanReadable, Step
<1>4. CASE MapStep(k)          BY <1>4 DEF MapStep, Step
<1> QED
  BY <1>1, <1>2, <1>3, <1>4

\* The map's invariant holds in the memory cache.
LEMMA MapInvMemStep == MapInv /\ [MemNext]_memAllVars => MapInv'
<1> SUFFICES ASSUME MapInv, [MemNext]_memAllVars PROVE MapInv'
  OBVIOUS
<1>1. [Next]_vars
  <2>1. CASE UNCHANGED memAllVars
    BY <2>1 DEF memAllVars
  <2>2. ASSUME NEW k \in Kids, CopyToShm(k) PROVE UNCHANGED vars
    BY <2>2 DEF CopyToShm
  <2> QED
    BY <2>1, <2>2, MemDrivesMap, NextSteps DEF MemNext
<1> QED
  BY <1>1, MapInvStep

\* Giving a page to keep() and taking one back.
LEMMA PoolMoves ==
    ASSUME free \in SUBSET Pages, NEW p
    PROVE  /\ PagePool!Allocate(p) => p \in free /\ free' = free \ {p}
           /\ PagePool!Release(p) => p \in Pages \ free /\ free' = free \cup {p}
  BY DEF PagePool!Allocate, PagePool!Release

\* What the parts of MapInv say, for the steps below.
LEMMA MapInvParts ==
    ASSUME MapInv
    PROVE  /\ TypeOK /\ LocksMatch /\ StateMatches /\ EntryMatches /\ DeadUnreachable
           /\ Lock!Exclusion
  BY DEF MapInv, Lock!LockInv

\* No page is lost or shared when the slot or a call gets or loses one.
LEMMA PagesStep ==
    ASSUME MapInv, MemTypeOK, PageMatches, MemPagesKept, NEW k \in Kids,
           CopyToShm(k) \/ CopiedToShm(k) \/ CopyToShmFails(k) \/ CleanReadable(k) \/ MapStep(k)
    PROVE  MemPagesKept' /\ free' \in SUBSET Pages
<1>0. /\ free \in SUBSET Pages /\ page \in [Kids -> Pages \cup {NoPage}]
      /\ extrasPage \in Pages \cup {NoPage} /\ NoPage \notin Pages
  BY PagesAssumption DEF MemTypeOK
<1>1. CASE CopyToShm(k)
  <2>1. PICK p \in free : PagePool!Allocate(p) /\ page' = [page EXCEPT ![k] = p]
    BY <1>1 DEF CopyToShm
  <2>2. free' = free \ {p} /\ page[k] = NoPage /\ extrasPage' = extrasPage
    BY <1>0, <1>1, <2>1, PoolMoves DEF CopyToShm
  <2>3. \A j \in Kids : page'[j] = IF j = k THEN p ELSE page[j]
    BY <1>0, <2>1
  <2>4. p \notin Held /\ p # NoPage
    BY <1>0 DEF MemPagesKept
  <2>5. \A j \in Kids : page[j] # p
    BY <2>4 DEF Held
  <2>6. Held' = Held \cup {p}
    BY <2>2, <2>3, <2>4 DEF Held
  <2> QED
    BY <1>0, <2>2, <2>3, <2>4, <2>5, <2>6 DEF MemPagesKept, Held
<1>2. CASE CopiedToShm(k)
  <2>1. /\ at[k] = "writing" /\ page[k] # NoPage /\ extrasPage' = page[k] /\ free' = free
        /\ \A j \in Kids : page'[j] = IF j = k THEN NoPage ELSE page[j]
    BY <1>0, <1>2 DEF CopiedToShm, SetEntry, Goto
  <2>2. extrasPage = NoPage
    <3>1. \A j \in Kids : Writer(j) => j = k
      BY <2>1, HolderAlone, MapInvParts DEF Writer
    <3> QED
      BY <2>1, <3>1, MapInvParts DEF PageMatches, StateMatches, Writer
  <2>3. Held' = Held
    BY <2>1, <2>2 DEF Held
  <2> QED
    BY <1>0, <2>1, <2>2, <2>3 DEF MemPagesKept
<1>3. CASE CopyToShmFails(k)
  <2>1. /\ extrasPage' = extrasPage
        /\ \A j \in Kids : page'[j] = IF j = k THEN NoPage ELSE page[j]
        /\ IF page[k] = NoPage THEN free' = free ELSE free' = free \cup {page[k]}
    <3>1. NoPage \notin Pages \ free
      BY <1>0
    <3>2. \/ page[k] = NoPage /\ free' = free
          \/ page[k] \in Pages \ free /\ free' = free \cup {page[k]}
      BY <1>0, <1>3, PoolMoves DEF CopyToShmFails
    <3> QED
      BY <1>0, <1>3, <3>1, <3>2 DEF CopyToShmFails
  <2>2. Held' = Held \ {page[k]}
    BY <2>1 DEF Held, MemPagesKept
  <2> QED
    BY <1>0, <2>1, <2>2 DEF MemPagesKept
<1>4. CASE CleanReadable(k)
  <2>1. /\ page' = page
        /\ \/ extrasPage' = NoPage /\ extrasPage \in Pages \ free /\ free' = free \cup {extrasPage}
           \/ extrasPage' = extrasPage /\ free' = free
    BY <1>0, <1>4, PoolMoves DEF CleanReadable
  <2>2. CASE extrasPage' = extrasPage /\ free' = free
    BY <1>0, <2>1, <2>2 DEF MemPagesKept, Held
  <2>3. CASE extrasPage' = NoPage /\ extrasPage \in Pages \ free /\ free' = free \cup {extrasPage}
    <3>1. Held' = Held \ {extrasPage}
      BY <2>1, <2>3 DEF Held, MemPagesKept
    <3> QED
      BY <1>0, <2>1, <2>3, <3>1 DEF MemPagesKept
  <2> QED
    BY <2>1, <2>2, <2>3
<1>5. CASE MapStep(k)
  <2>1. UNCHANGED <<extrasPage, page, free>>
    BY <1>5 DEF MapStep, memVars
  <2> QED
    BY <1>0, <2>1 DEF MemPagesKept, Held
<1> QED
  BY <1>1, <1>2, <1>3, <1>4, <1>5

\* The steps that only move the map keep the relation of pages to calls.
LEMMA MapStepMatches ==
    ASSUME MapInv, MemTypeOK, PageMatches, NEW k \in Kids, MapStep(k)
    PROVE  PageMatches'
<1>a. \A j \in Kids \ {k} : at'[j] = at[j] /\ freed'[j] = freed[j]
  BY OthersStay, MapInvParts, MemDrivesMap
<1>b. UNCHANGED <<extrasPage, content, page>>
  BY DEF MapStep, memVars
<1>c. /\ at[k] \in {"wFree", "aborting"} => freed[k] # "no" /\ freeing[k] = "no"
      /\ freed[k] # "no" => freeing[k] = "lock" \/ at[k] \in {"wFree", "aborting"}
      /\ freeing[k] # "no" => at[k] \in {"reading", "kept", "writing", "written", "stale"}
      /\ freeing[k] = "lock" /\ lockpc[F(k)] = "testReaders" => freed[k] = "no"
      /\ at[k] = "wBegin" => state = "Empty"
      /\ \A j \in Kids : at[j] = "written" => state = "Writeable"
  BY MapInvParts DEF LocksMatch, StateMatches, FreeLock
<1>d. /\ at \in [Kids -> AtPoints] /\ freed \in [Kids -> {"no", "clear", "empty", "count"}]
      /\ freeing \in [Kids -> {"no", "lock", "mark"}]
  BY MapInvParts DEF TypeOK
<1>e. PageMatches'
  <2> USE <1>a, <1>b, <1>c, <1>d DEF Goto, lockVars, slotVars, history, PageMatches
  <2> HIDE DEF E, F
  <2>1. CASE \E key \in Keys : OpenForWriting(k, key)  BY <2>1 DEF OpenForWriting
  <2>2. CASE \E key \in Keys : OpenForReading(k, key)  BY <2>2 DEF OpenForReading
  <2>3. CASE OpenForWritingTest(k)  BY <2>3 DEF OpenForWritingTest
  <2>4. CASE OpenForWritingRefused(k)  BY <2>4 DEF OpenForWritingRefused
  <2>5. CASE OpenForWritingLocked(k)  BY <2>5 DEF OpenForWritingLocked
  <2>6. CASE OpenForWritingBegin(k)  BY <2>6 DEF OpenForWritingBegin
  <2>7. CASE CloseForWriting(k)  BY <2>7 DEF CloseForWriting
  <2>8. CASE OpenForReadingTest(k)  BY <2>8 DEF OpenForReadingTest
  <2>9. CASE OpenForReadingRefused(k)  BY <2>9 DEF OpenForReadingRefused
  <2>10. CASE OpenForReadingCheck(k)  BY <2>10 DEF OpenForReadingCheck
  <2>11. CASE OpenForReadingUnlock(k)  BY <2>11 DEF OpenForReadingUnlock
  <2>12. CASE CloseForReading(k)  BY <2>12 DEF CloseForReading
  <2>13. CASE Forget(k)  BY <2>13 DEF Forget
  <2>14. CASE at[k] = "stale" /\ Free(k)  BY <2>14 DEF Free
  <2>15. CASE FreeTest(k)
    <3>1. freed[k] = "no"
      BY <2>15, <1>c DEF FreeTest, Lock!LockExclusiveTest, Lock!Goto
    <3> QED
      BY <2>15, <3>1 DEF FreeTest
  <2>16. CASE FreeRefused(k)  BY <2>16 DEF FreeRefused
  <2>17. CASE FreeMark(k)  BY <2>17 DEF FreeMark, FreeReturns
  <2>18. CASE FreeLockedEmpty(k)  BY <2>18 DEF FreeLockedEmpty
  <2>19. CASE FreeLockedCount(k)  BY <2>19 DEF FreeLockedCount, FreeLockedReturns, FreeReturns
  <2> QED
    BY <2>1, <2>2, <2>3, <2>4, <2>5, <2>6, <2>7, <2>8, <2>9, <2>10, <2>11, <2>12, <2>13, <2>14,
       <2>15, <2>16, <2>17, <2>18, <2>19 DEF MapStep
<1> QED
  BY <1>e

\* Every step keeps the relation of pages to calls and to the stored entry.
LEMMA MatchesStep ==
    ASSUME MapInv, MemTypeOK, PageMatches, MemPagesKept, NEW k \in Kids,
           CopyToShm(k) \/ CopiedToShm(k) \/ CopyToShmFails(k) \/ CleanReadable(k) \/ MapStep(k)
    PROVE  PageMatches'
<1>0. /\ page \in [Kids -> Pages \cup {NoPage}] /\ content \in [Pages -> 0 .. MaxWrites]
      /\ extrasPage \in Pages \cup {NoPage} /\ NoPage \notin Pages
      /\ at \in [Kids -> AtPoints] /\ freed \in [Kids -> {"no", "clear", "empty", "count"}]
  BY PagesAssumption, MapInvParts DEF MemTypeOK, TypeOK
<1>1. CASE CopyToShm(k)
  <2>1. PICK p \in free : page' = [page EXCEPT ![k] = p]
    BY <1>1 DEF CopyToShm
  <2> QED
    BY <1>0, <1>1, <2>1 DEF CopyToShm, PageMatches, vars, lockVars, slotVars
<1>2. CASE CopiedToShm(k)
  <2>1. /\ at[k] = "writing" /\ page[k] \in Pages /\ extrasPage' = page[k]
        /\ at' = [at EXCEPT ![k] = "written"] /\ freed' = freed
        /\ page' = [page EXCEPT ![k] = NoPage]
        /\ content'[page[k]] = written' /\ entry'.version = written'
        /\ state' = state
    BY <1>0, <1>2 DEF CopiedToShm, SetEntry, Goto
  <2>2. \A j \in Kids : freed[j] # "empty"
    <3>1. Writer(k)
      BY <2>1 DEF Writer
    <3>2. \A j \in Kids : ~Freer(j) /\ (Writer(j) => j = k)
      BY <3>1, HolderAlone, MapInvParts
    <3> QED
      BY <2>1, <3>2, MapInvParts DEF LocksMatch, Writer, Freer
  <2> QED
    BY <1>0, <2>1, <2>2 DEF PageMatches
<1>3. CASE CopyToShmFails(k)
  <2>1. /\ at[k] = "writing" /\ at' = [at EXCEPT ![k] = "aborting"]
        /\ freed' = [freed EXCEPT ![k] = "clear"] /\ freed[k] # "empty"
        /\ page' = [page EXCEPT ![k] = NoPage]
        /\ UNCHANGED <<extrasPage, content, entry, state>>
    BY <1>3, MapInvParts DEF CopyToShmFails, AbortWriting, LocksMatch, slotVars
  <2> QED
    BY <1>0, <2>1 DEF PageMatches
<1>4. CASE CleanReadable(k)
  <2>1. /\ freed[k] = "clear" /\ freed' = [freed EXCEPT ![k] = "empty"]
        /\ UNCHANGED <<at, state, entry, content, page>>
        /\ IF state = "Readable" THEN extrasPage' = NoPage ELSE extrasPage' = extrasPage
    BY <1>4 DEF CleanReadable, FreeLockedClear
  <2>2. Writer(k) \/ Freer(k)
    BY <2>1, MapInvParts DEF LocksMatch, Writer, Freer
  <2>3. \A j \in Kids : at[j] # "written"
    <3> SUFFICES ASSUME NEW j \in Kids, at[j] = "written" PROVE FALSE
      OBVIOUS
    <3>1. Writer(j)
      BY DEF Writer
    <3>2. j = k /\ ~Freer(k)
      BY <2>2, <3>1, HolderAlone, MapInvParts
    <3> QED
      BY <2>1, <3>2, MapInvParts DEF LocksMatch, Freer
  <2>4. extrasPage' = NoPage
    BY <2>1, <2>3 DEF PageMatches
  <2> QED
    BY <1>0, <2>1, <2>3, <2>4 DEF PageMatches
<1>5. CASE MapStep(k)
  BY <1>5, MapStepMatches
<1> QED
  BY <1>1, <1>2, <1>3, <1>4, <1>5

\* Every step keeps the types.
LEMMA MemTypeStep ==
    ASSUME MapInv, MapInv', MemTypeOK, NEW k \in Kids, free' \in SUBSET Pages,
           CopyToShm(k) \/ CopiedToShm(k) \/ CopyToShmFails(k) \/ CleanReadable(k) \/ MapStep(k)
    PROVE  MemTypeOK'
<1>0. TypeOK' /\ NoPage \notin Pages /\ written' \in 0 .. MaxWrites
  BY PagesAssumption DEF MapInv, TypeOK
<1>1. /\ extrasPage' \in Pages \cup {NoPage}
      /\ page' \in [Kids -> Pages \cup {NoPage}]
  BY DEF MemTypeOK, CopyToShm, CopiedToShm, CopyToShmFails, CleanReadable, MapStep, memVars
<1>2. content' \in [Pages -> 0 .. MaxWrites]
  <2> DEFINE versions == 0 .. MaxWrites
  <2>1. content' = content \/ \E p \in Pages : content' = [content EXCEPT ![p] = written']
    BY DEF MemTypeOK, CopyToShm, CopiedToShm, CopyToShmFails, CleanReadable, MapStep, memVars
  <2>2. content \in [Pages -> versions] /\ written' \in versions
    BY <1>0 DEF MemTypeOK
  <2> HIDE DEF versions
  <2>3. content' \in [Pages -> versions]
    BY <2>1, <2>2
  <2> QED
    BY <2>3 DEF versions
<1>3. theCurrentSize' \in [Kids -> 0 .. SizeRange - 1]
  <2> DEFINE sizes == 0 .. SizeRange - 1
  <2>1. \A n \in sizes : (n + 1) % SizeRange \in sizes /\ (n - 1) % SizeRange \in sizes
    BY SizeRangeAssumption
  <2>2. theCurrentSize \in [Kids -> sizes]
    BY DEF MemTypeOK
  <2>3. \/ theCurrentSize' = theCurrentSize
        \/ theCurrentSize' = [theCurrentSize EXCEPT ![k] = (theCurrentSize[k] + 1) % SizeRange]
        \/ theCurrentSize' = [theCurrentSize EXCEPT ![k] = (theCurrentSize[k] - 1) % SizeRange]
    BY DEF CopyToShm, CopiedToShm, CopyToShmFails, CleanReadable, MapStep, memVars
  <2> HIDE DEF sizes
  <2>4. theCurrentSize' \in [Kids -> sizes]
    BY <2>1, <2>2, <2>3
  <2> QED
    BY <2>4 DEF sizes
<1> QED
  BY <1>0, <1>1, <1>2, <1>3 DEF MemTypeOK

\* MemInv holds initially and is kept by every step.
LEMMA MemInvInit == MemInit => MemInv
<1> SUFFICES ASSUME MemInit PROVE MemInv
  OBVIOUS
<1>1. MapInv
  BY MapInvInit DEF MemInit
<1>2. MemTypeOK
  <2>1. 0 \in 0 .. MaxWrites /\ 0 \in 0 .. SizeRange - 1
    BY MaxWritesAssumption, SizeRangeAssumption
  <2> QED
    BY <1>1, <2>1 DEF MemInit, MemTypeOK, MapInv
<1>3. PageMatches
  BY DEF MemInit, Init, PageMatches
<1>4. MemPagesKept
  BY DEF MemInit, MemPagesKept, Held
<1> QED
  BY <1>1, <1>2, <1>3, <1>4 DEF MemInv

LEMMA MemInvStep == MemInv /\ [MemNext]_memAllVars => MemInv'
<1> SUFFICES ASSUME MemInv, [MemNext]_memAllVars PROVE MemInv'
  OBVIOUS
<1>0. MapInv /\ MapInv' /\ MemTypeOK /\ PageMatches /\ MemPagesKept
  BY MapInvMemStep DEF MemInv
<1>1. CASE UNCHANGED memAllVars
  <2>1. UNCHANGED vars /\ UNCHANGED memVars
    BY <1>1 DEF memAllVars
  <2>2. MemTypeOK'
    BY <1>0, <2>1 DEF MemTypeOK, memVars, MapInv
  <2>3. PageMatches' /\ MemPagesKept'
    BY <1>0, <2>1 DEF memVars, PageMatches, MemPagesKept, Held, vars, slotVars
  <2> QED
    BY <1>0, <2>2, <2>3 DEF MemInv
<1>2. CASE MemNext
  <2> PICK k \in Kids :
        CopyToShm(k) \/ CopiedToShm(k) \/ CopyToShmFails(k) \/ CleanReadable(k) \/ MapStep(k)
    BY <1>2 DEF MemNext
  <2>1. MemPagesKept' /\ free' \in SUBSET Pages
    BY <1>0, PagesStep
  <2>2. PageMatches'
    BY <1>0, MatchesStep
  <2>3. MemTypeOK'
    BY <1>0, <2>1, MemTypeStep
  <2> QED
    BY <1>0, <2>1, <2>2, <2>3 DEF MemInv
<1> QED
  BY <1>1, <1>2

\* MemInv is an invariant of the shared memory cache.
THEOREM MemInvariant == MemSpec => []MemInv
  BY MemInvInit, MemInvStep, PTL DEF MemSpec

(***************************************************************************)
(* No page of the shared memory cache is lost or given back twice.         *)
(***************************************************************************)
THEOREM MemPagesNeverLost == MemSpec => []MemPagesKept
<1>1. MemInv => MemPagesKept
  BY DEF MemInv
<1> QED
  BY <1>1, MemInvariant, PTL

(***************************************************************************)
(* While an entry is open for reading, the page of the slot is in use and  *)
(* holds the data of that entry, although copyFromShm() locks no page.     *)
(***************************************************************************)
THEOREM ReadersCopyTheirEntry == MemSpec => []ReaderSeesItsData
<1>1. MemInv => ReaderSeesItsData
  <2> SUFFICES ASSUME MemInv, NEW k \in Kids, at[k] = "reading"
               PROVE  extrasPage \in Pages \ free /\ content[extrasPage] = opened[k].version
    BY DEF ReaderSeesItsData
  <2>0. MapInv /\ MemTypeOK /\ PageMatches /\ MemPagesKept
    BY DEF MemInv
  <2>1. state = "Readable" /\ opened[k] = entry
    BY <2>0, MapInvParts DEF StateMatches, EntryMatches
  <2>2. \A j \in Kids : freed[j] # "empty"
    <3>1. \A j \in Kids : ~Writer(j) /\ ~Freer(j)
      BY <2>0, HolderAlone, MapInvParts DEF Reader
    <3> QED
      BY <2>0, <3>1, MapInvParts DEF LocksMatch, Writer, Freer
  <2>3. extrasPage # NoPage /\ content[extrasPage] = entry.version
    BY <2>0, <2>1, <2>2 DEF PageMatches
  <2>4. extrasPage \in Held
    BY <2>3 DEF Held
  <2> QED
    BY <2>0, <2>1, <2>3, <2>4 DEF MemPagesKept
<1> QED
  BY <1>1, MemInvariant, PTL

-----------------------------------------------------------------------------
(* The space in use                                                        *)

Stored == IF extrasPage = NoPage THEN 0 ELSE 1

\* The counters add up to the space in use, but for whole turns of the counter.
Balanced == \E q \in Int : Total(theCurrentSize, Kids) = Stored + q * SizeRange

\* A counter moves by one, or wraps.
LEMMA CounterMoves ==
    ASSUME NEW c \in 0 .. SizeRange - 1
    PROVE  /\ \E w \in {0, 1} : (c + 1) % SizeRange = c + 1 - w * SizeRange
           /\ \E w \in {0, 1} : (c - 1) % SizeRange = c - 1 + w * SizeRange
<1>1. SizeRange \in Nat /\ SizeRange > 1
  BY SizeRangeAssumption
<1>2. (c + 1) % SizeRange = c + 1 \/ (c + 1) % SizeRange = c + 1 - SizeRange
  <2>1. CASE c + 1 < SizeRange
    BY <1>1, <2>1
  <2>2. CASE c + 1 = SizeRange
    BY <1>1, <2>2
  <2> QED
    BY <1>1, <2>1, <2>2
<1>3. (c - 1) % SizeRange = c - 1 \/ (c - 1) % SizeRange = c - 1 + SizeRange
  <2>1. CASE c > 0
    BY <1>1, <2>1
  <2>2. CASE c = 0
    BY <1>1, <2>2
  <2> QED
    BY <1>1, <2>1, <2>2
<1> QED
  BY <1>1, <1>2, <1>3

\* Whole turns of the counter do not show in its value.
LEMMA TurnsVanish ==
    ASSUME NEW N \in Nat \ {0, 1}, NEW q \in Int, NEW u \in 0 .. N - 1
    PROVE  (u + q * N) % N = u
  OBVIOUS

LEMMA BalancedInit == MemInit => Balanced
<1> SUFFICES ASSUME MemInit PROVE Balanced
  OBVIOUS
<1>1. theCurrentSize = [k \in Kids |-> 0] /\ Stored = 0
  BY DEF MemInit, Stored
<1>2. Total(theCurrentSize, Kids) = 0
  BY <1>1, KidsAssumption, TotalZero
<1>3. 0 = 0 + 0 * SizeRange
  BY SizeRangeAssumption
<1> QED
  BY <1>1, <1>2, <1>3 DEF Balanced

\* What a step does to the page of the slot and to the counters: an entry that
\* is stored is counted by the kid that stores it, one that is cleaned is
\* discounted by the kid that cleans it, and nothing else is counted.
LEMMA CountedOnce ==
    ASSUME MapInv, MemTypeOK, PageMatches, MemPagesKept, NEW k \in Kids,
           CopyToShm(k) \/ CopiedToShm(k) \/ CopyToShmFails(k) \/ CleanReadable(k) \/ MapStep(k)
    PROVE  \/ theCurrentSize' = theCurrentSize /\ Stored' = Stored
           \/ /\ theCurrentSize' = [theCurrentSize EXCEPT ![k] = (theCurrentSize[k] + 1) % SizeRange]
              /\ Stored = 0 /\ Stored' = 1
           \/ /\ theCurrentSize' = [theCurrentSize EXCEPT ![k] = (theCurrentSize[k] - 1) % SizeRange]
              /\ Stored = 1 /\ Stored' = 0
<1>0. /\ free \in SUBSET Pages /\ page \in [Kids -> Pages \cup {NoPage}]
      /\ extrasPage \in Pages \cup {NoPage} /\ NoPage \notin Pages
  BY PagesAssumption DEF MemTypeOK
<1>1. CASE CopyToShm(k) \/ CopyToShmFails(k) \/ MapStep(k)
  BY <1>1 DEF CopyToShm, CopyToShmFails, MapStep, memVars, Stored
<1>2. CASE CopiedToShm(k)
  <2>1. at[k] = "writing" /\ page[k] # NoPage /\ extrasPage' = page[k]
    BY <1>2 DEF CopiedToShm, SetEntry, Goto
  <2>2. extrasPage = NoPage
    <3>1. \A j \in Kids : Writer(j) => j = k
      BY <2>1, HolderAlone, MapInvParts DEF Writer
    <3> QED
      BY <2>1, <3>1, MapInvParts DEF PageMatches, StateMatches, Writer
  <2> QED
    BY <1>2, <2>1, <2>2 DEF CopiedToShm, Stored
<1>3. CASE CleanReadable(k)
  <2>1. CASE state = "Readable"
    <3>1. extrasPage \in Pages \ free /\ extrasPage' = NoPage
      BY <1>0, <1>3, <2>1, PoolMoves DEF CleanReadable
    <3> QED
      BY <1>0, <1>3, <2>1, <3>1 DEF CleanReadable, Stored
  <2>2. CASE state # "Readable"
    BY <1>3, <2>2 DEF CleanReadable, Stored
  <2> QED
    BY <2>1, <2>2
<1> QED
  BY <1>1, <1>2, <1>3

LEMMA BalancedStep == MemInv /\ Balanced /\ [MemNext]_memAllVars => Balanced'
<1> SUFFICES ASSUME MemInv, Balanced, [MemNext]_memAllVars PROVE Balanced'
  OBVIOUS
<1>0. /\ MapInv /\ MemTypeOK /\ PageMatches /\ MemPagesKept
      /\ SizeRange \in Nat /\ SizeRange > 1
  BY SizeRangeAssumption DEF MemInv
<1>1. theCurrentSize \in [Kids -> Int] /\ \A j \in Kids : theCurrentSize[j] \in 0 .. SizeRange - 1
  <2>1. theCurrentSize \in [Kids -> 0 .. SizeRange - 1] /\ 0 .. SizeRange - 1 \subseteq Int
    BY <1>0 DEF MemTypeOK
  <2> QED
    BY <2>1
<1>2. PICK q \in Int : Total(theCurrentSize, Kids) = Stored + q * SizeRange
  BY DEF Balanced
<1>3. CASE theCurrentSize' = theCurrentSize /\ Stored' = Stored
  BY <1>2, <1>3 DEF Balanced
<1>4. ASSUME NEW k \in Kids, NEW v \in Int, theCurrentSize' = [theCurrentSize EXCEPT ![k] = v]
      PROVE  Total(theCurrentSize', Kids) = Total(theCurrentSize, Kids) + (v - theCurrentSize[k])
  <2>1. PICK c \in [Kids -> Int] : c = theCurrentSize
    BY <1>1
  <2>2. PICK d : d = theCurrentSize'
    OBVIOUS
  <2>3. d = [c EXCEPT ![k] = v]
    BY <1>4, <2>1, <2>2
  <2>4. Total(d, Kids) = Total(c, Kids) + (v - c[k])
    BY <2>3, KidsAssumption, TotalChanges
  <2> QED
    BY <2>1, <2>2, <2>4
<1>5. ASSUME NEW k \in Kids, Stored = 0, Stored' = 1,
             theCurrentSize' = [theCurrentSize EXCEPT ![k] = (theCurrentSize[k] + 1) % SizeRange]
      PROVE  Balanced'
  <2>1. PICK w \in {0, 1} : (theCurrentSize[k] + 1) % SizeRange = theCurrentSize[k] + 1 - w * SizeRange
    BY <1>1, CounterMoves
  <2>2. PICK c \in Int : c = theCurrentSize[k]
    BY <1>1
  <2>3. Total(theCurrentSize', Kids)
          = Total(theCurrentSize, Kids) + ((c + 1 - w * SizeRange) - c)
    <3>1. PICK v \in Int : v = c + 1 - w * SizeRange
      BY <1>0
    <3>2. theCurrentSize' = [theCurrentSize EXCEPT ![k] = v]
      BY <1>5, <2>1, <2>2, <3>1
    <3> QED
      BY <1>4, <2>2, <3>1, <3>2
  <2>4. Total(theCurrentSize', Kids) = Stored' + (q - w) * SizeRange /\ q - w \in Int
    BY <1>0, <1>2, <1>5, <2>3
  <2> QED
    BY <2>4 DEF Balanced
<1>6. ASSUME NEW k \in Kids, Stored = 1, Stored' = 0,
             theCurrentSize' = [theCurrentSize EXCEPT ![k] = (theCurrentSize[k] - 1) % SizeRange]
      PROVE  Balanced'
  <2>1. PICK w \in {0, 1} : (theCurrentSize[k] - 1) % SizeRange = theCurrentSize[k] - 1 + w * SizeRange
    BY <1>1, CounterMoves
  <2>2. PICK c \in Int : c = theCurrentSize[k]
    BY <1>1
  <2>3. Total(theCurrentSize', Kids)
          = Total(theCurrentSize, Kids) + ((c - 1 + w * SizeRange) - c)
    <3>1. PICK v \in Int : v = c - 1 + w * SizeRange
      BY <1>0
    <3>2. theCurrentSize' = [theCurrentSize EXCEPT ![k] = v]
      BY <1>6, <2>1, <2>2, <3>1
    <3> QED
      BY <1>4, <2>2, <3>1, <3>2
  <2>4. Total(theCurrentSize', Kids) = Stored' + (q + w) * SizeRange /\ q + w \in Int
    BY <1>0, <1>2, <1>6, <2>3
  <2> QED
    BY <2>4 DEF Balanced
<1>7. CASE UNCHANGED memAllVars
  BY <1>3, <1>7 DEF memAllVars, memVars, Stored
<1>8. CASE MemNext
  <2> PICK k \in Kids :
        CopyToShm(k) \/ CopiedToShm(k) \/ CopyToShmFails(k) \/ CleanReadable(k) \/ MapStep(k)
    BY <1>8 DEF MemNext
  <2> QED
    BY <1>0, <1>3, <1>5, <1>6, CountedOnce
<1> QED
  BY <1>7, <1>8

(***************************************************************************)
(* The counters of all kids add up to the space in use, modulo the range   *)
(* of the counter: cleanReadable() by one kid of what keep() of another    *)
(* stored may wrap its theCurrentSize, but never counts an entry twice.    *)
(***************************************************************************)
THEOREM CountersAddUp == MemSpec => []SizesAddUp
<1>1. MemSpec => []Balanced
  BY BalancedInit, BalancedStep, MemInvariant, PTL DEF MemSpec
<1>2. Balanced => SizesAddUp
  <2> SUFFICES ASSUME Balanced PROVE SizesAddUp
    OBVIOUS
  <2>1. PICK q \in Int : Total(theCurrentSize, Kids) = Stored + q * SizeRange
    BY DEF Balanced
  <2>2. Stored \in 0 .. SizeRange - 1
    BY SizeRangeAssumption DEF Stored
  <2>3. Total(theCurrentSize, Kids) % SizeRange = Stored
    BY <2>1, <2>2, SizeRangeAssumption, TurnsVanish
  <2> QED
    BY <2>3 DEF SizesAddUp, Total, Stored
<1> QED
  BY <1>1, <1>2, PTL
=============================================================================
