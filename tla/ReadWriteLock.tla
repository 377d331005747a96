--------------------------- MODULE ReadWriteLock ---------------------------
(***************************************************************************)
(* Ipc::ReadWriteLock (src/ipc/ReadWriteLock.cc): the non-blocking lock    *)
(* that protects every slot of a shared-memory StoreMap.  It is a pair of  *)
(* atomic counters in memory shared by all kid processes.  Each action     *)
(* below is one atomic __sync access to one of the two counters; a         *)
(* process may be preempted between any two of them.                       *)
(***************************************************************************)
EXTENDS Integers, FiniteSets

CONSTANT Procs      \* the kid processes sharing the lock

ASSUME ProcsAssumption == IsFiniteSet(Procs)

VARIABLES
    readers,   \* number of users trying to read
    writers,   \* number of writers trying to modify protected data
    pc         \* pc[p]: where process p is in its current lock call

vars == <<readers, writers, pc>>

(***************************************************************************)
(* Control points.  "idle" holds nothing and calls nothing; "shared" and   *)
(* "exclusive" hold the lock; the others are inside a call:                *)
(*   "testWriters"    lockShared(), readers counted, writers not yet tested*)
(*   "undoShared"     lockShared() refused, readers still to be decremented*)
(*   "testReaders"    lockExclusive(), first writer, readers not yet tested*)
(*   "undoExclusive"  lockExclusive() refused, writers to be decremented   *)
(*   "switching"      switchExclusiveToShared() between its two steps      *)
(***************************************************************************)
ReaderPoints == {"testWriters", "undoShared", "shared", "switching"}
WriterPoints == {"testReaders", "undoExclusive", "exclusive", "switching"}
Points == {"idle"} \cup ReaderPoints \cup WriterPoints

\* The processes that the two counters count.
CountedReaders == {p \in Procs : pc[p] \in ReaderPoints}
CountedWriters == {p \in Procs : pc[p] \in WriterPoints}

Init ==
    /\ readers = 0
    /\ writers = 0
    /\ pc = [p \in Procs |-> "idle"]

Goto(p, from, to) ==
    /\ pc[p] = from
    /\ pc' = [pc EXCEPT ![p] = to]

----------------------------------------------------------------------------
(* lockShared() *)

LockSharedEnter(p) ==                   \* ++readers
    /\ Goto(p, "idle", "testWriters")
    /\ readers' = readers + 1
    /\ UNCHANGED writers

LockSharedTest(p) ==                    \* if (!writers) return true
    /\ Goto(p, "testWriters", IF writers = 0 THEN "shared" ELSE "undoShared")
    /\ UNCHANGED <<readers, writers>>

LockSharedUndo(p) ==                    \* --readers; return false
    /\ Goto(p, "undoShared", "idle")
    /\ readers' = readers - 1
    /\ UNCHANGED writers

(* lockExclusive() *)

LockExclusiveEnter(p) ==                \* if (!writers++)
    /\ Goto(p, "idle", IF writers = 0 THEN "testReaders" ELSE "undoExclusive")
    /\ writers' = writers + 1
    /\ UNCHANGED readers

LockExclusiveTest(p) ==                 \* if (!readers) return true
    /\ Goto(p, "testReaders", IF readers = 0 THEN "exclusive" ELSE "undoExclusive")
    /\ UNCHANGED <<readers, writers>>

\* Faulty variant: a refused writer forgets to take its count back.
LockExclusiveUndoForgets(p) ==
    /\ Goto(p, "undoExclusive", "idle")
    /\ UNCHANGED <<readers, writers>>

LockExclusiveUndo(p) ==                 \* --writers; return false
    /\ Goto(p, "undoExclusive", "idle")
    /\ writers' = writers - 1
    /\ UNCHANGED readers

(* unlocking: the code asserts that the counter was positive *)

UnlockShared(p) ==
    /\ Goto(p, "shared", "idle")
    /\ readers' = readers - 1
    /\ UNCHANGED writers

UnlockExclusive(p) ==
    /\ Goto(p, "exclusive", "idle")
    /\ writers' = writers - 1
    /\ UNCHANGED readers

(* switchExclusiveToShared(): readers first, then unlockExclusive() *)

\* Faulty variant: the writer leaves before it counts itself as a reader.
SwitchEnterUnlocksFirst(p) ==
    /\ Goto(p, "exclusive", "switching")
    /\ writers' = writers - 1
    /\ readers' = readers + 1

SwitchEnter(p) ==
    /\ Goto(p, "exclusive", "switching")
    /\ readers' = readers + 1
    /\ UNCHANGED writers

SwitchLeave(p) ==
    /\ Goto(p, "switching", "shared")
    /\ writers' = writers - 1
    /\ UNCHANGED readers

Step(p) ==
    \/ LockSharedEnter(p)    \/ LockSharedTest(p)    \/ LockSharedUndo(p)
    \/ LockExclusiveEnter(p) \/ LockExclusiveTest(p) \/ LockExclusiveUndo(p)
    \/ UnlockShared(p)       \/ UnlockExclusive(p)
    \/ SwitchEnter(p)        \/ SwitchLeave(p)

Next == \E p \in Procs : Step(p)

Spec == Init /\ [][Next]_vars

----------------------------------------------------------------------------
TypeOK ==
    /\ readers \in Nat
    /\ writers \in Nat
    /\ pc \in [Procs -> Points]

(***************************************************************************)
(* The counters count exactly the processes between an increment and the   *)
(* matching decrement; hence the asserts of unlockShared() and             *)
(* unlockExclusive() (lines 33 and 39) hold, and a lock nobody uses is     *)
(* free again: refused attempts leave no residue.                          *)
(***************************************************************************)
CountersExact ==
    /\ readers = Cardinality(CountedReaders)
    /\ writers = Cardinality(CountedWriters)

\* At most one process passed the "first writer" test and has not left since.
OneFirstWriter ==
    \A p, q \in Procs :
        (/\ pc[p] \in {"testReaders", "exclusive", "switching"}
         /\ pc[q] \in {"testReaders", "exclusive", "switching"})
        => p = q

(***************************************************************************)
(* Mutual exclusion: whoever holds the lock exclusively (up to the moment  *)
(* switchExclusiveToShared() drops the writers count) is the only holder.  *)
(***************************************************************************)
Exclusion ==
    \A p, q \in Procs :
        (/\ pc[p] \in {"exclusive", "switching"}
         /\ pc[q] \in {"shared", "exclusive", "switching"})
        => p = q

\* The inductive invariant behind Exclusion.
LockInv == TypeOK /\ CountersExact /\ OneFirstWriter /\ Exclusion

(***************************************************************************)
(* The lock as its users see it.                                           *)
(***************************************************************************)
ModeOf(point) ==
    CASE point \in {"exclusive", "switching"} -> "exclusive"
      [] point = "shared"                     -> "shared"
      [] OTHER                                -> "none"

heldMode == [p \in Procs |-> ModeOf(pc[p])]

Abstract == INSTANCE SharedExclusive WITH mode <- heldMode

(***************************************************************************)
(* Every call of ReadWriteLock acts like one atomic step of a              *)
(* shared/exclusive lock, or has no effect.                                *)
(***************************************************************************)
ImplementsSharedExclusive == Abstract!Spec

============================================================================
