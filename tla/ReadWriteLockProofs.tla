------------------------ MODULE ReadWriteLockProofs ------------------------
(***************************************************************************)
(* Proofs, for any finite set of kid processes, that Ipc::ReadWriteLock    *)
(* keeps exact counts, excludes, and implements an atomic shared/exclusive *)
(* lock.                                                                   *)
(*                                                                         *)
(* The inductive invariant is LockInv.  Exclusion alone is not inductive:  *)
(* a successful test of a counter against zero says something about the    *)
(* other processes only because the counters are exact (CountersExact),    *)
(* and a first writer testing the readers has no rival exclusive holder    *)
(* only because of OneFirstWriter.                                         *)
(***************************************************************************)
EXTENDS ReadWriteLock, FiniteSetTheorems, TLAPS

\* 1 when a counter counts the processes at a control point, 0 otherwise.
Joins(point, counted) == IF point \in counted THEN 1 ELSE 0

\* Cardinality of a set of processes when one process joins or leaves it.
LEMMA CountChange ==
    ASSUME NEW S \in SUBSET Procs, NEW p \in Procs
    PROVE  /\ Cardinality(S) \in Nat
           /\ Cardinality(S) = 0 => S = {}
           /\ p \notin S => Cardinality(S \cup {p}) = Cardinality(S) + 1
           /\ p \in S => /\ Cardinality(S \ {p}) = Cardinality(S) - 1
                         /\ Cardinality(S) > 0
<1>1. IsFiniteSet(S)
  BY FS_Subset, ProcsAssumption
<1>2. Cardinality(S) \in Nat /\ (Cardinality(S) = 0 => S = {})
  BY <1>1, FS_CardinalityType, FS_EmptySet
<1>3. p \notin S => Cardinality(S \cup {p}) = Cardinality(S) + 1
  BY <1>1, FS_AddElement
<1>4. p \in S => Cardinality(S \ {p}) = Cardinality(S) - 1
  BY <1>1, FS_RemoveElement
<1>5. p \in S => Cardinality(S) > 0
  BY <1>2
<1> QED
  BY <1>2, <1>3, <1>4, <1>5

\* How one process moving between control points changes the counters.
LEMMA MoveChange ==
    ASSUME TypeOK, CountersExact, NEW p \in Procs, NEW to \in Points,
           pc' = [pc EXCEPT ![p] = to]
    PROVE  /\ pc' \in [Procs -> Points]
           /\ Cardinality(CountedReaders') = readers + Joins(to, ReaderPoints)
                                                    - Joins(pc[p], ReaderPoints)
           /\ Cardinality(CountedWriters') = writers + Joins(to, WriterPoints)
                                                    - Joins(pc[p], WriterPoints)
           /\ pc[p] \in ReaderPoints => readers > 0
           /\ pc[p] \in WriterPoints => writers > 0
<1> DEFINE R == CountedReaders
           W == CountedWriters
<1>1. /\ pc' \in [Procs -> Points]
      /\ R' = IF to \in ReaderPoints THEN R \cup {p} ELSE R \ {p}
      /\ W' = IF to \in WriterPoints THEN W \cup {p} ELSE W \ {p}
      /\ p \in R <=> pc[p] \in ReaderPoints
      /\ p \in W <=> pc[p] \in WriterPoints
  BY DEF TypeOK, CountedReaders, CountedWriters
<1>2. R \in SUBSET Procs /\ W \in SUBSET Procs
  BY DEF CountedReaders, CountedWriters
<1>3. readers = Cardinality(R) /\ writers = Cardinality(W)
      /\ readers \in Nat /\ writers \in Nat
  BY DEF TypeOK, CountersExact
<1> HIDE DEF R, W
<1>4. Cardinality(R') = readers + Joins(to, ReaderPoints) - Joins(pc[p], ReaderPoints)
  <2>1. CASE to \in ReaderPoints /\ p \notin R
    <3>1. R' = R \cup {p}
      BY <1>1, <2>1
    <3>2. Cardinality(R') = readers + 1
      BY <3>1, <1>2, <1>3, <2>1, CountChange
    <3> QED
      BY <1>1, <1>3, <2>1, <3>2 DEF Joins
  <2>2. CASE to \notin ReaderPoints /\ p \in R
    <3>1. R' = R \ {p}
      BY <1>1, <2>2
    <3>2. Cardinality(R') = readers - 1
      BY <3>1, <1>2, <1>3, <2>2, CountChange
    <3> QED
      BY <1>1, <1>3, <2>2, <3>2 DEF Joins
  <2>3. CASE (to \in ReaderPoints) <=> (p \in R)
    <3>1. R' = R
      BY <1>1, <2>3
    <3>2. Cardinality(R') = readers
      BY <3>1, <1>3
    <3> QED
      BY <1>1, <1>3, <2>3, <3>2 DEF Joins
  <2> QED
    BY <2>1, <2>2, <2>3
<1>5. Cardinality(W') = writers + Joins(to, WriterPoints) - Joins(pc[p], WriterPoints)
  <2>1. CASE to \in WriterPoints /\ p \notin W
    <3>1. W' = W \cup {p}
      BY <1>1, <2>1
    <3>2. Cardinality(W') = writers + 1
      BY <3>1, <1>2, <1>3, <2>1, CountChange
    <3> QED
      BY <1>1, <1>3, <2>1, <3>2 DEF Joins
  <2>2. CASE to \notin WriterPoints /\ p \in W
    <3>1. W' = W \ {p}
      BY <1>1, <2>2
    <3>2. Cardinality(W') = writers - 1
      BY <3>1, <1>2, <1>3, <2>2, CountChange
    <3> QED
      BY <1>1, <1>3, <2>2, <3>2 DEF Joins
  <2>3. CASE (to \in WriterPoints) <=> (p \in W)
    <3>1. W' = W
      BY <1>1, <2>3
    <3>2. Cardinality(W') = writers
      BY <3>1, <1>3
    <3> QED
      BY <1>1, <1>3, <2>3, <3>2 DEF Joins
  <2> QED
    BY <2>1, <2>2, <2>3
<1>6. /\ p \in R => readers > 0
      /\ p \in W => writers > 0
  BY <1>2, <1>3, CountChange
<1> QED
  BY <1>1, <1>4, <1>5, <1>6 DEF R, W

\* Every counter is the number of processes it counts, after every step.
LEMMA CountersStep ==
    ASSUME TypeOK, CountersExact, NEW p \in Procs, Step(p)
    PROVE  TypeOK' /\ CountersExact'
<1>1. \A to \in Points :
        pc' = [pc EXCEPT ![p] = to] =>
           /\ pc' \in [Procs -> Points]
           /\ Cardinality(CountedReaders') = readers + Joins(to, ReaderPoints)
                                                    - Joins(pc[p], ReaderPoints)
           /\ Cardinality(CountedWriters') = writers + Joins(to, WriterPoints)
                                                    - Joins(pc[p], WriterPoints)
           /\ pc[p] \in ReaderPoints => readers > 0
           /\ pc[p] \in WriterPoints => writers > 0
  BY MoveChange
<1>2. readers \in Nat /\ writers \in Nat
  BY DEF TypeOK
<1>3. SUFFICES /\ pc' \in [Procs -> Points]
               /\ readers' = Cardinality(CountedReaders') /\ readers' \in Nat
               /\ writers' = Cardinality(CountedWriters') /\ writers' \in Nat
  BY DEF TypeOK, CountersExact
<1> USE <1>1, <1>2 DEF Goto, Joins, ReaderPoints, WriterPoints, Points
<1>a. CASE LockSharedEnter(p)
  BY <1>a DEF LockSharedEnter
<1>b. CASE LockSharedTest(p)
  <2>1. \/ pc' = [pc EXCEPT ![p] = "shared"]
        \/ pc' = [pc EXCEPT ![p] = "undoShared"]
    BY <1>b DEF LockSharedTest
  <2> QED
    BY <1>b, <2>1 DEF LockSharedTest
<1>c. CASE LockSharedUndo(p)
  BY <1>c DEF LockSharedUndo
<1>d. CASE LockExclusiveEnter(p)
  <2>1. \/ pc' = [pc EXCEPT ![p] = "testReaders"]
        \/ pc' = [pc EXCEPT ![p] = "undoExclusive"]
    BY <1>d DEF LockExclusiveEnter
  <2> QED
    BY <1>d, <2>1 DEF LockExclusiveEnter
<1>e. CASE LockExclusiveTest(p)
  <2>1. \/ pc' = [pc EXCEPT ![p] = "exclusive"]
        \/ pc' = [pc EXCEPT ![p] = "undoExclusive"]
    BY <1>e DEF LockExclusiveTest
  <2> QED
    BY <1>e, <2>1 DEF LockExclusiveTest
<1>f. CASE LockExclusiveUndo(p)
  BY <1>f DEF LockExclusiveUndo
<1>g. CASE UnlockShared(p)
  BY <1>g DEF UnlockShared
<1>h. CASE UnlockExclusive(p)
  BY <1>h DEF UnlockExclusive
<1>i. CASE SwitchEnter(p)
  BY <1>i DEF SwitchEnter
<1>j. CASE SwitchLeave(p)
  BY <1>j DEF SwitchLeave
<1> QED
  BY <1>a, <1>b, <1>c, <1>d, <1>e, <1>f, <1>g, <1>h, <1>i, <1>j DEF Step

\* A counter at zero means that nobody is at one of its control points.
LEMMA ZeroMeansNobody ==
    ASSUME CountersExact
    PROVE  /\ readers = 0 => \A q \in Procs : pc[q] \notin ReaderPoints
           /\ writers = 0 => \A q \in Procs : pc[q] \notin WriterPoints
<1>1. CountedReaders \in SUBSET Procs /\ CountedWriters \in SUBSET Procs
  BY DEF CountedReaders, CountedWriters
<1>2. IsFiniteSet(CountedReaders) /\ IsFiniteSet(CountedWriters)
  BY <1>1, FS_Subset, ProcsAssumption
<1>3. /\ readers = 0 => CountedReaders = {}
      /\ writers = 0 => CountedWriters = {}
  BY <1>2, FS_EmptySet DEF CountersExact
<1> QED
  BY <1>3 DEF CountedReaders, CountedWriters

\* LockInv holds initially and is kept by every step.
LEMMA LockInvInit == Init => LockInv
<1> SUFFICES ASSUME Init PROVE LockInv
  OBVIOUS
<1>1. TypeOK /\ OneFirstWriter /\ Exclusion
  BY DEF Init, TypeOK, OneFirstWriter, Exclusion, Points, ReaderPoints, WriterPoints
<1>2. CountedReaders = {} /\ CountedWriters = {}
  BY DEF Init, CountedReaders, CountedWriters, ReaderPoints, WriterPoints
<1>3. CountersExact
  BY <1>2, FS_EmptySet DEF Init, CountersExact
<1> QED
  BY <1>1, <1>3 DEF LockInv

LEMMA LockInvStep == LockInv /\ [Next]_vars => LockInv'
<1> SUFFICES ASSUME LockInv, [Next]_vars PROVE LockInv'
  OBVIOUS
<1> USE DEF LockInv
<1>1. CASE UNCHANGED vars
  BY <1>1 DEF vars, TypeOK, CountersExact, CountedReaders, CountedWriters,
              OneFirstWriter, Exclusion
<1>2. CASE Next
  <2> PICK p \in Procs : Step(p)
    BY <1>2 DEF Next
  <2>1. TypeOK' /\ CountersExact'
    BY CountersStep
  <2>2. /\ readers = 0 => \A q \in Procs : pc[q] \notin ReaderPoints
        /\ writers = 0 => \A q \in Procs : pc[q] \notin WriterPoints
    BY ZeroMeansNobody
  <2>3. OneFirstWriter' /\ Exclusion'
    <3> USE <2>2 DEF Goto, TypeOK, OneFirstWriter, Exclusion, ReaderPoints, WriterPoints
    <3>1. CASE LockSharedEnter(p)      BY <3>1 DEF LockSharedEnter
    <3>2. CASE LockSharedTest(p)       BY <3>2 DEF LockSharedTest
    <3>3. CASE LockSharedUndo(p)       BY <3>3 DEF LockSharedUndo
    <3>4. CASE LockExclusiveEnter(p)   BY <3>4 DEF LockExclusiveEnter
    <3>5. CASE LockExclusiveTest(p)    BY <3>5 DEF LockExclusiveTest
    <3>6. CASE LockExclusiveUndo(p)    BY <3>6 DEF LockExclusiveUndo
    <3>7. CASE UnlockShared(p)         BY <3>7 DEF UnlockShared
    <3>8. CASE UnlockExclusive(p)      BY <3>8 DEF UnlockExclusive
    <3>9. CASE SwitchEnter(p)          BY <3>9 DEF SwitchEnter
    <3>10. CASE SwitchLeave(p)         BY <3>10 DEF SwitchLeave
    <3> QED
      BY <3>1, <3>2, <3>3, <3>4, <3>5, <3>6, <3>7, <3>8, <3>9, <3>10 DEF Step
  <2> QED
    BY <2>1, <2>3
<1> QED
  BY <1>1, <1>2

\* LockInv is an invariant of the lock.
THEOREM LockInvariant == Spec => []LockInv
  BY LockInvInit, LockInvStep, PTL DEF Spec

(***************************************************************************)
(* Mutual exclusion of lockExclusive() and lockShared(), for any number of *)
(* kids.                                                                   *)
(***************************************************************************)
THEOREM MutualExclusion == Spec => []Exclusion
<1>1. LockInv => Exclusion
  BY DEF LockInv
<1> QED
  BY <1>1, LockInvariant, PTL

(***************************************************************************)
(* The counters never drift: refused attempts take their count back, and   *)
(* the asserts of the two unlock methods hold.                             *)
(***************************************************************************)
THEOREM ExactCounters == Spec => []CountersExact
<1>1. LockInv => CountersExact
  BY DEF LockInv
<1> QED
  BY <1>1, LockInvariant, PTL

\* The types of the shared words and of the control points.
THEOREM TypeCorrect == Spec => []TypeOK
<1>1. LockInv => TypeOK
  BY DEF LockInv
<1> QED
  BY <1>1, LockInvariant, PTL

(***************************************************************************)
(* Refinement: every step of the lock is a step of the atomic              *)
(* shared/exclusive lock, or leaves it unchanged.                          *)
(***************************************************************************)
THEOREM Refinement == Spec => ImplementsSharedExclusive
<1>1. Init => Abstract!Init
  BY DEF Init, Abstract!Init, heldMode, ModeOf
<1>2. LockInv /\ [Next]_vars => [Abstract!Next]_heldMode
  <2> SUFFICES ASSUME LockInv, [Next]_vars PROVE [Abstract!Next]_heldMode
    OBVIOUS
  <2>1. CASE UNCHANGED vars
    BY <2>1 DEF vars, heldMode
  <2>2. CASE Next
    <3> PICK p \in Procs : Step(p)
      BY <2>2 DEF Next
    <3>0. /\ readers = 0 => \A q \in Procs : pc[q] \notin ReaderPoints
          /\ writers = 0 => \A q \in Procs : pc[q] \notin WriterPoints
      BY ZeroMeansNobody DEF LockInv
    <3>a. pc \in [Procs -> Points]
      BY DEF LockInv, TypeOK
    <3>b. ASSUME NEW to, pc' = [pc EXCEPT ![p] = to]
          PROVE  /\ heldMode' = [heldMode EXCEPT ![p] = ModeOf(to)]
                 /\ ModeOf(to) = ModeOf(pc[p]) => heldMode' = heldMode
      BY <3>a, <3>b DEF heldMode
    <3>c. /\ ModeOf("idle") = "none"
          /\ ModeOf("shared") = "shared"
          /\ ModeOf("exclusive") = "exclusive"
          /\ ModeOf("switching") = "exclusive"
      BY DEF ModeOf
    <3>1. CASE LockSharedEnter(p)
      BY <3>1, <3>b DEF LockSharedEnter, Goto, ModeOf, heldMode
    <3>2. CASE LockSharedTest(p)
      <4>1. CASE writers = 0
        <5>1. heldMode' = [heldMode EXCEPT ![p] = "shared"] /\ ModeOf(pc[p]) = "none"
          BY <3>2, <4>1, <3>b DEF LockSharedTest, Goto, ModeOf
        <5>2. \A q \in Procs : ModeOf(pc[q]) # "exclusive"
          BY <3>0, <4>1 DEF ModeOf, WriterPoints
        <5> QED
          BY <5>1, <5>2 DEF heldMode, Abstract!Next, Abstract!AcquireShared
      <4>2. CASE writers # 0
        BY <3>2, <4>2, <3>b DEF LockSharedTest, Goto, ModeOf, heldMode
      <4> QED
        BY <4>1, <4>2
    <3>3. CASE LockSharedUndo(p)
      BY <3>3, <3>b DEF LockSharedUndo, Goto, ModeOf, heldMode
    <3>4. CASE LockExclusiveEnter(p)
      <4>1. PICK to \in {"testReaders", "undoExclusive"} :
                pc[p] = "idle" /\ pc' = [pc EXCEPT ![p] = to]
        BY <3>4 DEF LockExclusiveEnter, Goto
      <4> QED
        BY <4>1, <3>b DEF ModeOf, heldMode
    <3>5. CASE LockExclusiveTest(p)
      <4>1. CASE readers = 0
        <5>1. heldMode' = [heldMode EXCEPT ![p] = "exclusive"] /\ pc[p] = "testReaders"
          BY <3>5, <4>1, <3>b DEF LockExclusiveTest, Goto, ModeOf
        <5>2. \A q \in Procs : pc[q] \notin {"shared", "exclusive", "switching"}
          BY <5>1, <3>0, <4>1 DEF LockInv, OneFirstWriter, ReaderPoints
        <5>3. \A q \in Procs : ModeOf(pc[q]) = "none"
          BY <5>2 DEF ModeOf
        <5> QED
          BY <5>1, <5>3 DEF heldMode, Abstract!Next, Abstract!AcquireExclusive
      <4>2. CASE readers # 0
        BY <3>5, <4>2, <3>b DEF LockExclusiveTest, Goto, ModeOf, heldMode
      <4> QED
        BY <4>1, <4>2
    <3>6. CASE LockExclusiveUndo(p)
      BY <3>6, <3>b DEF LockExclusiveUndo, Goto, ModeOf, heldMode
    <3>7. CASE UnlockShared(p)
      <4>1. heldMode' = [heldMode EXCEPT ![p] = "none"] /\ ModeOf(pc[p]) # "none"
        BY <3>7, <3>b, <3>c DEF UnlockShared, Goto
      <4> QED
        BY <4>1 DEF heldMode, Abstract!Next, Abstract!Release
    <3>8. CASE UnlockExclusive(p)
      <4>1. heldMode' = [heldMode EXCEPT ![p] = "none"] /\ ModeOf(pc[p]) # "none"
        BY <3>8, <3>b, <3>c DEF UnlockExclusive, Goto
      <4> QED
        BY <4>1 DEF heldMode, Abstract!Next, Abstract!Release
    <3>9. CASE SwitchEnter(p)
      BY <3>9, <3>b DEF SwitchEnter, Goto, ModeOf, heldMode
    <3>10. CASE SwitchLeave(p)
      <4>1. heldMode' = [heldMode EXCEPT ![p] = "shared"] /\ ModeOf(pc[p]) = "exclusive"
        BY <3>10, <3>b, <3>c DEF SwitchLeave, Goto
      <4> QED
        BY <4>1 DEF heldMode, Abstract!Next, Abstract!Downgrade
    <3> QED
      BY <3>1, <3>2, <3>3, <3>4, <3>5, <3>6, <3>7, <3>8, <3>9, <3>10 DEF Step
  <2> QED
    BY <2>1, <2>2
<1> QED
  BY <1>1, <1>2, LockInvariant, PTL DEF Spec, ImplementsSharedExclusive, Abstract!Spec
============================================================================
