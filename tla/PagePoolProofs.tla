--------------------------- MODULE PagePoolProofs ---------------------------
(***************************************************************************)
(* Proofs, for any finite set of kids and any capacity, that the lock-free *)
(* page stack loses and duplicates no page, that theSize does not drift,   *)
(* that push() always finds room, and that the stack implements an atomic  *)
(* page allocator.                                                         *)
(*                                                                         *)
(* The inductive invariant is StackInv.  No step that moves a page keeps   *)
(* PagesKept unless the hands of the kids match their control points       *)
(* (HandsMatch); push() finds room because a kid that carries a page       *)
(* leaves at most Capacity - 1 for the slots and theSize never exceeds the *)
(* number of pages in the slots (SizeExact).                               *)
(*                                                                         *)
(* Proofs that the per-purpose page levels do not drift, for any finite    *)
(* set of kids, any capacity and any purposes and limits, and that the     *)
(* free page stack keeps its promises when it is driven by GetPage() and   *)
(* PutPage().                                                              *)
(*                                                                         *)
(* Every step of the pool is a step of the stack or leaves it alone, so    *)
(* StackInv is taken over from the proofs of the stack.  LevelsExact is    *)
(* not inductive alone: the page that pop() delivers must be no caller's,  *)
(* so that it has no purpose (PagesKept), and the page that get() counts   *)
(* must be the one that this call, and no other, has just been given       *)
(* (GotMatches).                                                           *)
(***************************************************************************)
EXTENDS PagePool, FiniteSetTheorems, TLAPS

-----------------------------------------------------------------------------
(* The stack                                                               *)

\* The hints wrap around inside the array of slots.
LEMMA IndexType ==
    ASSUME NEW i \in Slots
    PROVE  next(i) \in Slots /\ prev(i) \in Slots
  BY CapacityAssumption DEF Slots, next, prev

\* The constructor's hints are slots.
LEMMA InitHints == prev(Capacity) \in Slots /\ next(prev(Capacity)) \in Slots
<1>1. prev(Capacity) \in Slots
  BY CapacityAssumption DEF Slots, prev
<1> QED
  BY <1>1, IndexType

\* Every step keeps the types and the relation of hands to control points.
LEMMA TypeStep ==
    ASSUME TypeOK, HandsMatch, NEW p \in Procs, Step(p)
    PROVE  TypeOK' /\ HandsMatch'
<1> USE DEF Goto, SwapIf, Points, PopPoints, PushPoints, HandsMatch, TypeOK, Writable
<1>0. 0 \in Slots /\ \A i \in Slots : next(i) \in Slots /\ prev(i) \in Slots
  BY IndexType, CapacityAssumption DEF Slots
<1>a. CASE PopEnter(p)   BY <1>a DEF PopEnter
<1>b. CASE PopTest(p)    BY <1>b DEF PopTest, stackVars
<1>c. CASE PopIndex(p)   BY <1>c DEF PopIndex, stackVars
<1>d. CASE PopTake(p)    BY <1>d DEF PopTake
<1>e. CASE PopMove(p)    BY <1>0, <1>e DEF PopMove
<1>f. CASE PopHint(p)    BY <1>0, <1>f DEF PopHint
<1>g. CASE PopGiveUp(p)  BY <1>0, <1>g DEF PopGiveUp
<1>h. CASE \E page \in Pages : PushEnter(p, page)
  BY <1>h DEF PushEnter, stackVars, Pages
<1>i. CASE PushTest(p)   BY <1>i DEF PushTest, stackVars
<1>j. CASE PushIndex(p)  BY <1>j DEF PushIndex, stackVars
<1>k. CASE PushStore(p)  BY <1>k DEF PushStore, stackVars
<1>l. CASE PushMove(p)   BY <1>0, <1>l DEF PushMove
<1>m. CASE PushHint(p)   BY <1>m DEF PushHint
<1>n. CASE PushSize(p)   BY <1>0, <1>n DEF PushSize
<1> QED
  BY <1>a, <1>b, <1>c, <1>d, <1>e, <1>f, <1>g, <1>h, <1>i, <1>j, <1>k, <1>l, <1>m, <1>n
  DEF Step, Inside

\* A page moves between the stack, the hands of calls, and the callers.
Unmoved == FreePages' = FreePages /\ Carried' = Carried /\ used' = used
Taken(page) == /\ page \in FreePages
               /\ FreePages' = FreePages \ {page}
               /\ Carried' = Carried \cup {page}
               /\ used' = used
Given(page) == /\ page \in Carried
               /\ FreePages' = FreePages
               /\ Carried' = Carried \ {page}
               /\ used' = used \cup {page}
Returned(page) == /\ page \in used
                  /\ FreePages' = FreePages
                  /\ Carried' = Carried \cup {page}
                  /\ used' = used \ {page}
Stored(page) == /\ page \in Carried
                /\ FreePages' = FreePages \cup {page}
                /\ Carried' = Carried \ {page}
                /\ used' = used

\* The uniqueness parts of PagesKept.
SlotsDiffer == \A i, j \in Readable : theItems[i] = theItems[j] => i = j
HandsDiffer == \A p, q \in Carriers : hand[p] = hand[q] => p = q

\* fetchAndAnd(0) takes the page of the slot, or finds nothing.
LEMMA PopTakeMoves ==
    ASSUME TypeOK, HandsMatch, PagesKept, NEW p \in Procs, PopTake(p)
    PROVE  /\ Unmoved \/ \E page \in Pages : Taken(page)
           /\ SlotsDiffer' /\ HandsDiffer'
<1> DEFINE page == theItems[idx[p]]
<1>1. /\ idx[p] \in Slots /\ hand[p] = 0 /\ page \in Pages \cup {0}
      /\ \A i \in Slots : theItems'[i] = IF i = idx[p] THEN 0 ELSE theItems[i]
      /\ \A q \in Procs : hand'[q] = IF q = p THEN page ELSE hand[q]
      /\ used' = used
  BY DEF PopTake, Goto, TypeOK, HandsMatch, Writable
<1>2. SlotsDiffer /\ HandsDiffer /\ FreePages \cap Carried = {}
  BY DEF PagesKept, SlotsDiffer, HandsDiffer
<1> HIDE DEF page
<1>3. CASE page = 0
  <2>1. theItems[idx[p]] = 0
    BY <1>3 DEF page
  <2>2. /\ Readable' = Readable /\ \A i \in Readable : theItems'[i] = theItems[i]
        /\ Carriers' = Carriers /\ \A q \in Carriers : hand'[q] = hand[q]
    BY <1>1, <1>3, <2>1 DEF Readable, Carriers, Writable
  <2> QED
    BY <1>1, <1>2, <2>2 DEF Unmoved, FreePages, Carried, SlotsDiffer, HandsDiffer
<1>4. CASE page # 0
  <2>1. idx[p] \in Readable /\ theItems[idx[p]] = page /\ page \in Pages
    BY <1>1, <1>4 DEF Readable, page, Writable
  <2>2. /\ Readable' = Readable \ {idx[p]} /\ \A i \in Readable' : theItems'[i] = theItems[i]
        /\ Carriers' = Carriers \cup {p} /\ p \notin Carriers
        /\ \A q \in Carriers : hand'[q] = hand[q]
        /\ hand'[p] = page
    BY <1>1, <1>4 DEF Readable, Carriers, Writable
  <2>3. FreePages' = FreePages \ {page} /\ page \in FreePages
    BY <1>2, <2>1, <2>2 DEF FreePages, SlotsDiffer
  <2>4. Carried' = Carried \cup {page} /\ page \notin Carried
    BY <1>2, <2>2, <2>3 DEF Carried
  <2>5. SlotsDiffer' /\ HandsDiffer'
    BY <1>2, <2>2, <2>4 DEF SlotsDiffer, HandsDiffer, Carried
  <2> QED
    BY <1>1, <2>1, <2>3, <2>4, <2>5 DEF Taken
<1> QED
  BY <1>3, <1>4

\* pop() returns the page to its caller.
LEMMA PopHintMoves ==
    ASSUME TypeOK, HandsMatch, PagesKept, NEW p \in Procs, PopHint(p)
    PROVE  /\ \E page \in Pages : Given(page)
           /\ SlotsDiffer' /\ HandsDiffer'
<1>1. /\ hand[p] \in Pages /\ hand[p] # 0
      /\ theItems' = theItems
      /\ \A q \in Procs : hand'[q] = IF q = p THEN 0 ELSE hand[q]
      /\ used' = used \cup {hand[p]}
  BY DEF PopHint, Goto, TypeOK, HandsMatch
<1>2. SlotsDiffer /\ HandsDiffer
  BY DEF PagesKept, SlotsDiffer, HandsDiffer
<1>3. /\ Readable' = Readable /\ FreePages' = FreePages /\ SlotsDiffer'
  BY <1>1, <1>2 DEF Readable, FreePages, SlotsDiffer
<1>4. /\ Carriers' = Carriers \ {p} /\ p \in Carriers
      /\ \A q \in Carriers' : hand'[q] = hand[q]
  BY <1>1 DEF Carriers
<1>5. Carried' = Carried \ {hand[p]} /\ hand[p] \in Carried /\ HandsDiffer'
  BY <1>2, <1>4 DEF Carried, HandsDiffer
<1> QED
  BY <1>1, <1>3, <1>5 DEF Given

\* A caller gives a page to push().
LEMMA PushEnterMoves ==
    ASSUME TypeOK, HandsMatch, PagesKept, NEW p \in Procs, NEW page \in Pages,
           PushEnter(p, page)
    PROVE  Returned(page) /\ SlotsDiffer' /\ HandsDiffer'
<1>1. /\ hand[p] = 0 /\ page # 0 /\ page \in used
      /\ theItems' = theItems
      /\ \A q \in Procs : hand'[q] = IF q = p THEN page ELSE hand[q]
      /\ used' = used \ {page}
  BY DEF PushEnter, Goto, TypeOK, HandsMatch, stackVars, Pages
<1>2. SlotsDiffer /\ HandsDiffer /\ Carried \cap used = {}
  BY DEF PagesKept, SlotsDiffer, HandsDiffer
<1>3. /\ Readable' = Readable /\ FreePages' = FreePages /\ SlotsDiffer'
  BY <1>1, <1>2 DEF Readable, FreePages, SlotsDiffer
<1>4. /\ Carriers' = Carriers \cup {p} /\ p \notin Carriers
      /\ \A q \in Carriers : hand'[q] = hand[q]
      /\ hand'[p] = page
  BY <1>1 DEF Carriers
<1>5. Carried' = Carried \cup {page} /\ page \notin Carried
  BY <1>1, <1>2, <1>4 DEF Carried
<1>6. HandsDiffer'
  BY <1>2, <1>4, <1>5 DEF Carried, HandsDiffer
<1> QED
  BY <1>1, <1>3, <1>5, <1>6 DEF Returned

\* swap_if() stores the page in a writable slot, or changes nothing.
LEMMA PushStoreMoves ==
    ASSUME TypeOK, HandsMatch, PagesKept, NEW p \in Procs, PushStore(p)
    PROVE  /\ Unmoved \/ \E page \in Pages : Stored(page)
           /\ SlotsDiffer' /\ HandsDiffer'
<1>1. SlotsDiffer /\ HandsDiffer /\ FreePages \cap Carried = {}
  BY DEF PagesKept, SlotsDiffer, HandsDiffer
<1>2. CASE theItems[idx[p]] # Writable
  <2>1. theItems' = theItems /\ hand' = hand /\ used' = used
    BY <1>2 DEF PushStore, stackVars
  <2> QED
    BY <1>1, <2>1 DEF Unmoved, FreePages, Carried, SlotsDiffer, HandsDiffer, Readable, Carriers
<1>3. CASE theItems[idx[p]] = Writable
  <2>1. /\ idx[p] \in Slots /\ hand[p] \in Pages /\ hand[p] # 0
        /\ \A i \in Slots : theItems'[i] = IF i = idx[p] THEN hand[p] ELSE theItems[i]
        /\ \A q \in Procs : hand'[q] = IF q = p THEN 0 ELSE hand[q]
        /\ used' = used
    BY <1>3 DEF PushStore, Goto, TypeOK, HandsMatch
  <2>2. /\ Readable' = Readable \cup {idx[p]} /\ idx[p] \notin Readable
        /\ \A i \in Readable : theItems'[i] = theItems[i]
        /\ theItems'[idx[p]] = hand[p]
        /\ Carriers' = Carriers \ {p} /\ p \in Carriers
        /\ \A q \in Carriers' : hand'[q] = hand[q]
    BY <1>3, <2>1 DEF Readable, Carriers, Writable
  <2>3. Carried' = Carried \ {hand[p]} /\ hand[p] \in Carried /\ HandsDiffer'
    BY <1>1, <2>2 DEF Carried, HandsDiffer
  <2>4. FreePages' = FreePages \cup {hand[p]} /\ hand[p] \notin FreePages
    BY <1>1, <2>2, <2>3 DEF FreePages
  <2>5. SlotsDiffer'
    BY <1>1, <2>2, <2>4 DEF SlotsDiffer, FreePages
  <2> QED
    BY <2>1, <2>3, <2>4, <2>5 DEF Stored
<1> QED
  BY <1>2, <1>3

\* What a step can do to the places of the pages.
LEMMA PageMoves ==
    ASSUME TypeOK, HandsMatch, PagesKept, NEW p \in Procs, Step(p)
    PROVE  /\ \/ Unmoved
              \/ \E page \in Pages : Taken(page) \/ Given(page) \/ Returned(page) \/ Stored(page)
           /\ SlotsDiffer' /\ HandsDiffer'
<1>1. CASE PopTake(p)
  BY <1>1, PopTakeMoves
<1>2. CASE PopHint(p)
  BY <1>2, PopHintMoves
<1>3. CASE \E page \in Pages : PushEnter(p, page)
  BY <1>3, PushEnterMoves
<1>4. CASE PushStore(p)
  BY <1>4, PushStoreMoves
<1>5. CASE theItems' = theItems /\ hand' = hand /\ used' = used
  <2>1. SlotsDiffer /\ HandsDiffer
    BY DEF PagesKept, SlotsDiffer, HandsDiffer
  <2> QED
    BY <1>5, <2>1 DEF Unmoved, FreePages, Carried, SlotsDiffer, HandsDiffer, Readable, Carriers
<1> QED
  BY <1>1, <1>2, <1>3, <1>4, <1>5
  DEF Step, Inside, PopEnter, PopTest, PopIndex, PopMove, PopGiveUp, PushTest, PushIndex,
      PushMove, PushHint, PushSize, stackVars

\* Every step keeps every page in exactly one place.
LEMMA PagesStep ==
    ASSUME TypeOK, HandsMatch, PagesKept, NEW p \in Procs, Step(p)
    PROVE  PagesKept'
<1>1. /\ FreePages \cap Carried = {} /\ FreePages \cap used = {} /\ Carried \cap used = {}
      /\ FreePages \cup Carried \cup used = Pages
  BY DEF PagesKept
<1>2. /\ (FreePages \cap Carried)' = {} /\ (FreePages \cap used)' = {}
      /\ (Carried \cap used)' = {} /\ (FreePages \cup Carried \cup used)' = Pages
  <2>1. CASE Unmoved
    BY <1>1, <2>1 DEF Unmoved
  <2>2. ASSUME NEW page \in Pages, Taken(page) \/ Given(page) \/ Returned(page) \/ Stored(page)
        PROVE  /\ (FreePages \cap Carried)' = {} /\ (FreePages \cap used)' = {}
               /\ (Carried \cap used)' = {} /\ (FreePages \cup Carried \cup used)' = Pages
    BY <1>1, <2>2 DEF Taken, Given, Returned, Stored
  <2> QED
    BY <2>1, <2>2, PageMoves
<1>3. SlotsDiffer' /\ HandsDiffer'
  BY PageMoves
<1> QED
  BY <1>2, <1>3 DEF PagesKept, SlotsDiffer, HandsDiffer

\* Cardinality of a finite set when one element joins or leaves it.
LEMMA CountChange ==
    ASSUME NEW S, IsFiniteSet(S), NEW x
    PROVE  /\ Cardinality(S) \in Nat
           /\ x \notin S => Cardinality(S \cup {x}) = Cardinality(S) + 1
           /\ x \in S => Cardinality(S \ {x}) = Cardinality(S) - 1
  BY FS_CardinalityType, FS_AddElement, FS_RemoveElement

\* The sets that SizeExact counts are finite.
LEMMA CountedSetsFinite ==
    IsFiniteSet(Readable) /\ IsFiniteSet(Reserving) /\ IsFiniteSet(Unfinished)
<1>1. IsFiniteSet(Slots)
  BY FS_Interval, CapacityAssumption DEF Slots
<1>2. Readable \in SUBSET Slots /\ Reserving \in SUBSET Procs /\ Unfinished \in SUBSET Procs
  BY DEF Readable, Reserving, Unfinished
<1> QED
  BY <1>1, <1>2, FS_Subset, ProcsAssumption

\* Every step keeps theSize exact.
LEMMA SizeStep ==
    ASSUME TypeOK, HandsMatch, SizeExact, NEW p \in Procs, Step(p)
    PROVE  SizeExact'
<1> DEFINE R == Readable
           V == Reserving
           U == Unfinished
<1>1. /\ IsFiniteSet(R) /\ IsFiniteSet(V) /\ IsFiniteSet(U)
      /\ Cardinality(R) \in Nat /\ Cardinality(V) \in Nat /\ Cardinality(U) \in Nat
  BY CountedSetsFinite, FS_CardinalityType
<1>2. theSize \in Int /\ theSize = Cardinality(R) - Cardinality(V) - Cardinality(U)
  BY DEF TypeOK, SizeExact
<1>3. SUFFICES theSize' = Cardinality(R') - Cardinality(V') - Cardinality(U')
  BY DEF SizeExact
<1>a. CASE PopEnter(p)
  <2>1. R' = R /\ V' = V \cup {p} /\ p \notin V /\ U' = U /\ theSize' = theSize - 1
    BY <1>a DEF PopEnter, Goto, TypeOK, Readable, Reserving, Unfinished
  <2> HIDE DEF R, V, U
  <2>2. Cardinality(V') = Cardinality(V) + 1
    BY <1>1, <2>1, CountChange
  <2> QED
    BY <1>1, <1>2, <2>1, <2>2
<1>b. CASE \/ PopTest(p) \/ PopIndex(p) \/ PopMove(p) \/ PopHint(p) \/ PushTest(p)
           \/ PushIndex(p) \/ PushMove(p) \/ PushHint(p) \/ \E page \in Pages : PushEnter(p, page)
  <2>1. theItems' = theItems /\ theSize' = theSize
    BY <1>b DEF PopTest, PopIndex, PopMove, PopHint, PushTest, PushIndex, PushMove, PushHint,
                PushEnter, stackVars
  <2>2. R' = R
    BY <2>1 DEF Readable
  <2>3. V' = V /\ U' = U
    BY <1>b DEF PopTest, PopIndex, PopMove, PopHint, PushTest, PushIndex, PushMove, PushHint,
                PushEnter, Goto, TypeOK, HandsMatch, Reserving, Unfinished, Writable
  <2> QED
    BY <1>2, <2>1, <2>2, <2>3
<1>c. CASE PopTake(p)
  <2>1. theSize' = theSize /\ U' = U /\ idx[p] \in Slots
    BY <1>c DEF PopTake, Goto, TypeOK, Unfinished
  <2>2. CASE theItems[idx[p]] = Writable
    <3>1. R' = R /\ V' = V
      BY <1>c, <2>2 DEF PopTake, Goto, TypeOK, HandsMatch, Readable, Reserving, Writable
    <3> QED
      BY <1>2, <2>1, <3>1
  <2>3. CASE theItems[idx[p]] # Writable
    <3>1. R' = R \ {idx[p]} /\ idx[p] \in R /\ V' = V \ {p} /\ p \in V
      BY <1>c, <2>1, <2>3 DEF PopTake, Goto, TypeOK, HandsMatch, Readable, Reserving, Writable
    <3> HIDE DEF R, V, U
    <3>2. Cardinality(R') = Cardinality(R) - 1
      BY <1>1, <3>1, CountChange
    <3>3. Cardinality(V') = Cardinality(V) - 1
      BY <1>1, <3>1, CountChange
    <3> QED
      BY <1>1, <1>2, <2>1, <3>2, <3>3
  <2> QED
    BY <2>2, <2>3
<1>d. CASE PopGiveUp(p)
  <2>1. R' = R /\ V' = V \ {p} /\ p \in V /\ U' = U /\ theSize' = theSize + 1
    BY <1>d DEF PopGiveUp, Goto, TypeOK, Readable, Reserving, Unfinished
  <2> HIDE DEF R, V, U
  <2>2. Cardinality(V') = Cardinality(V) - 1
    BY <1>1, <2>1, CountChange
  <2> QED
    BY <1>1, <1>2, <2>1, <2>2
<1>e. CASE PushStore(p)
  <2>1. theSize' = theSize /\ V' = V /\ idx[p] \in Slots
    BY <1>e DEF PushStore, Goto, TypeOK, Reserving, stackVars
  <2>2. CASE theItems[idx[p]] # Writable
    <3>1. R' = R /\ U' = U
      BY <1>e, <2>2 DEF PushStore, Goto, TypeOK, Readable, Unfinished, stackVars
    <3> QED
      BY <1>2, <2>1, <3>1
  <2>3. CASE theItems[idx[p]] = Writable
    <3>1. R' = R \cup {idx[p]} /\ idx[p] \notin R /\ U' = U \cup {p} /\ p \notin U
      BY <1>e, <2>1, <2>3 DEF PushStore, Goto, TypeOK, HandsMatch, Readable, Unfinished, Writable
    <3> HIDE DEF R, V, U
    <3>2. Cardinality(R') = Cardinality(R) + 1
      BY <1>1, <3>1, CountChange
    <3>3. Cardinality(U') = Cardinality(U) + 1
      BY <1>1, <3>1, CountChange
    <3> QED
      BY <1>1, <1>2, <2>1, <3>2, <3>3
  <2> QED
    BY <2>2, <2>3
<1>f. CASE PushSize(p)
  <2>1. R' = R /\ V' = V /\ U' = U \ {p} /\ p \in U /\ theSize' = theSize + 1
    BY <1>f DEF PushSize, Goto, TypeOK, Readable, Reserving, Unfinished
  <2> HIDE DEF R, V, U
  <2>2. Cardinality(U') = Cardinality(U) - 1
    BY <1>1, <2>1, CountChange
  <2> QED
    BY <1>1, <1>2, <2>1, <2>2
<1> QED
  BY <1>a, <1>b, <1>c, <1>d, <1>e, <1>f DEF Step, Inside

\* A kid that carries a page finds theSize below the capacity.
LEMMA RoomWhileCarrying ==
    ASSUME TypeOK, PagesKept, SizeExact, NEW p \in Procs, hand[p] # 0
    PROVE  theSize < Capacity
<1> DEFINE others == Pages \ {hand[p]}
           where == [i \in Readable |-> theItems[i]]
<1>1. hand[p] \in Pages /\ p \in Carriers
  BY DEF TypeOK, Carriers
<1>2. where \in Injection(Readable, others)
  <2>1. \A i \in Readable : theItems[i] \in others
    BY <1>1 DEF TypeOK, PagesKept, Readable, Carriers, FreePages, Carried, Writable
  <2>2. \A i, j \in Readable : theItems[i] = theItems[j] => i = j
    BY DEF PagesKept
  <2> QED
    BY <2>1, <2>2 DEF Injection, IsInjective
<1>3. IsFiniteSet(Pages) /\ Cardinality(Pages) = Capacity
  BY FS_Interval, CapacityAssumption DEF Pages
<1>4. IsFiniteSet(others) /\ Cardinality(others) = Capacity - 1
  BY <1>1, <1>3, FS_RemoveElement
<1>5. Cardinality(Readable) <= Capacity - 1
  BY <1>2, <1>4, FS_Injection
<1>6. Cardinality(Readable) \in Nat /\ Cardinality(Reserving) \in Nat
      /\ Cardinality(Unfinished) \in Nat
  BY CountedSetsFinite, FS_CardinalityType
<1> QED
  BY <1>5, <1>6, CapacityAssumption DEF SizeExact

\* StackInv holds initially and is kept by every step.
LEMMA StackInvInit == Init => StackInv
<1> SUFFICES ASSUME Init PROVE StackInv
  OBVIOUS
<1>1. TypeOK /\ HandsMatch /\ PushFindsRoom
  BY InitHints, CapacityAssumption DEF Init, TypeOK, HandsMatch, PushFindsRoom, Points, Slots, Pages
<1>2. /\ Readable = Slots /\ Carriers = {}
      /\ Reserving = {} /\ Unfinished = {}
  BY CapacityAssumption DEF Init, Readable, Carriers, Reserving, Unfinished, Writable, Slots
<1>3. \A page \in Pages : page - 1 \in Slots /\ theItems[page - 1] = page
  BY CapacityAssumption DEF Init, Pages, Slots
<1>4. \A i \in Slots : theItems[i] = i + 1 /\ i \in Int /\ i + 1 \in Pages
  BY CapacityAssumption DEF Init, Pages, Slots
<1>5. FreePages = Pages /\ Carried = {} /\ used = {}
  BY <1>2, <1>3, <1>4 DEF Init, FreePages, Carried
<1>6. PagesKept
  BY <1>2, <1>4, <1>5 DEF PagesKept
<1>7. SizeExact
  <2>1. Cardinality(Slots) = Capacity
    BY FS_Interval, CapacityAssumption DEF Slots
  <2> QED
    BY <1>2, <2>1, FS_EmptySet, CapacityAssumption DEF SizeExact, Init
<1> QED
  BY <1>1, <1>6, <1>7 DEF StackInv

LEMMA StackInvStep == StackInv /\ [Next]_vars => StackInv'
<1> SUFFICES ASSUME StackInv, [Next]_vars PROVE StackInv'
  OBVIOUS
<1> USE DEF StackInv
<1>1. CASE UNCHANGED vars
  BY <1>1 DEF vars, TypeOK, HandsMatch, PagesKept, SizeExact, PushFindsRoom, Readable,
              Carriers, FreePages, Carried, Reserving, Unfinished
<1>2. CASE Next
  <2> PICK p \in Procs : Step(p)
    BY <1>2 DEF Next
  <2>1. TypeOK' /\ HandsMatch'
    BY TypeStep
  <2>2. PagesKept'
    BY PagesStep
  <2>3. SizeExact'
    BY SizeStep
  <2>4. PushFindsRoom'
    <3>1. pc[p] = "pushTest" => theSize < Capacity
      BY RoomWhileCarrying DEF HandsMatch
    <3> QED
      BY <3>1 DEF Step, Inside, Goto, TypeOK, PushFindsRoom, PopEnter, PopTest, PopIndex, PopTake,
                  PopMove, PopHint, PopGiveUp, PushEnter, PushTest, PushIndex, PushStore,
                  PushMove, PushHint, PushSize
  <2> QED
    BY <2>1, <2>2, <2>3, <2>4
<1> QED
  BY <1>1, <1>2

\* StackInv is an invariant of the page stack.
THEOREM StackInvariant == Spec => []StackInv
  BY StackInvInit, StackInvStep, PTL DEF Spec

(***************************************************************************)
(* No page is lost, duplicated or handed out twice by overlapping pop()    *)
(* and push() calls, whatever the hints say.                               *)
(***************************************************************************)
THEOREM NoPageLost == Spec => []PagesKept
<1>1. StackInv => PagesKept
  BY DEF StackInv
<1> QED
  BY <1>1, StackInvariant, PTL

(***************************************************************************)
(* theSize is always the number of stored pages minus the calls that have  *)
(* reserved or not yet counted one.                                        *)
(***************************************************************************)
THEOREM SizeNeverDrifts == Spec => []SizeExact
<1>1. StackInv => SizeExact
  BY DEF StackInv
<1> QED
  BY <1>1, StackInvariant, PTL

(***************************************************************************)
(* The Must(false) at the end of push() is unreachable.                    *)
(***************************************************************************)
THEOREM PushAlwaysFindsRoom == Spec => []PushFindsRoom
<1>1. StackInv => PushFindsRoom
  BY DEF StackInv
<1> QED
  BY <1>1, StackInvariant, PTL

(***************************************************************************)
(* Refinement: a step of pop() or push() allocates a page, releases one,   *)
(* or leaves the abstract allocator unchanged.                             *)
(***************************************************************************)
THEOREM StackImplementsAllocator == Spec => ImplementsPageAllocator
<1>1. Init => Alloc!Init
  <2> SUFFICES ASSUME Init PROVE Alloc!Init
    OBVIOUS
  <2>1. Carried = {} /\ used = {}
    BY DEF Init, Carried, Carriers
  <2>2. PagesKept
    BY StackInvInit DEF StackInv
  <2> QED
    BY <2>1, <2>2 DEF Alloc!Init, PagesKept
<1>2. StackInv /\ [Next]_vars => [Alloc!Next]_(Alloc!allocVars)
  <2> SUFFICES ASSUME StackInv, [Next]_vars PROVE [Alloc!Next]_(Alloc!allocVars)
    OBVIOUS
  <2>1. CASE UNCHANGED vars
    BY <2>1 DEF vars, Alloc!allocVars, FreePages, Carried, Readable, Carriers
  <2>2. CASE Next
    <3> PICK p \in Procs : Step(p)
      BY <2>2 DEF Next
    <3>1. \/ Unmoved
          \/ \E page \in Pages : Taken(page) \/ Given(page) \/ Returned(page) \/ Stored(page)
      BY PageMoves DEF StackInv
    <3>2. FreePages \cap Carried = {} /\ FreePages \cap used = {} /\ Carried \cap used = {}
      BY DEF StackInv, PagesKept
    <3>3. CASE Unmoved
      BY <3>3 DEF Unmoved, Alloc!allocVars
    <3>4. ASSUME NEW page \in Pages, Taken(page)
          PROVE  Alloc!Allocate(page)
      BY <3>4 DEF Taken, Alloc!Allocate
    <3>5. ASSUME NEW page \in Pages, Given(page) \/ Returned(page)
          PROVE  UNCHANGED Alloc!allocVars
      BY <3>5 DEF Given, Returned, Alloc!allocVars
    <3>6. ASSUME NEW page \in Pages, Stored(page)
          PROVE  Alloc!Release(page)
      BY <3>2, <3>6 DEF Stored, Alloc!Release
    <3> QED
      BY <3>1, <3>3, <3>4, <3>5, <3>6 DEF Alloc!Next
  <2> QED
    BY <2>1, <2>2
<1> QED
  BY <1>1, <1>2, StackInvariant, PTL DEF Spec, ImplementsPageAllocator, Alloc!Spec

-----------------------------------------------------------------------------
(* The pool                                                                *)

\* The pool drives the stack through its own steps only.
LEMMA PoolDrivesStack == PoolNext => [Next]_vars
<1> SUFFICES ASSUME PoolNext PROVE [Next]_vars
  OBVIOUS
<1> PICK p \in Procs :
        \/ \E u \in Purposes : GetPage(p, u)
        \/ GetPop(p) \/ GotPage(p) \/ CountPage(p) \/ GotNothing(p)
        \/ \E page \in Pages : PutPage(p, page)
        \/ StackStep(p)
  BY DEF PoolNext
<1>1. CASE \E u \in Purposes : GetPage(p, u)
  BY <1>1 DEF GetPage
<1>2. CASE CountPage(p)
  BY <1>2 DEF CountPage
<1>3. CASE GetPop(p) \/ GotPage(p) \/ GotNothing(p)
  BY <1>3 DEF GetPop, GotPage, GotNothing, Next, Step, Inside
<1>4. CASE \E page \in Pages : PutPage(p, page)
  BY <1>4 DEF PutPage, Next, Step
<1>5. CASE StackStep(p)
  BY <1>5 DEF StackStep, Next, Step, Inside
<1> QED
  BY <1>1, <1>2, <1>3, <1>4, <1>5

\* The stack's invariant holds in the pool.
LEMMA StackInvPoolStep == StackInv /\ [PoolNext]_allVars => StackInv'
<1>1. UNCHANGED allVars => UNCHANGED vars
  BY DEF allVars
<1> QED
  BY <1>1, PoolDrivesStack, StackInvStep

\* The pages that have purpose u.
Counted(u) == {page \in Pages : purpose[page] = u}

\* Only finitely many pages have a purpose.
LEMMA CountedFinite ==
    ASSUME NEW u
    PROVE  IsFiniteSet(Counted(u)) /\ Cardinality(Counted(u)) \in Nat
<1>1. IsFiniteSet(Pages)
  BY FS_Interval, CapacityAssumption DEF Pages
<1>2. Counted(u) \in SUBSET Pages
  BY DEF Counted
<1> QED
  BY <1>1, <1>2, FS_Subset, FS_CardinalityType

\* Setting the purpose of a page that had none adds one to one level.
LEMMA PurposeSet ==
    ASSUME PoolTypeOK, NEW page \in Pages, NEW u \in Purposes,
           purpose[page] = maxPurpose,
           purpose' = [purpose EXCEPT ![page] = u]
    PROVE  \A v \in Purposes : Cardinality(Counted(v)') =
               Cardinality(Counted(v)) + (IF v = u THEN 1 ELSE 0)
<1> TAKE v \in Purposes
<1>0. purpose \in [Pages -> Purposes \cup {maxPurpose}] /\ maxPurpose \notin Purposes
  BY PurposesAssumption DEF PoolTypeOK
<1>1. IsFiniteSet(Counted(v)) /\ Cardinality(Counted(v)) \in Nat
  BY CountedFinite
<1>2. CASE v = u
  <2>1. Counted(v)' = Counted(v) \cup {page} /\ page \notin Counted(v)
    BY <1>0, <1>2 DEF Counted
  <2> QED
    BY <1>1, <1>2, <2>1, CountChange
<1>3. CASE v # u
  <2>1. Counted(v)' = Counted(v)
    BY <1>0, <1>3 DEF Counted
  <2> QED
    BY <1>1, <1>3, <2>1
<1> QED
  BY <1>2, <1>3

\* Clearing the purpose of a page takes one from one level.
LEMMA PurposeCleared ==
    ASSUME PoolTypeOK, NEW page \in Pages, NEW u \in Purposes,
           purpose[page] = u,
           purpose' = [purpose EXCEPT ![page] = maxPurpose]
    PROVE  \A v \in Purposes : Cardinality(Counted(v)') =
               Cardinality(Counted(v)) - (IF v = u THEN 1 ELSE 0)
<1> TAKE v \in Purposes
<1>0. purpose \in [Pages -> Purposes \cup {maxPurpose}] /\ maxPurpose \notin Purposes
  BY PurposesAssumption DEF PoolTypeOK
<1>1. IsFiniteSet(Counted(v)) /\ Cardinality(Counted(v)) \in Nat
  BY CountedFinite
<1>2. CASE v = u
  <2>1. Counted(v)' = Counted(v) \ {page} /\ page \in Counted(v)
    BY <1>0, <1>2 DEF Counted
  <2> QED
    BY <1>1, <1>2, <2>1, CountChange
<1>3. CASE v # u
  <2>1. Counted(v)' = Counted(v)
    BY <1>0, <1>3 DEF Counted
  <2> QED
    BY <1>1, <1>3, <2>1
<1> QED
  BY <1>2, <1>3

\* The levels, and the pages that have a purpose.
LevelsCount == \A u \in Purposes : theLevels[u] = Cardinality(Counted(u))
OwnedHavePurpose ==
    \A page \in Pages : purpose[page] # maxPurpose <=>
                            page \in used /\ \A p \in Procs : got[p] # page

\* LevelsExact, page by page.
LEMMA LevelsExactParts == PoolTypeOK => (LevelsExact <=> LevelsCount /\ OwnedHavePurpose)
<1> SUFFICES ASSUME PoolTypeOK PROVE LevelsExact <=> LevelsCount /\ OwnedHavePurpose
  OBVIOUS
<1>1. used \subseteq Pages
  BY DEF PoolTypeOK, TypeOK
<1>2. OwnedHavePurpose <=> used \ {got[p] : p \in Procs} = {page \in Pages : purpose[page] # maxPurpose}
  BY <1>1 DEF OwnedHavePurpose
<1> QED
  BY <1>2 DEF LevelsExact, LevelsCount, Counted

\* A step that leaves the levels, the purposes and the owned pages alone.
LEMMA LevelsUnmoved ==
    ASSUME LevelsCount, UNCHANGED <<theLevels, purpose>>
    PROVE  LevelsCount'
  BY DEF LevelsCount, Counted

\* Every step of the pool keeps its invariant.
LEMMA PoolInvStep == PoolInv /\ [PoolNext]_allVars => PoolInv'
<1> SUFFICES ASSUME PoolInv, [PoolNext]_allVars PROVE PoolInv'
  OBVIOUS
<1>0. StackInv /\ StackInv'
  BY StackInvPoolStep DEF PoolInv
<1>1. TypeOK /\ TypeOK' /\ PoolTypeOK /\ GotMatches /\ LevelsCount /\ OwnedHavePurpose
  BY <1>0, LevelsExactParts DEF PoolInv, StackInv
<1>2. SUFFICES PoolTypeOK' /\ GotMatches' /\ LevelsCount' /\ OwnedHavePurpose'
  <2>1. PoolTypeOK' => (LevelsExact' <=> LevelsCount' /\ OwnedHavePurpose')
    BY LevelsExactParts, PTL
  <2> QED
    BY <1>0, <2>1 DEF PoolInv
<1>3. CASE UNCHANGED allVars
  BY <1>1, <1>3, LevelsUnmoved DEF allVars, poolVars, vars, PoolTypeOK, GotMatches, OwnedHavePurpose
<1>4. CASE PoolNext
  <2> PICK p \in Procs :
        \/ \E u \in Purposes : GetPage(p, u)
        \/ GetPop(p) \/ GotPage(p) \/ CountPage(p) \/ GotNothing(p)
        \/ \E page \in Pages : PutPage(p, page)
        \/ StackStep(p)
    BY <1>4 DEF PoolNext
  <2>a. ASSUME NEW u \in Purposes, GetPage(p, u)
        PROVE  PoolTypeOK' /\ GotMatches' /\ LevelsCount' /\ OwnedHavePurpose'
    <3>1. LevelsCount' /\ OwnedHavePurpose'
      BY <1>1, <2>a, LevelsUnmoved DEF GetPage, OwnedHavePurpose, vars
    <3>2. PoolTypeOK'
      BY <1>1, <2>a DEF GetPage, PoolTypeOK
    <3>3. GotMatches'
      BY <1>1, <2>a, PurposesAssumption DEF GetPage, GotMatches, PoolTypeOK, vars
    <3> QED
      BY <3>1, <3>2, <3>3
  <2>b. CASE GetPop(p)
    <3>1. LevelsCount' /\ OwnedHavePurpose'
      BY <1>1, <2>b, LevelsUnmoved DEF GetPop, PopEnter, OwnedHavePurpose, poolVars
    <3>2. PoolTypeOK'
      BY <1>1, <2>b DEF GetPop, PoolTypeOK, poolVars
    <3>3. GotMatches'
      BY <1>1, <2>b DEF GetPop, PopEnter, Goto, GotMatches, PoolTypeOK, TypeOK, poolVars
    <3> QED
      BY <3>1, <3>2, <3>3
  <2>c. CASE GotPage(p)
    <3>1. /\ hand[p] \in Pages /\ hand[p] # 0 /\ hand[p] \notin used
          /\ got[p] = 0 /\ getting[p] # maxPurpose
          /\ got' = [got EXCEPT ![p] = hand[p]] /\ used' = used \cup {hand[p]}
          /\ pc' = [pc EXCEPT ![p] = "idle"]
          /\ UNCHANGED <<theLevels, purpose, getting>>
      BY <1>0, <1>1, <2>c DEF GotPage, PopHint, Goto, StackInv, HandsMatch, PagesKept, Carried,
                       Carriers, GotMatches, TypeOK, PopPoints
    <3>2. purpose[hand[p]] = maxPurpose
      BY <1>1, <3>1 DEF OwnedHavePurpose
    <3>3. PoolTypeOK'
      BY <1>1, <3>1 DEF PoolTypeOK
    <3>4. GotMatches'
      BY <1>1, <3>1, <3>2 DEF GotMatches, PoolTypeOK, TypeOK, PopPoints
    <3>5. OwnedHavePurpose'
      BY <1>1, <3>1, <3>2 DEF OwnedHavePurpose, PoolTypeOK, Pages
    <3> QED
      BY <1>1, <3>1, <3>3, <3>4, <3>5, LevelsUnmoved
  <2>d. CASE CountPage(p)
    <3> DEFINE u == getting[p]
               page == got[p]
    <3>1. /\ u \in Purposes /\ page \in Pages /\ page # 0 /\ page \in used
          /\ purpose[page] = maxPurpose /\ pc[p] = "idle"
          /\ purpose' = [purpose EXCEPT ![page] = u]
          /\ theLevels' = [theLevels EXCEPT ![u] = @ + 1]
          /\ getting' = [getting EXCEPT ![p] = maxPurpose]
          /\ got' = [got EXCEPT ![p] = 0]
          /\ pc' = pc /\ used' = used
      BY <1>1, <2>d DEF CountPage, GotMatches, PoolTypeOK, vars
    <3>2. \A q \in Procs : q # p => got[q] # page
      BY <1>1, <3>1 DEF GotMatches
    <3> HIDE DEF u, page
    <3>3. PoolTypeOK'
      BY <1>1, <3>1 DEF PoolTypeOK
    <3>4. GotMatches'
      BY <1>1, <3>1, <3>2, PurposesAssumption DEF GotMatches, PoolTypeOK, PopPoints
    <3>5. OwnedHavePurpose'
      <4>1. \A q \in Procs : got'[q] # page
        BY <1>1, <3>1, <3>2 DEF PoolTypeOK
      <4>2. \A other \in Pages : other # page =>
                ((\A q \in Procs : got'[q] # other) <=> (\A q \in Procs : got[q] # other))
        BY <1>1, <3>1 DEF PoolTypeOK, Pages, page
      <4> QED
        BY <1>1, <3>1, <4>1, <4>2, PurposesAssumption DEF OwnedHavePurpose, PoolTypeOK
    <3>6. LevelsCount'
      <4>1. \A v \in Purposes : Cardinality(Counted(v)') =
               Cardinality(Counted(v)) + (IF v = u THEN 1 ELSE 0)
        BY <1>1, <3>1, PurposeSet
      <4>2. \A v \in Purposes : theLevels'[v] = theLevels[v] + (IF v = u THEN 1 ELSE 0)
        BY <1>1, <3>1 DEF PoolTypeOK
      <4> QED
        BY <1>1, <4>1, <4>2 DEF LevelsCount
    <3> QED
      BY <3>3, <3>4, <3>5, <3>6
  <2>e. CASE GotNothing(p)
    <3>1. LevelsCount' /\ OwnedHavePurpose'
      BY <1>1, <2>e, LevelsUnmoved DEF GotNothing, PopGiveUp, OwnedHavePurpose
    <3>2. PoolTypeOK'
      BY <1>1, <2>e DEF GotNothing, PoolTypeOK
    <3>3. GotMatches'
      BY <1>1, <2>e DEF GotNothing, PopGiveUp, Goto, GotMatches, PoolTypeOK, TypeOK, PopPoints
    <3> QED
      BY <3>1, <3>2, <3>3
  <2>f. ASSUME NEW page \in Pages, PutPage(p, page)
        PROVE  PoolTypeOK' /\ GotMatches' /\ LevelsCount' /\ OwnedHavePurpose'
    <3> DEFINE u == purpose[page]
    <3>1. /\ u \in Purposes /\ page \in used /\ page # 0
          /\ purpose' = [purpose EXCEPT ![page] = maxPurpose]
          /\ theLevels' = [theLevels EXCEPT ![u] = @ - 1]
          /\ used' = used \ {page}
          /\ pc[p] = "idle" /\ pc' = [pc EXCEPT ![p] = "pushTest"]
          /\ UNCHANGED <<getting, got>>
      BY <1>1, <2>f DEF PutPage, PushEnter, Goto, PoolTypeOK, TypeOK, Pages
    <3>2. /\ \A q \in Procs : got[q] # page
          /\ getting[p] = maxPurpose /\ got[p] = 0
      BY <1>1, <2>f DEF PutPage, GotMatches, OwnedHavePurpose, PoolTypeOK
    <3>a. purpose[page] = u
      OBVIOUS
    <3> HIDE DEF u
    <3>3. \A v \in Purposes : Cardinality(Counted(v)') =
               Cardinality(Counted(v)) - (IF v = u THEN 1 ELSE 0)
      BY <1>1, <3>1, <3>a, PurposeCleared
    <3>4. \A v \in Purposes : theLevels'[v] = theLevels[v] - (IF v = u THEN 1 ELSE 0)
      BY <1>1, <3>1 DEF PoolTypeOK
    <3>5. LevelsCount'
      BY <1>1, <3>3, <3>4 DEF LevelsCount
    <3>6. theLevels' \in [Purposes -> Nat]
      <4>1. \A v \in Purposes : theLevels'[v] \in Nat
        <5> TAKE v \in Purposes
        <5>1. IsFiniteSet(Pages) /\ Counted(v)' \in SUBSET Pages
          BY FS_Interval, CapacityAssumption DEF Pages, Counted
        <5>2. Cardinality(Counted(v)') \in Nat
          BY <5>1, FS_Subset, FS_CardinalityType
        <5> QED
          BY <3>5, <5>2 DEF LevelsCount
      <4> QED
        BY <1>1, <3>1, <4>1 DEF PoolTypeOK
    <3>7. PoolTypeOK'
      BY <1>1, <3>1, <3>6 DEF PoolTypeOK
    <3>8. GotMatches'
      BY <1>1, <3>1, <3>2 DEF GotMatches, PoolTypeOK, TypeOK, PopPoints
    <3>9. OwnedHavePurpose'
      BY <1>1, <3>1, <3>2 DEF OwnedHavePurpose, PoolTypeOK
    <3> QED
      BY <3>5, <3>7, <3>8, <3>9
  <2>g. CASE StackStep(p)
    <3>1. UNCHANGED poolVars
      BY <2>g DEF StackStep
    <3>2. used' = used
      BY <2>g DEF StackStep, PopTest, PopIndex, PopTake, PopMove, PushTest, PushIndex, PushStore,
                  PushMove, PushHint, PushSize
    <3>3. /\ \A q \in Procs : pc[q] = "idle" => pc'[q] = "idle"
          /\ \A q \in Procs : pc'[q] \in PopPoints => pc[q] \in PopPoints
      BY <1>1, <2>g DEF StackStep, PopTest, PopIndex, PopTake, PopMove, PushTest, PushIndex,
                  PushStore, PushMove, PushHint, PushSize, Goto, TypeOK, PopPoints
    <3>4. LevelsCount' /\ OwnedHavePurpose'
      BY <1>1, <3>1, <3>2, LevelsUnmoved DEF OwnedHavePurpose, poolVars
    <3>5. PoolTypeOK'
      BY <1>1, <3>1 DEF PoolTypeOK, poolVars
    <3>6. GotMatches'
      BY <1>1, <3>1, <3>2, <3>3 DEF GotMatches, poolVars
    <3> QED
      BY <3>4, <3>5, <3>6
  <2> QED
    BY <2>a, <2>b, <2>c, <2>d, <2>e, <2>f, <2>g
<1> QED
  BY <1>3, <1>4

\* The pool starts with every page free and every level zero.
LEMMA PoolInvInit == PoolInit => PoolInv
<1> SUFFICES ASSUME PoolInit PROVE PoolInv
  OBVIOUS
<1>1. StackInv
  BY StackInvInit DEF PoolInit
<1>2. PoolTypeOK /\ GotMatches
  BY <1>1 DEF PoolInit, Init, StackInv, PoolTypeOK, GotMatches, PopPoints
<1>3. \A u \in Purposes : Counted(u) = {}
  BY PurposesAssumption DEF PoolInit, Counted
<1>4. LevelsCount
  BY <1>3, FS_EmptySet DEF PoolInit, LevelsCount
<1>5. OwnedHavePurpose
  BY DEF PoolInit, Init, OwnedHavePurpose
<1> QED
  BY <1>1, <1>2, <1>4, <1>5, LevelsExactParts DEF PoolInv

\* PoolInv is an invariant of the page pool.
THEOREM PoolInvariant == PoolSpec => []PoolInv
  BY PoolInvInit, PoolInvStep, PTL DEF PoolSpec

(***************************************************************************)
(* The level of a purpose is the number of pages handed out for it, and a  *)
(* page that a caller can give back has a purpose: the levels do not drift *)
(* and the Must() of PagePool::put() holds, however gets and puts overlap. *)
(***************************************************************************)
THEOREM LevelsNeverDrift == PoolSpec => []LevelsExact
<1>1. PoolInv => LevelsExact
  BY DEF PoolInv
<1> QED
  BY <1>1, PoolInvariant, PTL

(***************************************************************************)
(* GetPage() and PutPage() lose and duplicate no page, and push() finds    *)
(* room for every page that PutPage() gives back.                          *)
(***************************************************************************)
THEOREM PoolKeepsPages == PoolSpec => [](PagesKept /\ PushFindsRoom)
<1>1. PoolInv => PagesKept /\ PushFindsRoom
  BY DEF PoolInv, StackInv
<1> QED
  BY <1>1, PoolInvariant, PTL
=============================================================================
