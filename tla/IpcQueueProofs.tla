--------------------------- MODULE IpcQueueProofs ---------------------------
(***************************************************************************)
(* Proofs about the queues between kids, for any number of writers, any    *)
(* capacity and any range of the indexes that the capacity divides.        *)
(*                                                                         *)
(* The rings implement first-in first-out queues.  RingInv says that the   *)
(* indexes are as far apart as there are items, modulo the range of an     *)
(* unsigned int; positions are indexes modulo the capacity.  That an index *)
(* keeps its position when it wraps (ModAdd, where IndexRange % Capacity   *)
(* = 0 is needed) and that indexes closer than the capacity have different *)
(* positions (ModApart) are then all that memcpy() in and out relies on.   *)
(*                                                                         *)
(* A push into an empty queue is heard.  The property speaks of a sleeping *)
(* reader and is not inductive: the reader may have passed the queue long  *)
(* before it sleeps.  PassedNotified says the same from the moment when    *)
(* the reader has blocked and found the queue empty again, which needs     *)
(* that it stays blocked while it visits the other queues (ScanMatches),   *)
(* and that a writer which sends a message owns the signal                 *)
(* (OneNotification).                                                      *)
(***************************************************************************)
EXTENDS IpcQueue, FiniteSetTheorems, SequenceTheorems, TLAPS

----------------------------------------------------------------------------
(* Indexes modulo the capacity of a ring and modulo the range of an integer. *)

\* Products and sums.
LEMMA MulFacts ==
    ASSUME NEW c \in Int, NEW p \in Int, NEW q \in Int
    PROVE  /\ c * p \in Int
           /\ c * (p - q) = c * p - c * q /\ c * (p + q) = c * p + c * q
           /\ (c * p) * q = c * (p * q)
  OBVIOUS

\* A multiple is at least as far from zero as the number itself.
LEMMA MulFar ==
    ASSUME NEW c \in Nat \ {0}, NEW k \in Int
    PROVE  (k >= 1 => c * k >= c) /\ (k <= -1 => c * k <= -c)
<1>1. k >= 1 => c * k >= c
  OBVIOUS
<1>2. k <= -1 => c * k <= -c
  OBVIOUS
<1> QED
  BY <1>1, <1>2

\* Quotient and remainder.
LEMMA ModDef ==
    ASSUME NEW a \in Nat, NEW c \in Nat \ {0}
    PROVE  a % c \in 0 .. c - 1 /\ a \div c \in Nat /\ a = c * (a \div c) + (a % c)
<1>1. a % c \in 0 .. c - 1
  OBVIOUS
<1>2. a \div c \in Nat
  OBVIOUS
<1>3. a = c * (a \div c) + (a % c)
  OBVIOUS
<1> QED
  BY <1>1, <1>2, <1>3

\* The remainder is the only number of its kind.
LEMMA ModUnique ==
    ASSUME NEW a \in Nat, NEW c \in Nat \ {0}, NEW q \in Int, NEW r \in 0 .. c - 1, a = c * q + r
    PROVE  a % c = r
<1> DEFINE p == a \div c
           s == a % c
<1>1. p \in Int /\ s \in 0 .. c - 1 /\ a = c * p + s
  BY ModDef
<1> HIDE DEF p, s
<1>2. c * (p - q) = r - s
  <2>1. c * (p - q) = c * p - c * q /\ c * p \in Int /\ c * q \in Int
    BY <1>1, MulFacts
  <2> QED
    BY <1>1, <2>1
<1>3. ~(p - q >= 1) /\ ~(p - q <= -1)
  BY <1>1, <1>2, MulFar
<1>4. p = q
  BY <1>1, <1>3
<1> QED
  BY <1>1, <1>4 DEF s

\* An index that wraps at a multiple of the capacity keeps its position in the ring.
LEMMA ModAdd ==
    ASSUME NEW a \in Nat, NEW k \in Nat, NEW m \in Nat \ {0}, NEW c \in Nat \ {0}, m % c = 0
    PROVE  ((a % m) + k) % c = (a + k) % c
<1> DEFINE d == a \div m
           e == m \div c
           b == (a % m) + k
           q == b \div c
           r == b % c
<1>1. d \in Nat /\ a = m * d + (a % m) /\ a % m \in Nat
  BY ModDef
<1>2. e \in Nat /\ m = c * e
  BY ModDef
<1>3. b \in Nat /\ a + k = m * d + b
  BY <1>1, MulFacts
<1>4. q \in Nat /\ r \in 0 .. c - 1 /\ b = c * q + r
  <2> HIDE DEF b
  <2> QED
    BY <1>3, ModDef
<1> HIDE DEF d, e, b, q, r
<1>5. a + k = c * (e * d + q) + r /\ e * d + q \in Int
  <2>1. e * d \in Int /\ m * d = c * (e * d)
    BY <1>1, <1>2, MulFacts
  <2>2. c * (e * d + q) = c * (e * d) + c * q /\ c * (e * d) \in Int /\ c * q \in Int
    BY <1>4, <2>1, MulFacts
  <2> QED
    BY <1>3, <1>4, <2>1, <2>2
<1>6. (a + k) % c = r
  <2> DEFINE t == a + k
             u == e * d + q
  <2>1. t \in Nat /\ u \in Int /\ t = c * u + r
    BY <1>5
  <2> HIDE DEF t, u
  <2>2. t % c = r
    BY <1>4, <2>1, ModUnique
  <2> QED
    BY <2>2 DEF t
<1> QED
  BY <1>6 DEF r, b

\* Indexes closer than the capacity have different positions in the ring.
LEMMA ModApart ==
    ASSUME NEW a \in Nat, NEW b \in Nat, NEW c \in Nat \ {0}, a < b, b < a + c
    PROVE  a % c # b % c
<1> DEFINE p == a \div c
           q == b \div c
<1>1. p \in Nat /\ q \in Nat /\ a = c * p + (a % c) /\ b = c * q + (b % c)
      /\ a % c \in Nat /\ b % c \in Nat
  BY ModDef
<1> HIDE DEF p, q
<1>2. SUFFICES ASSUME a % c = b % c PROVE FALSE
  OBVIOUS
<1>3. c * (q - p) = b - a
  <2>1. c * (q - p) = c * q - c * p /\ c * p \in Int /\ c * q \in Int
    BY <1>1, MulFacts
  <2> QED
    BY <1>1, <1>2, <2>1
<1>4. ~(q - p >= 1) /\ ~(q - p <= -1)
  BY <1>1, <1>3, MulFar
<1>5. q = p
  BY <1>1, <1>4
<1>6. c * (q - p) = 0
  BY <1>1, <1>5
<1> QED
  BY <1>3, <1>6

\* A smaller number is its own remainder.
LEMMA ModSmall ==
    ASSUME NEW c \in Nat \ {0}, NEW a \in 0 .. c - 1
    PROVE  a % c = a
<1>1. a = c * 0 + a
  OBVIOUS
<1> QED
  BY <1>1, ModUnique

\* Any number divides itself.
LEMMA ModSelf ==
    ASSUME NEW c \in Nat \ {0}
    PROVE  c % c = 0
<1>1. c = c * 1 + 0
  OBVIOUS
<1> QED
  BY <1>1, ModUnique

\* The same as facts about an operator, in the form in which the provers find them.
Mod(a, c) == a % c

LEMMA ModFacts ==
    ASSUME NEW m \in Nat \ {0}, NEW c \in Nat \ {0}, Mod(m, c) = 0
    PROVE  /\ \A a, k \in Nat : Mod(Mod(a, m) + k, c) = Mod(a + k, c)
           /\ \A a \in Nat : Mod(Mod(a, m), c) = Mod(a, c)
           /\ \A a \in Nat : Mod(a, c) \in 0 .. c - 1 /\ Mod(a, c) \in Nat
<1>1. \A a, k \in Nat : Mod(Mod(a, m) + k, c) = Mod(a + k, c)
  <2> TAKE a, k \in Nat
  <2>1. m % c = 0
    BY DEF Mod
  <2>2. ((a % m) + k) % c = (a + k) % c
    BY <2>1, ModAdd
  <2> QED
    BY <2>2 DEF Mod
<1>2. \A a \in Nat, d \in Nat \ {0} : Mod(a, d) \in 0 .. d - 1 /\ Mod(a, d) \in Nat
  BY ModDef DEF Mod
<1>3. ASSUME NEW a \in Nat PROVE Mod(Mod(a, m), c) = Mod(a, c)
  <2>1. Mod(Mod(a, m) + 0, c) = Mod(a + 0, c)
    BY <1>1
  <2>2. Mod(a, m) + 0 = Mod(a, m) /\ a + 0 = a
    BY <1>2
  <2> QED
    BY <2>1, <2>2
<1> QED
  BY <1>1, <1>2, <1>3

\* The next index of a ring.
LEMMA ModNext ==
    ASSUME NEW a \in Nat, NEW m \in Nat \ {0}
    PROVE  Mod(Mod(a, m) + 1, m) = Mod(a + 1, m)
<1>1. Mod(m, m) = 0
  BY ModSelf DEF Mod
<1> QED
  BY <1>1, ModFacts

----------------------------------------------------------------------------
(* The rings *)

\* What the provers need of the types, and of the numbers of items.
LEMMA RingFacts ==
    ASSUME RingInv
    PROVE  /\ TypeOK /\ RingMatches
           /\ NWriters \in Nat \ {0} /\ Capacity \in Nat \ {0} /\ IndexRange \in Nat \ {0}
           /\ IndexRange % Capacity = 0 /\ theLastPop \in Writers
           /\ \A w \in Writers :
                /\ theOut[w] \in Nat /\ theOut[w] < IndexRange
                /\ theIn[w] \in Nat /\ theIn[w] < IndexRange
                /\ theSize[w] \in Nat /\ theSize[w] <= Capacity
                /\ Available(w) \in Nat /\ Available(w) <= theSize[w]
<1>1. /\ TypeOK /\ RingMatches
      /\ NWriters \in Nat \ {0} /\ Capacity \in Nat \ {0} /\ IndexRange \in Nat \ {0}
      /\ IndexRange % Capacity = 0 /\ theLastPop \in Writers
  BY QueueAssumption DEF RingInv, TypeOK
<1>2. \A w \in Writers :
                /\ theOut[w] \in Nat /\ theOut[w] < IndexRange
                /\ theIn[w] \in Nat /\ theIn[w] < IndexRange
                /\ theSize[w] \in Nat /\ theSize[w] <= Capacity
  BY <1>1 DEF TypeOK
<1>3. \A w \in Writers : Available(w) \in Nat /\ Available(w) <= theSize[w]
  <2>1. rpc = "size" => theSize[theLastPop] > 0
    BY <1>1 DEF RingMatches
  <2> QED
    BY <1>1, <1>2, <2>1 DEF Available
<1> QED
  BY <1>1, <1>2, <1>3

\* Steps that leave the rings alone.
LEMMA RingFrame ==
    ASSUME RingInv, UNCHANGED <<theIn, theOut, theSize, theBuffer, pushing, popped>>,
           \A w \in Writers : /\ wpc'[w] = "size" <=> wpc[w] = "size"
                              /\ wpc'[w] \in {"testEmpty", "store", "size"} => theSize[w] < Capacity
                              /\ rpc' = "size" /\ theLastPop' = w <=> rpc = "size" /\ theLastPop = w,
           rpc' \in {"unblock", "take", "size"} => theSize[theLastPop'] > 0,
           rpc' # "size" => popped = <<>>
    PROVE  RingMatches'
<1>1. \A w \in Writers : Available(w)' = Available(w)
  BY DEF Available
<1> QED
  BY <1>1 DEF RingMatches, RingInv

\* Where writers and the reader can be.
WPcs == {"idle", "testEmpty", "store", "size", "testBlocked", "raise", "notify"}
RPcs == {"asleep", "paused", "clear", "next", "testEmpty", "block", "retest", "unblock", "take",
         "size"}

\* Steps of a writer that only move it.
LEMMA WriterMove ==
    ASSUME RingInv, NEW w \in Writers, NEW pc \in WPcs,
           wpc' = [wpc EXCEPT ![w] = pc], pc # "size", wpc[w] # "size",
           pc \in {"testEmpty", "store"} => theSize[w] < Capacity,
           popSignal' \in {0, 1}, wasEmpty' \in [Writers -> BOOLEAN], messages' \in Nat,
           UNCHANGED <<theIn, theOut, theSize, theBuffer, pushing, popped, rpc, theLastPop, visited,
                       popBlocked>>
    PROVE  RingInv'
<1>0. TypeOK /\ RingMatches
  BY RingFacts
<1>1. wpc' \in [Writers -> WPcs]
  BY <1>0 DEF TypeOK, WPcs
<1>2. TypeOK'
  BY <1>0, <1>1 DEF TypeOK, WPcs
<1>3. \A x \in Writers : /\ wpc'[x] = "size" <=> wpc[x] = "size"
                         /\ wpc'[x] \in {"testEmpty", "store", "size"} => theSize[x] < Capacity
  BY <1>0 DEF TypeOK, RingMatches
<1>4. RingMatches'
  BY <1>0, <1>3, RingFrame DEF RingMatches
<1> QED
  BY <1>2, <1>4 DEF RingInv

\* Steps of the reader that only move it.
LEMMA ReaderMove ==
    ASSUME RingInv, rpc # "size", rpc' # "size", rpc' \in RPcs,
           rpc' \in {"unblock", "take"} => theSize[theLastPop'] > 0,
           popBlocked' \in {0, 1}, popSignal' \in {0, 1}, messages' \in Nat,
           visited' \in 0 .. NWriters, theLastPop' \in Writers,
           UNCHANGED <<theIn, theOut, theSize, theBuffer, pushing, popped, wpc, wasEmpty>>
    PROVE  RingInv'
<1>0. TypeOK /\ RingMatches
  BY RingFacts
<1>2. TypeOK'
  BY <1>0 DEF TypeOK, RPcs
<1>3. \A x \in Writers : wpc[x] \in {"testEmpty", "store", "size"} => theSize[x] < Capacity
  BY <1>0 DEF RingMatches
<1>4. RingMatches'
  BY <1>0, <1>3, RingFrame DEF RingMatches
<1> QED
  BY <1>2, <1>4 DEF RingInv

\* memcpy() into the ring: the position is free, and is the one that will be read as the last.
LEMMA PushStoreRing ==
    ASSUME RingInv, NEW w \in Writers, NEW v \in Values, PushStore(w, v)
    PROVE  RingInv' /\ \A x \in Writers : Unread(x)' = Unread(x)
<1> DEFINE n == Available(w)
           o == theOut[w]
<1>0. /\ wpc[w] = "store" /\ wpc' = [wpc EXCEPT ![w] = "size"]
      /\ theBuffer' = [theBuffer EXCEPT ![w][theIn[w] % Capacity] = v]
      /\ theIn' = [theIn EXCEPT ![w] = (theIn[w] + 1) % IndexRange]
      /\ pushing' = [pushing EXCEPT ![w] = <<v>>]
      /\ UNCHANGED <<theOut, theSize, popBlocked, popSignal, wasEmpty, rpc, theLastPop, visited,
                     popped, messages>>
  BY DEF PushStore, WGoto, readerVars, readerLocals
<1>1. /\ TypeOK /\ RingMatches /\ Capacity \in Nat \ {0} /\ IndexRange \in Nat \ {0}
      /\ IndexRange % Capacity = 0 /\ o \in Nat /\ n \in Nat /\ n <= theSize[w]
      /\ theSize[w] \in Nat /\ theIn[w] \in Nat
  BY RingFacts
<1>2. theIn[w] = (o + n) % IndexRange /\ theSize[w] < Capacity
  <2>1. theIn[w] = (o + n + 0) % IndexRange /\ theSize[w] < Capacity
    BY <1>0, <1>1 DEF RingMatches
  <2>2. o + n + 0 = o + n
    BY <1>1
  <2> QED
    BY <2>1, <2>2
<1>3. \A x \in Writers : Available(x)' = Available(x)
  BY <1>0 DEF Available
<1> HIDE DEF n, o
<1>4. theIn[w] % Capacity = (o + n) % Capacity /\ theIn[w] % Capacity \in 0 .. Capacity - 1
  <2> DEFINE t == o + n
  <2>1. t \in Nat /\ theIn[w] = t % IndexRange
    BY <1>1, <1>2
  <2> HIDE DEF t
  <2>2. (t % IndexRange) % Capacity = t % Capacity
    <3>1. Mod(IndexRange, Capacity) = 0
      BY <1>1 DEF Mod
    <3>2. Mod(Mod(t, IndexRange), Capacity) = Mod(t, Capacity)
      BY <1>1, <2>1, <3>1, ModFacts
    <3> QED
      BY <3>2 DEF Mod
  <2>4. theIn[w] % Capacity \in 0 .. Capacity - 1
    BY <1>1, ModDef
  <2> QED
    BY <2>1, <2>2, <2>4 DEF t
<1>5. (theIn[w] + 1) % IndexRange = (o + n + 1) % IndexRange
      /\ (theIn[w] + 1) % IndexRange \in 0 .. IndexRange - 1
  <2> DEFINE t == o + n
             i == theIn[w] + 1
  <2>1. t \in Nat /\ theIn[w] = t % IndexRange /\ i \in Nat
    BY <1>1, <1>2
  <2> HIDE DEF t
  <2>2. ((t % IndexRange) + 1) % IndexRange = (t + 1) % IndexRange
    BY <1>1, <2>1, ModNext DEF Mod
  <2>3. i % IndexRange \in 0 .. IndexRange - 1
    <3> HIDE DEF i
    <3> QED
      BY <1>1, <2>1, ModDef
  <2> QED
    BY <2>1, <2>2, <2>3 DEF t
<1> DEFINE p == theIn[w] % Capacity
           i1 == (theIn[w] + 1) % IndexRange
<1>6. p \in 0 .. Capacity - 1 /\ i1 \in 0 .. IndexRange - 1 /\ p = (o + n) % Capacity
      /\ i1 = (o + n + 1) % IndexRange
      /\ theBuffer' = [theBuffer EXCEPT ![w][p] = v] /\ theIn' = [theIn EXCEPT ![w] = i1]
  BY <1>0, <1>4, <1>5
<1> HIDE DEF p, i1
<1> DEFINE Pos == 0 .. Capacity - 1
           Idx == 0 .. IndexRange - 1
<1>a. /\ theBuffer \in [Writers -> [Pos -> Values]] /\ theIn \in [Writers -> Idx]
      /\ p \in Pos /\ i1 \in Idx
  BY <1>1, <1>6 DEF TypeOK
<1> HIDE DEF Pos, Idx
<1>7. /\ theBuffer' \in [Writers -> [Pos -> Values]]
      /\ theBuffer'[w][p] = v
      /\ \A q \in Pos : q # p => theBuffer'[w][q] = theBuffer[w][q]
      /\ \A x \in Writers : x # w => theBuffer'[x] = theBuffer[x]
      /\ theIn' \in [Writers -> Idx] /\ theIn'[w] = i1
      /\ \A x \in Writers : x # w => theIn'[x] = theIn[x]
  BY <1>6, <1>a
<1>8. TypeOK'
  <2>1. wpc' \in [Writers -> WPcs]
    BY <1>0, <1>1 DEF TypeOK, WPcs
  <2>2. pushing' \in [Writers -> Seq(Values)]
    BY <1>0, <1>1 DEF TypeOK
  <2> QED
    BY <1>0, <1>1, <1>7, <2>1, <2>2 DEF TypeOK, WPcs, Pos, Idx
<1>9. RingMatches'
  <2>1. /\ wpc'[w] = "size" /\ pushing'[w] = <<v>>
        /\ \A x \in Writers : x # w => wpc'[x] = wpc[x] /\ pushing'[x] = pushing[x]
    BY <1>0, <1>1 DEF TypeOK
  <2>2. /\ theIn'[w] = (theOut[w] + Available(w) + 1) % IndexRange
        /\ theBuffer'[w][(theOut[w] + Available(w)) % Capacity] = v
    BY <1>6, <1>7 DEF o, n
  <2>3. ASSUME NEW x \in Writers
        PROVE  /\ theIn'[x] = (theOut[x] + Available(x) + (IF wpc'[x] = "size" THEN 1 ELSE 0)) % IndexRange
               /\ wpc'[x] \in {"testEmpty", "store", "size"} => theSize[x] < Capacity
               /\ pushing'[x] = IF wpc'[x] = "size"
                        THEN <<theBuffer'[x][(theOut[x] + Available(x)) % Capacity]>> ELSE <<>>
    <3>1. CASE x = w
      BY <1>2, <2>1, <2>2, <3>1
    <3>2. CASE x # w
      BY <1>1, <1>7, <2>1, <3>2 DEF RingMatches
    <3> QED
      BY <3>1, <3>2
  <2>4. /\ rpc \in {"unblock", "take", "size"} => theSize[theLastPop] > 0
        /\ rpc # "size" => popped = <<>>
    BY <1>1 DEF RingMatches
  <2> QED
    BY <1>0, <1>3, <2>3, <2>4 DEF RingMatches
<1>10. ASSUME NEW x \in Writers PROVE Unread(x)' = Unread(x)
  <2>1. CASE x # w
    BY <1>0, <1>3, <1>7, <2>1 DEF Unread
  <2>2. CASE x = w
    <3>1. ASSUME NEW i \in 1 .. n
          PROVE  theBuffer'[w][(o + i - 1) % Capacity] = theBuffer[w][(o + i - 1) % Capacity]
      <4> DEFINE a == o + i - 1
                 b == o + n
      <4>1. a \in Nat /\ b \in Nat /\ a < b /\ b < a + Capacity
        BY <1>1, <1>2, <3>1
      <4> HIDE DEF a, b
      <4>2. a % Capacity # b % Capacity /\ a % Capacity \in 0 .. Capacity - 1
        BY <1>1, <4>1, ModApart, ModDef
      <4>3. theBuffer'[w][a % Capacity] = theBuffer[w][a % Capacity]
        BY <1>6, <1>7, <4>2 DEF b, Pos
      <4> QED
        BY <4>3 DEF a
    <3>2. Unread(w)' = [i \in 1 .. n |-> theBuffer'[w][(o + i - 1) % Capacity]]
      BY <1>0, <1>3 DEF Unread, n, o
    <3>3. Unread(w) = [i \in 1 .. n |-> theBuffer[w][(o + i - 1) % Capacity]]
      BY DEF Unread, n, o
    <3> QED
      BY <2>2, <3>1, <3>2, <3>3
  <2> QED
    BY <2>1, <2>2
<1> QED
  BY <1>8, <1>9, <1>10 DEF RingInv

\* ++theSize: the copied item becomes the last one to read.
LEMMA PushSizeRing ==
    ASSUME RingInv, NEW w \in Writers, PushSize(w)
    PROVE  /\ RingInv'
           /\ Unread(w)' = Append(Unread(w), Head(pushing[w]))
           /\ Len(Unread(w)) < Capacity /\ pushing[w] # <<>>
           /\ \A x \in Writers : x # w => Unread(x)' = Unread(x)
<1> DEFINE n == Available(w)
           o == theOut[w]
           to == IF wasEmpty[w] THEN "testBlocked" ELSE "idle"
<1>0. /\ wpc[w] = "size" /\ wpc' = [wpc EXCEPT ![w] = to]
      /\ theSize' = [theSize EXCEPT ![w] = theSize[w] + 1]
      /\ pushing' = [pushing EXCEPT ![w] = <<>>]
      /\ UNCHANGED <<theIn, theOut, theBuffer, popBlocked, popSignal, wasEmpty, rpc, theLastPop,
                     visited, popped, messages>>
  BY DEF PushSize, WGoto, readerVars, readerLocals
<1>1. /\ TypeOK /\ RingMatches /\ Capacity \in Nat \ {0} /\ IndexRange \in Nat \ {0}
      /\ o \in Nat /\ n \in Nat /\ n <= theSize[w] /\ theSize[w] \in Nat
      /\ \A x \in Writers : theSize[x] \in Nat
  BY RingFacts
<1>2. /\ theSize[w] < Capacity /\ theIn[w] = (o + n + 1) % IndexRange
      /\ pushing[w] = <<theBuffer[w][(o + n) % Capacity]>>
  BY <1>0, <1>1 DEF RingMatches
<1>3. /\ theSize'[w] = theSize[w] + 1 /\ wpc'[w] = to /\ pushing'[w] = <<>>
      /\ \A x \in Writers : x # w => /\ theSize'[x] = theSize[x] /\ wpc'[x] = wpc[x]
                                     /\ pushing'[x] = pushing[x]
  BY <1>0, <1>1 DEF TypeOK
<1>4. /\ Available(w)' = n + 1
      /\ \A x \in Writers : x # w => Available(x)' = Available(x)
  BY <1>0, <1>1, <1>3 DEF Available
<1>5. to \in {"testBlocked", "idle"}
  OBVIOUS
<1> HIDE DEF n, o, to
<1>6. TypeOK'
  <2>1. wpc' \in [Writers -> WPcs]
    BY <1>0, <1>1, <1>5 DEF TypeOK, WPcs
  <2>2. pushing' \in [Writers -> Seq(Values)]
    BY <1>0, <1>1 DEF TypeOK
  <2>3. theSize' \in [Writers -> 0 .. Capacity]
    BY <1>0, <1>1, <1>2 DEF TypeOK
  <2> QED
    BY <1>0, <1>1, <2>1, <2>2, <2>3 DEF TypeOK, WPcs
<1>7. RingMatches'
  <2>1. theIn[w] = (o + (n + 1) + 0) % IndexRange
    <3>1. o + (n + 1) + 0 = o + n + 1
      BY <1>1
    <3> QED
      BY <1>2, <3>1
  <2>3. ASSUME NEW x \in Writers
        PROVE  /\ theIn[x] = (theOut[x] + Available(x)' + (IF wpc'[x] = "size" THEN 1 ELSE 0)) % IndexRange
               /\ wpc'[x] \in {"testEmpty", "store", "size"} => theSize'[x] < Capacity
               /\ pushing'[x] = IF wpc'[x] = "size"
                        THEN <<theBuffer[x][(theOut[x] + Available(x)') % Capacity]>> ELSE <<>>
    <3>1. CASE x = w
      BY <1>3, <1>4, <1>5, <2>1, <3>1 DEF o
    <3>2. CASE x # w
      BY <1>1, <1>3, <1>4, <3>2 DEF RingMatches
    <3> QED
      BY <3>1, <3>2
  <2>4. /\ rpc \in {"unblock", "take", "size"} => theSize'[theLastPop] > 0
        /\ rpc # "size" => popped = <<>>
    <3>1. theLastPop \in Writers
      BY <1>1 DEF TypeOK
    <3> QED
      BY <1>1, <1>3, <3>1 DEF RingMatches
  <2> QED
    BY <1>0, <2>3, <2>4 DEF RingMatches
<1>8. \A x \in Writers : x # w => Unread(x)' = Unread(x)
  BY <1>0, <1>4 DEF Unread
<1>9. /\ Unread(w)' = Append(Unread(w), Head(pushing[w]))
      /\ Len(Unread(w)) < Capacity /\ pushing[w] # <<>>
  <2> DEFINE f(i) == theBuffer[w][(o + i - 1) % Capacity]
             s == [i \in 1 .. n |-> f(i)]
             t == [i \in 1 .. n + 1 |-> f(i)]
             v == theBuffer[w][(o + n) % Capacity]
  <2>1. Unread(w) = s
    BY DEF Unread, n, o
  <2>2. Unread(w)' = t
    BY <1>0, <1>4 DEF Unread, o
  <2>3. f(n + 1) = v
    <3>1. o + (n + 1) - 1 = o + n
      BY <1>1
    <3> QED
      BY <3>1
  <2>4. Head(pushing[w]) = v /\ pushing[w] # <<>>
    BY <1>2
  <2> HIDE DEF f, v
  <2>5. t = Append(s, v) /\ Len(s) = n
    BY <1>1, <2>3
  <2> HIDE DEF s, t
  <2> QED
    BY <1>1, <1>2, <2>1, <2>2, <2>4, <2>5
<1> QED
  BY <1>6, <1>7, <1>8, <1>9 DEF RingInv

\* memcpy() out of the ring: the first item to read.
LEMMA PopTakeRing ==
    ASSUME RingInv, PopTake, NEW w \in Writers, w = theLastPop
    PROVE  /\ RingInv' /\ popped = <<>>
           /\ Unread(w) # <<>> /\ popped' = <<w, Head(Unread(w))>>
           /\ Unread(w)' = Tail(Unread(w))
           /\ \A x \in Writers : x # w => Unread(x)' = Unread(x)
<1> DEFINE n == Available(w)
           o == theOut[w]
           o1 == (theOut[w] + 1) % IndexRange
<1>0. /\ rpc = "take" /\ rpc' = "size"
      /\ popped' = <<w, theBuffer[w][o % Capacity]>>
      /\ theOut' = [theOut EXCEPT ![w] = o1]
      /\ UNCHANGED <<theIn, theSize, theBuffer, popBlocked, popSignal, wpc, wasEmpty, pushing,
                     theLastPop, visited, messages>>
  BY DEF PopTake, RGoto, readerVars, writerLocals
<1>1. /\ TypeOK /\ RingMatches /\ Capacity \in Nat \ {0} /\ IndexRange \in Nat \ {0}
      /\ IndexRange % Capacity = 0 /\ w \in Writers
      /\ o \in Nat /\ n \in Nat
      /\ \A x \in Writers : theSize[x] \in Nat /\ theSize[x] <= Capacity
  BY RingFacts
<1>2. n = theSize[w] /\ n > 0 /\ popped = <<>>
  BY <1>0, <1>1 DEF RingMatches, Available
<1>3. /\ Available(w)' = n - 1
      /\ \A x \in Writers : x # w => Available(x)' = Available(x)
  BY <1>0, <1>1, <1>2 DEF Available
<1>m. Mod(IndexRange, Capacity) = 0 /\ Mod(IndexRange, IndexRange) = 0
  BY <1>1, ModSelf DEF Mod
<1>4. o1 \in 0 .. IndexRange - 1 /\ o1 = Mod(o + 1, IndexRange)
  <2> DEFINE t == o + 1
  <2>1. t \in Nat
    BY <1>1
  <2> HIDE DEF t
  <2>2. t % IndexRange \in 0 .. IndexRange - 1
    BY <1>1, <2>1, ModDef
  <2> QED
    BY <2>2 DEF Mod, t
<1>a. \A k \in Nat : /\ Mod(o1 + k, IndexRange) = Mod(o + 1 + k, IndexRange)
                     /\ Mod(o1 + k, Capacity) = Mod(o + 1 + k, Capacity)
  <2> DEFINE t == o + 1
  <2>1. t \in Nat /\ o1 = Mod(t, IndexRange)
    BY <1>1, <1>4
  <2> HIDE DEF t, o1
  <2> TAKE k \in Nat
  <2>2. Mod(Mod(t, IndexRange) + k, IndexRange) = Mod(t + k, IndexRange)
    BY <1>1, <1>m, <2>1, ModFacts
  <2>3. Mod(Mod(t, IndexRange) + k, Capacity) = Mod(t + k, Capacity)
    BY <1>1, <1>m, <2>1, ModFacts
  <2> QED
    BY <2>1, <2>2, <2>3 DEF t
<1> HIDE DEF n, o, o1
<1>5. /\ theOut' \in [Writers -> 0 .. IndexRange - 1] /\ theOut'[w] = o1
      /\ \A x \in Writers : x # w => theOut'[x] = theOut[x]
  BY <1>0, <1>1, <1>4 DEF TypeOK
<1>6. TypeOK'
  BY <1>0, <1>1, <1>5 DEF TypeOK
<1>7. RingMatches'
  <2>0. ASSUME NEW j \in Nat
        PROVE  /\ (o1 + (n - 1) + j) % IndexRange = (o + n + j) % IndexRange
               /\ (o1 + (n - 1)) % Capacity = (o + n) % Capacity
    <3>1. n - 1 + j \in Nat /\ n - 1 \in Nat /\ o1 \in Nat
      BY <1>1, <1>2, <1>4
    <3>2. /\ Mod(o1 + (n - 1 + j), IndexRange) = Mod(o + 1 + (n - 1 + j), IndexRange)
          /\ Mod(o1 + (n - 1), Capacity) = Mod(o + 1 + (n - 1), Capacity)
      BY <1>a, <3>1
    <3>3. /\ o1 + (n - 1 + j) = o1 + (n - 1) + j
          /\ o + 1 + (n - 1 + j) = o + n + j /\ o + 1 + (n - 1) = o + n
      BY <1>1, <3>1
    <3> QED
      BY <3>2, <3>3 DEF Mod
  <2>3. ASSUME NEW x \in Writers
        PROVE  /\ theIn[x] = (theOut'[x] + Available(x)' + (IF wpc[x] = "size" THEN 1 ELSE 0)) % IndexRange
               /\ wpc[x] \in {"testEmpty", "store", "size"} => theSize[x] < Capacity
               /\ pushing[x] = IF wpc[x] = "size"
                        THEN <<theBuffer[x][(theOut'[x] + Available(x)') % Capacity]>> ELSE <<>>
    <3>1. CASE x = w
      <4> DEFINE j == IF wpc[x] = "size" THEN 1 ELSE 0
      <4>1. j \in Nat
        OBVIOUS
      <4>2. /\ theIn[x] = (o + n + j) % IndexRange
            /\ wpc[x] \in {"testEmpty", "store", "size"} => theSize[x] < Capacity
            /\ pushing[x] = IF wpc[x] = "size" THEN <<theBuffer[x][(o + n) % Capacity]>> ELSE <<>>
        <5>1. /\ theIn[x] = (theOut[x] + Available(x) + j) % IndexRange
              /\ wpc[x] \in {"testEmpty", "store", "size"} => theSize[x] < Capacity
              /\ pushing[x] = IF wpc[x] = "size"
                        THEN <<theBuffer[x][(theOut[x] + Available(x)) % Capacity]>> ELSE <<>>
          BY <1>1 DEF RingMatches
        <5>2. theOut[x] = o /\ Available(x) = n
          BY <3>1 DEF o, n
        <5> HIDE DEF j
        <5> QED
          BY <5>1, <5>2
      <4>3. theOut'[x] = o1 /\ Available(x)' = n - 1
        BY <1>3, <1>5, <3>1
      <4> HIDE DEF j
      <4>4. /\ (o1 + (n - 1) + j) % IndexRange = (o + n + j) % IndexRange
            /\ (o1 + (n - 1)) % Capacity = (o + n) % Capacity
        BY <2>0, <4>1
      <4>5. theIn[x] = (theOut'[x] + Available(x)' + j) % IndexRange
        BY <4>2, <4>3, <4>4
      <4> QED
        BY <4>2, <4>3, <4>4, <4>5 DEF j
    <3>2. CASE x # w
      BY <1>1, <1>3, <1>5, <3>2 DEF RingMatches
    <3> QED
      BY <3>1, <3>2
  <2>4. theSize[theLastPop] > 0
    BY <1>1, <1>2
  <2> QED
    BY <1>0, <2>3, <2>4 DEF RingMatches
<1>8. \A x \in Writers : x # w => Unread(x)' = Unread(x)
  BY <1>0, <1>3, <1>5 DEF Unread
<1>9. /\ Unread(w) # <<>> /\ Unread(w)' = Tail(Unread(w))
      /\ popped' = <<w, Head(Unread(w))>>
  <2> DEFINE f(i) == theBuffer[w][(o + i - 1) % Capacity]
             g(i) == theBuffer[w][(o1 + i - 1) % Capacity]
             s == [i \in 1 .. n |-> f(i)]
             t == [i \in 1 .. n - 1 |-> g(i)]
  <2>1. Unread(w) = s
    BY DEF Unread, n, o
  <2>2. Unread(w)' = t
    BY <1>0, <1>3, <1>5 DEF Unread
  <2>3. \A i \in 1 .. n - 1 : g(i) = f(i + 1)
    <3> TAKE i \in 1 .. n - 1
    <3>1. i - 1 \in Nat /\ o1 \in Nat
      BY <1>1, <1>4
    <3>2. Mod(o1 + (i - 1), Capacity) = Mod(o + 1 + (i - 1), Capacity)
      BY <1>a, <3>1
    <3>3. o1 + (i - 1) = o1 + i - 1 /\ o + 1 + (i - 1) = o + (i + 1) - 1
      BY <1>1, <3>1
    <3> QED
      BY <3>2, <3>3 DEF Mod
  <2>4. popped' = <<w, f(1)>>
    <3>1. o + 1 - 1 = o
      BY <1>1
    <3> QED
      BY <1>0, <3>1
  <2> HIDE DEF f, g
  <2>5. s # <<>> /\ Head(s) = f(1) /\ Tail(s) = t
    BY <1>1, <1>2, <2>3
  <2> HIDE DEF s, t
  <2> QED
    BY <2>1, <2>2, <2>4, <2>5
<1> QED
  BY <1>1, <1>2, <1>6, <1>7, <1>8, <1>9 DEF RingInv

\* --theSize: the item that was taken makes room.
LEMMA PopSizeRing ==
    ASSUME RingInv, PopSize
    PROVE  RingInv' /\ popped' = <<>> /\ \A x \in Writers : Unread(x)' = Unread(x)
<1>0. /\ rpc = "size" /\ rpc' \in {"next", "paused"}
      /\ theSize' = [theSize EXCEPT ![theLastPop] = theSize[theLastPop] - 1]
      /\ visited' = 0 /\ popped' = <<>>
      /\ UNCHANGED <<theIn, theOut, theBuffer, popBlocked, popSignal, wpc, wasEmpty, pushing,
                     theLastPop, messages>>
  BY DEF PopSize, readerVars, writerLocals
<1>1. /\ TypeOK /\ RingMatches /\ Capacity \in Nat \ {0} /\ NWriters \in Nat \ {0}
      /\ theLastPop \in Writers /\ theSize[theLastPop] > 0
      /\ \A x \in Writers : theSize[x] \in Nat /\ theSize[x] <= Capacity
  <2>1. RingMatches /\ rpc = "size" => theSize[theLastPop] > 0
    BY DEF RingMatches
  <2> QED
    BY <1>0, <2>1, RingFacts
<1>2. /\ theSize' \in [Writers -> 0 .. Capacity]
      /\ \A x \in Writers : /\ theSize'[x] = (IF x = theLastPop THEN theSize[x] - 1 ELSE theSize[x])
                            /\ theSize'[x] <= theSize[x]
  BY <1>0, <1>1 DEF TypeOK
<1>3. \A x \in Writers : Available(x)' = Available(x)
  BY <1>0, <1>1, <1>2 DEF Available
<1>4. TypeOK'
  <2>1. visited' \in 0 .. NWriters
    BY <1>0, <1>1
  <2> QED
    BY <1>0, <1>1, <1>2, <2>1 DEF TypeOK
<1>5. RingMatches'
  <2>1. \A x \in Writers : wpc[x] \in {"testEmpty", "store", "size"} => theSize'[x] < Capacity
    <3>1. \A x \in Writers : wpc[x] \in {"testEmpty", "store", "size"} => theSize[x] < Capacity
      BY <1>1 DEF RingMatches
    <3>2. \A x \in Writers : theSize[x] < Capacity => theSize'[x] < Capacity
      BY <1>1, <1>2
    <3> QED
      BY <3>1, <3>2
  <2>2. \A x \in Writers :
            /\ theIn[x] = (theOut[x] + Available(x)' + (IF wpc[x] = "size" THEN 1 ELSE 0)) % IndexRange
            /\ pushing[x] = IF wpc[x] = "size"
                        THEN <<theBuffer[x][(theOut[x] + Available(x)') % Capacity]>> ELSE <<>>
    BY <1>1, <1>3 DEF RingMatches
  <2> QED
    BY <1>0, <2>1, <2>2 DEF RingMatches
<1>6. \A x \in Writers : Unread(x)' = Unread(x)
  BY <1>0, <1>3 DEF Unread
<1> QED
  BY <1>0, <1>4, <1>5, <1>6 DEF RingInv

\* The steps that leave every ring as it is.
LEMMA OtherRing ==
    ASSUME RingInv,
           \/ \E w \in Writers : \/ Push(w) \/ PushFull(w) \/ PushTestEmpty(w)
                                 \/ RaiseSignalTest(w) \/ RaiseSignal(w) \/ Notify(w)
           \/ ReceiveNotification \/ ClearSignal \/ Poll \/ Resume \/ PopNext
           \/ Pop \/ PopBlock \/ PopRetest \/ PopUnblock
           \/ UNCHANGED vars
    PROVE  RingInv' /\ UNCHANGED <<pushing, popped>> /\ \A x \in Writers : Unread(x)' = Unread(x)
<1>0. /\ TypeOK /\ RingMatches /\ theLastPop \in Writers /\ NWriters \in Nat \ {0}
      /\ messages \in Nat /\ popSignal \in {0, 1} /\ popBlocked \in {0, 1}
      /\ visited \in 0 .. NWriters /\ wasEmpty \in [Writers -> BOOLEAN]
      /\ \A w \in Writers : theSize[w] \in Nat /\ theSize[w] <= Capacity /\ Capacity \in Nat
  BY RingFacts DEF TypeOK
<1>1. /\ UNCHANGED <<theOut, theSize, theBuffer, pushing, popped>>
      /\ \A x \in Writers : (rpc' = "size" /\ theLastPop' = x) <=> (rpc = "size" /\ theLastPop = x)
  BY DEF Push, PushFull, PushTestEmpty, RaiseSignalTest, RaiseSignal, Notify, ReceiveNotification,
         ClearSignal, Poll, Resume, PopNext, Pop, PopBlock, PopRetest, PopUnblock, vars, queueVars,
         writerLocals, readerLocals, readerVars, WGoto, RGoto
<1>2. \A x \in Writers : Unread(x)' = Unread(x)
  <2>1. \A x \in Writers : Available(x)' = Available(x)
    BY <1>1 DEF Available
  <2> QED
    BY <1>1, <2>1 DEF Unread
<1>3. RingInv'
  <2> USE DEF queueVars, writerLocals, readerLocals, readerVars, WGoto, RGoto, WPcs, RPcs
  <2>1. ASSUME NEW w \in Writers, Push(w) PROVE RingInv'
    <3>1. theSize[w] < Capacity
      BY <1>0, <2>1 DEF Push
    <3> QED
      BY <1>0, <2>1, <3>1, WriterMove DEF Push
  <2>2. ASSUME NEW w \in Writers, PushTestEmpty(w) PROVE RingInv'
    <3>1. theSize[w] < Capacity
      BY <1>0, <2>2 DEF PushTestEmpty, RingMatches
    <3>2. wasEmpty' \in [Writers -> BOOLEAN]
      BY <1>0, <2>2 DEF PushTestEmpty
    <3> QED
      BY <1>0, <2>2, <3>1, <3>2, WriterMove DEF PushTestEmpty
  <2>3. ASSUME NEW w \in Writers, RaiseSignalTest(w) PROVE RingInv'
    <3> DEFINE pc == IF popBlocked = 1 THEN "raise" ELSE "idle"
    <3>1. pc \in WPcs /\ pc # "size" /\ pc \notin {"testEmpty", "store"}
      OBVIOUS
    <3>2. wpc' = [wpc EXCEPT ![w] = pc] /\ wpc[w] # "size"
      BY <2>3 DEF RaiseSignalTest
    <3> HIDE DEF pc
    <3> QED
      BY <1>0, <2>3, <3>1, <3>2, WriterMove DEF RaiseSignalTest
  <2>4. ASSUME NEW w \in Writers, RaiseSignal(w) PROVE RingInv'
    <3> DEFINE pc == IF popSignal = 0 THEN "notify" ELSE "idle"
    <3>1. pc \in WPcs /\ pc # "size" /\ pc \notin {"testEmpty", "store"}
      OBVIOUS
    <3>2. wpc' = [wpc EXCEPT ![w] = pc] /\ wpc[w] # "size"
      BY <2>4 DEF RaiseSignal
    <3> HIDE DEF pc
    <3> QED
      BY <1>0, <2>4, <3>1, <3>2, WriterMove DEF RaiseSignal
  <2>5. ASSUME NEW w \in Writers, Notify(w) PROVE RingInv'
    <3>1. messages' \in Nat
      BY <1>0, <2>5 DEF Notify
    <3>2. wpc' = [wpc EXCEPT ![w] = "idle"] /\ wpc[w] = "notify"
      BY <2>5 DEF Notify
    <3> QED
      BY <1>0, <2>5, <3>1, <3>2, WriterMove DEF Notify
  <2>6. ASSUME ReceiveNotification PROVE RingInv'
    <3>1. messages' \in Nat /\ popBlocked' \in {0, 1}
      BY <1>0, <2>6 DEF ReceiveNotification
    <3>2. rpc # "size" /\ rpc' = "clear"
      BY <2>6 DEF ReceiveNotification
    <3> QED
      BY <1>0, <2>6, <3>1, <3>2, ReaderMove DEF ReceiveNotification
  <2>7. ASSUME ClearSignal \/ Poll \/ Resume \/ PopBlock PROVE RingInv'
    BY <1>0, <2>7, ReaderMove DEF ClearSignal, Poll, Resume, PopBlock
  <2>8. ASSUME PopNext PROVE RingInv'
    <3>1. theLastPop' \in Writers /\ visited' \in 0 .. NWriters
      BY <1>0, <2>8 DEF PopNext, Writers
    <3> QED
      BY <1>0, <2>8, <3>1, ReaderMove DEF PopNext
  <2>9. ASSUME Pop \/ PopRetest PROVE RingInv'
    <3>1. /\ rpc # "size" /\ rpc' \in {"block", "next", "unblock"}
          /\ rpc' = "unblock" => theSize[theLastPop] # 0
      BY <2>9 DEF Pop, PopRetest
    <3>2. rpc' \in {"unblock", "take"} => theSize[theLastPop] > 0
      BY <1>0, <3>1
    <3> QED
      BY <1>0, <2>9, <3>1, <3>2, ReaderMove DEF Pop, PopRetest
  <2>10. ASSUME PopUnblock PROVE RingInv'
    <3>1. rpc = "unblock" /\ theSize[theLastPop] > 0
      BY <1>0, <2>10 DEF PopUnblock, RingMatches
    <3> QED
      BY <1>0, <2>10, <3>1, ReaderMove DEF PopUnblock
  <2>11. ASSUME UNCHANGED vars PROVE RingInv'
    BY <1>0, <2>11 DEF vars, RingInv, TypeOK, RingMatches, Available
  <2>12. ASSUME NEW w \in Writers, PushFull(w) PROVE RingInv'
    BY <2>11, <2>12 DEF PushFull
  <2> QED
    BY <2>1, <2>2, <2>3, <2>4, <2>5, <2>6, <2>7, <2>8, <2>9, <2>10, <2>11, <2>12
<1> QED
  BY <1>1, <1>2, <1>3

\* Empty rings.
LEMMA RingInit == Init => RingInv
<1> SUFFICES ASSUME Init PROVE RingInv
  OBVIOUS
<1>0. NWriters \in Nat \ {0} /\ Capacity \in Nat \ {0} /\ IndexRange \in Nat \ {0}
  BY QueueAssumption
<1>1. TypeOK
  <2>1. wasEmpty \in [Writers -> BOOLEAN]
    BY DEF Init
  <2>2. theBuffer \in [Writers -> [0 .. Capacity - 1 -> Values]]
    BY DEF Init
  <2>3. /\ theIn \in [Writers -> 0 .. IndexRange - 1] /\ theOut \in [Writers -> 0 .. IndexRange - 1]
        /\ theSize \in [Writers -> 0 .. Capacity]
    BY <1>0 DEF Init
  <2>4. theLastPop \in Writers /\ visited \in 0 .. NWriters /\ pushing \in [Writers -> Seq(Values)]
    BY <1>0 DEF Init, Writers
  <2> QED
    BY <2>1, <2>2, <2>3, <2>4 DEF Init, TypeOK
<1>2. RingMatches
  <2>1. 0 % IndexRange = 0
    BY <1>0, ModSmall
  <2>2. ASSUME NEW w \in Writers
        PROVE  theIn[w] = (theOut[w] + Available(w) + (IF wpc[w] = "size" THEN 1 ELSE 0)) % IndexRange
    <3>1. Available(w) = 0 /\ theOut[w] = 0 /\ theIn[w] = 0 /\ wpc[w] = "idle"
      BY DEF Init, Available
    <3>2. theOut[w] + Available(w) + (IF wpc[w] = "size" THEN 1 ELSE 0) = 0
      BY <3>1
    <3> QED
      BY <2>1, <3>1, <3>2
  <2>3. \A w \in Writers : wpc[w] = "idle" /\ pushing[w] = <<>>
    BY DEF Init
  <2> QED
    BY <2>2, <2>3 DEF Init, RingMatches
<1> QED
  BY <1>1, <1>2 DEF RingInv

\* Every access of a writer or of the reader preserves the invariant of the rings.
LEMMA RingStep == RingInv /\ [Next]_vars => RingInv'
<1> SUFFICES ASSUME RingInv, [Next]_vars PROVE RingInv'
  OBVIOUS
<1> QED
  BY PushStoreRing, PushSizeRing, PopSizeRing, OtherRing, PopTakeRing, RingFacts
  DEF Next, WriterInside, ReaderStep

\* The indexes, sizes and contents of the rings match in every state, across the wrapping of
\* theIn and theOut (OneToOneUniQueue::push(), pop()).
THEOREM RingInvariant == Spec => []RingInv
  BY RingInit, RingStep, PTL DEF Spec

\* A step of the rings is a step of the queues, or none.
LEMMA FifoStep ==
    ASSUME RingInv, [Next]_vars
    PROVE  [Fifo!Next]_<<[w \in Writers |-> Unread(w)], pushing, popped>>
<1> DEFINE q == [w \in Writers |-> Unread(w)]
<1>1. ASSUME NEW w \in Writers, NEW v \in Values, PushStore(w, v) PROVE Fifo!Offer(w, v)
  <2>1. q' = q
    BY <1>1, PushStoreRing
  <2>2. pushing[w] = <<>>
    <3>1. wpc[w] = "store"
      BY <1>1 DEF PushStore, WGoto
    <3> QED
      BY <3>1 DEF RingInv, RingMatches
  <2>3. pushing' = [pushing EXCEPT ![w] = <<v>>] /\ popped' = popped
    BY <1>1 DEF PushStore, readerLocals
  <2> QED
    BY <2>1, <2>2, <2>3 DEF Fifo!Offer
<1>2. ASSUME NEW w \in Writers, PushSize(w) PROVE Fifo!Push(w)
  <2>1. /\ Unread(w)' = Append(Unread(w), Head(pushing[w]))
        /\ Len(Unread(w)) < Capacity /\ pushing[w] # <<>>
        /\ \A x \in Writers : x # w => Unread(x)' = Unread(x)
    BY <1>2, PushSizeRing
  <2>2. q' = [q EXCEPT ![w] = Append(q[w], Head(pushing[w]))] /\ q[w] = Unread(w)
    BY <2>1
  <2>3. pushing' = [pushing EXCEPT ![w] = <<>>] /\ popped' = popped
    BY <1>2 DEF PushSize, readerLocals
  <2> QED
    BY <2>1, <2>2, <2>3 DEF Fifo!Push
<1>3. ASSUME NEW w \in Writers, w = theLastPop, PopTake PROVE Fifo!Pop(w)
  <2>1. /\ popped = <<>> /\ Unread(w) # <<>> /\ popped' = <<w, Head(Unread(w))>>
        /\ Unread(w)' = Tail(Unread(w))
        /\ \A x \in Writers : x # w => Unread(x)' = Unread(x)
    BY <1>3, PopTakeRing
  <2>2. q' = [q EXCEPT ![w] = Tail(q[w])] /\ q[w] = Unread(w)
    BY <2>1
  <2>3. pushing' = pushing
    BY <1>3 DEF PopTake, writerLocals
  <2> QED
    BY <2>1, <2>2, <2>3 DEF Fifo!Pop
<1>4. ASSUME PopSize PROVE Fifo!Return
  <2>1. q' = q /\ popped' = <<>>
    BY <1>4, PopSizeRing
  <2>2. pushing' = pushing
    BY <1>4 DEF PopSize, writerLocals
  <2> QED
    BY <2>1, <2>2 DEF Fifo!Return
<1>5. CASE \E w \in Writers : (\E v \in Values : PushStore(w, v)) \/ PushSize(w)
  BY <1>1, <1>2, <1>5 DEF Fifo!Next
<1>6. CASE PopTake
  BY <1>3, <1>6, RingFacts DEF Fifo!Next
<1>7. CASE PopSize
  BY <1>4, <1>7 DEF Fifo!Next
<1>8. CASE \/ \E w \in Writers : \/ Push(w) \/ PushFull(w) \/ PushTestEmpty(w)
                                 \/ RaiseSignalTest(w) \/ RaiseSignal(w) \/ Notify(w)
           \/ ReceiveNotification \/ ClearSignal \/ Poll \/ Resume \/ PopNext
           \/ Pop \/ PopBlock \/ PopRetest \/ PopUnblock
           \/ UNCHANGED vars
  BY <1>8, OtherRing
<1> QED
  BY <1>5, <1>6, <1>7, <1>8 DEF Next, WriterInside, ReaderStep

\* The lockless rings implement bounded first-in first-out queues: no item is lost,
\* duplicated, reordered or overwritten, for any number of writers, any capacity and any
\* range of indexes that the capacity divides (OneToOneUniQueue::push(), pop()).
THEOREM RingsAreFifo == Spec => ImplementsFifo
<1>1. Init => Fifo!Init
  <2> SUFFICES ASSUME Init PROVE Fifo!Init
    OBVIOUS
  <2>1. \A w \in Writers : Unread(w) = <<>>
    <3> TAKE w \in Writers
    <3>1. Available(w) = 0
      BY DEF Init, Available
    <3>2. 1 .. 0 = {}
      OBVIOUS
    <3> QED
      BY <3>1, <3>2 DEF Unread
  <2> QED
    BY <2>1 DEF Init, Fifo!Init
<1>2. RingInv /\ [Next]_vars => [Fifo!Next]_<<[w \in Writers |-> Unread(w)], pushing, popped>>
  BY FifoStep
<1> QED
  BY <1>1, <1>2, RingInvariant, PTL DEF Spec, ImplementsFifo, Fifo!Spec

----------------------------------------------------------------------------
(* The notifications *)

\* The writers that are about to send a message.
LEMMA RaisingFacts ==
    /\ IsFiniteSet(Raising) /\ Cardinality(Raising) \in Nat
    /\ \A w \in Writers : wpc[w] = "notify" => Cardinality(Raising) > 0
<1>1. IsFiniteSet(Writers)
  <2>1. NWriters \in Nat /\ 1 \in Nat
    BY QueueAssumption
  <2> QED
    BY <2>1, FS_Interval DEF Writers
<1>2. Raising \in SUBSET Writers
  BY DEF Raising
<1>3. IsFiniteSet(Raising)
  BY <1>1, <1>2, FS_Subset
<1>4. Cardinality(Raising) \in Nat /\ (Cardinality(Raising) = 0 <=> Raising = {})
  BY <1>3, FS_CardinalityType, FS_EmptySet
<1>5. \A w \in Writers : wpc[w] = "notify" => Raising # {}
  BY DEF Raising
<1> QED
  BY <1>3, <1>4, <1>5

\* The flag counts the one notification on its way.
LEMMA OneNotificationStep ==
    ASSUME TypeOK, OneNotification, [Next]_vars
    PROVE  OneNotification'
<1> DEFINE clear == IF rpc = "clear" THEN 1 ELSE 0
<1>0. /\ IsFiniteSet(Raising) /\ Cardinality(Raising) \in Nat
      /\ \A w \in Writers : wpc[w] = "notify" => Cardinality(Raising) > 0
  BY RaisingFacts
<1>1. messages \in Nat /\ popSignal \in {0, 1} /\ wpc \in [Writers -> WPcs]
      /\ popSignal = messages + Cardinality(Raising) + clear /\ clear \in {0, 1}
  BY DEF TypeOK, WPcs, OneNotification
<1>2. ASSUME NEW w \in Writers, RaiseSignal(w) PROVE OneNotification'
  <2>0. rpc' = rpc /\ messages' = messages /\ popSignal' = 1 /\ wpc[w] = "raise"
    BY <1>2 DEF RaiseSignal, readerLocals, WGoto
  <2>1. CASE popSignal = 0
    <3>1. Raising' = Raising \cup {w} /\ w \notin Raising
      BY <1>1, <1>2, <2>1 DEF Raising, RaiseSignal, WGoto
    <3>2. Cardinality(Raising') = Cardinality(Raising) + 1
      BY <1>0, <3>1, FS_AddElement
    <3>3. messages = 0 /\ Cardinality(Raising) = 0 /\ clear = 0
      BY <1>0, <1>1, <2>1
    <3> QED
      BY <2>0, <3>2, <3>3 DEF OneNotification
  <2>2. CASE popSignal = 1
    <3>1. Raising' = Raising
      BY <1>1, <1>2, <2>2 DEF Raising, RaiseSignal, WGoto
    <3> QED
      BY <1>1, <2>0, <2>2, <3>1 DEF OneNotification
  <2> QED
    BY <1>1, <2>1, <2>2
<1>3. ASSUME NEW w \in Writers, Notify(w) PROVE OneNotification'
  <2>0. rpc' = rpc /\ messages' = messages + 1 /\ popSignal' = popSignal
    BY <1>3 DEF Notify, readerLocals, readerVars
  <2>1. Raising' = Raising \ {w} /\ w \in Raising
    BY <1>1, <1>3 DEF Raising, Notify, WGoto
  <2>2. Cardinality(Raising') = Cardinality(Raising) - 1
    BY <1>0, <2>1, FS_RemoveElement
  <2> QED
    BY <1>0, <1>1, <2>0, <2>2 DEF OneNotification
<1>4. ASSUME ReceiveNotification PROVE OneNotification'
  <2>0. /\ rpc # "clear" /\ rpc' = "clear" /\ messages' = messages - 1 /\ popSignal' = popSignal
        /\ wpc' = wpc
    BY <1>4 DEF ReceiveNotification, writerLocals
  <2>1. Raising' = Raising
    BY <2>0 DEF Raising
  <2> QED
    BY <1>0, <1>1, <2>0, <2>1 DEF OneNotification
<1>5. ASSUME ClearSignal PROVE OneNotification'
  <2>0. rpc = "clear" /\ rpc' = "next" /\ messages' = messages /\ popSignal' = 0 /\ wpc' = wpc
    BY <1>5 DEF ClearSignal, writerLocals, RGoto
  <2>1. Raising' = Raising
    BY <2>0 DEF Raising
  <2>2. messages = 0 /\ Cardinality(Raising) = 0
    BY <1>0, <1>1, <2>0
  <2> QED
    BY <2>0, <2>1, <2>2 DEF OneNotification
<1>6. ASSUME popSignal' = popSignal, messages' = messages, rpc' = "clear" <=> rpc = "clear",
             \A w \in Writers : wpc'[w] = "notify" <=> wpc[w] = "notify"
      PROVE  OneNotification'
  <2>1. Raising' = Raising
    BY <1>6 DEF Raising
  <2> QED
    BY <1>6, <2>1 DEF OneNotification
<1>7. CASE \E w \in Writers : \/ Push(w) \/ PushFull(w) \/ PushTestEmpty(w) \/ PushSize(w)
                              \/ RaiseSignalTest(w) \/ \E v \in Values : PushStore(w, v)
  <2>1. /\ popSignal' = popSignal /\ messages' = messages /\ rpc' = rpc
        /\ \A w \in Writers : wpc'[w] = "notify" <=> wpc[w] = "notify"
    BY <1>1, <1>7 DEF Push, PushFull, PushTestEmpty, PushSize, RaiseSignalTest, PushStore, WGoto,
        readerVars, readerLocals, vars, writerLocals
  <2> QED
    BY <1>6, <2>1
<1>8. CASE \/ Poll \/ Resume \/ PopNext \/ Pop \/ PopBlock \/ PopRetest \/ PopUnblock \/ PopTake
           \/ PopSize \/ UNCHANGED vars
  <2>1. /\ popSignal' = popSignal /\ messages' = messages /\ wpc' = wpc
        /\ rpc' = "clear" <=> rpc = "clear"
    BY <1>8 DEF Poll, Resume, PopNext, Pop, PopBlock, PopRetest, PopUnblock, PopTake, PopSize, vars,
        RGoto, readerVars, readerLocals, writerLocals
  <2> QED
    BY <1>6, <2>1
<1> QED
  BY <1>2, <1>3, <1>4, <1>5, <1>7, <1>8 DEF Next, WriterInside, ReaderStep

\* pop() goes around the queues.
LEMMA DistanceFacts ==
    ASSUME TypeOK
    PROVE  /\ \A w \in Writers : Distance(w) \in 0 .. NWriters - 1
           /\ visited = 0 /\ rpc = "next" => Passed = {}
<1>1. NWriters \in Nat \ {0} /\ theLastPop \in 1 .. NWriters
  BY QueueAssumption DEF TypeOK, Writers
<1>2. \A w \in Writers : Distance(w) \in 0 .. NWriters - 1
  BY <1>1 DEF Distance, Writers
<1>3. visited = 0 /\ rpc = "next" => Passed = {}
  BY <1>2 DEF Passed
<1> QED
  BY <1>2, <1>3

\* A writer that has pushed into an empty queue goes to notify the blocked reader.
LEMMA WriterPassed ==
    ASSUME NotifyInv, TypeOK', NEW w \in Writers,
           \/ Push(w) \/ PushFull(w) \/ WriterInside(w)
    PROVE  ScanMatches' /\ PassedNotified'
<1>0. /\ TypeOK /\ ScanMatches /\ PassedNotified /\ OneNotification
      /\ popSignal \in {0, 1} /\ wpc \in [Writers -> WPcs]
  BY DEF NotifyInv, RingInv, TypeOK, WPcs
<1>1. UNCHANGED <<rpc, theLastPop, visited, popBlocked>>
  BY DEF Push, PushFull, WriterInside, PushTestEmpty, PushStore, PushSize, RaiseSignalTest,
         RaiseSignal, Notify, readerVars, readerLocals, vars
<1>2. Passed' = Passed
  BY <1>1 DEF Passed, Distance
<1>3. ScanMatches'
  BY <1>0, <1>1, <1>2 DEF ScanMatches
<1>4. ASSUME NEW x \in Passed, x # w
      PROVE  theSize'[x] > 0 /\ wpc'[x] = "idle" /\ wasEmpty'[x] => popSignal' = 1
  <2>1. x \in Writers
    BY <1>4 DEF Passed
  <2>2. /\ theSize'[x] = theSize[x] /\ wpc'[x] = wpc[x] /\ wasEmpty'[x] = wasEmpty[x]
        /\ popSignal' = popSignal \/ popSignal' = 1
    BY <1>0, <1>4, <2>1 DEF Push, PushFull, WriterInside, PushTestEmpty, PushStore, PushSize,
        RaiseSignalTest, RaiseSignal, Notify, WGoto, readerVars, readerLocals, vars, queueVars,
        writerLocals, TypeOK
  <2> QED
    BY <1>0, <1>4, <2>2 DEF PassedNotified
<1>5. ASSUME w \in Passed
      PROVE  theSize'[w] > 0 /\ wpc'[w] = "idle" /\ wasEmpty'[w] => popSignal' = 1
  <2>1. popBlocked = 1
    BY <1>0, <1>5 DEF ScanMatches
  <2>2. CASE Push(w) \/ PushTestEmpty(w) \/ \E v \in Values : PushStore(w, v)
    BY <1>0, <2>2 DEF Push, PushTestEmpty, PushStore, WGoto
  <2>3. CASE PushFull(w)
    BY <1>0, <1>5, <2>3 DEF PushFull, PassedNotified, vars, queueVars, readerVars, writerLocals
  <2>4. CASE PushSize(w)
    BY <1>0, <2>4 DEF PushSize, WGoto
  <2>5. CASE RaiseSignalTest(w)
    BY <1>0, <2>1, <2>5 DEF RaiseSignalTest, WGoto
  <2>6. CASE RaiseSignal(w)
    BY <2>6 DEF RaiseSignal
  <2>7. CASE Notify(w)
    <3>1. popSignal' = popSignal /\ wpc[w] = "notify"
      BY <2>7 DEF Notify, WGoto, readerVars
    <3>2. Cardinality(Raising) > 0 /\ Cardinality(Raising) \in Nat /\ messages \in Nat
      BY <1>0, <3>1, RaisingFacts DEF TypeOK
    <3>3. popSignal # 0
      BY <1>0, <3>2 DEF OneNotification
    <3> QED
      BY <1>0, <3>1, <3>3
  <2> QED
    BY <2>2, <2>3, <2>4, <2>5, <2>6, <2>7 DEF WriterInside
<1>6. PassedNotified'
  BY <1>2, <1>4, <1>5 DEF PassedNotified
<1> QED
  BY <1>3, <1>6

\* The reader passes a queue only after it has blocked and seen the queue empty.
LEMMA ReaderPassed ==
    ASSUME NotifyInv, TypeOK', ReaderStep \/ Poll
    PROVE  ScanMatches' /\ PassedNotified'
<1>0. /\ TypeOK /\ ScanMatches /\ PassedNotified
      /\ NWriters \in Nat \ {0} /\ visited \in 0 .. NWriters /\ theLastPop \in 1 .. NWriters
      /\ Writers = 1 .. NWriters
  BY QueueAssumption DEF NotifyInv, RingInv, TypeOK, Writers
<1>d. \A w \in Writers : Distance(w) \in 0 .. NWriters - 1
  BY <1>0, DistanceFacts
<1>a. ASSUME Passed' = {} PROVE PassedNotified'
  BY <1>a DEF PassedNotified
<1>b. ASSUME UNCHANGED <<popSignal, theSize, wpc, wasEmpty>>,
             \A w \in Writers : w \in Passed' => w \in Passed \/ theSize[w] = 0
      PROVE  PassedNotified'
  <2> SUFFICES ASSUME NEW w \in Passed', theSize[w] > 0, wpc[w] = "idle", wasEmpty[w]
               PROVE  popSignal = 1
    BY <1>b DEF PassedNotified
  <2>1. w \in Passed
    BY <1>b DEF Passed
  <2> QED
    BY <1>0, <2>1 DEF PassedNotified
<1>1. CASE ReceiveNotification
  <2>1. rpc' = "clear" /\ visited' = 0
    BY <1>0, <1>1 DEF ReceiveNotification, ScanMatches
  <2>2. Passed' = {}
    BY <2>1 DEF Passed
  <2> QED
    BY <1>a, <2>1, <2>2 DEF ScanMatches
<1>2. CASE ClearSignal \/ Poll \/ Resume
  <2>1. rpc' = "next" /\ visited' = 0
    BY <1>0, <1>2 DEF ClearSignal, Poll, Resume, ScanMatches, RGoto
  <2>2. Passed' = {}
    <3>1. theLastPop' = theLastPop
      BY <1>2 DEF ClearSignal, Poll, Resume
    <3> QED
      BY <1>d, <2>1, <3>1 DEF Passed, Distance
  <2> QED
    BY <1>a, <2>1, <2>2 DEF ScanMatches
<1>3. CASE PopNext
  <2>0. rpc = "next" /\ UNCHANGED <<popSignal, popBlocked, theSize, wpc, wasEmpty>>
    BY <1>3 DEF PopNext, queueVars, readerVars, writerLocals
  <2>1. CASE visited < NWriters
    <3>1. /\ rpc' = "testEmpty" /\ visited' = visited + 1
          /\ theLastPop' = (IF theLastPop + 1 > NWriters THEN 1 ELSE theLastPop + 1)
      BY <1>3, <2>1 DEF PopNext
    <3>2. \A w \in Writers : w # theLastPop' => Distance(w)' = Distance(w) + 1
      BY <1>0, <3>1 DEF Distance
    <3>3. \A w \in Writers : w \in Passed' => w \in Passed
      BY <1>0, <1>d, <2>0, <3>1, <3>2 DEF Passed
    <3>4. Passed' # {} => Passed # {}
      BY <3>3 DEF Passed
    <3>5. ScanMatches'
      BY <1>0, <2>0, <3>1, <3>4 DEF ScanMatches
    <3> QED
      BY <1>b, <2>0, <3>3, <3>5
  <2>2. CASE visited >= NWriters
    <3>1. rpc' = "asleep" /\ visited' = 0 /\ visited = NWriters
      BY <1>0, <1>3, <2>2 DEF PopNext
    <3>2. \A w \in Writers : w \in Passed
      BY <1>0, <1>d, <2>0, <3>1 DEF Passed
    <3>3. Passed # {}
      BY <1>0, <3>2
    <3>4. ScanMatches'
      BY <1>0, <2>0, <3>1, <3>3 DEF ScanMatches
    <3> QED
      BY <1>b, <2>0, <3>2, <3>4
  <2> QED
    BY <1>0, <2>1, <2>2
<1>4. CASE Pop \/ PopBlock
  <2>0. /\ UNCHANGED <<popSignal, theSize, wpc, wasEmpty, theLastPop, visited>>
        /\ rpc \in {"testEmpty", "block"} /\ rpc' \in {"block", "unblock", "retest"}
        /\ popBlocked' = popBlocked \/ popBlocked' = 1
        /\ rpc' = "retest" => popBlocked' = 1
    BY <1>4 DEF Pop, PopBlock, RGoto, queueVars, readerVars, writerLocals
  <2>1. Passed' = Passed
    BY <2>0 DEF Passed, Distance
  <2>2. ScanMatches'
    BY <1>0, <2>0, <2>1 DEF ScanMatches
  <2> QED
    BY <1>b, <2>0, <2>1, <2>2
<1>5. CASE PopRetest
  <2>0. /\ UNCHANGED <<popSignal, popBlocked, theSize, wpc, wasEmpty, theLastPop, visited>>
        /\ rpc = "retest" /\ rpc' \in {"next", "unblock"}
        /\ rpc' = "next" => theSize[theLastPop] = 0
    BY <1>5 DEF PopRetest, RGoto, queueVars, readerVars, writerLocals
  <2>1. \A w \in Writers : w \in Passed' => w \in Passed \/ theSize[w] = 0
    BY <2>0 DEF Passed, Distance
  <2>2. ScanMatches'
    BY <1>0, <2>0 DEF ScanMatches
  <2> QED
    BY <1>b, <2>0, <2>1, <2>2
<1>6. CASE PopUnblock \/ PopTake
  <2>1. rpc \in {"unblock", "take"} /\ rpc' \in {"take", "size"} /\ visited' = visited
    BY <1>6 DEF PopUnblock, PopTake, RGoto
  <2>2. Passed' = {}
    BY <2>1 DEF Passed
  <2> QED
    BY <1>0, <1>a, <2>1, <2>2 DEF ScanMatches
<1>7. CASE PopSize
  <2>1. rpc' \in {"next", "paused"} /\ visited' = 0 /\ theLastPop' = theLastPop
    BY <1>7 DEF PopSize
  <2>2. Passed' = {}
    BY <1>d, <2>1 DEF Passed, Distance
  <2> QED
    BY <1>a, <2>1, <2>2 DEF ScanMatches
<1> QED
  BY <1>1, <1>2, <1>3, <1>4, <1>5, <1>6, <1>7 DEF ReaderStep

\* Nothing is pushed or passed at first.
LEMMA NotifyInit == Init => NotifyInv
<1> SUFFICES ASSUME Init PROVE NotifyInv
  OBVIOUS
<1>1. RingInv
  BY RingInit
<1>2. Raising = {}
  BY DEF Init, Raising
<1>3. OneNotification
  <2>1. Cardinality(Raising) = 0
    BY <1>2, FS_EmptySet
  <2> QED
    BY <2>1 DEF Init, OneNotification
<1>4. ScanMatches /\ PassedNotified
  BY DEF Init, ScanMatches, PassedNotified, Passed
<1> QED
  BY <1>1, <1>3, <1>4 DEF NotifyInv

\* Every access preserves the invariant of the notifications.
LEMMA NotifyStep == NotifyInv /\ [Next]_vars => NotifyInv'
<1> SUFFICES ASSUME NotifyInv, [Next]_vars PROVE NotifyInv'
  OBVIOUS
<1>1. RingInv' /\ TypeOK'
  BY RingStep DEF NotifyInv, RingInv
<1>2. OneNotification'
  BY OneNotificationStep DEF NotifyInv, RingInv
<1>3. CASE \E w \in Writers : Push(w) \/ PushFull(w) \/ WriterInside(w)
  BY <1>1, <1>2, <1>3, WriterPassed DEF NotifyInv
<1>4. CASE ReaderStep \/ Poll
  BY <1>1, <1>2, <1>4, ReaderPassed DEF NotifyInv
<1>5. CASE UNCHANGED vars
  <2>1. ScanMatches' /\ PassedNotified'
    BY <1>5 DEF NotifyInv, ScanMatches, PassedNotified, Passed, Distance, vars, queueVars,
        readerVars, writerLocals, readerLocals
  <2> QED
    BY <1>1, <1>2, <2>1 DEF NotifyInv
<1> QED
  BY <1>3, <1>4, <1>5 DEF Next

\* The invariant of the notifications holds in every state (QueueReader, Queue.h).
THEOREM NotifyInvariant == Spec => []NotifyInv
  BY NotifyInit, NotifyStep, PTL DEF Spec

\* popSignal counts exactly the one notification that is sent or being sent and not received
\* (raiseSignal(), clearSignal()).
THEOREM NeverTwoNotifications == Spec => []OneNotification
<1>1. NotifyInv => OneNotification
  BY DEF NotifyInv
<1> QED
  BY <1>1, NotifyInvariant, PTL

\* A reader does not sleep through a push into an empty queue, whatever the interleaving of
\* the tests and flags of push() and pop().
THEOREM EmptyPushIsHeard == Spec => []EmptyPushNotifies
<1>1. NotifyInv => EmptyPushNotifies
  BY DEF NotifyInv, EmptyPushNotifies, PassedNotified, Passed
<1> QED
  BY <1>1, NotifyInvariant, PTL
=============================================================================
