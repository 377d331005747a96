--------------------------- MODULE BodyPipeProofs ---------------------------
(***************************************************************************)
(* Proofs about BodyPipe.  The invariant PipeInv is the four properties of *)
(* the announcements, strengthened by what makes them inductive: a         *)
(* producer always has more to put (SizesMatch, so that postConsume()      *)
(* calls it and an abort never leaves a size that was reached), and nobody *)
(* is told of the end before the end or before joining (EndsMatch).        *)
(*                                                                         *)
(* The properties speak of sets of positions in the queue of calls.  The   *)
(* first part counts the calls instead: a call that joins or leaves the    *)
(* queue changes one count by one.  Counted is the invariant in terms of   *)
(* these counts (CountedParts); each step lemma has the counts of calls'   *)
(* from those of calls and of what the operation appends.                  *)
(***************************************************************************)
EXTENDS BodyPipe, FiniteSetTheorems, SequenceTheorems, TLAPS

\* The positions and the number of the calls of a queue to some job about some things.
Pend(s, to, whats) == {i \in DOMAIN s : s[i].to = to /\ s[i].what \in whats}
Num(s, to, whats) == Cardinality(Pend(s, to, whats))

\* One call is among them.
Match(m, to, whats) == m.to = to /\ m.what \in whats

\* A queue has finitely many calls.
LEMMA PendFinite ==
    ASSUME NEW s \in Seq(CallKinds), NEW to, NEW whats
    PROVE  /\ IsFiniteSet(Pend(s, to, whats))
           /\ Num(s, to, whats) \in Nat
           /\ Num(s, to, whats) = 0 <=> Pend(s, to, whats) = {}
<1>1. DOMAIN s = 1 .. Len(s) /\ Len(s) \in Nat
  OBVIOUS
<1>2. IsFiniteSet(1 .. Len(s))
  BY <1>1, FS_Interval
<1>3. Pend(s, to, whats) \in SUBSET (1 .. Len(s))
  BY <1>1 DEF Pend
<1>4. IsFiniteSet(Pend(s, to, whats))
  BY <1>2, <1>3, FS_Subset
<1> QED
  BY <1>4, FS_CardinalityType, FS_EmptySet DEF Num

\* An empty queue has none.
LEMMA NumEmpty ==
    ASSUME NEW to, NEW whats
    PROVE  Num(<<>>, to, whats) = 0
<1>1. Pend(<<>>, to, whats) = {}
  BY DEF Pend
<1> QED
  BY <1>1, FS_EmptySet DEF Num

\* A call joins the queue at its end.
LEMMA NumAppend ==
    ASSUME NEW s \in Seq(CallKinds), NEW m \in CallKinds, NEW to, NEW whats
    PROVE  /\ s \o <<m>> \in Seq(CallKinds)
           /\ Num(s \o <<m>>, to, whats) = Num(s, to, whats) + (IF Match(m, to, whats) THEN 1 ELSE 0)
<1> DEFINE t == s \o <<m>>
           n == Len(s) + 1
<1>1. /\ t \in Seq(CallKinds) /\ DOMAIN s = 1 .. Len(s) /\ Len(s) \in Nat /\ DOMAIN t = 1 .. n
      /\ \A i \in 1 .. Len(s) : t[i] = s[i]
      /\ t[n] = m
  OBVIOUS
<1>2. n \notin Pend(s, to, whats)
  BY <1>1 DEF Pend
<1>3. IsFiniteSet(Pend(s, to, whats)) /\ Num(s, to, whats) \in Nat
  BY PendFinite
<1> HIDE DEF t, n
<1>4. n \in Nat /\ n = Len(s) + 1
  BY <1>1 DEF n
<1>5. CASE Match(m, to, whats)
  <2>1. Pend(t, to, whats) = Pend(s, to, whats) \cup {n}
    BY <1>1, <1>4, <1>5 DEF Pend, Match
  <2> QED
    BY <1>1, <1>2, <1>3, <1>5, <2>1, FS_AddElement DEF Num, t
<1>6. CASE ~Match(m, to, whats)
  <2>1. Pend(t, to, whats) = Pend(s, to, whats)
    BY <1>1, <1>4, <1>6 DEF Pend, Match
  <2> QED
    BY <1>1, <1>3, <1>6, <2>1 DEF Num, t
<1> QED
  BY <1>5, <1>6

\* The first call leaves the queue.
LEMMA NumTail ==
    ASSUME NEW s \in Seq(CallKinds), s # <<>>, NEW to, NEW whats
    PROVE  /\ Tail(s) \in Seq(CallKinds) /\ Head(s) \in CallKinds
           /\ Num(Tail(s), to, whats) =
                Num(s, to, whats) - (IF Match(Head(s), to, whats) THEN 1 ELSE 0)
<1> DEFINE t == Tail(s)
           P == Pend(s, to, whats)
           Q == Pend(t, to, whats)
           R == P \ {1}
           f == [i \in R |-> i - 1]
<1>1. /\ t \in Seq(CallKinds) /\ Head(s) \in CallKinds /\ Head(s) = s[1]
      /\ Len(s) \in Nat /\ Len(s) > 0 /\ DOMAIN s = 1 .. Len(s) /\ DOMAIN t = 1 .. Len(s) - 1
      /\ \A i \in 1 .. Len(s) - 1 : t[i] = s[i + 1]
  OBVIOUS
<1>2. IsFiniteSet(P) /\ Num(s, to, whats) \in Nat /\ Cardinality(P) = Num(s, to, whats)
  BY PendFinite DEF Num
<1>a. 1 \in P <=> Match(Head(s), to, whats)
  BY <1>1 DEF Match, Pend
<1>3. IsFiniteSet(R) /\ Cardinality(R) = Num(s, to, whats) - (IF Match(Head(s), to, whats) THEN 1 ELSE 0)
  <2> HIDE DEF P
  <2>1. CASE 1 \in P
    BY <1>2, <1>a, <2>1, FS_RemoveElement
  <2>2. CASE 1 \notin P
    <3>1. R = P
      BY <2>2
    <3> HIDE DEF R
    <3> QED
      BY <1>2, <1>a, <2>2, <3>1
  <2> QED
    BY <2>1, <2>2
<1>4. f \in Bijection(R, Q)
  <2>1. \A i \in R : i \in 2 .. Len(s) /\ i - 1 \in Q
    BY <1>1 DEF Pend
  <2>2. \A j \in Q : j \in 1 .. Len(s) - 1 /\ j + 1 \in R
    BY <1>1 DEF Pend
  <2> HIDE DEF R, Q
  <2>3. f \in [R -> Q]
    BY <2>1
  <2>4. \A i, j \in R : f[i] = f[j] => i = j
    BY <2>1
  <2>5. \A j \in Q : \E i \in R : f[i] = j
    <3> TAKE j \in Q
    <3>1. j + 1 \in R /\ f[j + 1] = j
      BY <2>2
    <3> QED
      BY <3>1
  <2> HIDE DEF f
  <2> QED
    BY <2>3, <2>4, <2>5 DEF Bijection, Injection, Surjection, IsInjective
<1> HIDE DEF R, Q, f, t
<1>5. Cardinality(Q) = Cardinality(R)
  BY <1>3, <1>4, FS_Bijection DEF ExistsBijection
<1> QED
  BY <1>1, <1>3, <1>5 DEF Num, Q, t

\* A queue of one call.
LEMMA NumOne ==
    ASSUME NEW m, NEW to, NEW whats
    PROVE  Num(<<m>>, to, whats) = IF Match(m, to, whats) THEN 1 ELSE 0
<1>1. DOMAIN <<m>> = {1} /\ <<m>>[1] = m
  OBVIOUS
<1>2. CASE Match(m, to, whats)
  <2>1. Pend(<<m>>, to, whats) = {1}
    BY <1>1, <1>2 DEF Pend, Match
  <2> QED
    BY <1>2, <2>1, FS_Singleton DEF Num
<1>3. CASE ~Match(m, to, whats)
  <2>1. Pend(<<m>>, to, whats) = {}
    BY <1>1, <1>3 DEF Pend, Match
  <2> QED
    BY <1>3, <2>1, FS_EmptySet DEF Num
<1> QED
  BY <1>2, <1>3

\* What an operation adds to the queue at a time: at most one call.
Few(x) == x = <<>> \/ \E m \in CallKinds : x = <<m>>

\* The counts of a queue and of what is appended to it add up.
LEMMA NumCat ==
    ASSUME NEW s \in Seq(CallKinds), NEW x, Few(x)
    PROVE  /\ s \o x \in Seq(CallKinds)
           /\ \A to, whats : /\ Num(s \o x, to, whats) = Num(s, to, whats) + Num(x, to, whats)
                             /\ Num(x, to, whats) \in Nat
<1>1. CASE x = <<>>
  <2>1. s \o x = s
    BY <1>1
  <2>2. \A to, whats : Num(s, to, whats) \in Nat
    BY PendFinite
  <2> QED
    BY <1>1, <2>1, <2>2, NumEmpty
<1>2. ASSUME NEW m \in CallKinds, x = <<m>>
      PROVE  /\ s \o x \in Seq(CallKinds)
             /\ \A to, whats : /\ Num(s \o x, to, whats) = Num(s, to, whats) + Num(x, to, whats)
                               /\ Num(x, to, whats) \in Nat
  <2>1. \A to, whats : Num(s \o <<m>>, to, whats) =
            Num(s, to, whats) + (IF Match(m, to, whats) THEN 1 ELSE 0)
    BY NumAppend
  <2>4. \A to, whats : Num(x, to, whats) = IF Match(m, to, whats) THEN 1 ELSE 0
    BY <1>2, NumOne
  <2>5. s \o <<m>> \in Seq(CallKinds)
    OBVIOUS
  <2> QED
    BY <1>2, <2>1, <2>4, <2>5
<1> QED
  BY <1>1, <1>2 DEF Few

\* One call is about one thing.
LEMMA NumCall ==
    ASSUME NEW a, NEW b, [to |-> a, what |-> b] \in CallKinds
    PROVE  /\ Few(Call(a, b))
           /\ \A to, whats : Num(Call(a, b), to, whats) =
                                IF a = to /\ b \in whats THEN 1 ELSE 0
<1> DEFINE m == [to |-> a, what |-> b]
<1>3. \A to, whats : Match(m, to, whats) <=> a = to /\ b \in whats
  BY DEF Match
<1> HIDE DEF m
<1>4. \A to, whats : Num(<<m>>, to, whats) = IF Match(m, to, whats) THEN 1 ELSE 0
  BY NumOne
<1>5. Few(<<m>>)
  BY DEF Few, m
<1> QED
  BY <1>3, <1>4, <1>5 DEF Call, m

\* The notifications of a consumer, if there is one.
LEMMA NumDataCall ==
    ASSUME NEW c \in Consumers \cup {"none", "sink"}
    PROVE  /\ Few(DataCall(c))
           /\ \A to, whats : Num(DataCall(c), to, whats) =
                  IF c # "none" /\ c = to /\ "data" \in whats THEN 1 ELSE 0
<1>1. CASE c = "none"
  BY <1>1, NumEmpty DEF DataCall, Few
<1>2. CASE c # "none"
  <2>1. [to |-> c, what |-> "data"] \in CallKinds
    BY <1>2 DEF CallKinds
  <2> QED
    BY <1>2, <2>1, NumCall DEF DataCall
<1> QED
  BY <1>1, <1>2

\* The notification of a consumer about the end: one of the two kinds.
LEMMA NumEndCall ==
    ASSUME NEW c \in Consumers \cup {"none", "sink"}, NEW size, NEW put
    PROVE  /\ Few(EndCall(c, size, put))
           /\ \A to, whats : Num(EndCall(c, size, put), to, whats) =
                  IF c # "none" /\ c = to
                     /\ (IF size = put THEN "ended" ELSE "aborted") \in whats THEN 1 ELSE 0
<1> DEFINE what == IF size = put THEN "ended" ELSE "aborted"
<1>1. CASE c = "none"
  BY <1>1, NumEmpty DEF EndCall, Few
<1>2. CASE c # "none"
  <2>1. [to |-> c, what |-> what] \in CallKinds
    BY <1>2 DEF CallKinds
  <2>2. EndCall(c, size, put) = Call(c, what)
    BY <1>2 DEF EndCall
  <2> HIDE DEF what
  <2>3. \A to, whats : Num(EndCall(c, size, put), to, whats) =
            IF c = to /\ what \in whats THEN 1 ELSE 0
    BY <2>1, <2>2, NumCall
  <2> QED
    BY <1>2, <2>1, <2>2, <2>3, NumCall DEF what
<1> QED
  BY <1>1, <1>2

\* The notifications of the producer.
LEMMA NumProducerCall ==
    ASSUME NEW b \in {"space", "consumerAborted"}
    PROVE  /\ Few(Call("producer", b))
           /\ \A to, whats : Num(Call("producer", b), to, whats) =
                  IF "producer" = to /\ b \in whats THEN 1 ELSE 0
<1>1. [to |-> "producer", what |-> b] \in CallKinds
  BY DEF CallKinds
<1> QED
  BY <1>1, NumCall

\* Nothing is appended.
LEMMA NumNoCall == Few(<<>>) /\ \A to, whats : Num(<<>>, to, whats) = 0
  BY NumEmpty DEF Few

----------------------------------------------------------------------------
(* The announcements, with counts of queued calls. *)

EndWhats == {"ended", "aborted"}
SpaceWhats == {"space", "consumerAborted"}

DataCounted ==
    theConsumer # "none" /\ thePutSize > announced => Num(calls, theConsumer, {"data"}) > 0
SpaceCounted ==
    theProducer /\ theGetSize > spaceSeen => Num(calls, "producer", SpaceWhats) > 0
EndCounted ==
    theConsumer \in Consumers =>
        Num(calls, theConsumer, EndWhats) + Len(told[theConsumer]) = (IF theProducer THEN 0 ELSE 1)
AbortCounted ==
    endedBy = "abort" => \A c \in Consumers : /\ Num(calls, c, {"ended"}) = 0
                                              /\ \A i \in DOMAIN told[c] : told[c][i] = "aborted"
EndsCounted ==
    /\ theConsumer \in Consumers => theConsumer \in joined
    /\ \A c \in Consumers : theProducer \/ c \notin joined =>
            Num(calls, c, EndWhats) = 0 /\ told[c] = <<>>

Counted == DataCounted /\ SpaceCounted /\ EndCounted /\ AbortCounted /\ EndsCounted

\* The counts say what the properties say.
LEMMA CountedParts ==
    ASSUME calls \in Seq(CallKinds)
    PROVE  Counted <=> /\ DataAnnounced /\ SpaceAnnounced /\ EndAnnouncedOnce /\ AbortIsNotEnd
                       /\ EndsMatch
<1>0. \A to, whats : Pending(to, whats) = Pend(calls, to, whats)
  BY DEF Pending, Pend
<1>1. \A to, whats : /\ Num(calls, to, whats) \in Nat
                     /\ Num(calls, to, whats) = 0 <=> Pending(to, whats) = {}
                     /\ Num(calls, to, whats) > 0 <=> Pending(to, whats) # {}
                     /\ Num(calls, to, whats) = Cardinality(Pending(to, whats))
  <2>1. \A to, whats : /\ Num(calls, to, whats) \in Nat
                       /\ Num(calls, to, whats) = 0 <=> Pending(to, whats) = {}
    BY <1>0, PendFinite
  <2>2. \A to, whats : Num(calls, to, whats) = Cardinality(Pending(to, whats))
    BY <1>0 DEF Num
  <2> QED
    BY <2>1, <2>2
<1>2. DataCounted <=> DataAnnounced
  BY <1>1 DEF DataCounted, DataAnnounced
<1>3. SpaceCounted <=> SpaceAnnounced
  BY <1>1 DEF SpaceCounted, SpaceAnnounced, SpaceWhats
<1>4. EndCounted <=> EndAnnouncedOnce
  BY <1>1 DEF EndCounted, EndAnnouncedOnce, EndWhats
<1>5. AbortCounted <=> AbortIsNotEnd
  BY <1>1 DEF AbortCounted, AbortIsNotEnd
<1>6. EndsCounted <=> EndsMatch
  BY <1>1 DEF EndsCounted, EndsMatch, EndWhats
<1> QED
  BY <1>2, <1>3, <1>4, <1>5, <1>6 DEF Counted

----------------------------------------------------------------------------
(* The steps. *)

\* Whoever is not called about the end is not called about an end that is no abort.
LEMMA NoEndNoEnded ==
    ASSUME NEW s \in Seq(CallKinds), NEW to, Num(s, to, EndWhats) = 0
    PROVE  Num(s, to, {"ended"}) = 0
<1>1. Pend(s, to, EndWhats) = {}
  BY PendFinite
<1>2. Pend(s, to, {"ended"}) = {}
  BY <1>1 DEF Pend, EndWhats
<1> QED
  BY <1>2, PendFinite

\* Three additions to the queue.
LEMMA NumCat3 ==
    ASSUME NEW s \in Seq(CallKinds), NEW x, NEW y, NEW z, Few(x), Few(y), Few(z)
    PROVE  /\ s \o x \o y \o z \in Seq(CallKinds)
           /\ \A to, whats :
                /\ Num(s \o x \o y \o z, to, whats) =
                      Num(s, to, whats) + Num(x, to, whats) + Num(y, to, whats) + Num(z, to, whats)
                /\ Num(s, to, whats) \in Nat /\ Num(x, to, whats) \in Nat
                /\ Num(y, to, whats) \in Nat /\ Num(z, to, whats) \in Nat
<1>1. \A to, whats : Num(s, to, whats) \in Nat
  BY PendFinite
<1> DEFINE a == s \o x
           b == a \o y
           c == b \o z
<1>2. /\ a \in Seq(CallKinds)
      /\ \A to, whats : /\ Num(a, to, whats) = Num(s, to, whats) + Num(x, to, whats)
                        /\ Num(x, to, whats) \in Nat
  BY NumCat
<1> HIDE DEF a
<1>3. /\ b \in Seq(CallKinds)
      /\ \A to, whats : /\ Num(b, to, whats) = Num(a, to, whats) + Num(y, to, whats)
                        /\ Num(y, to, whats) \in Nat
  BY <1>2, NumCat
<1> HIDE DEF b
<1>4. /\ c \in Seq(CallKinds)
      /\ \A to, whats : /\ Num(c, to, whats) = Num(b, to, whats) + Num(z, to, whats)
                        /\ Num(z, to, whats) \in Nat
  BY <1>3, NumCat
<1> HIDE DEF c
<1>5. c = s \o x \o y \o z
  BY DEF a, b, c
<1> QED
  BY <1>1, <1>2, <1>3, <1>4, <1>5

\* PipeInv in terms of counts.
PipeIn == TypeOK /\ SizesMatch /\ Counted

\* A consumer, an old or a new one, is called about the data, and of the end if this is it.
LEMMA PutMoreDataStep ==
    ASSUME PipeIn, NEW size \in Sizes, PutMoreData(size)
    PROVE  PipeIn'
<1> DEFINE put == thePutSize + size
           startsSink == mustAutoConsume /\ theConsumer = "none"
           consumer == IF startsSink THEN "sink" ELSE theConsumer
           complete == bodySizeKnown /\ put >= theBodySize
           x == IF startsSink THEN DataCall("sink") ELSE <<>>
           y == DataCall(consumer)
           z == IF complete THEN EndCall(consumer, theBodySize, put) ELSE <<>>
<1>1. /\ TypeOK /\ SizesMatch /\ Counted /\ theProducer
      /\ calls' = calls \o x \o y \o z
      /\ thePutSize' = put /\ theConsumer' = consumer /\ theProducer' = ~complete
      /\ announced' = (IF startsSink THEN theGetSize ELSE announced)
      /\ endedBy' = (IF complete THEN "eof" ELSE endedBy)
      /\ size > 0 /\ put <= MaxBody /\ size <= MaxCapacity - (thePutSize - theGetSize)
      /\ UNCHANGED <<theBodySize, theGetSize, mustAutoConsume, abortedConsumption, joined,
                     spaceSeen, told>>
  BY DEF PipeIn, PutMoreData, PostAppend, contentSize
<1>2. /\ consumer \in Consumers \cup {"none", "sink"}
      /\ consumer \in Consumers => consumer = theConsumer
  BY <1>1, BodyPipeAssumption DEF TypeOK
<1>3. endedBy = "nobody" /\ mayNeedMoreData
  BY <1>1 DEF SizesMatch
<1>4. /\ theBodySize \in -1 .. MaxBody /\ thePutSize \in 0 .. MaxBody /\ theGetSize \in 0 .. thePutSize
      /\ MaxBody \in Nat /\ MaxCapacity \in Nat /\ size \in Nat /\ put \in Nat
      /\ thePutSize \in Int /\ theGetSize \in Int /\ theBodySize \in Int
  BY <1>1, BodyPipeAssumption DEF TypeOK, Sizes
<1>5. /\ Few(x)
      /\ \A to, whats : Num(x, to, whats) = IF startsSink /\ to = "sink" /\ "data" \in whats THEN 1 ELSE 0
  BY NumDataCall, NumNoCall
<1>6. /\ Few(y)
      /\ \A to, whats : Num(y, to, whats) =
             IF consumer # "none" /\ consumer = to /\ "data" \in whats THEN 1 ELSE 0
  <2> HIDE DEF consumer
  <2> QED
    BY <1>2, NumDataCall
<1>7. /\ Few(z)
      /\ \A to, whats : Num(z, to, whats) =
            IF /\ complete /\ consumer # "none" /\ consumer = to
               /\ (IF theBodySize = put THEN "ended" ELSE "aborted") \in whats THEN 1 ELSE 0
  <2> HIDE DEF consumer, put, complete
  <2> QED
    BY <1>2, NumEndCall, NumNoCall
<1> HIDE DEF x, y, z
<1>8. /\ calls' \in Seq(CallKinds)
      /\ \A to, whats :
            /\ Num(calls', to, whats) =
                  Num(calls, to, whats) + Num(x, to, whats) + Num(y, to, whats) + Num(z, to, whats)
            /\ Num(calls, to, whats) \in Nat /\ Num(x, to, whats) \in Nat
            /\ Num(y, to, whats) \in Nat /\ Num(z, to, whats) \in Nat
  <2>1. calls \in Seq(CallKinds)
    BY <1>1 DEF TypeOK
  <2> QED
    BY <1>1, <1>5, <1>6, <1>7, <2>1, NumCat3
<1>9. TypeOK'
  <2>1. theProducer' \in BOOLEAN
    BY <1>1
  <2> HIDE DEF complete, startsSink, consumer
  <2>2. announced' \in Nat /\ endedBy' \in {"nobody", "eof", "abort"} /\ theConsumer' \in Consumers \cup {"none", "sink"}
    BY <1>1, <1>2, <1>4 DEF TypeOK
  <2>3. thePutSize' \in 0 .. MaxBody /\ theGetSize' \in 0 .. thePutSize' /\ contentSize' <= MaxCapacity
    BY <1>1, <1>4 DEF contentSize
  <2> QED
    BY <1>1, <1>8, <2>1, <2>2, <2>3 DEF TypeOK
<1>10. SizesMatch'
  <2>1. CASE complete
    <3>1. ~theProducer' /\ endedBy' = "eof"
      BY <1>1, <2>1
    <3> QED
      BY <3>1 DEF SizesMatch
  <2>2. CASE ~complete
    <3>1. theProducer' /\ endedBy' = "nobody"
      BY <1>1, <1>3, <2>2
    <3>2. theBodySize >= 0 => theBodySize > put
      BY <1>4, <2>2 DEF bodySizeKnown
    <3> QED
      BY <1>1, <3>1, <3>2 DEF SizesMatch, mayNeedMoreData, bodySizeKnown
  <2> QED
    BY <2>1, <2>2
<1> HIDE DEF startsSink, complete, consumer, put
<1>11. DataCounted'
  BY <1>1, <1>6, <1>8 DEF DataCounted
<1>12. SpaceCounted'
  BY <1>1, <1>8 DEF SpaceCounted, Counted
<1>13. \A c \in Consumers : /\ Num(x, c, EndWhats) = 0 /\ Num(y, c, EndWhats) = 0
                            /\ Num(z, c, EndWhats) = IF complete /\ c = consumer THEN 1 ELSE 0
  BY <1>5, <1>6, <1>7, BodyPipeAssumption DEF EndWhats
<1>a. \A c \in Consumers : Num(calls, c, EndWhats) = 0 /\ told[c] = <<>> /\ Len(told[c]) = 0
  BY <1>1 DEF EndsCounted, Counted
<1>b. \A c \in Consumers : Num(calls', c, EndWhats) = IF complete /\ c = consumer THEN 1 ELSE 0
  <2> TAKE c \in Consumers
  <2>1. Num(calls', c, EndWhats) = Num(calls, c, EndWhats) + Num(x, c, EndWhats)
            + Num(y, c, EndWhats) + Num(z, c, EndWhats)
    BY <1>8
  <2> QED
    BY <1>13, <1>a, <2>1
<1>14. EndCounted'
  <2> SUFFICES ASSUME consumer \in Consumers
               PROVE  Num(calls', consumer, EndWhats) + Len(told[consumer]) =
                         (IF theProducer' THEN 0 ELSE 1)
    BY <1>1 DEF EndCounted
  <2>1. Len(told[consumer]) = 0
    BY <1>a
  <2>2. Num(calls', consumer, EndWhats) = IF complete THEN 1 ELSE 0
    BY <1>b
  <2>3. theProducer' <=> ~complete
    BY <1>1
  <2> QED
    BY <2>1, <2>2, <2>3
<1>15. AbortCounted'
  BY <1>1, <1>3 DEF AbortCounted
<1>16. EndsCounted'
  <2>1. consumer \in Consumers => consumer \in joined
    BY <1>1, <1>2 DEF EndsCounted, Counted
  <2>2. CASE complete
    BY <1>1, <1>a, <1>b, <2>1, <2>2 DEF EndsCounted
  <2>3. CASE ~complete
    BY <1>1, <1>a, <1>b, <2>1, <2>3 DEF EndsCounted
  <2> QED
    BY <2>2, <2>3
<1> QED
  BY <1>9, <1>10, <1>11, <1>12, <1>14, <1>15, <1>16 DEF PipeIn, Counted

\* A known or promised size leaves more to come.
LEMMA SizeStep ==
    ASSUME PipeIn, NEW size \in Sizes, SetBodySize(size) \/ ExpectProductionEndAfter(size)
    PROVE  PipeIn'
<1>1. /\ TypeOK /\ SizesMatch /\ Counted /\ theProducer
      /\ UNCHANGED <<theProducer, theConsumer, thePutSize, theGetSize, mustAutoConsume,
                     abortedConsumption, calls, joined, announced, spaceSeen, told, endedBy>>
  BY DEF PipeIn, SetBodySize, ExpectProductionEndAfter, history
<1>2. size \in Nat /\ size <= MaxBody /\ MaxBody \in Nat /\ thePutSize \in Nat
  BY <1>1, BodyPipeAssumption DEF TypeOK, Sizes
<1>3. theBodySize' \in -1 .. MaxBody /\ theBodySize' > thePutSize
  BY <1>2 DEF SetBodySize, ExpectProductionEndAfter
<1>4. TypeOK'
  BY <1>1, <1>3 DEF TypeOK, contentSize
<1>5. SizesMatch'
  BY <1>1, <1>3 DEF SizesMatch, mayNeedMoreData
<1>6. Counted'
  BY <1>1 DEF Counted, DataCounted, SpaceCounted, EndCounted, AbortCounted, EndsCounted
<1> QED
  BY <1>4, <1>5, <1>6 DEF PipeIn

\* What consumers know of the end stays as it is when the queue loses only calls of those
\* that are no longer consumers, and the consumer stays or goes.
LEMMA EndsFrame ==
    ASSUME TypeOK, Counted, calls' \in Seq(CallKinds),
           UNCHANGED <<theProducer, joined, told, endedBy>>,
           \A c \in Consumers : /\ Num(calls', c, EndWhats) <= Num(calls, c, EndWhats)
                                /\ Num(calls', c, {"ended"}) <= Num(calls, c, {"ended"}),
           theConsumer' \in Consumers =>
               /\ theConsumer' = theConsumer
               /\ Num(calls', theConsumer, EndWhats) = Num(calls, theConsumer, EndWhats)
    PROVE  EndCounted' /\ AbortCounted' /\ EndsCounted'
<1>1. \A to, whats : Num(calls', to, whats) \in Nat /\ Num(calls, to, whats) \in Nat
  BY PendFinite DEF TypeOK
<1>2. EndCounted'
  BY DEF EndCounted, Counted
<1>3. AbortCounted'
  BY <1>1 DEF AbortCounted, Counted
<1>4. EndsCounted'
  BY <1>1 DEF EndsCounted, Counted
<1> QED
  BY <1>2, <1>3, <1>4

\* The producer is called about the space unless it has nothing more to put.
LEMMA GetMoreDataStep ==
    ASSUME PipeIn, NEW size \in Sizes, GetMoreData(size)
    PROVE  PipeIn'
<1> DEFINE x == IF mayNeedMoreData THEN Call("producer", "space") ELSE <<>>
<1>1. /\ TypeOK /\ SizesMatch /\ Counted
      /\ size \in 1 .. (thePutSize - theGetSize)
      /\ theConsumer \in Consumers
      /\ theGetSize' = theGetSize + size
      /\ UNCHANGED <<theBodySize, theProducer, theConsumer, thePutSize, mustAutoConsume,
                     abortedConsumption, joined, announced, spaceSeen, told, endedBy>>
  BY DEF PipeIn, GetMoreData, PostConsume, history, contentSize
<1>2. calls \in Seq(CallKinds) /\ calls' = calls \o x
  <2>1. calls \in Seq(CallKinds)
    BY <1>1 DEF TypeOK
  <2>2. calls \o <<>> = calls
    BY <2>1
  <2> QED
    BY <2>1, <2>2 DEF GetMoreData, PostConsume
<1>3. Few(x) /\ \A to, whats : Num(x, to, whats) =
          IF mayNeedMoreData /\ "producer" = to /\ "space" \in whats THEN 1 ELSE 0
  <2> HIDE DEF mayNeedMoreData
  <2> QED
    BY NumProducerCall, NumNoCall
<1> HIDE DEF x
<1>4. /\ calls' \in Seq(CallKinds)
      /\ \A to, whats : /\ Num(calls', to, whats) = Num(calls, to, whats) + Num(x, to, whats)
                        /\ Num(x, to, whats) \in Nat /\ Num(calls, to, whats) \in Nat
  BY <1>2, <1>3, NumCat, PendFinite
<1>5. \A c \in Consumers : \A whats : Num(calls', c, whats) = Num(calls, c, whats)
  BY <1>3, <1>4, BodyPipeAssumption
<1>6. TypeOK'
  <2>1. theGetSize' \in 0 .. thePutSize' /\ contentSize' <= MaxCapacity
    <3>1. /\ theGetSize \in 0 .. thePutSize /\ thePutSize \in 0 .. MaxBody
          /\ MaxBody \in Nat /\ MaxCapacity \in Nat /\ thePutSize - theGetSize <= MaxCapacity
      BY <1>1, BodyPipeAssumption DEF TypeOK, contentSize
    <3> QED
      BY <1>1, <3>1 DEF contentSize
  <2> QED
    BY <1>1, <1>4, <2>1 DEF TypeOK
<1>7. SizesMatch'
  BY <1>1 DEF SizesMatch, mayNeedMoreData, bodySizeKnown
<1>8. DataCounted'
  BY <1>1, <1>5 DEF DataCounted, Counted
<1>9. SpaceCounted'
  <2>1. ASSUME theProducer PROVE Num(calls', "producer", SpaceWhats) > 0
    <3>1. mayNeedMoreData
      BY <1>1, <2>1 DEF SizesMatch
    <3>2. Num(x, "producer", SpaceWhats) = 1
      BY <1>3, <3>1 DEF SpaceWhats
    <3> QED
      BY <1>4, <3>2
  <2> QED
    BY <1>1, <2>1 DEF SpaceCounted
<1>10. EndCounted' /\ AbortCounted' /\ EndsCounted'
  BY <1>1, <1>4, <1>5, EndsFrame
<1> QED
  BY <1>6, <1>7, <1>8, <1>9, <1>10 DEF PipeIn, Counted

\* The consumer of the time is told of the end; an abort leaves a size that was not reached.
LEMMA ClearProducerStep ==
    ASSUME PipeIn, NEW atEof \in BOOLEAN, ClearProducer(atEof)
    PROVE  PipeIn'
<1> DEFINE size == IF atEof /\ ~bodySizeKnown THEN thePutSize ELSE theBodySize
           x == EndCall(theConsumer, size, thePutSize)
<1>1. /\ TypeOK /\ SizesMatch /\ Counted /\ theProducer /\ ~theProducer'
      /\ theBodySize' = size /\ calls' = calls \o x
      /\ endedBy' = (IF atEof THEN "eof" ELSE "abort")
      /\ UNCHANGED <<theConsumer, thePutSize, theGetSize, mustAutoConsume, abortedConsumption,
                     joined, announced, spaceSeen, told>>
  BY DEF PipeIn, ClearProducer
<1>2. /\ theConsumer \in Consumers \cup {"none", "sink"} /\ calls \in Seq(CallKinds)
      /\ theBodySize \in Int /\ thePutSize \in Nat /\ size \in -1 .. MaxBody
      /\ ~atEof => size # thePutSize
  <2>1. /\ theBodySize \in -1 .. MaxBody /\ thePutSize \in 0 .. MaxBody /\ MaxBody \in Nat
        /\ theConsumer \in Consumers \cup {"none", "sink"} /\ calls \in Seq(CallKinds)
    BY <1>1, BodyPipeAssumption DEF TypeOK
  <2>2. theBodySize >= 0 => theBodySize > thePutSize
    BY <1>1 DEF SizesMatch, mayNeedMoreData, bodySizeKnown
  <2> QED
    BY <2>1, <2>2
<1> HIDE DEF size
<1>3. /\ Few(x)
      /\ \A to, whats : Num(x, to, whats) =
            IF /\ theConsumer # "none" /\ theConsumer = to
               /\ (IF size = thePutSize THEN "ended" ELSE "aborted") \in whats THEN 1 ELSE 0
  <2>1. theConsumer \in Consumers \cup {"none", "sink"}
    BY <1>2
  <2>2. \A a, b : /\ Few(EndCall(theConsumer, a, b))
                  /\ \A to, whats : Num(EndCall(theConsumer, a, b), to, whats) =
                        IF /\ theConsumer # "none" /\ theConsumer = to
                           /\ (IF a = b THEN "ended" ELSE "aborted") \in whats THEN 1 ELSE 0
    BY <2>1, NumEndCall, Zenon
  <2> QED
    BY <2>2, Zenon
<1> HIDE DEF x
<1>4. /\ calls' \in Seq(CallKinds)
      /\ \A to, whats : /\ Num(calls', to, whats) = Num(calls, to, whats) + Num(x, to, whats)
                        /\ Num(x, to, whats) \in Nat /\ Num(calls, to, whats) \in Nat
  BY <1>1, <1>2, <1>3, NumCat, PendFinite
<1>5. \A c \in Consumers : /\ told[c] = <<>> /\ Len(told[c]) = 0
                           /\ Num(calls, c, EndWhats) = 0 /\ Num(calls, c, {"ended"}) = 0
  <2>1. \A c \in Consumers : told[c] = <<>> /\ Num(calls, c, EndWhats) = 0
    BY <1>1 DEF Counted, EndsCounted
  <2> QED
    BY <1>2, <2>1, NoEndNoEnded
<1>6. \A c \in Consumers : Num(calls', c, EndWhats) = IF c = theConsumer THEN 1 ELSE 0
  <2> TAKE c \in Consumers
  <2>1. Num(x, c, EndWhats) = IF c = theConsumer THEN 1 ELSE 0
    BY <1>3, BodyPipeAssumption DEF EndWhats
  <2> QED
    BY <1>4, <1>5, <2>1
<1>7. TypeOK'
  <2>1. theProducer' \in BOOLEAN /\ endedBy' \in {"nobody", "eof", "abort"}
    <3>1. theProducer' = FALSE
      BY DEF ClearProducer
    <3> QED
      BY <1>1, <3>1
  <2> QED
    BY <1>1, <1>2, <1>4, <2>1 DEF TypeOK, contentSize
<1>8. SizesMatch'
  BY <1>1, <1>2 DEF SizesMatch
<1>9. DataCounted' /\ SpaceCounted'
  <2>1. Num(x, theConsumer, {"data"}) = 0
    BY <1>3
  <2> QED
    BY <1>1, <1>4, <2>1 DEF DataCounted, SpaceCounted, Counted
<1>10. EndCounted'
  BY <1>1, <1>5, <1>6 DEF EndCounted
<1>11. AbortCounted'
  <2> SUFFICES ASSUME ~atEof, NEW c \in Consumers
               PROVE  Num(calls', c, {"ended"}) = 0 /\ told[c] = <<>>
    BY <1>1 DEF AbortCounted
  <2>1. Num(x, c, {"ended"}) = 0
    BY <1>2, <1>3
  <2> QED
    BY <1>4, <1>5, <2>1
<1>12. EndsCounted'
  BY <1>1, <1>5, <1>6 DEF EndsCounted, Counted
<1> QED
  BY <1>7, <1>8, <1>9, <1>10, <1>11, <1>12 DEF PipeIn, Counted

\* A new consumer hears of what is in the buffer and, after the end, of the end.
LEMMA SetConsumerStep ==
    ASSUME PipeIn, NEW c \in Consumers, SetConsumerIfNotLate(c)
    PROVE  PipeIn'
<1> DEFINE x == IF contentSize > 0 THEN DataCall(c) ELSE <<>>
           y == IF theProducer THEN <<>> ELSE EndCall(c, theBodySize, thePutSize)
           what == IF theBodySize = thePutSize THEN "ended" ELSE "aborted"
<1>1. /\ TypeOK /\ SizesMatch /\ Counted
      /\ c \notin joined /\ theGetSize = 0 /\ theConsumer' = c /\ joined' = joined \cup {c}
      /\ announced' = 0 /\ calls' = calls \o x \o y
      /\ UNCHANGED <<theBodySize, theProducer, thePutSize, theGetSize, mustAutoConsume,
                     abortedConsumption, spaceSeen, told, endedBy>>
  BY DEF PipeIn, SetConsumerIfNotLate
<1>2. /\ c \in Consumers \cup {"none", "sink"} /\ c # "none" /\ c # "sink" /\ c # "producer"
      /\ calls \in Seq(CallKinds)
  BY <1>1, BodyPipeAssumption DEF TypeOK
<1>3. /\ Few(x)
      /\ \A to, whats : Num(x, to, whats) =
            IF contentSize > 0 /\ c = to /\ "data" \in whats THEN 1 ELSE 0
  <2> DEFINE some == contentSize > 0
  <2> HIDE DEF some
  <2>1. /\ Few(DataCall(c))
        /\ \A to, whats : Num(DataCall(c), to, whats) = IF c = to /\ "data" \in whats THEN 1 ELSE 0
    BY <1>2, NumDataCall
  <2>2. x = IF some THEN DataCall(c) ELSE <<>>
    BY DEF some
  <2> HIDE DEF x
  <2>3. /\ Few(x)
        /\ \A to, whats : Num(x, to, whats) = IF some /\ c = to /\ "data" \in whats THEN 1 ELSE 0
    BY <2>1, <2>2, NumNoCall
  <2> QED
    BY <2>3 DEF some
<1>4. /\ Few(y)
      /\ \A to, whats : Num(y, to, whats) = IF ~theProducer /\ c = to /\ what \in whats THEN 1 ELSE 0
  <2>1. \A a, b : /\ Few(EndCall(c, a, b))
                  /\ \A to, whats : Num(EndCall(c, a, b), to, whats) =
                        IF /\ c # "none" /\ c = to
                           /\ (IF a = b THEN "ended" ELSE "aborted") \in whats THEN 1 ELSE 0
    BY <1>2, NumEndCall, Zenon
  <2>2. /\ Few(EndCall(c, theBodySize, thePutSize))
        /\ \A to, whats : Num(EndCall(c, theBodySize, thePutSize), to, whats) =
               IF c # "none" /\ c = to /\ what \in whats THEN 1 ELSE 0
    BY <2>1, Zenon
  <2> HIDE DEF what
  <2> QED
    BY <1>2, <2>2, NumNoCall
<1>5. what \in EndWhats /\ what # "data" /\ (theBodySize # thePutSize => what # "ended")
  BY DEF EndWhats
<1> HIDE DEF x, y, what
<1>6. /\ calls' \in Seq(CallKinds)
      /\ \A to, whats :
            /\ Num(calls', to, whats) = Num(calls, to, whats) + Num(x, to, whats) + Num(y, to, whats)
            /\ Num(x, to, whats) \in Nat /\ Num(y, to, whats) \in Nat /\ Num(calls, to, whats) \in Nat
  <2>1. /\ calls \o x \in Seq(CallKinds)
        /\ \A to, whats : /\ Num(calls \o x, to, whats) = Num(calls, to, whats) + Num(x, to, whats)
                          /\ Num(x, to, whats) \in Nat /\ Num(calls, to, whats) \in Nat
    BY <1>2, <1>3, NumCat, PendFinite
  <2> DEFINE s == calls \o x
  <2> HIDE DEF s
  <2>2. /\ s \in Seq(CallKinds) /\ calls' = s \o y
        /\ \A to, whats : /\ Num(s, to, whats) = Num(calls, to, whats) + Num(x, to, whats)
                          /\ Num(x, to, whats) \in Nat /\ Num(calls, to, whats) \in Nat
    BY <1>1, <2>1 DEF s
  <2>3. /\ s \o y \in Seq(CallKinds)
        /\ \A to, whats : /\ Num(s \o y, to, whats) = Num(s, to, whats) + Num(y, to, whats)
                          /\ Num(y, to, whats) \in Nat
    BY <1>4, <2>2, NumCat
  <2> QED
    BY <2>2, <2>3
<1>7. \A d \in Consumers :
          /\ Num(calls', d, EndWhats) =
                Num(calls, d, EndWhats) + (IF d = c /\ ~theProducer THEN 1 ELSE 0)
          /\ theBodySize # thePutSize => Num(calls', d, {"ended"}) = Num(calls, d, {"ended"})
          /\ Num(calls, d, EndWhats) \in Nat
  <2> TAKE d \in Consumers
  <2>1. Num(x, d, EndWhats) = 0 /\ Num(x, d, {"ended"}) = 0
    BY <1>3 DEF EndWhats
  <2>2. Num(y, d, EndWhats) = IF d = c /\ ~theProducer THEN 1 ELSE 0
    BY <1>4, <1>5
  <2>3. theBodySize # thePutSize => Num(y, d, {"ended"}) = 0
    BY <1>4, <1>5
  <2> QED
    BY <1>6, <2>1, <2>2, <2>3
<1>8. told[c] = <<>> /\ Len(told[c]) = 0 /\ Num(calls, c, EndWhats) = 0
  BY <1>1 DEF Counted, EndsCounted
<1>9. TypeOK'
  <2>1. theConsumer' \in Consumers \cup {"none", "sink"} /\ joined' \in SUBSET Consumers
    BY <1>1 DEF TypeOK
  <2> QED
    BY <1>1, <1>6, <2>1 DEF TypeOK, contentSize
<1>10. SizesMatch'
  BY <1>1 DEF SizesMatch, mayNeedMoreData, bodySizeKnown
<1>11. DataCounted'
  <2> SUFFICES ASSUME thePutSize > 0 PROVE Num(calls', c, {"data"}) > 0
    BY <1>1 DEF DataCounted
  <2>1. contentSize > 0
    BY <1>1 DEF contentSize, TypeOK
  <2>2. Num(x, c, {"data"}) = 1
    BY <1>3, <2>1
  <2> QED
    BY <1>6, <2>2
<1>12. SpaceCounted'
  BY <1>1, <1>6 DEF SpaceCounted, Counted
<1>13. EndCounted'
  BY <1>1, <1>7, <1>8 DEF EndCounted
<1>14. AbortCounted'
  BY <1>1, <1>7 DEF AbortCounted, Counted, SizesMatch
<1>15. EndsCounted'
  <2>1. \A d \in Consumers : d # c \/ theProducer => Num(calls', d, EndWhats) = Num(calls, d, EndWhats)
    BY <1>7
  <2> QED
    BY <1>1, <2>1 DEF EndsCounted, Counted
<1> QED
  BY <1>9, <1>10, <1>11, <1>12, <1>13, <1>14, <1>15 DEF PipeIn, Counted

\* The consumer goes; a sink may take over, and then has a call to come.  No other calls
\* leave the queue than those of the sink.
LEMMA ClearConsumerStep ==
    ASSUME PipeIn, NEW queued \in Seq(CallKinds),
           \A d \in Consumers \cup {"producer"} : \A whats : Num(queued, d, whats) = Num(calls, d, whats),
           ClearConsumer(queued) \/ AbortConsumption(queued),
           UNCHANGED <<theBodySize, theProducer, thePutSize, theGetSize, mustAutoConsume, joined,
                       spaceSeen, told, endedBy>>
    PROVE  PipeIn'
<1>0. TypeOK /\ SizesMatch /\ Counted
  BY DEF PipeIn
<1>1. \/ /\ theConsumer' = "none" /\ calls' = queued
         /\ UNCHANGED <<abortedConsumption, announced>>
      \/ /\ abortedConsumption' = TRUE /\ mustAutoConsume
         /\ theConsumer' = "sink" /\ announced' = theGetSize
         /\ calls' = queued \o Call("producer", "consumerAborted") \o DataCall("sink")
      \/ /\ abortedConsumption' = TRUE /\ ~mustAutoConsume
         /\ theConsumer' = "none" /\ announced' = announced
         /\ calls' = queued \o Call("producer", "consumerAborted") \o <<>>
  BY DEF ClearConsumer, AbortConsumption
<1>2. /\ calls' \in Seq(CallKinds)
      /\ \A d \in Consumers : \A whats : Num(calls', d, whats) = Num(calls, d, whats)
      /\ Num(calls', "producer", SpaceWhats) >= Num(calls, "producer", SpaceWhats)
      /\ theConsumer' = "sink" => Num(calls', "sink", {"data"}) > 0
  <2>0. \A to, whats : Num(queued, to, whats) \in Nat
    BY PendFinite
  <2> DEFINE x == Call("producer", "consumerAborted")
             s == queued \o x
  <2>1. /\ Few(x)
        /\ \A to, whats : Num(x, to, whats) =
              IF "producer" = to /\ "consumerAborted" \in whats THEN 1 ELSE 0
    BY NumProducerCall
  <2> HIDE DEF x
  <2>2. /\ s \in Seq(CallKinds)
        /\ \A to, whats : Num(s, to, whats) = Num(queued, to, whats) + Num(x, to, whats)
    BY <2>1, NumCat
  <2> HIDE DEF s
  <2>3. /\ \A d \in Consumers : \A whats : Num(s, d, whats) = Num(calls, d, whats)
        /\ Num(s, "producer", SpaceWhats) >= Num(calls, "producer", SpaceWhats)
        /\ \A to, whats : Num(s, to, whats) \in Nat
    BY <2>0, <2>1, <2>2, BodyPipeAssumption DEF SpaceWhats
  <2>4. /\ Few(DataCall("sink"))
        /\ \A to, whats : Num(DataCall("sink"), to, whats) = IF "sink" = to /\ "data" \in whats THEN 1 ELSE 0
    BY NumDataCall
  <2>5. /\ s \o DataCall("sink") \in Seq(CallKinds)
        /\ \A to, whats : Num(s \o DataCall("sink"), to, whats) =
                             Num(s, to, whats) + Num(DataCall("sink"), to, whats)
    BY <2>2, <2>4, NumCat
  <2>6. s \o <<>> = s
    BY <2>2
  <2>7. CASE calls' = queued /\ theConsumer' = "none"
    BY <2>0, <2>7
  <2>8. CASE calls' = s \o <<>> /\ theConsumer' = "none"
    BY <2>2, <2>3, <2>6, <2>8
  <2>9. CASE calls' = s \o DataCall("sink") /\ theConsumer' = "sink"
    <3>1. \A d \in Consumers : \A whats : Num(DataCall("sink"), d, whats) = 0
      BY <2>4, BodyPipeAssumption
    <3>2. Num(DataCall("sink"), "sink", {"data"}) = 1 /\ Num(DataCall("sink"), "producer", SpaceWhats) = 0
      BY <2>4
    <3> QED
      BY <2>3, <2>5, <2>9, <3>1, <3>2
  <2> QED
    BY <1>1, <2>7, <2>8, <2>9 DEF s, x
<1>3. theConsumer' \in {"none", "sink"} /\ announced' \in Nat /\ abortedConsumption' \in BOOLEAN
  <2>1. announced \in Nat /\ theGetSize \in Nat /\ abortedConsumption \in BOOLEAN
    BY <1>0, BodyPipeAssumption DEF TypeOK
  <2>2. abortedConsumption' \in BOOLEAN
    BY <1>1, <2>1
  <2> QED
    BY <1>1, <2>1, <2>2
<1>4. TypeOK'
  BY <1>0, <1>2, <1>3 DEF TypeOK, contentSize
<1>5. SizesMatch'
  BY <1>0 DEF SizesMatch, mayNeedMoreData, bodySizeKnown
<1>6. DataCounted'
  BY <1>2, <1>3 DEF DataCounted
<1>7. SpaceCounted'
  <2>1. Num(calls, "producer", SpaceWhats) \in Nat /\ Num(calls', "producer", SpaceWhats) \in Nat
    BY <1>0, <1>2, PendFinite DEF TypeOK
  <2> QED
    BY <1>0, <1>2, <2>1 DEF SpaceCounted, Counted
<1>8. EndCounted' /\ AbortCounted' /\ EndsCounted'
  <2>1. \A d \in Consumers : \A whats : Num(calls', d, whats) <= Num(calls, d, whats)
    BY <1>0, <1>2, PendFinite DEF TypeOK
  <2>2. theConsumer' \notin Consumers
    BY <1>3, BodyPipeAssumption
  <2> QED
    BY <1>0, <1>2, <2>1, <2>2, EndsFrame
<1> QED
  BY <1>4, <1>5, <1>6, <1>7, <1>8 DEF PipeIn, Counted

\* A sink that starts has a call to come.
LEMMA EnableAutoConsumptionStep ==
    ASSUME PipeIn, EnableAutoConsumption
    PROVE  PipeIn'
<1>0. /\ TypeOK /\ SizesMatch /\ Counted /\ calls \in Seq(CallKinds)
      /\ UNCHANGED <<theBodySize, theProducer, thePutSize, theGetSize, abortedConsumption,
                     joined, spaceSeen, told, endedBy>>
  BY DEF PipeIn, EnableAutoConsumption, TypeOK
<1>1. \/ UNCHANGED <<theConsumer, announced, calls>>
      \/ /\ theConsumer = "none" /\ theConsumer' = "sink" /\ announced' = theGetSize
         /\ calls' = calls \o DataCall("sink")
  BY DEF EnableAutoConsumption
<1>2. /\ calls' \in Seq(CallKinds)
      /\ \A to, whats : /\ Num(calls', to, whats) >= Num(calls, to, whats)
                        /\ to # "sink" => Num(calls', to, whats) = Num(calls, to, whats)
                        /\ Num(calls', to, whats) \in Nat /\ Num(calls, to, whats) \in Nat
      /\ theConsumer' # theConsumer => Num(calls', theConsumer', {"data"}) > 0
  <2>0. \A to, whats : Num(calls, to, whats) \in Nat
    BY <1>0, PendFinite
  <2>1. CASE UNCHANGED <<theConsumer, announced, calls>>
    BY <1>0, <2>0, <2>1
  <2>2. CASE theConsumer' = "sink" /\ calls' = calls \o DataCall("sink")
    <3>1. /\ Few(DataCall("sink"))
          /\ \A to, whats : Num(DataCall("sink"), to, whats) =
                 IF "sink" = to /\ "data" \in whats THEN 1 ELSE 0
      BY NumDataCall
    <3>2. /\ calls' \in Seq(CallKinds)
          /\ \A to, whats : Num(calls', to, whats) =
                               Num(calls, to, whats) + Num(DataCall("sink"), to, whats)
      BY <1>0, <2>2, <3>1, NumCat
    <3>3. Num(DataCall("sink"), "sink", {"data"}) = 1
      BY <3>1
    <3>4. \A to, whats : to # "sink" => Num(DataCall("sink"), to, whats) = 0
      BY <3>1
    <3>5. \A to, whats : Num(DataCall("sink"), to, whats) \in Nat
      BY <3>1
    <3> QED
      BY <2>0, <2>2, <3>2, <3>3, <3>4, <3>5
  <2> QED
    BY <1>1, <2>1, <2>2
<1>3. TypeOK'
  <2>1. mustAutoConsume' \in BOOLEAN
    <3>1. mustAutoConsume' = TRUE
      BY DEF EnableAutoConsumption
    <3> QED
      BY <3>1
  <2>2. announced' \in Nat /\ theConsumer' \in Consumers \cup {"none", "sink"}
    <3>1. announced \in Nat /\ theGetSize \in Nat /\ theConsumer \in Consumers \cup {"none", "sink"}
      BY <1>0, BodyPipeAssumption DEF TypeOK
    <3> QED
      BY <1>1, <3>1
  <2> QED
    BY <1>0, <1>2, <2>1, <2>2 DEF TypeOK, contentSize
<1>4. SizesMatch'
  BY <1>0 DEF SizesMatch, mayNeedMoreData, bodySizeKnown
<1>5. DataCounted'
  <2>1. CASE theConsumer' # theConsumer
    BY <1>2, <2>1 DEF DataCounted
  <2>2. CASE UNCHANGED <<theConsumer, announced, calls>>
    BY <1>0, <2>2 DEF DataCounted, Counted
  <2> QED
    BY <1>1, <2>1, <2>2
<1>6. SpaceCounted'
  BY <1>0, <1>2 DEF SpaceCounted, Counted
<1>7. EndCounted' /\ AbortCounted' /\ EndsCounted'
  <2>1. theConsumer' \in Consumers => theConsumer' = theConsumer
    BY <1>1, BodyPipeAssumption
  <2>2. \A d \in Consumers : \A whats : /\ Num(calls', d, whats) = Num(calls, d, whats)
                                        /\ Num(calls', d, whats) <= Num(calls, d, whats)
    BY <1>2, BodyPipeAssumption
  <2> QED
    BY <1>0, <1>2, <2>1, <2>2, EndsFrame
<1> QED
  BY <1>3, <1>4, <1>5, <1>6, <1>7 DEF PipeIn, Counted

\* The next call leaves the queue.
LEMMA HeadLeaves ==
    ASSUME TypeOK, calls # <<>>
    PROVE  /\ Tail(calls) \in Seq(CallKinds) /\ Head(calls) \in CallKinds
           /\ \A to, whats :
                 /\ Num(Tail(calls), to, whats) = Num(calls, to, whats)
                       - (IF Head(calls).to = to /\ Head(calls).what \in whats THEN 1 ELSE 0)
                 /\ Num(calls, to, whats) \in Nat /\ Num(Tail(calls), to, whats) \in Nat
<1>1. calls \in Seq(CallKinds)
  BY DEF TypeOK
<1>2. /\ Tail(calls) \in Seq(CallKinds) /\ Head(calls) \in CallKinds
      /\ \A to, whats : Num(Tail(calls), to, whats) = Num(calls, to, whats)
                           - (IF Match(Head(calls), to, whats) THEN 1 ELSE 0)
  BY <1>1, NumTail
<1> QED
  BY <1>1, <1>2, PendFinite DEF Match

\* The producer hears of all the space there is.
LEMMA DialProducerStep ==
    ASSUME PipeIn, DialProducer
    PROVE  PipeIn'
<1>0. /\ TypeOK /\ SizesMatch /\ Counted /\ calls # <<>> /\ calls' = Tail(calls)
      /\ Head(calls).to = "producer" /\ spaceSeen' = theGetSize
      /\ UNCHANGED <<theBodySize, theProducer, theConsumer, thePutSize, theGetSize,
                     mustAutoConsume, abortedConsumption, joined, announced, told, endedBy>>
  BY DEF PipeIn, DialProducer, Dialed, pipeVars
<1>1. /\ calls' \in Seq(CallKinds)
      /\ \A to, whats : to # "producer" => Num(calls', to, whats) = Num(calls, to, whats)
      /\ \A to, whats : Num(calls, to, whats) \in Nat /\ Num(calls', to, whats) \in Nat
  BY <1>0, HeadLeaves
<1>2. TypeOK'
  <2>1. theGetSize \in Nat
    BY <1>0, BodyPipeAssumption DEF TypeOK
  <2> QED
    BY <1>0, <1>1, <2>1 DEF TypeOK, contentSize
<1>3. SizesMatch'
  BY <1>0 DEF SizesMatch, mayNeedMoreData, bodySizeKnown
<1>4. theConsumer # "producer" /\ theGetSize \in Int
  BY <1>0, BodyPipeAssumption DEF TypeOK
<1>5. DataCounted'
  BY <1>0, <1>1, <1>4 DEF DataCounted, Counted
<1>6. SpaceCounted'
  BY <1>0, <1>4 DEF SpaceCounted
<1>7. EndCounted' /\ AbortCounted' /\ EndsCounted'
  <2>1. \A d \in Consumers : \A whats : /\ Num(calls', d, whats) = Num(calls, d, whats)
                                        /\ Num(calls', d, whats) <= Num(calls, d, whats)
    BY <1>1, BodyPipeAssumption
  <2> QED
    BY <1>0, <1>1, <2>1, EndsFrame
<1> QED
  BY <1>2, <1>3, <1>5, <1>6, <1>7 DEF PipeIn, Counted

\* The consumer hears of all the data there is; an end is counted as told.
LEMMA DialConsumerStep ==
    ASSUME PipeIn, DialConsumer
    PROVE  PipeIn'
<1> DEFINE h == Head(calls).what
           k == theConsumer
<1>0. /\ TypeOK /\ SizesMatch /\ Counted /\ calls # <<>> /\ calls' = Tail(calls)
      /\ k \in Consumers /\ Head(calls).to = k /\ announced' = thePutSize
      /\ told' = (IF h = "data" THEN told ELSE [told EXCEPT ![k] = Append(@, h)])
      /\ UNCHANGED <<theBodySize, theProducer, theConsumer, thePutSize, theGetSize,
                     mustAutoConsume, abortedConsumption, joined, spaceSeen, endedBy>>
  BY DEF PipeIn, DialConsumer, pipeVars
<1>1. /\ calls' \in Seq(CallKinds) /\ Head(calls) \in CallKinds
      /\ \A to, whats :
            /\ Num(calls', to, whats) = Num(calls, to, whats) - (IF k = to /\ h \in whats THEN 1 ELSE 0)
            /\ Num(calls, to, whats) \in Nat /\ Num(calls', to, whats) \in Nat
  BY <1>0, HeadLeaves
<1>2. h \in {"data", "ended", "aborted"} /\ k # "producer"
  BY <1>0, <1>1, BodyPipeAssumption DEF CallKinds
<1> HIDE DEF h, k
<1>a. k = theConsumer
  BY DEF k
<1>3. told \in [Consumers -> Seq({"ended", "aborted"})]
  BY <1>0 DEF TypeOK
<1>4. /\ told' \in [Consumers -> Seq({"ended", "aborted"})]
      /\ \A c \in Consumers : c # k \/ h = "data" => told'[c] = told[c]
      /\ h # "data" => told'[k] = Append(told[k], h)
  <2>1. CASE h = "data"
    BY <1>0, <1>3, <2>1
  <2>2. CASE h # "data"
    <3>1. Append(told[k], h) \in Seq({"ended", "aborted"})
      BY <1>0, <1>2, <1>3, <2>2
    <3>2. told' = [told EXCEPT ![k] = Append(told[k], h)]
      BY <1>0, <2>2
    <3> QED
      BY <1>0, <1>3, <2>2, <3>1, <3>2
  <2> QED
    BY <2>1, <2>2
<1>5. TypeOK'
  <2>1. thePutSize \in Nat
    BY <1>0, BodyPipeAssumption DEF TypeOK
  <2> QED
    BY <1>0, <1>1, <1>4, <2>1 DEF TypeOK, contentSize
<1>6. SizesMatch'
  BY <1>0 DEF SizesMatch, mayNeedMoreData, bodySizeKnown
<1>7. DataCounted'
  <2>1. thePutSize \in Int
    BY <1>0, BodyPipeAssumption DEF TypeOK
  <2> QED
    BY <1>0, <2>1 DEF DataCounted
<1>8. SpaceCounted'
  <2>1. Num(calls', "producer", SpaceWhats) = Num(calls, "producer", SpaceWhats)
    BY <1>1, <1>2
  <2> QED
    BY <1>0, <2>1 DEF SpaceCounted, Counted
<1>9. EndCounted'
  <2> SUFFICES Num(calls', k, EndWhats) + Len(told'[k]) = Num(calls, k, EndWhats) + Len(told[k])
    BY <1>0, <1>a DEF EndCounted, Counted
  <2>1. told[k] \in Seq({"ended", "aborted"}) /\ Len(told[k]) \in Nat
    BY <1>0, <1>3
  <2>2. CASE h = "data"
    <3>1. Num(calls', k, EndWhats) = Num(calls, k, EndWhats)
      BY <1>1, <2>2 DEF EndWhats
    <3> QED
      BY <1>0, <1>4, <2>2, <3>1
  <2>3. CASE h # "data"
    <3>1. Num(calls', k, EndWhats) = Num(calls, k, EndWhats) - 1
      BY <1>1, <1>2, <2>3 DEF EndWhats
    <3>2. Len(told'[k]) = Len(told[k]) + 1
      BY <1>4, <2>1, <2>3
    <3> QED
      BY <1>1, <2>1, <3>1, <3>2
  <2> QED
    BY <2>2, <2>3
<1>10. AbortCounted'
  <2> SUFFICES ASSUME endedBy = "abort", NEW c \in Consumers
               PROVE  Num(calls', c, {"ended"}) = 0 /\ \A i \in DOMAIN told'[c] : told'[c][i] = "aborted"
    BY <1>0 DEF AbortCounted
  <2>1. /\ Num(calls, c, {"ended"}) = 0 /\ Num(calls, k, {"ended"}) = 0
        /\ \A i \in DOMAIN told[c] : told[c][i] = "aborted"
    BY <1>0 DEF AbortCounted, Counted
  <2>2. Num(calls', c, {"ended"}) = 0
    BY <1>1, <2>1
  <2>3. h # "ended"
    BY <1>1, <2>1
  <2>4. CASE c # k \/ h = "data"
    BY <1>4, <2>1, <2>2, <2>4
  <2>5. CASE c = k /\ h # "data"
    <3>1. told'[c] = Append(told[c], "aborted") /\ told[c] \in Seq({"ended", "aborted"})
      BY <1>2, <1>3, <1>4, <2>3, <2>5
    <3>2. \A i \in DOMAIN told'[c] : told'[c][i] = "aborted"
      BY <2>1, <3>1
    <3> QED
      BY <2>2, <3>2
  <2> QED
    BY <2>4, <2>5
<1>11. EndsCounted'
  <2>1. theConsumer' \in Consumers => theConsumer' \in joined'
    BY <1>0 DEF Counted, EndsCounted
  <2>2. ASSUME NEW c \in Consumers, theProducer \/ c \notin joined
        PROVE  Num(calls', c, EndWhats) = 0 /\ told'[c] = <<>>
    <3>1. Num(calls, c, EndWhats) = 0 /\ told[c] = <<>>
      BY <1>0, <2>2 DEF Counted, EndsCounted
    <3>2. Num(calls', c, EndWhats) = 0
      BY <1>1, <3>1
    <3>3. c # k \/ h = "data"
      BY <1>1, <1>2, <3>1 DEF EndWhats
    <3> QED
      BY <1>4, <3>1, <3>2, <3>3
  <2> QED
    BY <1>0, <2>1, <2>2 DEF EndsCounted
<1> QED
  BY <1>5, <1>6, <1>7, <1>8, <1>9, <1>10, <1>11 DEF PipeIn, Counted

\* The sink consumes all there is, and the producer is called about it.
LEMMA DialSinkDataStep ==
    ASSUME PipeIn, DialSinkData
    PROVE  PipeIn'
<1> DEFINE x == IF mayNeedMoreData THEN Call("producer", "space") ELSE <<>>
<1>0. /\ TypeOK /\ SizesMatch /\ Counted /\ calls # <<>>
      /\ theConsumer = "sink" /\ Head(calls).to = "sink"
      /\ theGetSize' = thePutSize /\ announced' = thePutSize /\ calls' = Tail(calls) \o x
      /\ UNCHANGED <<theBodySize, theProducer, theConsumer, thePutSize, mustAutoConsume,
                     abortedConsumption, joined, spaceSeen, told, endedBy>>
  BY DEF PipeIn, DialSinkData, Dialed
<1>1. Few(x) /\ \A to, whats : Num(x, to, whats) =
          IF mayNeedMoreData /\ "producer" = to /\ "space" \in whats THEN 1 ELSE 0
  <2> HIDE DEF mayNeedMoreData
  <2> QED
    BY NumProducerCall, NumNoCall
<1> HIDE DEF x
<1>2. /\ Tail(calls) \in Seq(CallKinds)
      /\ \A to, whats : /\ to # "sink" => Num(Tail(calls), to, whats) = Num(calls, to, whats)
                        /\ Num(calls, to, whats) \in Nat /\ Num(Tail(calls), to, whats) \in Nat
  BY <1>0, HeadLeaves
<1>3. /\ calls' \in Seq(CallKinds)
      /\ \A to, whats : /\ Num(calls', to, whats) = Num(Tail(calls), to, whats) + Num(x, to, whats)
                        /\ Num(x, to, whats) \in Nat
  <2> DEFINE t == Tail(calls)
  <2>1. t \in Seq(CallKinds) /\ calls' = t \o x /\ Few(x)
    BY <1>0, <1>1, <1>2
  <2> HIDE DEF t
  <2>2. /\ calls' \in Seq(CallKinds)
        /\ \A to, whats : /\ Num(calls', to, whats) = Num(t, to, whats) + Num(x, to, whats)
                          /\ Num(x, to, whats) \in Nat
    BY <2>1, NumCat
  <2> QED
    BY <2>2 DEF t
<1>4. \A d \in Consumers : \A whats : Num(calls', d, whats) = Num(calls, d, whats)
  <2> TAKE d \in Consumers
  <2>1. d # "sink" /\ d # "producer"
    BY BodyPipeAssumption
  <2> QED
    BY <1>1, <1>2, <1>3, <2>1
<1>5. TypeOK'
  <2>1. thePutSize \in 0 .. MaxBody /\ MaxBody \in Nat /\ MaxCapacity \in Nat
    BY <1>0, BodyPipeAssumption DEF TypeOK
  <2>2. theGetSize' \in 0 .. thePutSize' /\ contentSize' <= MaxCapacity /\ announced' \in Nat
    BY <1>0, <2>1 DEF contentSize
  <2> QED
    BY <1>0, <1>3, <2>2 DEF TypeOK
<1>6. SizesMatch'
  BY <1>0 DEF SizesMatch, mayNeedMoreData, bodySizeKnown
<1>7. DataCounted'
  <2>1. thePutSize \in Int
    BY <1>0, BodyPipeAssumption DEF TypeOK
  <2> QED
    BY <1>0, <2>1 DEF DataCounted
<1>8. SpaceCounted'
  <2>1. ASSUME theProducer PROVE Num(calls', "producer", SpaceWhats) > 0
    <3>1. mayNeedMoreData
      BY <1>0, <2>1 DEF SizesMatch
    <3>2. Num(x, "producer", SpaceWhats) = 1
      BY <1>1, <3>1 DEF SpaceWhats
    <3> QED
      BY <1>2, <1>3, <3>2
  <2> QED
    BY <1>0, <2>1 DEF SpaceCounted
<1>9. EndCounted' /\ AbortCounted' /\ EndsCounted'
  <2>1. \A d \in Consumers : \A whats : Num(calls', d, whats) <= Num(calls, d, whats)
    BY <1>2, <1>4
  <2> QED
    BY <1>0, <1>3, <1>4, <2>1, EndsFrame
<1> QED
  BY <1>5, <1>6, <1>7, <1>8, <1>9 DEF PipeIn, Counted

\* A call to nobody only leaves the queue.
LEMMA DialCancelledStep ==
    ASSUME PipeIn, DialCancelled
    PROVE  PipeIn'
<1>0. /\ TypeOK /\ SizesMatch /\ Counted /\ calls # <<>> /\ calls' = Tail(calls)
      /\ Head(calls).to = "producer" => ~theProducer
      /\ Head(calls).to # "producer" => Head(calls).to # theConsumer
      /\ UNCHANGED <<theBodySize, theProducer, theConsumer, thePutSize, theGetSize,
                     mustAutoConsume, abortedConsumption, joined, announced, spaceSeen, told,
                     endedBy>>
  BY DEF PipeIn, DialCancelled, pipeVars, history
<1>1. /\ calls' \in Seq(CallKinds)
      /\ \A to, whats : /\ to # Head(calls).to => Num(calls', to, whats) = Num(calls, to, whats)
                        /\ Num(calls', to, whats) <= Num(calls, to, whats)
                        /\ Num(calls, to, whats) \in Nat /\ Num(calls', to, whats) \in Nat
  BY <1>0, HeadLeaves
<1>2. theConsumer # "producer" /\ theConsumer # Head(calls).to
  BY <1>0, BodyPipeAssumption DEF TypeOK
<1>3. \A whats : Num(calls', theConsumer, whats) = Num(calls, theConsumer, whats)
  BY <1>1, <1>2
<1>4. TypeOK'
  BY <1>0, <1>1 DEF TypeOK, contentSize
<1>5. SizesMatch'
  BY <1>0 DEF SizesMatch, mayNeedMoreData, bodySizeKnown
<1>6. DataCounted'
  BY <1>0, <1>3 DEF DataCounted, Counted
<1>7. SpaceCounted'
  BY <1>0, <1>1 DEF SpaceCounted, Counted
<1>8. EndCounted' /\ AbortCounted' /\ EndsCounted'
  BY <1>0, <1>1, <1>3, EndsFrame
<1> QED
  BY <1>4, <1>5, <1>6, <1>7, <1>8 DEF PipeIn, Counted

\* Consumers that go, and a sink that is told of the end.
LEMMA StopStep ==
    ASSUME PipeIn, StopConsuming \/ ExpectNoConsumption \/ DialSinkEnd
    PROVE  PipeIn'
<1>0. TypeOK /\ calls \in Seq(CallKinds)
  BY DEF PipeIn, TypeOK
<1>1. CASE StopConsuming \/ ExpectNoConsumption
  <2>1. /\ ClearConsumer(calls) \/ AbortConsumption(calls)
        /\ UNCHANGED <<theBodySize, theProducer, thePutSize, theGetSize, mustAutoConsume, joined,
                       spaceSeen, told, endedBy>>
    BY <1>1 DEF StopConsuming, ExpectNoConsumption
  <2> QED
    BY <1>0, <2>1, ClearConsumerStep
<1>2. CASE DialSinkEnd
  <2>1. /\ calls # <<>> /\ Head(calls).to = "sink" /\ ClearConsumer(Tail(calls))
        /\ UNCHANGED <<theBodySize, theProducer, thePutSize, theGetSize, mustAutoConsume, joined,
                       spaceSeen, told, endedBy>>
    BY <1>2 DEF DialSinkEnd, Dialed
  <2>2. /\ Tail(calls) \in Seq(CallKinds)
        /\ \A to, whats : /\ to # "sink" => Num(Tail(calls), to, whats) = Num(calls, to, whats)
                          /\ Num(calls, to, whats) \in Nat
    BY <1>0, <2>1, HeadLeaves
  <2>3. \A d \in Consumers \cup {"producer"} : \A whats : Num(Tail(calls), d, whats) = Num(calls, d, whats)
    BY <2>2, BodyPipeAssumption
  <2> QED
    BY <2>1, <2>2, <2>3, ClearConsumerStep
<1> QED
  BY <1>1, <1>2

----------------------------------------------------------------------------
\* The invariant and its counted form.
LEMMA PipeInvIn == PipeInv <=> PipeIn
<1>1. CASE calls \in Seq(CallKinds)
  BY <1>1, CountedParts DEF PipeInv, PipeIn
<1>2. CASE calls \notin Seq(CallKinds)
  BY <1>2 DEF PipeInv, PipeIn, TypeOK
<1> QED
  BY <1>1, <1>2

\* A new pipe.
LEMMA PipeInInit == Init => PipeIn
<1> SUFFICES ASSUME Init PROVE PipeIn
  OBVIOUS
<1>1. TypeOK
  <2>1. theProducer \in BOOLEAN /\ mustAutoConsume \in BOOLEAN /\ abortedConsumption \in BOOLEAN
    BY DEF Init
  <2>2. calls \in Seq(CallKinds) /\ told \in [Consumers -> Seq({"ended", "aborted"})]
    BY DEF Init
  <2>3. /\ theBodySize \in -1 .. MaxBody /\ thePutSize \in 0 .. MaxBody /\ theGetSize \in 0 .. thePutSize
        /\ contentSize <= MaxCapacity /\ announced \in Nat /\ spaceSeen \in Nat
    BY BodyPipeAssumption DEF Init, contentSize
  <2> QED
    BY <2>1, <2>2, <2>3 DEF Init, TypeOK
<1>2. SizesMatch
  BY DEF Init, SizesMatch, mayNeedMoreData, bodySizeKnown
<1>3. Counted
  BY NumEmpty, BodyPipeAssumption
  DEF Init, Counted, DataCounted, SpaceCounted, EndCounted, AbortCounted, EndsCounted
<1> QED
  BY <1>1, <1>2, <1>3 DEF PipeIn

\* Every operation and every delivery of a call preserves the invariant.
LEMMA PipeInStep == PipeIn /\ [Next]_vars => PipeIn'
<1> SUFFICES ASSUME PipeIn, [Next]_vars PROVE PipeIn'
  OBVIOUS
<1>1. CASE \E size \in Sizes : SetBodySize(size) \/ ExpectProductionEndAfter(size)
  BY <1>1, SizeStep
<1>2. CASE \E size \in Sizes : PutMoreData(size)
  BY <1>2, PutMoreDataStep
<1>3. CASE \E size \in Sizes : GetMoreData(size)
  BY <1>3, GetMoreDataStep
<1>4. CASE \E atEof \in BOOLEAN : ClearProducer(atEof)
  BY <1>4, ClearProducerStep
<1>5. CASE \E c \in Consumers : SetConsumerIfNotLate(c)
  BY <1>5, SetConsumerStep
<1>6. CASE StopConsuming \/ ExpectNoConsumption \/ DialSinkEnd
  BY <1>6, StopStep
<1>7. CASE EnableAutoConsumption
  BY <1>7, EnableAutoConsumptionStep
<1>8. CASE DialProducer
  BY <1>8, DialProducerStep
<1>9. CASE DialConsumer
  BY <1>9, DialConsumerStep
<1>10. CASE DialSinkData
  BY <1>10, DialSinkDataStep
<1>11. CASE DialCancelled
  BY <1>11, DialCancelledStep
<1>12. CASE UNCHANGED vars
  <2>1. UNCHANGED <<theBodySize, theProducer, theConsumer, thePutSize, theGetSize, mustAutoConsume,
                    abortedConsumption, calls, joined, announced, spaceSeen, told, endedBy>>
    BY <1>12 DEF vars, pipeVars, history
  <2> QED
    BY <2>1 DEF PipeIn, TypeOK, contentSize, SizesMatch, mayNeedMoreData, bodySizeKnown, Counted,
                DataCounted, SpaceCounted, EndCounted, AbortCounted, EndsCounted
<1> QED
  BY <1>1, <1>2, <1>3, <1>4, <1>5, <1>6, <1>7, <1>8, <1>9, <1>10, <1>11, <1>12 DEF Next, Dial

\* The invariant holds in every state of the pipe: what is queued is exactly what the two
\* sides have yet to hear.
THEOREM PipeInvariant == Spec => []PipeInv
<1>1. Init => PipeInv
  BY PipeInInit, PipeInvIn
<1>2. PipeInv /\ [Next]_vars => PipeInv'
  <2>1. PipeInv' <=> PipeIn'
    BY PipeInvIn, PTL
  <2> QED
    BY <2>1, PipeInvIn, PipeInStep
<1> QED
  BY <1>1, <1>2, PTL DEF Spec

\* Every consumer hears of all data (postAppend(), setConsumerIfNotLate(), startAutoConsumption()).
THEOREM ConsumersHearOfData == Spec => []DataAnnounced
<1>1. PipeInv => DataAnnounced
  BY DEF PipeInv
<1> QED
  BY <1>1, PipeInvariant, PTL

\* A producer with more to put hears of all space (postConsume(), expectNoConsumption()).
THEOREM ProducersHearOfSpace == Spec => []SpaceAnnounced
<1>1. PipeInv => SpaceAnnounced
  BY DEF PipeInv
<1> QED
  BY <1>1, PipeInvariant, PTL

\* Every consumer is told of the end of the body exactly once (clearProducer(),
\* setConsumerIfNotLate()).
THEOREM EndIsToldOnce == Spec => []EndAnnouncedOnce
<1>1. PipeInv => EndAnnouncedOnce
  BY DEF PipeInv
<1> QED
  BY <1>1, PipeInvariant, PTL

\* No consumer takes an aborted body for a complete one (clearProducer(),
\* scheduleBodyEndNotification()).
THEOREM AbortedBodiesAreKnown == Spec => []AbortIsNotEnd
<1>1. PipeInv => AbortIsNotEnd
  BY DEF PipeInv
<1> QED
  BY <1>1, PipeInvariant, PTL
=============================================================================
