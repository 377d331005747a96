----------------------------- MODULE RockProofs -----------------------------
(***************************************************************************)
(* Proofs about the Rock cache_dir, for any workers, keys, cells, finite   *)
(* set of entries and numbers of faults.                                   *)
(*                                                                         *)
(* Locks counts, for every slot, the entries, late releases, the rebuild   *)
(* job and the dead processes that hold its lock; with it an entry with a  *)
(* write lock is alone, and a reader's slot cannot be reopened.  What the  *)
(* slot says is what its holder wrote there (Owned).  That the cell says   *)
(* the same (CellsMatch) depends on requests and responses that are still  *)
(* under way: versions are never given out twice, so a request or a        *)
(* response with the version of an entry that is being written is that     *)
(* entry's (VersionsMatch), and a write on behalf of nobody strays.        *)
(***************************************************************************)
EXTENDS Rock, FiniteSetTheorems, SequenceTheorems, TLAPS

SlotType == [state: {"Empty", "Writeable", "Readable"}, writer: BOOLEAN,
             readers: Nat, freed: BOOLEAN, key: Key \cup {NoKey}, ver: Nat]
Cell == [key: Key, ver: Nat]
EntryType == [pc: WriteLocked \cup ReadLocked, w: Worker, key: Key, ver: Nat, id: Nat]
Request == [id: Nat, key: Key, ver: Nat]
Response == [id: Nat, ver: Nat, ok: BOOLEAN]

Types ==
    /\ slot \in [Slot -> SlotType]
    /\ cell \in [Slot -> Cell]
    /\ entry \in [Entry -> EntryType \cup {NoEntry}]
    /\ toDisk \in [Worker -> Seq(Request)]
    /\ fromDisk \in [Worker -> Seq(Response)]
    /\ lastId \in [Worker -> Nat]
    /\ rebuild \in [pc: {"scan", "open", "opened", "off"}, filen: Nat \ {0}, found: Cell]
    /\ late \in Seq(Slot)
    /\ lastVer \in Nat
    /\ leaked \in [Slot -> [writer: BOOLEAN, readers: Nat]]

-----------------------------------------------------------------------------
(* Locks                                                                   *)

\* x is an entry at pcs that holds a lock on slot s.
Holds(x, s, pcs) == x.pc \in pcs /\ SlotOf[x.key] = s
HeldBy(ent, s, pcs) == {e \in Entry : Holds(ent[e], s, pcs)}
Releases(l, s) == {i \in DOMAIN l : l[i] = s}
Rebuilds(rb, s) == rb.pc = "opened" /\ SlotOf[rb.found.key] = s

Writing(s) == Cardinality(HeldBy(entry, s, WriteLocked))
Reading(s) == Cardinality(HeldBy(entry, s, ReadLocked))
Late(s) == Cardinality(Releases(late, s))

\* Who holds the lock of slot s: entries, the rebuild job, late releases
\* and the dead.
Writers(s) == Writing(s) + (IF Rebuilds(rebuild, s) THEN 1 ELSE 0)
                + (IF leaked[s].writer THEN 1 ELSE 0)
Readers(s) == Reading(s) + leaked[s].readers + Late(s)

\* The lock of slot S, with nw writers and nr readers.
LockOK(S, nw, nr) ==
    /\ nw = IF S.writer THEN 1 ELSE 0
    /\ S.writer <=> S.state = "Writeable"
    /\ S.readers = nr
    /\ S.writer => nr = 0

Locks == \A s \in Slot : LockOK(slot[s], Writers(s), Readers(s))

-----------------------------------------------------------------------------
(* Contents                                                                *)

Sent(q) == UNION {{q[w][i] : i \in DOMAIN q[w]} : w \in Worker}

\* An entry's slot is about the entry, and can be read by its readers.
Owned ==
    \A e \in Entry :
        /\ entry[e].pc \in WriteLocked \cup ReadLocked
           => (slot[At(e)].key = entry[e].key /\ slot[At(e)].ver = entry[e].ver)
        /\ entry[e].pc \in ReadLocked => slot[At(e)].state = "Readable"

\* A slot that can be read is about what is in its cell.
CellsMatch ==
    \A s \in Slot : (slot[s].state = "Readable" /\ s \notin strayed \cup hollow)
                    => (cell[s].key = slot[s].key /\ cell[s].ver = slot[s].ver)

\* The cell being indexed does not change, nor what its slot says of it.
RebuildMatches ==
    /\ rebuild.pc \in {"open", "opened"} => rebuild.filen \in Slot /\ cell[rebuild.filen] = rebuild.found
    /\ (rebuild.pc = "opened" /\ SlotOf[rebuild.found.key] = rebuild.filen)
       => (slot[rebuild.filen].key = rebuild.found.key /\ slot[rebuild.filen].ver = rebuild.found.ver)

\* Versions tell entries, requests and responses apart.
VersionsMatch ==
    /\ \A e \in Entry : entry[e].pc \in WriteLocked => entry[e].ver <= lastVer
    /\ \A e, f \in Entry : (/\ entry[e].pc \in WriteLocked /\ entry[f].pc \in WriteLocked
                            /\ entry[e].ver = entry[f].ver) => e = f
    /\ \A m \in Sent(toDisk) : m.ver <= lastVer
    /\ \A m \in Sent(fromDisk) : m.ver <= lastVer
    /\ \A e \in Entry : entry[e].pc = "buffering"
                        => /\ \A m \in Sent(toDisk) : m.ver # entry[e].ver
                           /\ \A m \in Sent(fromDisk) : m.ver # entry[e].ver

\* What is under way for an entry that is being written.
WritesMatch ==
    \A e \in Entry : entry[e].pc = "writing" =>
        /\ \A m \in Sent(toDisk) : m.ver = entry[e].ver => m.key = entry[e].key
        /\ \A m \in Sent(fromDisk) : (m.ver = entry[e].ver /\ m.ok)
              => \/ At(e) \in strayed
                 \/ cell[At(e)].key = entry[e].key /\ cell[At(e)].ver = entry[e].ver

Inv == Types /\ Locks /\ Owned /\ CellsMatch /\ RebuildMatches /\ VersionsMatch /\ WritesMatch

-----------------------------------------------------------------------------
(* Slots                                                                   *)

LEMMA OpenForReadingFacts ==
    ASSUME NEW S \in SlotType
    PROVE  LET O == openForReading(S) IN
           /\ O \in SlotType /\ O.readers = S.readers + 1
           /\ O.writer = S.writer /\ O.state = S.state /\ O.key = S.key /\ O.ver = S.ver
  BY DEF openForReading, SlotType

LEMMA CloseForReadingFacts ==
    ASSUME NEW S \in SlotType, S.readers > 0
    PROVE  LET O == closeForReading(S) IN
           /\ O \in SlotType /\ O.readers = S.readers - 1
           /\ O.writer = S.writer /\ O.state = S.state /\ O.key = S.key /\ O.ver = S.ver
  BY DEF closeForReading, SlotType

LEMMA OpenForWritingFacts ==
    ASSUME NEW S \in SlotType
    PROVE  LET O == openForWriting(S) IN
           /\ O \in SlotType /\ O.writer = TRUE /\ O.state = "Writeable" /\ O.readers = S.readers
  BY DEF openForWriting, SlotType

LEMMA SetFacts ==
    ASSUME NEW S \in SlotType, NEW k \in Key, NEW v \in Nat
    PROVE  LET O == set(S, k, v) IN
           /\ O \in SlotType /\ O.writer = S.writer /\ O.state = S.state /\ O.readers = S.readers
           /\ O.key = k /\ O.ver = v
  BY DEF set, SlotType

LEMMA CloseForWritingFacts ==
    ASSUME NEW S \in SlotType, NEW b \in BOOLEAN
    PROVE  LET O == closeForWriting(S, b) IN
           /\ O \in SlotType /\ O.writer = FALSE /\ O.state = "Readable"
           /\ O.readers = S.readers + (IF b THEN 1 ELSE 0)
           /\ O.key = S.key /\ O.ver = S.ver
<1> DEFINE n == IF b THEN 1 ELSE 0
           k == S.readers + n
           A == [S EXCEPT !.state = "Readable", !.readers = k]
<1>1. n \in Nat /\ k \in Nat
  BY DEF SlotType
<1>2. closeForWriting(S, b) = [A EXCEPT !.writer = FALSE]
  BY DEF closeForWriting, SlotType
<1> HIDE DEF n, k
<1>3. A \in SlotType
  BY <1>1 DEF SlotType
<1>4. A.state = "Readable" /\ A.readers = k /\ A.key = S.key /\ A.ver = S.ver
  BY DEF SlotType
<1> HIDE DEF A
<1>5. [A EXCEPT !.writer = FALSE] \in SlotType /\ [A EXCEPT !.writer = FALSE].writer = FALSE
  BY <1>3 DEF SlotType
<1>6. \A O : O = [A EXCEPT !.writer = FALSE]
             => (O.state = A.state /\ O.readers = A.readers /\ O.key = A.key /\ O.ver = A.ver)
  BY <1>3 DEF SlotType
<1> QED
  BY <1>2, <1>4, <1>5, <1>6 DEF n, k

LEMMA FreeLockedFacts ==
    ASSUME NEW S \in SlotType
    PROVE  LET O == freeLocked(S) IN
           /\ O \in SlotType /\ O.writer = FALSE /\ O.state = "Empty" /\ O.readers = S.readers
  BY DEF freeLocked, SlotType

\* free() of a slot that somebody has locked only marks it.
LEMMA FreeFacts ==
    ASSUME NEW S \in SlotType, S.writer \/ S.readers > 0
    PROVE  LET O == free(S) IN
           /\ O \in SlotType /\ O.writer = S.writer /\ O.state = S.state /\ O.readers = S.readers
           /\ O.key = S.key /\ O.ver = S.ver
<1>1. ~Unlocked(S)
  BY DEF Unlocked, SlotType
<1> QED
  BY <1>1 DEF free, SlotType

\* A reader or a writer gives its lock up with abortIo() or unlink().
LEMMA ReaderLeaves ==
    ASSUME NEW S \in SlotType, S.readers > 0, S.state # "Writeable"
    PROVE  \A O \in {abortIo(S), unlink(S)} :
           /\ O \in SlotType /\ O.readers = S.readers - 1
           /\ O.writer = S.writer /\ O.state = S.state /\ O.key = S.key /\ O.ver = S.ver
<1>1. LET O == abortIo(S) IN
      /\ O \in SlotType /\ O.readers = S.readers - 1
      /\ O.writer = S.writer /\ O.state = S.state /\ O.key = S.key /\ O.ver = S.ver
  BY CloseForReadingFacts DEF abortIo
<1>2. LET O == unlink(S) IN
      /\ O \in SlotType /\ O.readers = S.readers - 1
      /\ O.writer = S.writer /\ O.state = S.state /\ O.key = S.key /\ O.ver = S.ver
  <2> DEFINE F == free(S)
  <2>1. /\ F \in SlotType /\ F.writer = S.writer /\ F.state = S.state /\ F.readers = S.readers
        /\ F.key = S.key /\ F.ver = S.ver
    BY FreeFacts
  <2>2. unlink(S) = abortIo(F)
    BY DEF unlink
  <2> HIDE DEF F
  <2> QED
    BY <2>1, <2>2, CloseForReadingFacts DEF abortIo
<1> QED
  BY <1>1, <1>2

LEMMA WriterLeaves ==
    ASSUME NEW S \in SlotType, S.writer, S.state = "Writeable"
    PROVE  LET O == unlink(S) IN
           /\ O \in SlotType /\ O.writer = FALSE /\ O.state = "Empty" /\ O.readers = S.readers
<1> DEFINE F == free(S)
<1>1. F \in SlotType /\ F.state = S.state /\ F.readers = S.readers
  BY FreeFacts
<1>2. unlink(S) = freeLocked(F)
  BY <1>1 DEF unlink, abortIo
<1> HIDE DEF F
<1> QED
  BY <1>1, <1>2, FreeLockedFacts

-----------------------------------------------------------------------------
(* Counting                                                                *)

LEMMA HeldFinite ==
    ASSUME NEW ent, NEW s, NEW pcs
    PROVE  IsFiniteSet(HeldBy(ent, s, pcs)) /\ Cardinality(HeldBy(ent, s, pcs)) \in Nat
<1>1. HeldBy(ent, s, pcs) \in SUBSET Entry
  BY DEF HeldBy
<1> QED
  BY <1>1, RockAssumption, FS_Subset, FS_CardinalityType

LEMMA HeldSome ==
    ASSUME NEW ent, NEW e \in Entry, NEW s, NEW pcs, Holds(ent[e], s, pcs)
    PROVE  Cardinality(HeldBy(ent, s, pcs)) > 0
<1>1. HeldBy(ent, s, pcs) # {}
  BY DEF HeldBy
<1> QED
  BY <1>1, HeldFinite, FS_EmptySet

\* An entry goes from y to x: n entries at pcs held slot s before, m after.
Counted(y, x, s, pcs, n, m) ==
    /\ n \in Nat /\ m \in Nat
    /\ Holds(y, s, pcs) => n > 0
    /\ (Holds(y, s, pcs) /\ Holds(x, s, pcs)) => m = n
    /\ (Holds(y, s, pcs) /\ ~Holds(x, s, pcs)) => m = n - 1
    /\ (~Holds(y, s, pcs) /\ Holds(x, s, pcs)) => m = n + 1
    /\ (~Holds(y, s, pcs) /\ ~Holds(x, s, pcs)) => m = n

LEMMA HeldChanges ==
    ASSUME NEW ent \in [Entry -> EntryType \cup {NoEntry}], NEW e \in Entry, NEW x,
           NEW fresh, fresh = [ent EXCEPT ![e] = x], NEW s, NEW pcs
    PROVE  Counted(ent[e], x, s, pcs, Cardinality(HeldBy(ent, s, pcs)), Cardinality(HeldBy(fresh, s, pcs)))
<1> DEFINE A == HeldBy(ent, s, pcs)
           B == HeldBy(fresh, s, pcs)
<1>1. IsFiniteSet(A) /\ Cardinality(A) \in Nat /\ IsFiniteSet(B) /\ Cardinality(B) \in Nat
  BY HeldFinite
<1>2. e \in A <=> Holds(ent[e], s, pcs)
  BY DEF HeldBy
<1>3. e \in B <=> Holds(x, s, pcs)
  BY DEF HeldBy
<1>4. A \ {e} = B \ {e}
  BY DEF HeldBy
<1> HIDE DEF A, B
<1>5. /\ Cardinality(A \ {e}) = IF e \in A THEN Cardinality(A) - 1 ELSE Cardinality(A)
      /\ Cardinality(B \ {e}) = IF e \in B THEN Cardinality(B) - 1 ELSE Cardinality(B)
  BY <1>1, FS_RemoveElement
<1>6. e \in A => Cardinality(A) > 0
  BY <1>2, HeldSome DEF A
<1>7. /\ Cardinality(A) \in Nat /\ Cardinality(B) \in Nat
      /\ Holds(ent[e], s, pcs) => Cardinality(A) > 0
      /\ (Holds(ent[e], s, pcs) /\ Holds(x, s, pcs)) => Cardinality(B) = Cardinality(A)
      /\ (Holds(ent[e], s, pcs) /\ ~Holds(x, s, pcs)) => Cardinality(B) = Cardinality(A) - 1
      /\ (~Holds(ent[e], s, pcs) /\ Holds(x, s, pcs)) => Cardinality(B) = Cardinality(A) + 1
      /\ (~Holds(ent[e], s, pcs) /\ ~Holds(x, s, pcs)) => Cardinality(B) = Cardinality(A)
  <2> DEFINE h == Holds(ent[e], s, pcs)
             k == Holds(x, s, pcs)
             a == Cardinality(A)
             b == Cardinality(B)
             r == Cardinality(A \ {e})
  <2>1. a \in Nat /\ b \in Nat /\ (h => a > 0)
    BY <1>1, <1>2, <1>6
  <2>2. (h => r = a - 1) /\ (~h => r = a)
    BY <1>2, <1>5
  <2>3. (k => r = b - 1) /\ (~k => r = b)
    BY <1>3, <1>4, <1>5
  <2> HIDE DEF h, k, a, b, r
  <2>4. /\ a \in Nat /\ b \in Nat /\ (h => a > 0)
        /\ (h /\ k) => b = a
        /\ (h /\ ~k) => b = a - 1
        /\ (~h /\ k) => b = a + 1
        /\ (~h /\ ~k) => b = a
    BY <2>1, <2>2, <2>3
  <2> QED
    BY <2>4 DEF h, k, a, b
<1> QED
  BY <1>7 DEF A, B, Counted

LEMMA LateFinite ==
    ASSUME NEW l \in Seq(Slot), NEW s
    PROVE  IsFiniteSet(Releases(l, s)) /\ Cardinality(Releases(l, s)) \in Nat
<1>1. Releases(l, s) \in SUBSET (1 .. Len(l)) /\ Len(l) \in Int
  BY DEF Releases
<1>2. IsFiniteSet(1 .. Len(l))
  BY <1>1, FS_Interval
<1> QED
  BY <1>1, <1>2, FS_Subset, FS_CardinalityType

LEMMA LateAppended ==
    ASSUME NEW l \in Seq(Slot), NEW t \in Slot, NEW s \in Slot
    PROVE  /\ Append(l, t) \in Seq(Slot)
           /\ s = t => Cardinality(Releases(Append(l, t), s)) = Cardinality(Releases(l, s)) + 1
           /\ s # t => Cardinality(Releases(Append(l, t), s)) = Cardinality(Releases(l, s))
<1>1. /\ Append(l, t) \in Seq(Slot) /\ Len(l) \in Nat /\ DOMAIN l = 1 .. Len(l)
      /\ DOMAIN Append(l, t) = 1 .. (Len(l) + 1) /\ Append(l, t)[Len(l) + 1] = t
      /\ \A i \in 1 .. Len(l) : Append(l, t)[i] = l[i]
  OBVIOUS
<1>2. CASE s = t
  <2>1. Releases(Append(l, t), s) = Releases(l, s) \cup {Len(l) + 1}
    BY <1>1, <1>2 DEF Releases
  <2>2. Len(l) + 1 \notin Releases(l, s)
    BY <1>1 DEF Releases
  <2> QED
    BY <1>1, <1>2, <2>1, <2>2, LateFinite, FS_AddElement
<1>3. CASE s # t
  <2>1. Releases(Append(l, t), s) = Releases(l, s)
    BY <1>1, <1>3 DEF Releases
  <2> QED
    BY <1>1, <1>3, <2>1
<1> QED
  BY <1>2, <1>3

LEMMA LateRemoved ==
    ASSUME NEW l \in Seq(Slot), l # <<>>, NEW s \in Slot
    PROVE  LET m == SubSeq(l, 1, Len(l) - 1) IN
           /\ m \in Seq(Slot) /\ l[Len(l)] \in Slot
           /\ s = l[Len(l)] => /\ Cardinality(Releases(l, s)) > 0
                               /\ Cardinality(Releases(m, s)) = Cardinality(Releases(l, s)) - 1
           /\ s # l[Len(l)] => Cardinality(Releases(m, s)) = Cardinality(Releases(l, s))
<1> DEFINE m == SubSeq(l, 1, Len(l) - 1)
<1>1. Len(l) \in Nat /\ Len(l) > 0 /\ DOMAIN l = 1 .. Len(l)
  OBVIOUS
<1>2. m \in Seq(Slot) /\ Len(m) = Len(l) - 1 /\ \A i \in 1 .. (Len(l) - 1) : m[i] = l[i]
  BY <1>1
<1>3. DOMAIN m = 1 .. (Len(l) - 1) /\ l[Len(l)] \in Slot
  BY <1>1, <1>2
<1> HIDE DEF m
<1>4. CASE s = l[Len(l)]
  <2>1. Releases(m, s) = Releases(l, s) \ {Len(l)} /\ Len(l) \in Releases(l, s)
    BY <1>1, <1>2, <1>3, <1>4 DEF Releases
  <2>2. Cardinality(Releases(l, s)) # 0 /\ Cardinality(Releases(l, s)) \in Nat
    BY <2>1, LateFinite, FS_EmptySet
  <2>3. Cardinality(Releases(m, s)) = Cardinality(Releases(l, s)) - 1
    BY <2>1, LateFinite, FS_RemoveElement
  <2> QED
    BY <1>2, <1>3, <1>4, <2>2, <2>3 DEF m
<1>5. CASE s # l[Len(l)]
  <2>1. Releases(m, s) = Releases(l, s)
    BY <1>1, <1>2, <1>3, <1>5 DEF Releases
  <2> QED
    BY <1>2, <1>3, <1>5, <2>1 DEF m
<1> QED
  BY <1>4, <1>5

-----------------------------------------------------------------------------
(* Messages                                                                *)

Queues(M) == [Worker -> Seq(M)]
Pushed(q, w, m) == [q EXCEPT ![w] = Append(@, m)]

LEMMA SentTypes ==
    ASSUME NEW M, NEW q \in Queues(M), NEW m \in Sent(q)
    PROVE  m \in M
<1>1. PICK w \in Worker : \E i \in DOMAIN q[w] : m = q[w][i]
  BY DEF Sent
<1>2. q[w] \in Seq(M)
  BY DEF Queues
<1> QED
  BY <1>1, <1>2

LEMMA SentAppended ==
    ASSUME NEW M, NEW q \in Queues(M), NEW w \in Worker, NEW m \in M
    PROVE  Pushed(q, w, m) \in Queues(M) /\ Sent(Pushed(q, w, m)) = Sent(q) \cup {m}
<1> DEFINE p == Pushed(q, w, m)
<1>1. q[w] \in Seq(M) /\ DOMAIN q = Worker /\ q \in [Worker -> Seq(M)]
  BY DEF Queues
<1>2. /\ Append(q[w], m) \in Seq(M) /\ Len(q[w]) \in Nat /\ DOMAIN q[w] = 1 .. Len(q[w])
      /\ DOMAIN Append(q[w], m) = 1 .. (Len(q[w]) + 1) /\ Append(q[w], m)[Len(q[w]) + 1] = m
      /\ \A i \in 1 .. Len(q[w]) : Append(q[w], m)[i] = q[w][i]
  BY <1>1
<1>3. p \in [Worker -> Seq(M)] /\ p[w] = Append(q[w], m) /\ \A v \in Worker : v # w => p[v] = q[v]
  BY <1>1, <1>2 DEF Pushed
<1> HIDE DEF p
<1>4. {p[w][i] : i \in DOMAIN p[w]} = {q[w][i] : i \in DOMAIN q[w]} \cup {m}
  <2> DEFINE a == Append(q[w], m)
             s == q[w]
             n == Len(q[w])
  <2>1. /\ n \in Nat /\ DOMAIN s = 1 .. n /\ DOMAIN a = 1 .. (n + 1) /\ a[n + 1] = m
        /\ \A i \in 1 .. n : a[i] = s[i]
    BY <1>1, <1>2
  <2> HIDE DEF a, s, n
  <2>2. {a[i] : i \in DOMAIN a} \subseteq {s[i] : i \in DOMAIN s} \cup {m}
    <3> SUFFICES ASSUME NEW i \in 1 .. (n + 1) PROVE a[i] \in {s[j] : j \in DOMAIN s} \cup {m}
      BY <2>1
    <3> QED
      BY <2>1
  <2>3. {s[i] : i \in DOMAIN s} \subseteq {a[i] : i \in DOMAIN a}
    <3> SUFFICES ASSUME NEW i \in 1 .. n PROVE s[i] \in {a[j] : j \in DOMAIN a}
      BY <2>1
    <3>1. i \in 1 .. (n + 1) /\ a[i] = s[i]
      BY <2>1
    <3> QED
      BY <2>1, <3>1
  <2>4. m \in {a[i] : i \in DOMAIN a}
    BY <2>1
  <2> QED
    BY <1>3, <2>2, <2>3, <2>4 DEF a, s
<1>5. Sent(p) = Sent(q) \cup {m}
  <2>1. \A x : x \in Sent(p) <=> \E v \in Worker : x \in {p[v][i] : i \in DOMAIN p[v]}
    BY DEF Sent
  <2>2. \A x : x \in Sent(q) <=> \E v \in Worker : x \in {q[v][i] : i \in DOMAIN q[v]}
    BY DEF Sent
  <2>3. \A v \in Worker : v # w => {p[v][i] : i \in DOMAIN p[v]} = {q[v][i] : i \in DOMAIN q[v]}
    BY <1>3
  <2> DEFINE P(v) == {p[v][i] : i \in DOMAIN p[v]}
             Q(v) == {q[v][i] : i \in DOMAIN q[v]}
  <2>4. /\ \A x : x \in Sent(p) <=> \E v \in Worker : x \in P(v)
        /\ \A x : x \in Sent(q) <=> \E v \in Worker : x \in Q(v)
        /\ \A v \in Worker : v # w => P(v) = Q(v)
        /\ P(w) = Q(w) \cup {m}
    BY <1>4, <2>1, <2>2, <2>3
  <2> HIDE DEF P, Q
  <2>5. \A x : x \in Sent(p) <=> (x \in Sent(q) \/ x = m)
    BY <2>4
  <2> QED
    BY <2>5
<1> QED
  BY <1>3, <1>5 DEF Queues, p

LEMMA SentTaken ==
    ASSUME NEW M, NEW q \in Queues(M), NEW w \in Worker, q[w] # <<>>
    PROVE  LET p == [q EXCEPT ![w] = Tail(@)] IN
           /\ p \in Queues(M) /\ Sent(p) \subseteq Sent(q)
           /\ Head(q[w]) \in Sent(q) /\ Head(q[w]) \in M
<1> DEFINE p == [q EXCEPT ![w] = Tail(@)]
<1>1. q[w] \in Seq(M) /\ DOMAIN q = Worker /\ q \in [Worker -> Seq(M)]
  BY DEF Queues
<1>2. /\ Tail(q[w]) \in Seq(M) /\ Head(q[w]) = q[w][1] /\ 1 \in DOMAIN q[w] /\ Head(q[w]) \in M
      /\ \A i \in DOMAIN Tail(q[w]) : i + 1 \in DOMAIN q[w] /\ Tail(q[w])[i] = q[w][i + 1]
  BY <1>1
<1>3. p \in [Worker -> Seq(M)] /\ p[w] = Tail(q[w]) /\ \A v \in Worker : v # w => p[v] = q[v]
  BY <1>1, <1>2
<1> HIDE DEF p
<1>4. ASSUME NEW v \in Worker, NEW i \in DOMAIN p[v]
      PROVE  \E u \in Worker : \E j \in DOMAIN q[u] : p[v][i] = q[u][j]
  <2>1. CASE v = w
    <3>1. i + 1 \in DOMAIN q[w] /\ p[v][i] = q[w][i + 1]
      BY <1>2, <1>3, <1>4, <2>1
    <3> QED
      BY <3>1
  <2>2. CASE v # w
    BY <1>3, <2>2
  <2> QED
    BY <2>1, <2>2
<1>5. Sent(p) \subseteq Sent(q)
  BY <1>4 DEF Sent
<1>6. Head(q[w]) \in Sent(q)
  BY <1>2 DEF Sent
<1> QED
  BY <1>2, <1>3, <1>5, <1>6 DEF p, Queues

-----------------------------------------------------------------------------
(* What the locks exclude                                                  *)

LEMMA CountTypes ==
    ASSUME Types, NEW s \in Slot
    PROVE  /\ Writing(s) \in Nat /\ Reading(s) \in Nat /\ Late(s) \in Nat
           /\ Writers(s) \in Nat /\ Readers(s) \in Nat
           /\ leaked[s].readers \in Nat
<1>1. Writing(s) \in Nat /\ Reading(s) \in Nat /\ Late(s) \in Nat
  BY HeldFinite, LateFinite DEF Types, Writing, Reading, Late
<1>2. leaked[s].readers \in Nat
  BY DEF Types
<1>3. (IF Rebuilds(rebuild, s) THEN 1 ELSE 0) \in Nat /\ (IF leaked[s].writer THEN 1 ELSE 0) \in Nat
  OBVIOUS
<1> QED
  BY <1>1, <1>2, <1>3 DEF Writers, Readers

\* An entry with a write lock has the slot for itself.
LEMMA WriterAlone ==
    ASSUME Types, Locks, NEW e \in Entry, entry[e].pc \in WriteLocked, NEW a, a = At(e)
    PROVE  /\ a \in Slot /\ slot[a] \in SlotType /\ entry[e] \in EntryType
           /\ slot[a].writer /\ slot[a].state = "Writeable" /\ slot[a].readers = 0
           /\ ~Rebuilds(rebuild, a)
           /\ \A f \in Entry : (entry[f].pc \in WriteLocked \cup ReadLocked /\ At(f) = a) => f = e
<1>1. entry[e] \in EntryType
  BY DEF Types, NoEntry, WriteLocked
<1>2. a \in Slot
  BY <1>1, RockAssumption DEF At, EntryType
<1>3. slot[a] \in SlotType /\ LockOK(slot[a], Writers(a), Readers(a))
  BY <1>2 DEF Types, Locks
<1>4. Writing(a) > 0
  BY HeldSome DEF Writing, Holds, At
<1>5. /\ Writing(a) \in Nat /\ Reading(a) \in Nat /\ Late(a) \in Nat
      /\ leaked[a].readers \in Nat
  BY <1>2, CountTypes
<1>6. slot[a].writer /\ Writing(a) = 1 /\ ~Rebuilds(rebuild, a)
  BY <1>3, <1>4, <1>5 DEF LockOK, Writers
<1>7. slot[a].state = "Writeable" /\ slot[a].readers = 0 /\ Readers(a) = 0
  BY <1>3, <1>6 DEF LockOK
<1>8. Reading(a) = 0
  BY <1>5, <1>7 DEF Readers
<1>9. ASSUME NEW f \in Entry, entry[f].pc \in WriteLocked \cup ReadLocked, At(f) = a
      PROVE  f = e
  <2>1. CASE entry[f].pc \in ReadLocked
    <3>1. Reading(a) > 0
      BY <1>9, <2>1, HeldSome DEF Reading, Holds, At
    <3> QED
      BY <1>8, <3>1
  <2>2. CASE entry[f].pc \in WriteLocked
    <3> DEFINE H == HeldBy(entry, a, WriteLocked)
    <3>1. e \in H /\ f \in H
      BY <1>9, <2>2 DEF HeldBy, Holds, At
    <3>2. IsFiniteSet(H) /\ Cardinality(H) = 1
      BY <1>6, HeldFinite DEF Writing
    <3> HIDE DEF H
    <3>3. Cardinality(H \ {e}) = 0 /\ IsFiniteSet(H \ {e})
      BY <3>1, <3>2, FS_RemoveElement
    <3>4. H \ {e} = {}
      BY <3>3, FS_EmptySet
    <3> QED
      BY <3>1, <3>4
  <2> QED
    BY <1>9, <2>1, <2>2
<1> QED
  BY <1>1, <1>2, <1>3, <1>6, <1>7, <1>9

\* The slot of an entry with a read lock is locked for reading.
LEMMA ReaderLocks ==
    ASSUME Types, Locks, NEW e \in Entry, entry[e].pc \in ReadLocked, NEW a, a = At(e)
    PROVE  /\ a \in Slot /\ slot[a] \in SlotType /\ entry[e] \in EntryType
           /\ slot[a].readers > 0 /\ ~slot[a].writer /\ slot[a].state # "Writeable"
<1>1. entry[e] \in EntryType
  BY DEF Types, NoEntry, ReadLocked
<1>2. a \in Slot
  BY <1>1, RockAssumption DEF At, EntryType
<1>3. slot[a] \in SlotType /\ LockOK(slot[a], Writers(a), Readers(a))
  BY <1>2 DEF Types, Locks
<1>4. Reading(a) > 0
  BY HeldSome DEF Reading, Holds, At
<1>5. Reading(a) \in Nat /\ Late(a) \in Nat /\ leaked[a].readers \in Nat
  BY <1>2, CountTypes
<1>6. Readers(a) > 0
  BY <1>4, <1>5 DEF Readers
<1>7. slot[a].readers > 0 /\ ~slot[a].writer
  BY <1>3, <1>6 DEF LockOK
<1>8. slot[a].state # "Writeable"
  BY <1>3, <1>7 DEF LockOK
<1> QED
  BY <1>1, <1>2, <1>3, <1>7, <1>8

\* Nobody holds an unlocked slot.
LEMMA NobodyHolds ==
    ASSUME Types, Locks, NEW a \in Slot, Unlocked(slot[a])
    PROVE  /\ \A f \in Entry : entry[f].pc \in WriteLocked \cup ReadLocked => At(f) # a
           /\ ~Rebuilds(rebuild, a)
<1>1. LockOK(slot[a], Writers(a), Readers(a)) /\ slot[a] \in SlotType
  BY DEF Locks, Types
<1>2. /\ Writing(a) \in Nat /\ Reading(a) \in Nat /\ Late(a) \in Nat
      /\ leaked[a].readers \in Nat
  BY CountTypes
<1>3. Writers(a) = 0 /\ Readers(a) = 0
  BY <1>1 DEF LockOK, Unlocked
<1>4. Writing(a) = 0 /\ Reading(a) = 0 /\ ~Rebuilds(rebuild, a)
  <2> DEFINE b == IF Rebuilds(rebuild, a) THEN 1 ELSE 0
             d == IF leaked[a].writer THEN 1 ELSE 0
  <2>1. Writing(a) + b + d = 0 /\ b \in Nat /\ d \in Nat
    BY <1>3 DEF Writers
  <2>2. (b = 0 => ~Rebuilds(rebuild, a))
    OBVIOUS
  <2> HIDE DEF b, d
  <2>3. Writing(a) = 0 /\ b = 0
    BY <1>2, <2>1
  <2>4. Reading(a) = 0
    BY <1>2, <1>3 DEF Readers
  <2> QED
    BY <2>2, <2>3, <2>4
<1>5. ASSUME NEW f \in Entry, entry[f].pc \in WriteLocked \cup ReadLocked, At(f) = a
      PROVE  FALSE
  <2>1. CASE entry[f].pc \in WriteLocked
    BY <1>4, <1>5, <2>1, HeldSome DEF Writing, Holds, At
  <2>2. CASE entry[f].pc \in ReadLocked
    BY <1>4, <1>5, <2>2, HeldSome DEF Reading, Holds, At
  <2> QED
    BY <1>5, <2>1, <2>2
<1> QED
  BY <1>4, <1>5

\* The rebuild job has the slot it fills for itself.
LEMMA RebuildAlone ==
    ASSUME Types, Locks, NEW a \in Slot, Rebuilds(rebuild, a)
    PROVE  /\ slot[a] \in SlotType /\ slot[a].writer /\ slot[a].readers = 0
           /\ slot[a].state = "Writeable"
           /\ \A f \in Entry : entry[f].pc \in WriteLocked \cup ReadLocked => At(f) # a
<1>1. LockOK(slot[a], Writers(a), Readers(a)) /\ slot[a] \in SlotType
  BY DEF Locks, Types
<1>2. /\ Writing(a) \in Nat /\ Reading(a) \in Nat /\ Late(a) \in Nat
      /\ leaked[a].readers \in Nat
  BY CountTypes
<1>3. Writers(a) = 1 /\ Writing(a) = 0 /\ slot[a].writer
  BY <1>1, <1>2 DEF LockOK, Writers
<1>4. Readers(a) = 0 /\ slot[a].readers = 0 /\ slot[a].state = "Writeable"
  BY <1>1, <1>3 DEF LockOK
<1>5. Reading(a) = 0
  BY <1>2, <1>4 DEF Readers
<1>6. ASSUME NEW f \in Entry, entry[f].pc \in WriteLocked \cup ReadLocked, At(f) = a
      PROVE  FALSE
  <2>1. CASE entry[f].pc \in WriteLocked
    BY <1>3, <1>6, <2>1, HeldSome DEF Writing, Holds, At
  <2>2. CASE entry[f].pc \in ReadLocked
    BY <1>5, <1>6, <2>2, HeldSome DEF Reading, Holds, At
  <2> QED
    BY <1>6, <2>1, <2>2
<1> QED
  BY <1>1, <1>3, <1>4, <1>6

-----------------------------------------------------------------------------
(* Steps of one entry and its slot                                         *)

W(y) == IF y.pc \in WriteLocked THEN 1 ELSE 0
R(y) == IF y.pc \in ReadLocked THEN 1 ELSE 0

\* The lock follows an entry from y to x as its slot goes from S to T.
Moves(S, y, T, x) ==
    \A nw, nr, mw, mr \in Nat :
        (LockOK(S, nw, nr) /\ mw + W(y) = nw + W(x) /\ mr + R(y) = nr + R(x)) => LockOK(T, mw, mr)

\* Entry e becomes x, and its slot a becomes S.
EntryStep(e, x, a, S) ==
    /\ entry' = [entry EXCEPT ![e] = x] /\ x \in EntryType \cup {NoEntry}
    /\ slot' = [slot EXCEPT ![a] = S] /\ S \in SlotType
    /\ UNCHANGED <<cell, toDisk, rebuild, late, leaked, strayed>>
    /\ lastId' = lastId \/ lastId' \in [Worker -> Nat]
    /\ fromDisk' \in [Worker -> Seq(Response)] /\ Sent(fromDisk') \subseteq Sent(fromDisk)
    /\ hollow' \ {a} = hollow \ {a}
    /\ entry[e].pc # "idle" => SlotOf[entry[e].key] = a
    /\ x.pc # "idle" => SlotOf[x.key] = a
    /\ Moves(slot[a], entry[e], S, x)
    /\ x.pc \in WriteLocked \cup ReadLocked => (S.key = x.key /\ S.ver = x.ver)
    /\ x.pc \in ReadLocked => S.state = "Readable"
    /\ \/ S.key = slot[a].key /\ S.ver = slot[a].ver /\ S.state = slot[a].state
       \/ entry[e].pc \in WriteLocked
       \/ Unlocked(slot[a])
    /\ (S.state = "Readable" /\ a \notin strayed \cup hollow')
       => (cell[a].key = S.key /\ cell[a].ver = S.ver)
    /\ x.pc # "writing"
    /\ \/ /\ x.pc \in WriteLocked
             => (entry[e].pc \in WriteLocked /\ x.ver = entry[e].ver /\ x.pc # "buffering")
          /\ lastVer' = lastVer
       \/ x.pc = "buffering" /\ x.ver = lastVer' /\ lastVer' = lastVer + 1

LEMMA EntryStepLocks ==
    ASSUME Inv, NEW e \in Entry, NEW x, NEW a \in Slot, NEW S, EntryStep(e, x, a, S)
    PROVE  Types' /\ Locks'
<1>1. entry \in [Entry -> EntryType \cup {NoEntry}] /\ slot \in [Slot -> SlotType] /\ lastVer \in Nat
  BY DEF Inv, Types
<1>2. Types'
  <2>1. entry' \in [Entry -> EntryType \cup {NoEntry}] /\ slot' \in [Slot -> SlotType]
    BY <1>1 DEF EntryStep
  <2>2. lastVer' \in Nat
    BY <1>1 DEF EntryStep
  <2> QED
    BY <2>1, <2>2 DEF Inv, Types, EntryStep
<1>3. ASSUME NEW s \in Slot, s # a
      PROVE  LockOK(slot'[s], Writers(s)', Readers(s)')
  <2>1. \A pcs \in {WriteLocked, ReadLocked} : ~Holds(entry[e], s, pcs) /\ ~Holds(x, s, pcs)
    BY <1>3 DEF EntryStep, Holds, WriteLocked, ReadLocked
  <2>2. entry' = [entry EXCEPT ![e] = x]
    BY DEF EntryStep
  <2>3. \A pcs \in {WriteLocked, ReadLocked} :
           Cardinality(HeldBy(entry', s, pcs)) = Cardinality(HeldBy(entry, s, pcs))
    <3>1. \A pcs : Counted(entry[e], x, s, pcs, Cardinality(HeldBy(entry, s, pcs)),
                                Cardinality(HeldBy(entry', s, pcs)))
      BY <1>1, <2>2, HeldChanges
    <3> QED
      BY <2>1, <3>1 DEF Counted
  <2>4. Writing(s)' = Writing(s) /\ Reading(s)' = Reading(s)
    BY <2>3 DEF Writing, Reading
  <2>5. Writers(s)' = Writers(s) /\ Readers(s)' = Readers(s)
    BY <2>4 DEF Writers, Readers, Late, EntryStep
  <2>6. slot'[s] = slot[s]
    BY <1>1, <1>3 DEF EntryStep
  <2>7. LockOK(slot[s], Writers(s), Readers(s))
    BY DEF Inv, Locks
  <2> QED
    BY <2>5, <2>6, <2>7
<1>4. LockOK(slot'[a], Writers(a)', Readers(a)')
  <2>1. \A pcs \in {WriteLocked, ReadLocked} :
           /\ Holds(entry[e], a, pcs) <=> entry[e].pc \in pcs
           /\ Holds(x, a, pcs) <=> x.pc \in pcs
    BY DEF EntryStep, Holds, WriteLocked, ReadLocked
  <2>2. entry' = [entry EXCEPT ![e] = x]
    BY DEF EntryStep
  <2>3. Writing(a)' = Cardinality(HeldBy(entry', a, WriteLocked))
        /\ Reading(a)' = Cardinality(HeldBy(entry', a, ReadLocked))
    BY DEF Writing, Reading
  <2>4. Writing(a)' \in Nat /\ Writing(a) \in Nat /\ Reading(a)' \in Nat /\ Reading(a) \in Nat
    BY <2>3, HeldFinite DEF Writing, Reading
  <2>5. Writing(a)' + W(entry[e]) = Writing(a) + W(x)
    <3> DEFINE h == Holds(entry[e], a, WriteLocked)
               k == Holds(x, a, WriteLocked)
               m == Cardinality(HeldBy(entry', a, WriteLocked))
               n == Cardinality(HeldBy(entry, a, WriteLocked))
    <3>0. Counted(entry[e], x, a, WriteLocked, n, m)
      BY <1>1, <2>2, HeldChanges
    <3>1. /\ m \in Nat /\ n \in Nat /\ (h /\ k => m = n) /\ (h /\ ~k => m = n - 1)
          /\ (~h /\ k => m = n + 1) /\ (~h /\ ~k => m = n)
      BY <3>0 DEF Counted
    <3>2. (h => W(entry[e]) = 1) /\ (~h => W(entry[e]) = 0) /\ (k => W(x) = 1) /\ (~k => W(x) = 0)
      BY <2>1 DEF W
    <3>3. Writing(a)' = m /\ Writing(a) = n
      BY <2>2, <2>3 DEF Writing
    <3> HIDE DEF h, k, m, n
    <3> QED
      BY <3>1, <3>2, <3>3
  <2>6. Reading(a)' + R(entry[e]) = Reading(a) + R(x)
    <3> DEFINE h == Holds(entry[e], a, ReadLocked)
               k == Holds(x, a, ReadLocked)
               m == Cardinality(HeldBy(entry', a, ReadLocked))
               n == Cardinality(HeldBy(entry, a, ReadLocked))
    <3>0. Counted(entry[e], x, a, ReadLocked, n, m)
      BY <1>1, <2>2, HeldChanges
    <3>1. /\ m \in Nat /\ n \in Nat /\ (h /\ k => m = n) /\ (h /\ ~k => m = n - 1)
          /\ (~h /\ k => m = n + 1) /\ (~h /\ ~k => m = n)
      BY <3>0 DEF Counted
    <3>2. (h => R(entry[e]) = 1) /\ (~h => R(entry[e]) = 0) /\ (k => R(x) = 1) /\ (~k => R(x) = 0)
      BY <2>1 DEF R
    <3>3. Reading(a)' = m /\ Reading(a) = n
      BY <2>2, <2>3 DEF Reading
    <3> HIDE DEF h, k, m, n
    <3> QED
      BY <3>1, <3>2, <3>3
  <2>7. W(entry[e]) \in Nat /\ W(x) \in Nat /\ R(entry[e]) \in Nat /\ R(x) \in Nat
    BY DEF W, R
  <2>8. /\ Writers(a) \in Nat /\ Readers(a) \in Nat /\ Writers(a)' \in Nat /\ Readers(a)' \in Nat
        /\ Writers(a)' + W(entry[e]) = Writers(a) + W(x)
        /\ Readers(a)' + R(entry[e]) = Readers(a) + R(x)
    <3> DEFINE p == IF Rebuilds(rebuild, a) THEN 1 ELSE 0
               q == IF leaked[a].writer THEN 1 ELSE 0
               u == leaked[a].readers
               v == Late(a)
    <3>1. p \in Nat /\ q \in Nat /\ u \in Nat /\ v \in Nat
      BY CountTypes DEF Inv
    <3>2. /\ Writers(a) = Writing(a) + p + q /\ Writers(a)' = Writing(a)' + p + q
          /\ Readers(a) = Reading(a) + u + v /\ Readers(a)' = Reading(a)' + u + v
      BY DEF Writers, Readers, Late, EntryStep
    <3> HIDE DEF p, q, u, v
    <3> QED
      BY <2>4, <2>5, <2>6, <2>7, <3>1, <3>2
  <2>9. LockOK(slot[a], Writers(a), Readers(a)) /\ Moves(slot[a], entry[e], S, x) /\ slot'[a] = S
    BY <1>1 DEF Inv, Locks, EntryStep
  <2>10. LockOK(S, Writers(a)', Readers(a)')
    BY <2>8, <2>9 DEF Moves
  <2> QED
    BY <2>9, <2>10
<1> QED
  BY <1>2, <1>3, <1>4 DEF Locks

LEMMA EntryStepInv ==
    ASSUME Inv, NEW e \in Entry, NEW x, NEW a \in Slot, NEW S, EntryStep(e, x, a, S)
    PROVE  Inv'
<1>1. entry \in [Entry -> EntryType \cup {NoEntry}] /\ slot \in [Slot -> SlotType] /\ lastVer \in Nat
  BY DEF Inv, Types
<1>2. Types' /\ Locks'
  BY EntryStepLocks
<1>3. /\ entry'[e] = x /\ \A f \in Entry : f # e => entry'[f] = entry[f]
      /\ slot'[a] = S /\ \A s \in Slot : s # a => slot'[s] = slot[s]
  BY <1>1 DEF EntryStep
<1>4. ASSUME NEW f \in Entry, f # e, entry[f].pc \in WriteLocked \cup ReadLocked
      PROVE  /\ At(f) \in Slot
             /\ slot'[At(f)].key = slot[At(f)].key /\ slot'[At(f)].ver = slot[At(f)].ver
             /\ slot'[At(f)].state = slot[At(f)].state
  <2>1. At(f) \in Slot
    BY <1>1, <1>4, RockAssumption DEF At, EntryType, NoEntry, WriteLocked, ReadLocked
  <2>2. CASE At(f) # a
    BY <1>3, <2>1, <2>2
  <2>3. CASE At(f) = a /\ entry[e].pc \in WriteLocked
    <3>1. At(e) = a
      BY <2>3 DEF EntryStep, At, WriteLocked
    <3> QED
      BY <1>4, <2>3, <3>1, WriterAlone DEF Inv
  <2>4. CASE At(f) = a /\ Unlocked(slot[a])
    BY <1>4, <2>4, NobodyHolds DEF Inv
  <2>5. CASE At(f) = a /\ S.key = slot[a].key /\ S.ver = slot[a].ver /\ S.state = slot[a].state
    BY <1>3, <2>1, <2>5
  <2> QED
    BY <2>2, <2>3, <2>4, <2>5 DEF EntryStep
<1>5. Owned'
  <2> SUFFICES ASSUME NEW f \in Entry
               PROVE  LET y == entry'[f]
                          T == slot'[SlotOf[y.key]] IN
                      /\ y.pc \in WriteLocked \cup ReadLocked => (T.key = y.key /\ T.ver = y.ver)
                      /\ y.pc \in ReadLocked => T.state = "Readable"
    BY DEF Owned, At
  <2>1. CASE f = e
    <3>1. x.pc \in WriteLocked \cup ReadLocked => SlotOf[x.key] = a
      BY DEF EntryStep, WriteLocked, ReadLocked
    <3> QED
      BY <1>3, <2>1, <3>1 DEF EntryStep
  <2>2. CASE f # e
    BY <1>3, <1>4, <2>2 DEF Inv, Owned, At
  <2> QED
    BY <2>1, <2>2
<1>6. CellsMatch'
  <2> SUFFICES ASSUME NEW s \in Slot, slot'[s].state = "Readable", s \notin strayed' \cup hollow'
               PROVE  cell'[s].key = slot'[s].key /\ cell'[s].ver = slot'[s].ver
    BY DEF CellsMatch
  <2>1. CASE s = a
    BY <1>3, <2>1 DEF EntryStep
  <2>2. CASE s # a
    <3>1. s \notin hollow /\ s \notin strayed /\ cell' = cell
      BY <2>2 DEF EntryStep
    <3> QED
      BY <1>3, <2>2, <3>1 DEF Inv, CellsMatch
  <2> QED
    BY <2>1, <2>2
<1>7. RebuildMatches'
  <2>1. rebuild' = rebuild /\ cell' = cell
    BY DEF EntryStep
  <2>2. ASSUME rebuild.pc = "opened", SlotOf[rebuild.found.key] = rebuild.filen
        PROVE  /\ slot'[rebuild.filen].key = rebuild.found.key
               /\ slot'[rebuild.filen].ver = rebuild.found.ver
    <3>1. /\ rebuild.filen \in Slot /\ slot[rebuild.filen].key = rebuild.found.key
          /\ slot[rebuild.filen].ver = rebuild.found.ver
      BY <2>2 DEF Inv, RebuildMatches
    <3>2. CASE rebuild.filen # a
      BY <1>3, <3>1, <3>2
    <3>3. CASE rebuild.filen = a
      <4>1. Rebuilds(rebuild, a)
        BY <2>2, <3>3 DEF Rebuilds
      <4>2. slot[a].writer /\ \A f \in Entry : entry[f].pc \in WriteLocked \cup ReadLocked => At(f) # a
        BY <4>1, RebuildAlone DEF Inv
      <4>3. entry[e].pc \notin WriteLocked
        BY <4>2 DEF EntryStep, At, WriteLocked
      <4>4. ~Unlocked(slot[a])
        BY <4>2 DEF Unlocked
      <4>5. S.key = slot[a].key /\ S.ver = slot[a].ver
        BY <4>3, <4>4 DEF EntryStep
      <4> QED
        BY <1>3, <3>1, <3>3, <4>5
    <3> QED
      BY <3>2, <3>3
  <2> QED
    BY <2>1, <2>2 DEF Inv, RebuildMatches
<1>8. VersionsMatch'
  <2>1. lastVer' \in Nat /\ lastVer <= lastVer'
    BY <1>1 DEF EntryStep
  <2>2. toDisk' = toDisk /\ Sent(fromDisk') \subseteq Sent(fromDisk)
    BY DEF EntryStep
  <2>3. \A m \in Sent(toDisk) : m.ver \in Nat /\ m.ver <= lastVer
    <3>1. toDisk \in Queues(Request)
      BY DEF Inv, Types, Queues
    <3>2. \A m \in Sent(toDisk) : m \in Request
      BY <3>1, SentTypes
    <3> QED
      BY <3>2 DEF Inv, VersionsMatch, Request
  <2>4. \A m \in Sent(fromDisk) : m.ver \in Nat /\ m.ver <= lastVer
    <3>1. fromDisk \in Queues(Response)
      BY DEF Inv, Types, Queues
    <3>2. \A m \in Sent(fromDisk) : m \in Response
      BY <3>1, SentTypes
    <3> QED
      BY <3>2 DEF Inv, VersionsMatch, Response
  <2>5. \A f \in Entry : entry[f].pc \in WriteLocked => (entry[f].ver \in Nat /\ entry[f].ver <= lastVer)
    BY <1>1 DEF Inv, VersionsMatch, EntryType, NoEntry, WriteLocked
  <2>6. CASE /\ x.pc \in WriteLocked
                => (entry[e].pc \in WriteLocked /\ x.ver = entry[e].ver /\ x.pc # "buffering")
             /\ lastVer' = lastVer
    <3>1. \A f \in Entry : entry'[f].pc \in WriteLocked
            => /\ entry[f].pc \in WriteLocked /\ entry'[f].ver = entry[f].ver
               /\ (entry'[f].pc = "buffering" => entry[f].pc = "buffering")
      BY <1>3, <2>6
    <3>2. "buffering" \in WriteLocked
      BY DEF WriteLocked
    <3> QED
      BY <2>2, <2>3, <2>4, <2>5, <2>6, <3>1, <3>2 DEF Inv, VersionsMatch
  <2>7. CASE x.pc = "buffering" /\ x.ver = lastVer' /\ lastVer' = lastVer + 1
    <3>1. \A f \in Entry : entry'[f].pc \in WriteLocked
            => \/ f = e /\ entry'[f].ver = lastVer + 1
               \/ f # e /\ entry'[f] = entry[f] /\ entry[f].ver \in Nat /\ entry[f].ver <= lastVer
      BY <1>3, <2>5, <2>7
    <3>2. \A m \in Sent(toDisk) \cup Sent(fromDisk) : m.ver # lastVer + 1 /\ m.ver <= lastVer + 1
      BY <1>1, <2>3, <2>4
    <3>3. lastVer' = lastVer + 1
      BY <2>7
    <3>4. \A f \in Entry : entry'[f].pc \in WriteLocked => entry'[f].ver <= lastVer'
      BY <1>1, <3>1, <3>3
    <3>5. \A f, g \in Entry : (/\ entry'[f].pc \in WriteLocked /\ entry'[g].pc \in WriteLocked
                               /\ entry'[f].ver = entry'[g].ver) => f = g
      <4> SUFFICES ASSUME NEW f \in Entry, NEW g \in Entry, entry'[f].pc \in WriteLocked,
                          entry'[g].pc \in WriteLocked, entry'[f].ver = entry'[g].ver
                   PROVE  f = g
        OBVIOUS
      <4>1. CASE f = e /\ g # e
        BY <1>1, <3>1, <4>1
      <4>2. CASE f # e /\ g = e
        BY <1>1, <3>1, <4>2
      <4>3. CASE f # e /\ g # e
        BY <3>1, <4>3 DEF Inv, VersionsMatch
      <4> QED
        BY <4>1, <4>2, <4>3
    <3>6. ASSUME NEW f \in Entry, entry'[f].pc = "buffering"
          PROVE  \A m \in Sent(toDisk) \cup Sent(fromDisk) : m.ver # entry'[f].ver
      <4>1. CASE f = e
        BY <1>3, <2>7, <3>2, <4>1
      <4>2. CASE f # e
        BY <1>3, <3>6, <4>2 DEF Inv, VersionsMatch
      <4> QED
        BY <4>1, <4>2
    <3> QED
      BY <2>2, <3>2, <3>3, <3>4, <3>5, <3>6 DEF VersionsMatch
  <2> QED
    BY <2>6, <2>7 DEF EntryStep
<1>9. WritesMatch'
  <2> SUFFICES ASSUME NEW f \in Entry, entry'[f].pc = "writing"
               PROVE  LET y == entry'[f]
                          s == SlotOf[y.key] IN
                      /\ \A m \in Sent(toDisk') : m.ver = y.ver => m.key = y.key
                      /\ \A m \in Sent(fromDisk') : (m.ver = y.ver /\ m.ok)
                            => \/ s \in strayed'
                               \/ cell'[s].key = y.key /\ cell'[s].ver = y.ver
    BY DEF WritesMatch, At
  <2>1. f # e /\ entry'[f] = entry[f]
    BY <1>3 DEF EntryStep
  <2>2. UNCHANGED <<toDisk, strayed, cell>> /\ Sent(fromDisk') \subseteq Sent(fromDisk)
    BY DEF EntryStep
  <2> QED
    BY <2>1, <2>2 DEF Inv, WritesMatch, At
<1> QED
  BY <1>2, <1>5, <1>6, <1>7, <1>8, <1>9 DEF Inv

\* How locks move: somebody enters or leaves, or a writer becomes a reader.
LEMMA MovesStay ==
    ASSUME NEW S \in SlotType, NEW T \in SlotType, NEW y, NEW x,
           T.writer = S.writer, T.state = S.state, T.readers = S.readers,
           W(y) = W(x), R(y) = R(x)
    PROVE  Moves(S, y, T, x)
<1>1. W(x) \in Nat /\ R(x) \in Nat
  BY DEF W, R
<1> SUFFICES ASSUME NEW nw \in Nat, NEW nr \in Nat, NEW mw \in Nat, NEW mr \in Nat, LockOK(S, nw, nr),
                    mw + W(y) = nw + W(x), mr + R(y) = nr + R(x)
             PROVE  LockOK(T, mw, mr)
  BY DEF Moves
<1>2. mw = nw /\ mr = nr
  BY <1>1
<1> QED
  BY <1>2 DEF LockOK

LEMMA MovesReaderEnters ==
    ASSUME NEW S \in SlotType, NEW T \in SlotType, NEW y, NEW x, ~S.writer,
           T.writer = S.writer, T.state = S.state, T.readers = S.readers + 1,
           W(y) = 0, W(x) = 0, R(y) = 0, R(x) = 1
    PROVE  Moves(S, y, T, x)
<1> SUFFICES ASSUME NEW nw \in Nat, NEW nr \in Nat, NEW mw \in Nat, NEW mr \in Nat, LockOK(S, nw, nr),
                    mw + W(y) = nw + W(x), mr + R(y) = nr + R(x)
             PROVE  LockOK(T, mw, mr)
  BY DEF Moves
<1>1. mw = nw /\ mr = nr + 1
  OBVIOUS
<1> QED
  BY <1>1 DEF LockOK

LEMMA MovesReaderLeaves ==
    ASSUME NEW S \in SlotType, NEW T \in SlotType, NEW y, NEW x, ~S.writer,
           T.writer = S.writer, T.state = S.state, T.readers = S.readers - 1,
           W(y) = 0, W(x) = 0, R(y) = 1, R(x) = 0
    PROVE  Moves(S, y, T, x)
<1> SUFFICES ASSUME NEW nw \in Nat, NEW nr \in Nat, NEW mw \in Nat, NEW mr \in Nat, LockOK(S, nw, nr),
                    mw + W(y) = nw + W(x), mr + R(y) = nr + R(x)
             PROVE  LockOK(T, mw, mr)
  BY DEF Moves
<1>1. mw = nw /\ mr = nr - 1
  OBVIOUS
<1> QED
  BY <1>1 DEF LockOK

LEMMA MovesWriterEnters ==
    ASSUME NEW S \in SlotType, NEW T \in SlotType, NEW y, NEW x, Unlocked(S),
           T.writer = TRUE, T.state = "Writeable", T.readers = S.readers,
           W(y) = 0, W(x) = 1, R(y) = 0, R(x) = 0
    PROVE  Moves(S, y, T, x)
<1> SUFFICES ASSUME NEW nw \in Nat, NEW nr \in Nat, NEW mw \in Nat, NEW mr \in Nat, LockOK(S, nw, nr),
                    mw + W(y) = nw + W(x), mr + R(y) = nr + R(x)
             PROVE  LockOK(T, mw, mr)
  BY DEF Moves
<1>1. mw = nw + 1 /\ mr = nr
  OBVIOUS
<1>2. nw = 0 /\ nr = 0
  BY DEF LockOK, Unlocked
<1> QED
  BY <1>1, <1>2 DEF LockOK, Unlocked

\* The writer leaves, as a reader if b.
LEMMA MovesWriterLeaves ==
    ASSUME NEW S \in SlotType, NEW T \in SlotType, NEW y, NEW x, S.writer,
           T.writer = FALSE, T.state # "Writeable", T.readers = S.readers + R(x),
           W(y) = 1, W(x) = 0, R(y) = 0
    PROVE  Moves(S, y, T, x)
<1>1. R(x) \in Nat
  BY DEF R
<1> SUFFICES ASSUME NEW nw \in Nat, NEW nr \in Nat, NEW mw \in Nat, NEW mr \in Nat, LockOK(S, nw, nr),
                    mw + W(y) = nw + W(x), mr + R(y) = nr + R(x)
             PROVE  LockOK(T, mw, mr)
  BY DEF Moves
<1>2. mw = nw - 1 /\ mr = nr + R(x)
  BY <1>1
<1>3. nw = 1 /\ S.readers = nr
  BY DEF LockOK
<1> QED
  BY <1>2, <1>3 DEF LockOK

-----------------------------------------------------------------------------
(* Workers                                                                 *)

LEMMA GetInv ==
    ASSUME Inv, NEW e \in Entry, NEW w \in Worker, NEW k \in Key, get(e, w, k)
    PROVE  Inv'
<1> DEFINE a == SlotOf[k]
           S == openForReading(slot[a])
           x == [pc |-> "reading", w |-> w, key |-> k, ver |-> slot[a].ver, id |-> 0]
<1>1. a \in Slot /\ slot[a] \in SlotType
  BY RockAssumption DEF Inv, Types
<1>2. entry[e].pc = "idle" /\ ~slot[a].writer /\ slot[a].state = "Readable" /\ slot[a].key = k
  BY DEF get, Has, Opens
<1>3. /\ S \in SlotType /\ S.readers = slot[a].readers + 1
      /\ S.writer = slot[a].writer /\ S.state = slot[a].state /\ S.key = slot[a].key /\ S.ver = slot[a].ver
  BY <1>1, OpenForReadingFacts
<1>4. x \in EntryType /\ x.pc = "reading" /\ x.key = k /\ x.ver = slot[a].ver
  BY <1>1 DEF EntryType, SlotType, ReadLocked
<1>5. /\ entry' = [entry EXCEPT ![e] = x] /\ slot' = [slot EXCEPT ![a] = S]
      /\ UNCHANGED <<ioVars, diskerVars, lastVer, faults, histVars>>
  BY DEF get
<1>6. a \notin strayed \cup hollow => (cell[a].key = slot[a].key /\ cell[a].ver = slot[a].ver)
  BY <1>1, <1>2 DEF Inv, CellsMatch
<1>7. fromDisk \in [Worker -> Seq(Response)]
  BY DEF Inv, Types
<1> HIDE DEF a, S, x
<1>8. W(entry[e]) = 0 /\ R(entry[e]) = 0 /\ W(x) = 0 /\ R(x) = 1
  BY <1>2, <1>4 DEF W, R, WriteLocked, ReadLocked
<1>9. Moves(slot[a], entry[e], S, x)
  BY <1>1, <1>2, <1>3, <1>8, MovesReaderEnters
<1>10. SlotOf[x.key] = a
  BY <1>4 DEF a
<1>11. EntryStep(e, x, a, S)
  BY <1>2, <1>3, <1>4, <1>5, <1>6, <1>7, <1>9, <1>10
     DEF EntryStep, ioVars, diskerVars, histVars, WriteLocked, ReadLocked
<1> QED
  BY <1>1, <1>11, EntryStepInv

LEMMA CreateInv ==
    ASSUME Inv, NEW e \in Entry, NEW w \in Worker, NEW k \in Key, createStoreIO(e, w, k)
    PROVE  Inv'
<1> DEFINE a == SlotOf[k]
           v == lastVer + 1
           S == set(openForWriting(slot[a]), k, v)
           x == [pc |-> "buffering", w |-> w, key |-> k, ver |-> v, id |-> 0]
<1>1. a \in Slot /\ slot[a] \in SlotType /\ v \in Nat
  BY RockAssumption DEF Inv, Types
<1>2. entry[e].pc = "idle" /\ Unlocked(slot[a]) /\ lastVer' = v
  BY DEF createStoreIO, Has
<1>3. /\ S \in SlotType /\ S.readers = slot[a].readers
      /\ S.writer = TRUE /\ S.state = "Writeable" /\ S.key = k /\ S.ver = v
  <2>1. /\ openForWriting(slot[a]) \in SlotType /\ openForWriting(slot[a]).writer = TRUE
        /\ openForWriting(slot[a]).state = "Writeable"
        /\ openForWriting(slot[a]).readers = slot[a].readers
    BY <1>1, OpenForWritingFacts
  <2> QED
    BY <1>1, <2>1, SetFacts
<1>4. x \in EntryType /\ x.pc = "buffering" /\ x.key = k /\ x.ver = v
  BY <1>1 DEF EntryType, WriteLocked
<1>5. /\ entry' = [entry EXCEPT ![e] = x] /\ slot' = [slot EXCEPT ![a] = S]
      /\ UNCHANGED <<ioVars, diskerVars, faults, histVars>>
  BY <1>2 DEF createStoreIO
<1>6. fromDisk \in [Worker -> Seq(Response)]
  BY DEF Inv, Types
<1>7. lastVer' = lastVer + 1
  BY DEF createStoreIO
<1> HIDE DEF a, v, S, x
<1>8. W(entry[e]) = 0 /\ R(entry[e]) = 0 /\ W(x) = 1 /\ R(x) = 0
  BY <1>2, <1>4 DEF W, R, WriteLocked, ReadLocked
<1>9. Moves(slot[a], entry[e], S, x)
  BY <1>1, <1>2, <1>3, <1>8, MovesWriterEnters
<1>10. SlotOf[x.key] = a
  BY <1>4 DEF a
<1>11. EntryStep(e, x, a, S)
  BY <1>2, <1>3, <1>4, <1>5, <1>6, <1>7, <1>9, <1>10
     DEF EntryStep, ioVars, diskerVars, histVars, WriteLocked, ReadLocked
<1> QED
  BY <1>1, <1>11, EntryStepInv

\* An entry that holds a read lock gives it up.
LEMMA ReaderLeavesInv ==
    ASSUME Inv, NEW e \in Entry, entry[e].pc \in ReadLocked,
           entry' = [entry EXCEPT ![e] = NoEntry],
           \/ slot' = [slot EXCEPT ![At(e)] = abortIo(@)]
           \/ slot' = [slot EXCEPT ![At(e)] = unlink(@)],
           UNCHANGED <<ioVars, diskerVars, lastVer, faults, histVars>>
    PROVE  Inv'
<1> DEFINE a == At(e)
<1>1. /\ a \in Slot /\ slot[a] \in SlotType /\ entry[e] \in EntryType
      /\ slot[a].readers > 0 /\ ~slot[a].writer /\ slot[a].state # "Writeable"
  BY ReaderLocks DEF Inv
<1>2. PICK S \in {abortIo(slot[a]), unlink(slot[a])} : slot' = [slot EXCEPT ![a] = S]
  OBVIOUS
<1>3. /\ S \in SlotType /\ S.readers = slot[a].readers - 1
      /\ S.writer = slot[a].writer /\ S.state = slot[a].state /\ S.key = slot[a].key /\ S.ver = slot[a].ver
  BY <1>1, ReaderLeaves
<1>4. SlotOf[entry[e].key] = a
  BY DEF At
<1> HIDE DEF a
<1>5. fromDisk \in [Worker -> Seq(Response)]
  BY DEF Inv, Types
<1>6. NoEntry.pc = "idle"
  BY DEF NoEntry
<1>7. W(entry[e]) = 0 /\ R(entry[e]) = 1 /\ W(NoEntry) = 0 /\ R(NoEntry) = 0
  BY <1>6 DEF W, R, WriteLocked, ReadLocked
<1>8. Moves(slot[a], entry[e], S, NoEntry)
  BY <1>1, <1>3, <1>7, MovesReaderLeaves
<1>9. (slot[a].state = "Readable" /\ a \notin strayed \cup hollow)
      => (cell[a].key = slot[a].key /\ cell[a].ver = slot[a].ver)
  BY <1>1 DEF Inv, CellsMatch
<1>10. EntryStep(e, NoEntry, a, S)
  BY <1>2, <1>3, <1>4, <1>5, <1>6, <1>8, <1>9
     DEF EntryStep, ioVars, diskerVars, histVars, WriteLocked, ReadLocked
<1> QED
  BY <1>1, <1>10, EntryStepInv

LEMMA DisconnectInv ==
    ASSUME Inv, NEW e \in Entry, disconnect(e) \/ release(e)
    PROVE  Inv'
<1>1. entry[e].pc \in ReadLocked
  BY DEF disconnect, release, Has, ReadLocked
<1> QED
  BY <1>1, ReaderLeavesInv DEF disconnect, release

\* An entry keeps its slot and its lock, and what the slot says.
LEMMA EntryStaysInv ==
    ASSUME Inv, NEW e \in Entry, entry[e].pc \in WriteLocked \cup ReadLocked, NEW pc, NEW id \in Nat,
           \/ entry[e].pc \in WriteLocked /\ pc \in {"failed", "stuck"}
           \/ entry[e].pc \in ReadLocked /\ pc = "reading",
           entry' = [entry EXCEPT ![e] = [@ EXCEPT !.pc = pc, !.id = id]],
           NEW S, S \in SlotType, slot' = [slot EXCEPT ![At(e)] = S],
           S.writer = slot[At(e)].writer, S.state = slot[At(e)].state, S.readers = slot[At(e)].readers,
           S.key = slot[At(e)].key, S.ver = slot[At(e)].ver,
           fromDisk' \in [Worker -> Seq(Response)], Sent(fromDisk') \subseteq Sent(fromDisk),
           lastId' = lastId \/ lastId' \in [Worker -> Nat],
           UNCHANGED <<cell, toDisk, diskerVars, lastVer, faults, histVars>>
    PROVE  Inv'
<1> DEFINE a == At(e)
           x == [entry[e] EXCEPT !.pc = pc, !.id = id]
<1>1. entry[e] \in EntryType /\ entry \in [Entry -> EntryType \cup {NoEntry}]
  BY DEF Inv, Types, NoEntry, WriteLocked, ReadLocked
<1>2. x \in EntryType /\ x.pc = pc /\ x.key = entry[e].key /\ x.ver = entry[e].ver
  BY <1>1 DEF EntryType, WriteLocked, ReadLocked
<1>3. entry' = [entry EXCEPT ![e] = x]
  BY <1>1
<1>4. a \in Slot /\ slot[a] \in SlotType /\ a = SlotOf[entry[e].key]
  BY <1>1, RockAssumption DEF Inv, Types, EntryType, At
<1> HIDE DEF a, x
<1>5. W(entry[e]) = W(x) /\ R(entry[e]) = R(x)
  BY <1>2 DEF W, R, WriteLocked, ReadLocked
<1>6. Moves(slot[a], entry[e], S, x)
  BY <1>4, <1>5, MovesStay DEF a
<1>7. (slot[a].state = "Readable" /\ a \notin strayed \cup hollow)
      => (cell[a].key = slot[a].key /\ cell[a].ver = slot[a].ver)
  BY <1>4 DEF Inv, CellsMatch
<1>8. slot[a].key = entry[e].key /\ slot[a].ver = entry[e].ver
      /\ (entry[e].pc \in ReadLocked => slot[a].state = "Readable")
  BY DEF Inv, Owned, a
<1>9. EntryStep(e, x, a, S)
  BY <1>2, <1>3, <1>4, <1>6, <1>7, <1>8 DEF EntryStep, diskerVars, histVars, WriteLocked, ReadLocked, a
<1> QED
  BY <1>4, <1>9, EntryStepInv

LEMMA CloseWriterGoneInv ==
    ASSUME Inv, NEW e \in Entry, closeWriterGone(e)
    PROVE  Inv'
<1>1. entry[e].pc \in WriteLocked
  BY DEF closeWriterGone, Has, WriteLocked
<1>2. entry[e] \in EntryType /\ entry \in [Entry -> EntryType \cup {NoEntry}]
      /\ slot \in [Slot -> SlotType] /\ fromDisk \in [Worker -> Seq(Response)]
  BY <1>1 DEF Inv, Types, NoEntry, WriteLocked
<1>3. At(e) \in Slot /\ slot[At(e)] \in SlotType
  BY <1>2, RockAssumption DEF EntryType, At
<1>4. entry' = [entry EXCEPT ![e] = [@ EXCEPT !.pc = "failed", !.id = entry[e].id]]
  <2>1. [entry[e] EXCEPT !.pc = "failed", !.id = entry[e].id] = [entry[e] EXCEPT !.pc = "failed"]
    BY <1>2 DEF EntryType
  <2> QED
    BY <2>1 DEF closeWriterGone
<1>5. slot' = [slot EXCEPT ![At(e)] = slot[At(e)]]
  BY <1>2 DEF closeWriterGone
<1>6. entry[e].id \in Nat
  BY <1>2 DEF EntryType
<1>7. /\ UNCHANGED <<cell, toDisk, lastId, diskerVars, lastVer, faults, histVars>>
      /\ fromDisk' = fromDisk
  BY DEF closeWriterGone, ioVars
<1> QED
  BY <1>1, <1>2, <1>3, <1>4, <1>5, <1>6, <1>7, EntryStaysInv

\* A failed write leaves its entry the lock.
LEMMA WriteFailedInv ==
    ASSUME Inv, NEW e \in Entry, entry[e].pc \in {"buffering", "writing"}, writeCompleted(e, FALSE),
           fromDisk' \in [Worker -> Seq(Response)], Sent(fromDisk') \subseteq Sent(fromDisk),
           lastId' = lastId \/ lastId' \in [Worker -> Nat],
           UNCHANGED <<cell, toDisk, diskerVars, lastVer, faults, histVars>>
    PROVE  Inv'
<1>1. entry[e].pc \in WriteLocked
  BY DEF WriteLocked
<1>2. /\ At(e) \in Slot /\ slot[At(e)] \in SlotType /\ entry[e] \in EntryType
      /\ slot[At(e)].writer /\ slot[At(e)].state = "Writeable" /\ slot[At(e)].readers = 0
  BY <1>1, WriterAlone DEF Inv
<1> DEFINE S == free(slot[At(e)])
<1>3. /\ S \in SlotType /\ S.writer = slot[At(e)].writer /\ S.state = slot[At(e)].state
      /\ S.readers = slot[At(e)].readers /\ S.key = slot[At(e)].key /\ S.ver = slot[At(e)].ver
  BY <1>2, FreeFacts
<1>4. slot' = [slot EXCEPT ![At(e)] = S]
  BY DEF writeCompleted
<1>5. entry' = [entry EXCEPT ![e] = [@ EXCEPT !.pc = "failed", !.id = 0]]
  BY DEF writeCompleted
<1> HIDE DEF S
<1> QED
  BY <1>1, <1>3, <1>4, <1>5, EntryStaysInv

LEMMA WriteTimeoutInv ==
    ASSUME Inv, NEW e \in Entry, WriteTimeout(e)
    PROVE  Inv'
<1>1. entry[e].pc = "writing" /\ writeCompleted(e, FALSE)
  BY DEF WriteTimeout, Has
<1>2. /\ UNCHANGED <<cell, toDisk, lastId, diskerVars, lastVer, faults, histVars>>
      /\ fromDisk' = fromDisk
  BY DEF WriteTimeout, ioVars
<1>3. fromDisk \in [Worker -> Seq(Response)]
  BY DEF Inv, Types
<1> QED
  BY <1>1, <1>2, <1>3, WriteFailedInv

\* A response is taken for the one the entry waits for.
LEMMA WriteDoneInv ==
    ASSUME Inv, NEW e \in Entry, entry[e].pc = "writing", writeCompleted(e, TRUE),
           NEW r \in Sent(fromDisk), r.ok,
           r.ver = entry[e].ver => hollow' = hollow \ {At(e)},
           r.ver # entry[e].ver => hollow' = hollow \cup {At(e)},
           fromDisk' \in [Worker -> Seq(Response)], Sent(fromDisk') \subseteq Sent(fromDisk),
           UNCHANGED <<cell, toDisk, lastId, diskerVars, lastVer, faults, leaked, strayed>>
    PROVE  Inv'
<1>1. entry[e].pc \in WriteLocked
  BY DEF WriteLocked
<1> DEFINE a == At(e)
           S == closeForWriting(slot[a], TRUE)
           x == [entry[e] EXCEPT !.pc = "closing", !.id = 0]
<1>2. /\ a \in Slot /\ slot[a] \in SlotType /\ entry[e] \in EntryType
      /\ slot[a].writer /\ slot[a].state = "Writeable" /\ slot[a].readers = 0
  BY <1>1, WriterAlone DEF Inv
<1>3. /\ S \in SlotType /\ S.writer = FALSE /\ S.state = "Readable"
      /\ S.readers = slot[a].readers + 1 /\ S.key = slot[a].key /\ S.ver = slot[a].ver
  BY <1>2, CloseForWritingFacts
<1>4. x \in EntryType /\ x.pc = "closing" /\ x.key = entry[e].key /\ x.ver = entry[e].ver
  BY <1>2 DEF EntryType, ReadLocked
<1>5. slot' = [slot EXCEPT ![a] = S] /\ entry' = [entry EXCEPT ![e] = x]
  BY DEF writeCompleted
<1>6. slot[a].key = entry[e].key /\ slot[a].ver = entry[e].ver /\ SlotOf[entry[e].key] = a
  BY <1>1 DEF Inv, Owned, At
<1>7. a \notin strayed \cup hollow' => (cell[a].key = S.key /\ cell[a].ver = S.ver)
  <2> SUFFICES ASSUME a \notin strayed, a \notin hollow'
               PROVE  cell[a].key = S.key /\ cell[a].ver = S.ver
    OBVIOUS
  <2>1. r.ver = entry[e].ver
    OBVIOUS
  <2> QED
    BY <1>3, <1>6, <2>1 DEF Inv, WritesMatch
<1>8. hollow' \ {a} = hollow \ {a}
  OBVIOUS
<1> HIDE DEF a, S, x
<1>9. W(entry[e]) = 1 /\ R(entry[e]) = 0 /\ W(x) = 0 /\ R(x) = 1
  BY <1>4 DEF W, R, WriteLocked, ReadLocked
<1>10. Moves(slot[a], entry[e], S, x)
  BY <1>2, <1>3, <1>9, MovesWriterLeaves
<1>11. EntryStep(e, x, a, S)
  BY <1>1, <1>3, <1>4, <1>5, <1>6, <1>7, <1>8, <1>10
     DEF EntryStep, diskerVars, WriteLocked, ReadLocked
<1> QED
  BY <1>2, <1>11, EntryStepInv

\* Steps that leave the slots, the cells and the entries alone.
LEMMA QuietInv ==
    ASSUME Inv, fromDisk' \in [Worker -> Seq(Response)], Sent(fromDisk') \subseteq Sent(fromDisk),
           UNCHANGED <<slot, entry, cell, toDisk, lastId, late, lastVer, leaked, strayed, hollow>>,
           rebuild' \in [pc: {"scan", "open", "opened", "off"}, filen: Nat \ {0}, found: Cell],
           rebuild' = rebuild \/ (rebuild.pc # "opened" /\ rebuild'.pc \notin {"open", "opened"})
    PROVE  Inv'
<1>1. Types'
  BY DEF Inv, Types
<1>2. \A s \in Slot : Rebuilds(rebuild, s)' <=> Rebuilds(rebuild, s)
  BY DEF Rebuilds
<1>3. Locks'
  <2>1. \A s \in Slot : Writers(s)' = Writers(s) /\ Readers(s)' = Readers(s)
    BY <1>2 DEF Writers, Readers, Writing, Reading, Late
  <2> QED
    BY <2>1 DEF Inv, Locks
<1>4. Owned' /\ CellsMatch' /\ RebuildMatches'
  BY DEF Inv, Owned, CellsMatch, RebuildMatches, At
<1>5. VersionsMatch'
  BY DEF Inv, VersionsMatch
<1>6. WritesMatch'
  BY DEF Inv, WritesMatch, At
<1> QED
  BY <1>1, <1>3, <1>4, <1>5, <1>6 DEF Inv

LEMMA HandleResponseInv ==
    ASSUME Inv, NEW w \in Worker, HandleResponse(w)
    PROVE  Inv'
<1> DEFINE r == Head(fromDisk[w])
           match == {e \in Entry : Has(e, {"writing"}) /\ entry[e].w = w /\ entry[e].id = r.id}
<1>1. fromDisk \in Queues(Response) /\ fromDisk[w] # <<>>
      /\ fromDisk' = [fromDisk EXCEPT ![w] = Tail(@)]
  BY DEF Inv, Types, Queues, HandleResponse
<1>2. /\ fromDisk' \in [Worker -> Seq(Response)] /\ Sent(fromDisk') \subseteq Sent(fromDisk)
      /\ r \in Sent(fromDisk) /\ r \in Response
  BY <1>1, SentTaken DEF Queues
<1>3. UNCHANGED <<cell, toDisk, lastId, diskerVars, lastVer, faults, leaked, strayed>>
  BY DEF HandleResponse
<1>4. CASE match = {}
  <2>1. UNCHANGED <<slot, entry, hollow>>
    BY <1>4 DEF HandleResponse
  <2>2. rebuild \in [pc: {"scan", "open", "opened", "off"}, filen: Nat \ {0}, found: Cell]
    BY DEF Inv, Types
  <2> QED
    BY <1>2, <1>3, <2>1, <2>2, QuietInv DEF diskerVars
<1>5. CASE match # {}
  <2>1. PICK e \in match : /\ writeCompleted(e, r.ok)
                           /\ ~r.ok => hollow' = hollow
                           /\ (r.ok /\ r.ver = entry[e].ver) => hollow' = hollow \ {At(e)}
                           /\ (r.ok /\ r.ver # entry[e].ver) => hollow' = hollow \cup {At(e)}
    BY <1>5 DEF HandleResponse
  <2>2. e \in Entry /\ entry[e].pc = "writing"
    BY DEF Has
  <2>3. r.ok = TRUE \/ r.ok = FALSE
    BY <1>2 DEF Response
  <2> HIDE DEF r, match
  <2>4. CASE r.ok = TRUE
    BY <1>2, <1>3, <2>1, <2>2, <2>4, WriteDoneInv
  <2>5. CASE r.ok = FALSE
    <3>1. hollow' = hollow
      BY <2>1, <2>5
    <3> QED
      BY <1>2, <1>3, <2>1, <2>2, <2>5, <3>1, WriteFailedInv DEF histVars
  <2> QED
    BY <2>3, <2>4, <2>5
<1> QED
  BY <1>4, <1>5

LEMMA ReadErrorInv ==
    ASSUME Inv, NEW w \in Worker, readCompletedWithError(w)
    PROVE  Inv'
<1>1. UNCHANGED <<slot, entry, cell, toDisk, fromDisk, lastId, rebuild, late, lastVer, leaked, strayed, hollow>>
  BY DEF readCompletedWithError, diskerVars, histVars
<1>2. /\ fromDisk \in [Worker -> Seq(Response)]
      /\ rebuild \in [pc: {"scan", "open", "opened", "off"}, filen: Nat \ {0}, found: Cell]
  BY DEF Inv, Types
<1> QED
  BY <1>1, <1>2, QuietInv

LEMMA FileClosedInv ==
    ASSUME Inv, NEW e \in Entry, storeSwapOutFileClosed(e)
    PROVE  Inv'
<1>1. /\ entry \in [Entry -> EntryType \cup {NoEntry}]
      /\ slot \in [Slot -> SlotType] /\ fromDisk \in [Worker -> Seq(Response)]
  BY DEF Inv, Types
<1>2. UNCHANGED <<ioVars, diskerVars, lastVer, faults, histVars>>
  BY DEF storeSwapOutFileClosed
<1>3. CASE Has(e, {"closing"}) /\ entry' = [entry EXCEPT ![e].pc = "reading"] /\ slot' = slot
  <2>1. entry[e].pc \in ReadLocked /\ entry[e] \in EntryType
    BY <1>1, <1>3 DEF Has, ReadLocked, NoEntry
  <2>2. At(e) \in Slot /\ slot[At(e)] \in SlotType /\ entry[e].id \in Nat
    BY <1>1, <2>1, RockAssumption DEF EntryType, At
  <2>3. entry' = [entry EXCEPT ![e] = [@ EXCEPT !.pc = "reading", !.id = entry[e].id]]
    <3>1. [entry[e] EXCEPT !.pc = "reading", !.id = entry[e].id] = [entry[e] EXCEPT !.pc = "reading"]
      BY <2>1 DEF EntryType
    <3> QED
      BY <1>3, <3>1
  <2>4. slot' = [slot EXCEPT ![At(e)] = slot[At(e)]]
    BY <1>1, <1>3
  <2>5. /\ UNCHANGED <<cell, toDisk, lastId, diskerVars, lastVer, faults, histVars>>
        /\ fromDisk' = fromDisk
    BY <1>2 DEF ioVars
  <2> QED
    BY <1>1, <2>1, <2>2, <2>3, <2>4, <2>5, EntryStaysInv
<1>4. CASE /\ Has(e, {"closing"}) /\ entry' = [entry EXCEPT ![e] = NoEntry]
           /\ slot' = [slot EXCEPT ![At(e)] = unlink(@)]
  <2>1. entry[e].pc \in ReadLocked
    BY <1>4 DEF Has, ReadLocked
  <2> QED
    BY <1>2, <1>4, <2>1, ReaderLeavesInv
<1>5. CASE /\ Has(e, {"failed"}) /\ entry' = [entry EXCEPT ![e] = NoEntry]
           /\ slot' = [slot EXCEPT ![At(e)] = unlink(@)]
  <2>1. entry[e].pc \in WriteLocked
    BY <1>5 DEF Has, WriteLocked
  <2> DEFINE a == At(e)
             S == unlink(slot[a])
  <2>2. /\ a \in Slot /\ slot[a] \in SlotType /\ entry[e] \in EntryType
        /\ slot[a].writer /\ slot[a].state = "Writeable" /\ slot[a].readers = 0
    BY <2>1, WriterAlone DEF Inv
  <2>3. S \in SlotType /\ S.writer = FALSE /\ S.state = "Empty" /\ S.readers = slot[a].readers
    BY <2>2, WriterLeaves
  <2>4. NoEntry.pc = "idle"
    BY DEF NoEntry
  <2>5. SlotOf[entry[e].key] = a
    BY DEF At
  <2>6. slot' = [slot EXCEPT ![a] = S]
    BY <1>5
  <2> HIDE DEF a, S
  <2>7. W(entry[e]) = 1 /\ R(entry[e]) = 0 /\ W(NoEntry) = 0 /\ R(NoEntry) = 0
    BY <1>5, <2>4 DEF Has, W, R, WriteLocked, ReadLocked
  <2>8. S.readers = slot[a].readers + R(NoEntry)
    BY <2>2, <2>3, <2>7
  <2>9. Moves(slot[a], entry[e], S, NoEntry)
    BY <2>2, <2>3, <2>7, <2>8, MovesWriterLeaves
  <2>10. EntryStep(e, NoEntry, a, S)
    BY <1>1, <1>2, <1>5, <2>1, <2>3, <2>4, <2>5, <2>6, <2>9
       DEF EntryStep, ioVars, diskerVars, histVars, WriteLocked, ReadLocked
  <2> QED
    BY <2>2, <2>10, EntryStepInv
<1> QED
  BY <1>3, <1>4, <1>5 DEF storeSwapOutFileClosed, Has

\* close() throws, and the entry keeps its lock.
LEMMA CloseThrowsInv ==
    ASSUME Inv, NEW e \in Entry, entry[e].pc = "buffering", closeThrows(e),
           lastId' = lastId \/ lastId' \in [Worker -> Nat],
           UNCHANGED <<cell, fromDisk, diskerVars, lastVer, faults, histVars>>
    PROVE  Inv'
<1>1. entry[e].pc \in WriteLocked
  BY DEF WriteLocked
<1>2. entry[e] \in EntryType /\ entry \in [Entry -> EntryType \cup {NoEntry}]
      /\ slot \in [Slot -> SlotType] /\ fromDisk \in [Worker -> Seq(Response)]
  BY <1>1 DEF Inv, Types, NoEntry, WriteLocked
<1>3. At(e) \in Slot /\ slot[At(e)] \in SlotType /\ entry[e].id \in Nat
  BY <1>2, RockAssumption DEF EntryType, At
<1>4. entry' = [entry EXCEPT ![e] = [@ EXCEPT !.pc = "stuck", !.id = entry[e].id]]
  <2>1. [entry[e] EXCEPT !.pc = "stuck", !.id = entry[e].id] = [entry[e] EXCEPT !.pc = "stuck"]
    BY <1>2 DEF EntryType
  <2> QED
    BY <2>1 DEF closeThrows
<1>5. slot' = [slot EXCEPT ![At(e)] = slot[At(e)]] /\ toDisk' = toDisk
  BY <1>2 DEF closeThrows
<1> QED
  BY <1>1, <1>2, <1>3, <1>4, <1>5, EntryStaysInv

\* push() queues the request.
Queued(e) ==
    /\ entry[e].pc = "buffering"
    /\ LET w == entry[e].w IN
       /\ lastId' = [lastId EXCEPT ![w] = @ + 1]
       /\ toDisk' = [toDisk EXCEPT ![w] = Append(@,
               [id |-> lastId'[w], key |-> entry[e].key, ver |-> entry[e].ver])]
       /\ entry' = [entry EXCEPT ![e].pc = "writing", ![e].id = lastId'[w]]
    /\ UNCHANGED <<slot, cell, fromDisk, diskerVars, lastVer, faults, histVars>>

LEMMA WriteQueuedInv ==
    ASSUME Inv, NEW e \in Entry, Queued(e)
    PROVE  Inv'
<1> DEFINE w == entry[e].w
           id == lastId[w] + 1
           q == [id |-> id, key |-> entry[e].key, ver |-> entry[e].ver]
<1>1. /\ entry \in [Entry -> EntryType \cup {NoEntry}] /\ entry[e].pc = "buffering"
      /\ lastId \in [Worker -> Nat] /\ toDisk \in [Worker -> Seq(Request)]
  BY DEF Inv, Types, Queued
<1>2. entry[e] \in EntryType
  BY <1>1 DEF NoEntry
<1>3. w \in Worker /\ id \in Nat /\ q \in Request
  BY <1>1, <1>2 DEF EntryType, Request
<1>4. lastId' = [lastId EXCEPT ![w] = id] /\ lastId'[w] = id
  BY <1>1, <1>3 DEF Queued
<1>5. toDisk' = Pushed(toDisk, w, q)
  BY <1>4 DEF Queued, Pushed
<1>6. entry' = [entry EXCEPT ![e] = [@ EXCEPT !.pc = "writing", !.id = id]]
  BY <1>4 DEF Queued
<1>8. q.key = entry[e].key /\ q.ver = entry[e].ver
  OBVIOUS
<1>9. UNCHANGED <<slot, cell, fromDisk, diskerVars, lastVer, faults, histVars>>
  BY DEF Queued
<1>10. lastId' \in [Worker -> Nat]
  BY <1>1, <1>3, <1>4
<1> HIDE DEF w, id, q
<1>7. toDisk' \in [Worker -> Seq(Request)] /\ Sent(toDisk') = Sent(toDisk) \cup {q}
  <2>1. toDisk \in Queues(Request)
    BY <1>1 DEF Queues
  <2>2. toDisk' \in Queues(Request) /\ Sent(toDisk') = Sent(toDisk) \cup {q}
    BY <1>3, <1>5, <2>1, SentAppended
  <2> QED
    BY <2>2 DEF Queues
<1>11. /\ entry'[e] \in EntryType /\ entry'[e].pc = "writing" /\ entry'[e].key = entry[e].key
       /\ entry'[e].ver = entry[e].ver
       /\ entry' \in [Entry -> EntryType \cup {NoEntry}]
       /\ \A f \in Entry : f # e => entry'[f] = entry[f]
  BY <1>1, <1>2, <1>3, <1>6 DEF EntryType, WriteLocked
<1>12. \A f \in Entry : /\ entry'[f].pc \in WriteLocked <=> entry[f].pc \in WriteLocked
                        /\ entry'[f].pc \in ReadLocked <=> entry[f].pc \in ReadLocked
                        /\ entry[f].pc \in WriteLocked \cup ReadLocked
                           => (entry'[f].key = entry[f].key /\ entry'[f].ver = entry[f].ver)
  BY <1>1, <1>11 DEF WriteLocked, ReadLocked
<1>13. Types'
  BY <1>7, <1>9, <1>10, <1>11 DEF Inv, Types, diskerVars, histVars
<1>14. Locks'
  <2>1. \A s \in Slot : /\ HeldBy(entry', s, WriteLocked) = HeldBy(entry, s, WriteLocked)
                        /\ HeldBy(entry', s, ReadLocked) = HeldBy(entry, s, ReadLocked)
    BY <1>12 DEF HeldBy, Holds
  <2>2. \A s \in Slot : Writers(s)' = Writers(s) /\ Readers(s)' = Readers(s)
    BY <1>9, <2>1 DEF Writers, Readers, Writing, Reading, Late, diskerVars, histVars
  <2> QED
    BY <1>9, <2>2 DEF Inv, Locks
<1>15. Owned'
  BY <1>9, <1>12 DEF Inv, Owned, At
<1>16. CellsMatch' /\ RebuildMatches'
  BY <1>9 DEF Inv, CellsMatch, RebuildMatches, diskerVars, histVars
<1>17. entry[e].pc \in WriteLocked /\ entry[e].ver <= lastVer
  BY <1>1 DEF Inv, VersionsMatch, WriteLocked
<1>18. VersionsMatch'
  <2>1. \A f \in Entry : entry'[f].pc = "buffering" => (f # e /\ entry[f].pc = "buffering" /\ entry'[f] = entry[f])
    BY <1>11
  <2>2. \A f \in Entry : (entry[f].pc = "buffering" /\ f # e) => entry[f].ver # entry[e].ver
    BY <1>17 DEF Inv, VersionsMatch, WriteLocked
  <2>3. fromDisk' = fromDisk /\ lastVer' = lastVer
    BY <1>9
  <2> QED
    BY <1>7, <1>8, <1>12, <1>17, <2>1, <2>2, <2>3 DEF Inv, VersionsMatch
<1>19. WritesMatch'
  <2> SUFFICES ASSUME NEW f \in Entry, entry'[f].pc = "writing"
               PROVE  LET y == entry'[f]
                          s == SlotOf[y.key] IN
                      /\ \A m \in Sent(toDisk') : m.ver = y.ver => m.key = y.key
                      /\ \A m \in Sent(fromDisk') : (m.ver = y.ver /\ m.ok)
                            => \/ s \in strayed'
                               \/ cell'[s].key = y.key /\ cell'[s].ver = y.ver
    BY DEF WritesMatch, At
  <2>1. fromDisk' = fromDisk /\ strayed' = strayed /\ cell' = cell
    BY <1>9 DEF histVars
  <2>2. CASE f = e
    <3>1. \A m \in Sent(toDisk) \cup Sent(fromDisk) : m.ver # entry[e].ver
      BY <1>1 DEF Inv, VersionsMatch
    <3> QED
      BY <1>7, <1>8, <1>11, <2>1, <2>2, <3>1
  <2>3. CASE f # e
    <3>1. entry'[f] = entry[f] /\ entry[f].pc = "writing"
      BY <1>11, <2>3
    <3>2. entry[f].ver # q.ver
      BY <1>8, <1>17, <2>3, <3>1 DEF Inv, VersionsMatch, WriteLocked
    <3> QED
      BY <1>7, <2>1, <3>1, <3>2 DEF Inv, WritesMatch, At
  <2> QED
    BY <2>2, <2>3
<1> QED
  BY <1>13, <1>14, <1>15, <1>16, <1>18, <1>19 DEF Inv

LEMMA StartWritingInv ==
    ASSUME Inv, NEW e \in Entry, startWriting(e)
    PROVE  Inv'
<1>1. PICK v : v = entry[e].w
  OBVIOUS
<1>2. /\ entry[e].pc = "buffering" /\ lastId \in [Worker -> Nat]
      /\ fromDisk \in [Worker -> Seq(Response)]
      /\ UNCHANGED <<cell, fromDisk, diskerVars, lastVer, faults, histVars>>
  BY DEF startWriting, Has, Inv, Types
<1>3. v \in Worker
  BY <1>1, <1>2 DEF Inv, Types, EntryType, NoEntry
<1>4. CASE closeThrows(e) /\ (lastId' = lastId \/ lastId' = [lastId EXCEPT ![v] = @ + 1])
  <2>1. lastId' = lastId \/ lastId' \in [Worker -> Nat]
    BY <1>2, <1>3, <1>4
  <2> QED
    BY <1>2, <1>4, <2>1, CloseThrowsInv
<1>5. CASE /\ lastId' = [lastId EXCEPT ![v] = @ + 1] /\ slot' = slot
           /\ toDisk' = [toDisk EXCEPT ![v] = Append(@,
                 [id |-> lastId'[v], key |-> entry[e].key, ver |-> entry[e].ver])]
           /\ entry' = [entry EXCEPT ![e].pc = "writing", ![e].id = lastId'[v]]
  <2>1. Queued(e)
    BY <1>1, <1>2, <1>5, Zenon DEF Queued
  <2> QED
    BY <2>1, WriteQueuedInv
<1>6. CASE /\ lastId' = [lastId EXCEPT ![v] = @ + 1]
           /\ writeCompleted(e, FALSE) /\ toDisk' = toDisk
  <2>1. lastId' \in [Worker -> Nat]
    BY <1>2, <1>3, <1>6
  <2> QED
    BY <1>2, <1>6, <2>1, WriteFailedInv
<1> QED
  BY <1>1, <1>4, <1>5, <1>6 DEF startWriting

-----------------------------------------------------------------------------
(* The disker                                                              *)

LEMMA DiskerWriteInv ==
    ASSUME Inv, NEW w \in Worker, diskerWrite(w)
    PROVE  Inv'
<1> DEFINE r == Head(toDisk[w])
           s == SlotOf[r.key]
           awaited == \E e \in Entry : Has(e, {"writing"}) /\ entry[e].ver = r.ver
           c == [key |-> r.key, ver |-> r.ver]
           m(ok) == [id |-> r.id, ver |-> r.ver, ok |-> ok]
<1>1. /\ toDisk \in Queues(Request) /\ toDisk[w] # <<>> /\ fromDisk \in Queues(Response)
      /\ toDisk' = [toDisk EXCEPT ![w] = Tail(@)]
      /\ cell \in [Slot -> Cell] /\ lastVer \in Nat
  BY DEF Inv, Types, Queues, diskerWrite
<1>2. /\ toDisk' \in Queues(Request) /\ Sent(toDisk') \subseteq Sent(toDisk)
      /\ r \in Sent(toDisk) /\ r \in Request
  BY <1>1, SentTaken
<1>3. /\ UNCHANGED <<slot, entry, lastId, diskerVars, lastVer, faults, leaked, hollow>>
      /\ rebuild.pc \notin {"open", "opened"}
  BY DEF diskerWrite, DiskerFree
<1>4. s \in Slot /\ r.id \in Nat /\ r.key \in Key /\ r.ver \in Nat
  BY <1>2, RockAssumption DEF Request
<1>0. c \in Cell /\ c.key = r.key /\ c.ver = r.ver
  BY <1>4 DEF Cell
<1>5. \A b \in BOOLEAN : m(b) \in Response /\ m(b).ver = r.ver /\ m(b).ok = b
  BY <1>4 DEF Response
<1>6. \/ /\ cell' = [cell EXCEPT ![s] = c]
         /\ awaited => strayed' = strayed \ {s}
         /\ ~awaited => strayed' = strayed \cup {s}
         /\ fromDisk' = fromDisk \/ fromDisk' = Pushed(fromDisk, w, m(TRUE))
      \/ /\ UNCHANGED <<cell, strayed>>
         /\ fromDisk' = fromDisk \/ fromDisk' = Pushed(fromDisk, w, m(FALSE))
  BY DEF diskerWrite, Pushed
<1> HIDE DEF r, s, c, m, awaited
<1>7. fromDisk' \in Queues(Response) /\ \A n \in Sent(fromDisk') :
         \/ n \in Sent(fromDisk)
         \/ /\ n.ver = r.ver
            /\ n.ok => /\ cell' = [cell EXCEPT ![s] = c]
                       /\ awaited => strayed' = strayed \ {s}
  <2>1. \A b \in BOOLEAN : /\ Pushed(fromDisk, w, m(b)) \in Queues(Response)
                           /\ Sent(Pushed(fromDisk, w, m(b))) = Sent(fromDisk) \cup {m(b)}
    BY <1>1, <1>5, SentAppended
  <2>2. CASE fromDisk' = fromDisk
    BY <1>1, <2>2
  <2>3. CASE /\ cell' = [cell EXCEPT ![s] = c]
             /\ awaited => strayed' = strayed \ {s}
             /\ fromDisk' = Pushed(fromDisk, w, m(TRUE))
    <3>1. Sent(fromDisk') = Sent(fromDisk) \cup {m(TRUE)} /\ m(TRUE).ver = r.ver
      BY <1>5, <2>1, <2>3
    <3> QED
      BY <2>1, <2>3, <3>1
  <2>4. CASE fromDisk' = Pushed(fromDisk, w, m(FALSE))
    <3>1. Sent(fromDisk') = Sent(fromDisk) \cup {m(FALSE)} /\ m(FALSE).ver = r.ver /\ m(FALSE).ok = FALSE
      BY <1>5, <2>1, <2>4
    <3> QED
      BY <2>1, <2>4, <3>1
  <2> QED
    BY <1>6, <2>2, <2>3, <2>4
\* A write that is awaited is for the slot of the entry that waits.
<1>8. \A e \in Entry : (entry[e].pc = "writing" /\ entry[e].ver = r.ver)
                       => (r.key = entry[e].key /\ At(e) = s)
  BY <1>2 DEF Inv, WritesMatch, At, s
<1>9. awaited => \E e \in Entry : entry[e].pc = "writing" /\ entry[e].ver = r.ver
  BY DEF awaited, Has
<1>10. \A t \in Slot : t # s => (cell'[t] = cell[t] /\ (t \in strayed' <=> t \in strayed))
  BY <1>1, <1>6
<1>11. \/ cell' = cell /\ strayed' = strayed
       \/ /\ cell'[s].key = r.key /\ cell'[s].ver = r.ver
          /\ awaited \/ s \in strayed'
  <2>1. CASE cell' = cell /\ strayed' = strayed
    BY <2>1
  <2>2. CASE /\ cell' = [cell EXCEPT ![s] = c]
             /\ ~awaited => strayed' = strayed \cup {s}
    <3>1. cell'[s] = c
      BY <1>1, <1>4, <2>2
    <3> QED
      BY <1>0, <2>2, <3>1
  <2> QED
    BY <1>6, <2>1, <2>2
<1>12. Types'
  <2>1. cell' \in [Slot -> Cell]
    BY <1>0, <1>1, <1>4, <1>6
  <2> QED
    BY <1>2, <1>3, <1>7, <2>1 DEF Inv, Types, diskerVars, Queues
<1>13. Locks' /\ Owned'
  <2>1. \A t \in Slot : Writers(t)' = Writers(t) /\ Readers(t)' = Readers(t)
    BY <1>3 DEF Writers, Readers, Writing, Reading, Late, diskerVars
  <2> QED
    BY <1>3, <2>1 DEF Inv, Locks, Owned, At
<1>14. CellsMatch'
  <2> SUFFICES ASSUME NEW t \in Slot, slot[t].state = "Readable", t \notin strayed' \cup hollow
               PROVE  cell'[t].key = slot[t].key /\ cell'[t].ver = slot[t].ver
    BY <1>3 DEF CellsMatch
  <2>1. CASE t # s \/ (cell' = cell /\ strayed' = strayed)
    BY <1>10, <2>1 DEF Inv, CellsMatch
  <2>2. CASE t = s /\ awaited
    <3>1. PICK e \in Entry : entry[e].pc = "writing" /\ entry[e].ver = r.ver
      BY <1>9, <2>2
    <3>2. At(e) = s /\ entry[e].pc \in WriteLocked
      BY <1>8, <3>1 DEF WriteLocked
    <3>3. slot[s].state = "Writeable"
      BY <3>2, WriterAlone DEF Inv
    <3> QED
      BY <2>2, <3>3
  <2> QED
    BY <1>11, <2>1, <2>2
<1>15. RebuildMatches'
  BY <1>3 DEF RebuildMatches, diskerVars
<1>16. r.ver <= lastVer /\ \A e \in Entry : entry[e].pc = "buffering" => entry[e].ver # r.ver
  BY <1>2 DEF Inv, VersionsMatch
<1>17. VersionsMatch'
  BY <1>2, <1>3, <1>7, <1>16 DEF Inv, VersionsMatch
<1>18. WritesMatch'
  <2> SUFFICES ASSUME NEW e \in Entry, entry[e].pc = "writing"
               PROVE  /\ \A n \in Sent(toDisk') : n.ver = entry[e].ver => n.key = entry[e].key
                      /\ \A n \in Sent(fromDisk') : (n.ver = entry[e].ver /\ n.ok)
                            => \/ At(e) \in strayed'
                               \/ cell'[At(e)].key = entry[e].key /\ cell'[At(e)].ver = entry[e].ver
    BY <1>3 DEF WritesMatch, At
  <2>1. \A n \in Sent(toDisk') : n.ver = entry[e].ver => n.key = entry[e].key
    BY <1>2 DEF Inv, WritesMatch
  <2>2. ASSUME NEW n \in Sent(fromDisk'), n.ver = entry[e].ver, n.ok
        PROVE  \/ At(e) \in strayed'
               \/ cell'[At(e)].key = entry[e].key /\ cell'[At(e)].ver = entry[e].ver
    <3>1. entry[e].pc \in WriteLocked /\ At(e) \in Slot
      BY WriterAlone DEF Inv, WriteLocked
    <3>2. CASE entry[e].ver = r.ver /\ ~(cell' = cell /\ strayed' = strayed)
      BY <1>8, <1>11, <3>2
    <3>3. CASE n \in Sent(fromDisk) /\ cell' = cell /\ strayed' = strayed
      BY <2>2, <3>3 DEF Inv, WritesMatch
    <3>4. CASE n \in Sent(fromDisk) /\ At(e) # s
      BY <1>10, <2>2, <3>1, <3>4 DEF Inv, WritesMatch
    <3>5. CASE At(e) = s /\ entry[e].ver # r.ver /\ ~(cell' = cell /\ strayed' = strayed)
      <4>1. ASSUME awaited PROVE FALSE
        <5>1. PICK f \in Entry : entry[f].pc = "writing" /\ entry[f].ver = r.ver
          BY <1>9, <4>1
        <5>2. At(f) = s /\ entry[f].pc \in WriteLocked
          BY <1>8, <5>1 DEF WriteLocked
        <5>3. f = e
          BY <3>1, <3>5, <5>2, WriterAlone DEF Inv
        <5> QED
          BY <3>5, <5>1, <5>3
      <4> QED
        BY <1>11, <3>5, <4>1
    <3>6. CASE n \notin Sent(fromDisk) /\ cell' = cell /\ strayed' = strayed
      <4>1. entry[e].ver = r.ver /\ cell' = [cell EXCEPT ![s] = c]
        BY <1>7, <2>2, <3>6
      <4>2. cell'[s].key = r.key /\ cell'[s].ver = r.ver
        BY <1>0, <1>1, <1>4, <4>1
      <4> QED
        BY <1>8, <4>1, <4>2
    <3>7. n \in Sent(fromDisk) \/ n.ver = r.ver
      BY <1>7
    <3> QED
      BY <2>2, <3>2, <3>3, <3>4, <3>5, <3>6, <3>7
  <2> QED
    BY <2>1, <2>2
<1> QED
  BY <1>12, <1>13, <1>14, <1>15, <1>17, <1>18 DEF Inv

\* A step of the rebuild job or a late release, at slot a, which becomes S.
RebuildStep(a, S) ==
    /\ slot' = [slot EXCEPT ![a] = S] /\ S \in SlotType
    /\ UNCHANGED <<cell, entry, toDisk, fromDisk, lastId, lastVer, leaked, strayed>>
    /\ rebuild' \in [pc: {"scan", "open", "opened", "off"}, filen: Nat \ {0}, found: Cell]
    /\ late' \in Seq(Slot)
    /\ \A s \in Slot : s # a => /\ Rebuilds(rebuild', s) <=> Rebuilds(rebuild, s)
                                /\ Cardinality(Releases(late', s)) = Late(s)
    /\ LockOK(S, Writers(a)', Readers(a)')
    /\ hollow' \ {a} = hollow \ {a}
    /\ \/ S.key = slot[a].key /\ S.ver = slot[a].ver /\ S.state = slot[a].state
       \/ \A f \in Entry : entry[f].pc \in WriteLocked \cup ReadLocked => At(f) # a
    /\ (S.state = "Readable" /\ a \notin strayed \cup hollow')
       => (cell[a].key = S.key /\ cell[a].ver = S.ver)
    /\ rebuild'.pc \in {"open", "opened"}
       => (rebuild'.filen \in Slot /\ cell[rebuild'.filen] = rebuild'.found)
    /\ (rebuild'.pc = "opened" /\ SlotOf[rebuild'.found.key] = rebuild'.filen)
       => (rebuild'.filen = a /\ S.key = rebuild'.found.key /\ S.ver = rebuild'.found.ver)

LEMMA RebuildStepInv ==
    ASSUME Inv, NEW a \in Slot, NEW S, RebuildStep(a, S)
    PROVE  Inv'
<1>1. slot \in [Slot -> SlotType] /\ entry \in [Entry -> EntryType \cup {NoEntry}]
  BY DEF Inv, Types
<1>2. slot'[a] = S /\ \A s \in Slot : s # a => slot'[s] = slot[s]
  BY <1>1 DEF RebuildStep
<1>3. Types'
  <2>1. slot' \in [Slot -> SlotType]
    BY <1>1 DEF RebuildStep
  <2> QED
    BY <2>1 DEF Inv, Types, RebuildStep
<1>4. Locks'
  <2> SUFFICES ASSUME NEW s \in Slot
               PROVE  LockOK(slot'[s], Writers(s)', Readers(s)')
    BY DEF Locks
  <2>1. CASE s = a
    BY <1>2, <2>1 DEF RebuildStep
  <2>2. CASE s # a
    <3>1. Late(s)' = Late(s) /\ (Rebuilds(rebuild, s)' <=> Rebuilds(rebuild, s))
      BY <2>2 DEF RebuildStep, Late
    <3>2. Writing(s)' = Writing(s) /\ Reading(s)' = Reading(s) /\ leaked' = leaked
      BY DEF RebuildStep, Writing, Reading
    <3>3. Writers(s)' = Writers(s) /\ Readers(s)' = Readers(s)
      BY <3>1, <3>2 DEF Writers, Readers
    <3> QED
      BY <1>2, <2>2, <3>3 DEF Inv, Locks
  <2> QED
    BY <2>1, <2>2
<1>5. Owned'
  <2> SUFFICES ASSUME NEW f \in Entry, entry[f].pc \in WriteLocked \cup ReadLocked
               PROVE  /\ slot'[At(f)].key = entry[f].key /\ slot'[At(f)].ver = entry[f].ver
                      /\ entry[f].pc \in ReadLocked => slot'[At(f)].state = "Readable"
    BY DEF RebuildStep, Owned, At
  <2>1. At(f) \in Slot
    BY <1>1, RockAssumption DEF At, EntryType, NoEntry, WriteLocked, ReadLocked
  <2>2. CASE At(f) # a
    BY <1>2, <2>1, <2>2 DEF Inv, Owned
  <2>3. CASE At(f) = a
    <3>1. S.key = slot[a].key /\ S.ver = slot[a].ver /\ S.state = slot[a].state
      BY <2>3 DEF RebuildStep
    <3> QED
      BY <1>2, <2>3, <3>1 DEF Inv, Owned
  <2> QED
    BY <2>2, <2>3
<1>6. CellsMatch'
  <2> SUFFICES ASSUME NEW s \in Slot, slot'[s].state = "Readable", s \notin strayed' \cup hollow'
               PROVE  cell'[s].key = slot'[s].key /\ cell'[s].ver = slot'[s].ver
    BY DEF CellsMatch
  <2>1. CASE s = a
    BY <1>2, <2>1 DEF RebuildStep
  <2>2. CASE s # a
    <3>1. s \notin hollow /\ s \notin strayed /\ cell' = cell
      BY <2>2 DEF RebuildStep
    <3> QED
      BY <1>2, <2>2, <3>1 DEF Inv, CellsMatch
  <2> QED
    BY <2>1, <2>2
<1>7. RebuildMatches'
  BY <1>2 DEF RebuildStep, RebuildMatches
<1>8. VersionsMatch'
  BY DEF RebuildStep, Inv, VersionsMatch
<1>9. WritesMatch'
  BY DEF RebuildStep, Inv, WritesMatch, At
<1> QED
  BY <1>3, <1>4, <1>5, <1>6, <1>7, <1>8, <1>9 DEF Inv

\* The counts of slot a when only late and rebuild change.
LEMMA CountsAfter ==
    ASSUME Inv, NEW a \in Slot, entry' = entry, leaked' = leaked
    PROVE  /\ Writing(a) \in Nat /\ Reading(a) \in Nat /\ leaked[a].readers \in Nat /\ Late(a) \in Nat
           /\ Readers(a)' = Reading(a) + leaked[a].readers + Cardinality(Releases(late', a))
           /\ Readers(a) = Reading(a) + leaked[a].readers + Late(a)
           /\ (Rebuilds(rebuild', a) <=> Rebuilds(rebuild, a)) => Writers(a)' = Writers(a)
           /\ (Rebuilds(rebuild', a) /\ ~Rebuilds(rebuild, a)) => Writers(a)' = Writers(a) + 1
           /\ (~Rebuilds(rebuild', a) /\ Rebuilds(rebuild, a)) => Writers(a)' = Writers(a) - 1
<1> DEFINE q == IF leaked[a].writer THEN 1 ELSE 0
           b == Rebuilds(rebuild, a)
           c == Rebuilds(rebuild', a)
<1>1. /\ Writing(a) \in Nat /\ Reading(a) \in Nat /\ leaked[a].readers \in Nat /\ Late(a) \in Nat
      /\ q \in Nat
  BY CountTypes DEF Inv
<1>2. Writing(a)' = Writing(a) /\ Reading(a)' = Reading(a)
  BY DEF Writing, Reading
<1>3. /\ Readers(a)' = Reading(a) + leaked[a].readers + Cardinality(Releases(late', a))
      /\ Readers(a) = Reading(a) + leaked[a].readers + Late(a)
  BY <1>2 DEF Readers, Late
<1>4. Writers(a)' = Writing(a) + (IF c THEN 1 ELSE 0) + q /\ Writers(a) = Writing(a) + (IF b THEN 1 ELSE 0) + q
  BY <1>2 DEF Writers
<1> HIDE DEF q, b, c
<1>5. /\ (c <=> b) => Writers(a)' = Writers(a)
      /\ (c /\ ~b) => Writers(a)' = Writers(a) + 1
      /\ (~c /\ b) => Writers(a)' = Writers(a) - 1
  BY <1>1, <1>4
<1> QED
  BY <1>1, <1>3, <1>5 DEF b, c

LEMMA DoOneEntryInv ==
    ASSUME Inv, doOneEntry
    PROVE  Inv'
<1> DEFINE found == cell[rebuild.filen]
           RType == [pc: {"scan", "open", "opened", "off"}, filen: Nat \ {0}, found: Cell]
<1>1. /\ rebuild \in RType /\ cell \in [Slot -> Cell] /\ slot \in [Slot -> SlotType] /\ late \in Seq(Slot)
      /\ rebuild.pc = "scan" /\ rebuild.filen <= entryLimit
  BY DEF Inv, Types, doOneEntry
<1>2. rebuild.filen \in Slot
  BY <1>1, RockAssumption DEF Slot
<1>3. found \in Cell
  BY <1>1, <1>2
<1>0. PICK s \in Slot : s = SlotOf[found.key]
  BY <1>3, RockAssumption DEF Cell
<1>4. s \in Slot /\ slot[s] \in SlotType
  BY <1>1
<1> DEFINE known == Opens(slot[s], found.key)
           kept == known /\ slot[s].ver >= found.ver
           old == known /\ ~kept
<1>5. \/ rebuild' = [rebuild EXCEPT !.filen = @ + 1]
      \/ rebuild' = [rebuild EXCEPT !.pc = "open", !.found = found]
  BY DEF doOneEntry
<1>6. /\ old => (slot' = [slot EXCEPT ![s] = openForReading(slot[s])] /\ late' = Append(late, s))
      /\ ~old => (slot' = slot /\ late' = late)
  BY <1>0 DEF doOneEntry
<1>7. UNCHANGED <<entry, ioVars, lastVer, faults, histVars>>
  BY DEF doOneEntry
<1>8. old => ~slot[s].writer
  BY DEF Opens
<1> HIDE DEF found, known, kept, old
<1>9. /\ rebuild' \in RType /\ rebuild'.pc \in {"scan", "open"}
      /\ rebuild'.pc = "open" => (rebuild'.filen = rebuild.filen /\ rebuild'.found = found)
  <2>1. CASE rebuild' = [rebuild EXCEPT !.filen = @ + 1]
    <3>1. rebuild.filen + 1 \in Nat \ {0}
      BY <1>1
    <3> QED
      BY <1>1, <2>1, <3>1
  <2>2. CASE rebuild' = [rebuild EXCEPT !.pc = "open", !.found = found]
    BY <1>1, <1>3, <2>2
  <2> QED
    BY <1>5, <2>1, <2>2
<1>10. \A t \in Slot : ~Rebuilds(rebuild', t) /\ ~Rebuilds(rebuild, t)
  BY <1>1, <1>9 DEF Rebuilds
<1>11. rebuild'.pc \in {"open", "opened"}
       => (rebuild'.filen \in Slot /\ cell[rebuild'.filen] = rebuild'.found)
  BY <1>2, <1>9 DEF found
<1>12. rebuild'.pc # "opened"
  BY <1>9
<1>13. LockOK(slot[s], Writers(s), Readers(s)) /\ Writers(s)' = Writers(s)
  <2>1. entry' = entry /\ leaked' = leaked
    BY <1>7 DEF histVars
  <2>2. Writers(s)' = Writers(s)
    BY <1>4, <1>10, <2>1, CountsAfter
  <2> QED
    BY <1>4, <2>2 DEF Inv, Locks
<1>14. (slot[s].state = "Readable" /\ s \notin strayed \cup hollow)
       => (cell[s].key = slot[s].key /\ cell[s].ver = slot[s].ver)
  BY <1>4 DEF Inv, CellsMatch
<1>15. CASE old
  <2> DEFINE S == openForReading(slot[s])
  <2>1. /\ S \in SlotType /\ S.readers = slot[s].readers + 1
        /\ S.writer = slot[s].writer /\ S.state = slot[s].state /\ S.key = slot[s].key /\ S.ver = slot[s].ver
    BY <1>4, OpenForReadingFacts
  <2>2. late' \in Seq(Slot) /\ Cardinality(Releases(late', s)) = Late(s) + 1
        /\ \A t \in Slot : t # s => Cardinality(Releases(late', t)) = Late(t)
    <3>1. late' = Append(late, s)
      BY <1>6, <1>15
    <3>2. \A t \in Slot :
             /\ Append(late, s) \in Seq(Slot)
             /\ t = s => Cardinality(Releases(Append(late, s), t)) = Cardinality(Releases(late, t)) + 1
             /\ t # s => Cardinality(Releases(Append(late, s), t)) = Cardinality(Releases(late, t))
      BY <1>1, <1>4, LateAppended
    <3> QED
      BY <1>4, <3>1, <3>2 DEF Late
  <2>3. slot' = [slot EXCEPT ![s] = S]
    BY <1>6, <1>15
  <2> HIDE DEF S
  <2>4. Readers(s)' = Readers(s) + 1
    <3>1. entry' = entry /\ leaked' = leaked
      BY <1>7 DEF histVars
    <3>2. /\ Reading(s) \in Nat /\ leaked[s].readers \in Nat /\ Late(s) \in Nat
          /\ Readers(s)' = Reading(s) + leaked[s].readers + Cardinality(Releases(late', s))
          /\ Readers(s) = Reading(s) + leaked[s].readers + Late(s)
      BY <1>4, <3>1, CountsAfter
    <3> QED
      BY <2>2, <3>2
  <2>5. LockOK(S, Writers(s)', Readers(s)')
    BY <1>8, <1>13, <1>15, <2>1, <2>4 DEF LockOK
  <2>6. RebuildStep(s, S)
    BY <1>7, <1>9, <1>10, <1>11, <1>12, <1>14, <2>1, <2>2, <2>3, <2>5 DEF RebuildStep, ioVars, histVars
  <2> QED
    BY <1>4, <2>6, RebuildStepInv
<1>16. CASE ~old
  <2>1. slot' = [slot EXCEPT ![s] = slot[s]] /\ late' = late
    BY <1>1, <1>6, <1>16
  <2>2. Readers(s)' = Readers(s)
    BY <1>7, <2>1 DEF histVars, Readers, Reading, Late
  <2>3. \A t \in Slot : Cardinality(Releases(late', t)) = Late(t)
    BY <2>1 DEF Late
  <2>4. RebuildStep(s, slot[s])
    BY <1>1, <1>4, <1>7, <1>9, <1>10, <1>11, <1>12, <1>13, <1>14, <2>1, <2>2, <2>3
       DEF RebuildStep, ioVars, histVars
  <2> QED
    BY <1>4, <2>4, RebuildStepInv
<1> QED
  BY <1>15, <1>16

\* The slot is fully rebuilt, or its entry skipped.
LEMMA NextFilen ==
    ASSUME Types
    PROVE  LET rb == [pc |-> "scan", filen |-> rebuild.filen + 1, found |-> NoCell] IN
           /\ rb \in [pc: {"scan", "open", "opened", "off"}, filen: Nat \ {0}, found: Cell]
           /\ rb.pc = "scan" /\ NoCell \in Cell
<1>1. rebuild.filen + 1 \in Nat \ {0}
  BY DEF Types
<1>2. NoCell \in Cell
  BY RockAssumption DEF NoCell, Cell
<1> QED
  BY <1>1, <1>2

LEMMA AddEntryOpensInv ==
    ASSUME Inv, addEntryOpens
    PROVE  Inv'
<1> DEFINE RType == [pc: {"scan", "open", "opened", "off"}, filen: Nat \ {0}, found: Cell]
<1>1. /\ rebuild \in RType /\ slot \in [Slot -> SlotType] /\ late \in Seq(Slot)
      /\ fromDisk \in [Worker -> Seq(Response)] /\ rebuild.pc = "open"
  BY DEF Inv, Types, addEntryOpens
<1>0. PICK s \in Slot : s = SlotOf[rebuild.found.key]
  BY <1>1, RockAssumption DEF Cell
<1>2. s \in Slot /\ slot[s] \in SlotType /\ rebuild.found.key \in Key /\ rebuild.found.ver \in Nat
  BY <1>1 DEF Cell
<1> DEFINE opened == openForWriting(slot[s])
<1>3. UNCHANGED <<entry, ioVars, late, lastVer, faults, histVars>>
  BY DEF addEntryOpens
<1>4. CASE Unlocked(slot[s])
  <2> DEFINE S == IF s = rebuild.filen THEN set(opened, rebuild.found.key, rebuild.found.ver) ELSE opened
  <2>1. opened \in SlotType /\ opened.writer = TRUE /\ opened.state = "Writeable" /\ opened.readers = slot[s].readers
    BY <1>2, OpenForWritingFacts
  <2> HIDE DEF opened
  <2>2. /\ S \in SlotType /\ S.writer = TRUE /\ S.state = "Writeable" /\ S.readers = slot[s].readers
        /\ s = rebuild.filen => (S.key = rebuild.found.key /\ S.ver = rebuild.found.ver)
    BY <1>2, <2>1, SetFacts
  <2>3. slot' = [slot EXCEPT ![s] = S] /\ rebuild' = [rebuild EXCEPT !.pc = "opened"]
    BY <1>0, <1>4 DEF addEntryOpens, opened
  <2> HIDE DEF S
  <2>4. /\ rebuild' \in RType /\ rebuild'.pc = "opened" /\ rebuild'.filen = rebuild.filen
        /\ rebuild'.found = rebuild.found
    BY <1>1, <2>3
  <2>5. \A t \in Slot : ~Rebuilds(rebuild, t) /\ (Rebuilds(rebuild', t) <=> t = s)
    BY <1>0, <1>1, <2>4 DEF Rebuilds
  <2>6. rebuild.filen \in Slot /\ cell[rebuild.filen] = rebuild.found
    BY <1>1 DEF Inv, RebuildMatches
  <2>7. LockOK(slot[s], Writers(s), Readers(s)) /\ Writers(s) \in Nat
    BY <1>2, CountTypes DEF Inv, Locks
  <2>8. Writers(s)' = Writers(s) + 1 /\ Readers(s)' = Readers(s)
    <3>1. entry' = entry /\ leaked' = leaked /\ late' = late
      BY <1>3 DEF histVars
    <3>2. Writers(s)' = Writers(s) + 1
      BY <1>2, <2>5, <3>1, CountsAfter
    <3>3. Readers(s)' = Readers(s)
      BY <3>1 DEF Readers, Reading, Late
    <3> QED
      BY <3>2, <3>3
  <2>9. slot[s].readers = 0 /\ Writers(s) = 0 /\ Readers(s) = 0
    BY <1>4, <2>7 DEF LockOK, Unlocked
  <2>10. Writers(s)' = 1 /\ Readers(s)' = 0
    BY <2>8, <2>9
  <2>11. LockOK(S, Writers(s)', Readers(s)')
    BY <2>2, <2>9, <2>10 DEF LockOK
  <2>12. \A f \in Entry : entry[f].pc \in WriteLocked \cup ReadLocked => At(f) # s
    BY <1>2, <1>4, NobodyHolds DEF Inv
  <2>13. \A t \in Slot : Cardinality(Releases(late', t)) = Late(t)
    BY <1>3 DEF Late
  <2>14. /\ late' \in Seq(Slot) /\ hollow' = hollow
         /\ UNCHANGED <<cell, entry, toDisk, fromDisk, lastId, lastVer, leaked, strayed>>
    BY <1>1, <1>3 DEF ioVars, histVars
  <2>15. (rebuild'.pc = "opened" /\ SlotOf[rebuild'.found.key] = rebuild'.filen)
         => (rebuild'.filen = s /\ S.key = rebuild'.found.key /\ S.ver = rebuild'.found.ver)
    BY <1>0, <2>2, <2>4
  <2>16. RebuildStep(s, S)
    BY <2>2, <2>3, <2>4, <2>5, <2>6, <2>11, <2>12, <2>13, <2>14, <2>15 DEF RebuildStep
  <2> QED
    BY <1>2, <2>16, RebuildStepInv
<1>5. CASE ~Unlocked(slot[s])
  <2>1. rebuild' = [pc |-> "scan", filen |-> rebuild.filen + 1, found |-> NoCell] /\ slot' = slot
    BY <1>0, <1>5 DEF addEntryOpens
  <2>2. rebuild' \in RType /\ rebuild'.pc = "scan"
    BY <2>1, NextFilen DEF Inv
  <2> QED
    BY <1>1, <1>3, <2>1, <2>2, QuietInv DEF ioVars, histVars
<1> QED
  BY <1>4, <1>5

LEMMA AddEntryClosesInv ==
    ASSUME Inv, addEntryCloses
    PROVE  Inv'
<1> DEFINE RType == [pc: {"scan", "open", "opened", "off"}, filen: Nat \ {0}, found: Cell]
<1>1. /\ rebuild \in RType /\ slot \in [Slot -> SlotType] /\ late \in Seq(Slot)
      /\ rebuild.pc = "opened"
  BY DEF Inv, Types, addEntryCloses
<1>0. PICK s \in Slot : s = SlotOf[rebuild.found.key]
  BY <1>1, RockAssumption DEF Cell
<1> DEFINE S == closeForWriting(slot[s], FALSE)
<1>2. s \in Slot /\ slot[s] \in SlotType
  BY <1>1
<1>3. /\ S \in SlotType /\ S.writer = FALSE /\ S.state = "Readable" /\ S.readers = slot[s].readers + 0
      /\ S.key = slot[s].key /\ S.ver = slot[s].ver
  BY <1>2, CloseForWritingFacts
<1>4. /\ slot' = [slot EXCEPT ![s] = S]
      /\ s = rebuild.filen => hollow' = hollow \ {s}
      /\ s # rebuild.filen => hollow' = hollow \cup {s}
      /\ rebuild' = [pc |-> "scan", filen |-> rebuild.filen + 1, found |-> NoCell]
      /\ UNCHANGED <<entry, ioVars, late, lastVer, faults, leaked, strayed>>
  BY <1>0 DEF addEntryCloses
<1>5. rebuild' \in RType /\ rebuild'.pc = "scan"
  BY <1>4, NextFilen DEF Inv
<1>6. \A t \in Slot : ~Rebuilds(rebuild', t) /\ (Rebuilds(rebuild, t) <=> t = s)
  BY <1>0, <1>1, <1>5 DEF Rebuilds
<1>7. (S.state = "Readable" /\ s \notin strayed \cup hollow') => (cell[s].key = S.key /\ cell[s].ver = S.ver)
  <2> SUFFICES ASSUME s \notin hollow' PROVE cell[s].key = S.key /\ cell[s].ver = S.ver
    OBVIOUS
  <2>1. s = rebuild.filen
    BY <1>4
  <2> QED
    BY <1>0, <1>1, <1>3, <2>1 DEF Inv, RebuildMatches
<1> HIDE DEF S
<1>8. slot[s].writer /\ slot[s].readers = 0 /\ LockOK(slot[s], Writers(s), Readers(s)) /\ Writers(s) \in Nat
      /\ \A f \in Entry : entry[f].pc \in WriteLocked \cup ReadLocked => At(f) # s
  BY <1>2, <1>6, RebuildAlone, CountTypes DEF Inv, Locks
<1>9. Writers(s)' = Writers(s) - 1 /\ Readers(s)' = Readers(s)
  <2>1. entry' = entry /\ leaked' = leaked /\ late' = late
    BY <1>4
  <2>2. Writers(s)' = Writers(s) - 1
    BY <1>2, <1>6, <2>1, CountsAfter
  <2>3. Readers(s)' = Readers(s)
    BY <2>1 DEF Readers, Reading, Late
  <2> QED
    BY <2>2, <2>3
<1>10. Writers(s) = 1 /\ Readers(s) = 0
  BY <1>8 DEF LockOK
<1>11. Writers(s)' = 0 /\ Readers(s)' = 0
  BY <1>9, <1>10
<1>12. LockOK(S, Writers(s)', Readers(s)')
  BY <1>3, <1>8, <1>11 DEF LockOK
<1>13. \A t \in Slot : Cardinality(Releases(late', t)) = Late(t)
  BY <1>4 DEF Late
<1>14. hollow' \ {s} = hollow \ {s}
  BY <1>4
<1>15. RebuildStep(s, S)
  BY <1>1, <1>3, <1>4, <1>5, <1>6, <1>7, <1>8, <1>12, <1>13, <1>14 DEF RebuildStep, ioVars
<1> QED
  BY <1>2, <1>15, RebuildStepInv

LEMMA RebuildDoneInv ==
    ASSUME Inv, RebuildDone
    PROVE  Inv'
<1> DEFINE RType == [pc: {"scan", "open", "opened", "off"}, filen: Nat \ {0}, found: Cell]
<1>1. rebuild \in RType /\ rebuild.pc = "scan" /\ fromDisk \in [Worker -> Seq(Response)]
  BY DEF Inv, Types, RebuildDone
<1>2. rebuild' = [rebuild EXCEPT !.pc = "off"] /\ UNCHANGED <<slot, entry, ioVars, late, lastVer, faults, histVars>>
  BY DEF RebuildDone
<1>3. rebuild' \in RType /\ rebuild'.pc = "off"
  BY <1>1, <1>2
<1> QED
  BY <1>1, <1>2, <1>3, QuietInv DEF ioVars, histVars

LEMMA LateReleaseInv ==
    ASSUME Inv, storeLateRelease
    PROVE  Inv'
<1>1. /\ late \in Seq(Slot) /\ late # <<>> /\ rebuild.pc = "off"
      /\ rebuild \in [pc: {"scan", "open", "opened", "off"}, filen: Nat \ {0}, found: Cell]
  BY DEF Inv, Types, storeLateRelease
<1>0. PICK s \in Slot : s = late[Len(late)]
  BY <1>1
<1> DEFINE S == unlink(slot[s])
<1>2. /\ late' = SubSeq(late, 1, Len(late) - 1) /\ slot' = [slot EXCEPT ![s] = S]
      /\ UNCHANGED <<entry, ioVars, rebuild, lastVer, faults, histVars>>
  BY <1>0 DEF storeLateRelease
<1>3. \A t \in Slot :
         /\ late' \in Seq(Slot) /\ s \in Slot
         /\ t = s => (Late(t) > 0 /\ Cardinality(Releases(late', t)) = Late(t) - 1)
         /\ t # s => Cardinality(Releases(late', t)) = Late(t)
  BY <1>0, <1>1, <1>2, LateRemoved DEF Late
<1>4. s \in Slot
  OBVIOUS
<1>5. late' \in Seq(Slot) /\ Late(s) > 0 /\ Cardinality(Releases(late', s)) = Late(s) - 1
  BY <1>3, <1>4
<1> HIDE DEF S
<1>6. slot[s] \in SlotType /\ LockOK(slot[s], Writers(s), Readers(s))
  BY <1>4 DEF Inv, Types, Locks
<1>7. Readers(s) > 0 /\ Readers(s)' = Readers(s) - 1 /\ Writers(s)' = Writers(s) /\ Readers(s) \in Nat
  <2>1. entry' = entry /\ leaked' = leaked /\ rebuild' = rebuild
    BY <1>2 DEF histVars
  <2>2. Writers(s)' = Writers(s)
    BY <1>4, <2>1, CountsAfter
  <2>3. /\ Reading(s) \in Nat /\ leaked[s].readers \in Nat /\ Late(s) \in Nat
        /\ Readers(s)' = Reading(s) + leaked[s].readers + Cardinality(Releases(late', s))
        /\ Readers(s) = Reading(s) + leaked[s].readers + Late(s)
    BY <1>4, <2>1, CountsAfter
  <2> QED
    BY <1>5, <2>2, <2>3
<1>8. slot[s].readers > 0 /\ ~slot[s].writer
  BY <1>6, <1>7 DEF LockOK
<1>9. slot[s].state # "Writeable"
  BY <1>6, <1>8 DEF LockOK
<1>10. /\ S \in SlotType /\ S.readers = slot[s].readers - 1
       /\ S.writer = slot[s].writer /\ S.state = slot[s].state /\ S.key = slot[s].key /\ S.ver = slot[s].ver
  BY <1>6, <1>8, <1>9, ReaderLeaves DEF S
<1>11. LockOK(S, Writers(s)', Readers(s)')
  BY <1>6, <1>7, <1>8, <1>10 DEF LockOK
<1>12. (slot[s].state = "Readable" /\ s \notin strayed \cup hollow)
       => (cell[s].key = slot[s].key /\ cell[s].ver = slot[s].ver)
  BY <1>4 DEF Inv, CellsMatch
<1>13. RebuildStep(s, S)
  BY <1>1, <1>2, <1>3, <1>5, <1>10, <1>11, <1>12 DEF RebuildStep, ioVars, histVars
<1> QED
  BY <1>4, <1>13, RebuildStepInv

-----------------------------------------------------------------------------
(* Restarts                                                                *)

LEMMA LeakedFacts ==
    ASSUME NEW b \in BOOLEAN, NEW n \in Nat
    PROVE  LET x == [writer |-> b, readers |-> n] IN
           x \in [writer: BOOLEAN, readers: Nat] /\ x.writer = b /\ x.readers = n
  OBVIOUS

LEMMA DiskerRestartInv ==
    ASSUME Inv, DiskerRestart
    PROVE  Inv'
<1> DEFINE reads == [s \in Slot |-> Cardinality({i \in DOMAIN late : late[i] = s})]
           writes == IF rebuild.pc = "opened" THEN {SlotOf[rebuild.found.key]} ELSE {}
<1>1. /\ leaked' = [s \in Slot |-> [writer |-> leaked[s].writer \/ s \in writes,
                                    readers |-> leaked[s].readers + reads[s]]]
      /\ rebuild' = [pc |-> "scan", filen |-> 1, found |-> NoCell] /\ late' = <<>>
      /\ UNCHANGED <<slot, entry, ioVars, lastVer, strayed, hollow>>
  BY DEF DiskerRestart, Leak
<1>2. \A s \in Slot : reads[s] = Late(s) /\ (s \in writes <=> Rebuilds(rebuild, s))
  BY DEF Late, Releases, Rebuilds
<1>3. leaked \in [Slot -> [writer: BOOLEAN, readers: Nat]]
  BY DEF Inv, Types
<1> HIDE DEF reads, writes
<1>4. \A s \in Slot : leaked'[s] = [writer |-> leaked[s].writer \/ s \in writes,
                                    readers |-> leaked[s].readers + reads[s]]
  BY <1>1
<1>5. /\ rebuild' \in [pc: {"scan", "open", "opened", "off"}, filen: Nat \ {0}, found: Cell]
      /\ rebuild'.pc = "scan" /\ \A s \in Slot : ~Rebuilds(rebuild', s)
  BY <1>1, NextFilen DEF Inv, Rebuilds
<1>6. ASSUME NEW s \in Slot
      PROVE  /\ leaked'[s] \in [writer: BOOLEAN, readers: Nat]
             /\ LockOK(slot'[s], Writers(s)', Readers(s)')
  <2>1. /\ Writing(s) \in Nat /\ Reading(s) \in Nat /\ Late(s) \in Nat /\ leaked[s].readers \in Nat
        /\ LockOK(slot[s], Writers(s), Readers(s))
    BY CountTypes DEF Inv, Locks
  <2> DEFINE lw == leaked[s].writer \/ s \in writes
             lr == leaked[s].readers + reads[s]
  <2>0. /\ lw \in BOOLEAN /\ lr \in Nat /\ lr = leaked[s].readers + Late(s)
        /\ leaked'[s] = [writer |-> lw, readers |-> lr]
        /\ lw <=> (leaked[s].writer \/ Rebuilds(rebuild, s))
    BY <1>2, <1>4, <2>1
  <2> HIDE DEF lw, lr
  <2>2. leaked'[s].readers = leaked[s].readers + Late(s)
    BY <2>0, LeakedFacts
  <2>4. leaked'[s].writer <=> (leaked[s].writer \/ Rebuilds(rebuild, s))
    BY <2>0, LeakedFacts
  <2>5. leaked'[s] \in [writer: BOOLEAN, readers: Nat]
    BY <2>0, LeakedFacts
  <2>6. Releases(late', s) = {}
    BY <1>1 DEF Releases
  <2>7. Late(s)' = 0
    BY <2>6, FS_EmptySet DEF Late
  <2>8. Writing(s)' = Writing(s) /\ Reading(s)' = Reading(s)
    BY <1>1 DEF Writing, Reading
  <2>9. Readers(s)' = Readers(s)
    BY <2>1, <2>2, <2>7, <2>8 DEF Readers
  <2>10. Writers(s)' = Writers(s)
    <3> DEFINE b == Rebuilds(rebuild, s)
               l == leaked[s].writer
               m == leaked'[s].writer
               n == IF slot[s].writer THEN 1 ELSE 0
    <3>1. Writers(s) = Writing(s) + (IF b THEN 1 ELSE 0) + (IF l THEN 1 ELSE 0)
      BY DEF Writers
    <3>2. Writers(s)' = Writing(s) + 0 + (IF m THEN 1 ELSE 0)
      BY <1>5, <2>8 DEF Writers
    <3>3. (m <=> (l \/ b)) /\ Writers(s) = n /\ n \in 0 .. 1
      BY <2>1, <2>4 DEF LockOK
    <3> HIDE DEF b, l, m, n
    <3> QED
      BY <2>1, <3>1, <3>2, <3>3
  <2> QED
    BY <1>1, <2>1, <2>5, <2>9, <2>10
<1>7. Types'
  <2>1. leaked' \in [Slot -> [writer: BOOLEAN, readers: Nat]]
    BY <1>1, <1>6
  <2>2. late' \in Seq(Slot)
    BY <1>1
  <2> QED
    BY <1>1, <1>5, <2>1, <2>2 DEF Inv, Types, ioVars
<1>8. Locks'
  BY <1>6 DEF Locks
<1>9. Owned' /\ CellsMatch'
  BY <1>1 DEF Inv, Owned, CellsMatch, At, ioVars
<1>10. RebuildMatches'
  BY <1>5 DEF RebuildMatches
<1>11. VersionsMatch' /\ WritesMatch'
  BY <1>1 DEF Inv, VersionsMatch, WritesMatch, At, ioVars
<1> QED
  BY <1>7, <1>8, <1>9, <1>10, <1>11 DEF Inv

\* The entries in E die.
Dies(ent, E, fresh) ==
    \A e \in Entry : (e \in E => fresh[e] = NoEntry) /\ (e \notin E => fresh[e] = ent[e])

LEMMA HeldDies ==
    ASSUME NEW ent, NEW E, NEW fresh, Dies(ent, E, fresh),
           NEW s, NEW pcs, pcs = WriteLocked \/ pcs = ReadLocked
    PROVE  /\ Cardinality(HeldBy(ent, s, pcs) \cap E) \in Nat
           /\ Cardinality(HeldBy(fresh, s, pcs))
                = Cardinality(HeldBy(ent, s, pcs)) - Cardinality(HeldBy(ent, s, pcs) \cap E)
           /\ HeldBy(ent, s, pcs) \cap E = {} <=> Cardinality(HeldBy(ent, s, pcs) \cap E) = 0
<1> DEFINE H == HeldBy(ent, s, pcs)
<1>1. HeldBy(fresh, s, pcs) = H \ E
  BY DEF Dies, HeldBy, Holds, NoEntry, WriteLocked, ReadLocked
<1>2. IsFiniteSet(H)
  BY HeldFinite
<1> HIDE DEF H
<1>3. IsFiniteSet(H \cap E)
  BY <1>2, FS_Intersection
<1> QED
  BY <1>1, <1>2, <1>3, FS_Difference, FS_CardinalityType, FS_EmptySet DEF H

LEMMA WorkerRestartInv ==
    ASSUME Inv, NEW w \in Worker, WorkerRestart(w)
    PROVE  Inv'
<1>0. PICK mine \in SUBSET Entry : mine = {e \in Entry : ~Has(e, {"idle"}) /\ entry[e].w = w}
  OBVIOUS
<1> DEFINE reads == [s \in Slot |-> Cardinality({e \in mine : Has(e, ReadLocked) /\ At(e) = s})]
           writes == {At(e) : e \in {x \in mine : Has(x, WriteLocked)}}
<1>1. /\ leaked' = [s \in Slot |-> [writer |-> leaked[s].writer \/ s \in writes,
                                    readers |-> leaked[s].readers + reads[s]]]
      /\ entry' = [e \in Entry |-> IF e \in mine THEN NoEntry ELSE entry[e]]
      /\ lastId' = [lastId EXCEPT ![w] = 0]
      /\ UNCHANGED <<slot, cell, toDisk, fromDisk, diskerVars, lastVer, strayed, hollow>>
  BY <1>0 DEF WorkerRestart, Leak
<1>2. \A s \in Slot : /\ reads[s] = Cardinality(HeldBy(entry, s, ReadLocked) \cap mine)
                      /\ s \in writes <=> HeldBy(entry, s, WriteLocked) \cap mine # {}
  <2> SUFFICES ASSUME NEW s \in Slot
               PROVE  /\ reads[s] = Cardinality(HeldBy(entry, s, ReadLocked) \cap mine)
                      /\ s \in writes <=> HeldBy(entry, s, WriteLocked) \cap mine # {}
    OBVIOUS
  <2>1. {e \in mine : Has(e, ReadLocked) /\ At(e) = s} = HeldBy(entry, s, ReadLocked) \cap mine
    BY DEF HeldBy, Holds, Has, At
  <2>2. s \in writes <=> HeldBy(entry, s, WriteLocked) \cap mine # {}
    BY DEF HeldBy, Holds, Has, At
  <2> QED
    BY <2>1, <2>2
<1> HIDE DEF reads, writes
<1>3. /\ leaked \in [Slot -> [writer: BOOLEAN, readers: Nat]]
      /\ entry \in [Entry -> EntryType \cup {NoEntry}] /\ lastId \in [Worker -> Nat]
  BY DEF Inv, Types
<1>4. \A s \in Slot : leaked'[s] = [writer |-> leaked[s].writer \/ s \in writes,
                                    readers |-> leaked[s].readers + reads[s]]
  BY <1>1
<1>5. \A e \in Entry : (e \in mine => entry'[e] = NoEntry) /\ (e \notin mine => entry'[e] = entry[e])
  BY <1>1
<1>6. ASSUME NEW s \in Slot
      PROVE  /\ leaked'[s] \in [writer: BOOLEAN, readers: Nat]
             /\ LockOK(slot'[s], Writers(s)', Readers(s)')
  <2> DEFINE nr == Cardinality(HeldBy(entry, s, ReadLocked) \cap mine)
             nw == Cardinality(HeldBy(entry, s, WriteLocked) \cap mine)
  <2>1. /\ Writing(s) \in Nat /\ Reading(s) \in Nat /\ Late(s) \in Nat /\ leaked[s].readers \in Nat
        /\ LockOK(slot[s], Writers(s), Readers(s))
    BY CountTypes DEF Inv, Locks
  <2>0. Dies(entry, mine, entry')
    BY <1>5 DEF Dies
  <2>2. nr \in Nat /\ Cardinality(HeldBy(entry', s, ReadLocked)) = Cardinality(HeldBy(entry, s, ReadLocked)) - nr
    BY <2>0, HeldDies
  <2>3. /\ nw \in Nat /\ Cardinality(HeldBy(entry', s, WriteLocked)) = Cardinality(HeldBy(entry, s, WriteLocked)) - nw
        /\ HeldBy(entry, s, WriteLocked) \cap mine = {} <=> nw = 0
    BY <2>0, HeldDies
  <2>4. /\ Reading(s)' = Reading(s) - nr /\ Writing(s)' = Writing(s) - nw
        /\ Writing(s)' \in Nat
    BY <2>2, <2>3, HeldFinite DEF Reading, Writing
  <2>5. s \in writes <=> nw # 0
    BY <1>2, <2>3
  <2>6. reads[s] = nr
    BY <1>2
  <2> HIDE DEF nr, nw
  <2> DEFINE lw == leaked[s].writer \/ s \in writes
             lr == leaked[s].readers + reads[s]
  <2>8. /\ lw \in BOOLEAN /\ lr \in Nat /\ lr = leaked[s].readers + nr
        /\ leaked'[s] = [writer |-> lw, readers |-> lr]
        /\ lw <=> (leaked[s].writer \/ nw # 0)
    BY <1>4, <2>1, <2>2, <2>5, <2>6
  <2> HIDE DEF lw, lr
  <2>7. leaked'[s].readers = leaked[s].readers + nr
    BY <2>8, LeakedFacts
  <2>9. leaked'[s].writer <=> (leaked[s].writer \/ nw # 0)
    BY <2>8, LeakedFacts
  <2>10. leaked'[s] \in [writer: BOOLEAN, readers: Nat]
    BY <2>8, LeakedFacts
  <2>11. Readers(s)' = Readers(s)
    <3>1. Readers(s)' = Reading(s)' + leaked'[s].readers + Late(s)
      BY <1>1 DEF Readers, Late, diskerVars
    <3>2. Readers(s) = Reading(s) + leaked[s].readers + Late(s)
      BY DEF Readers
    <3> QED
      BY <2>1, <2>2, <2>4, <2>7, <3>1, <3>2
  <2>12. Writers(s)' = Writers(s)
    <3> DEFINE b == IF Rebuilds(rebuild, s) THEN 1 ELSE 0
               l == leaked[s].writer
               m == leaked'[s].writer
               n == IF slot[s].writer THEN 1 ELSE 0
    <3>1. Writers(s) = Writing(s) + b + (IF l THEN 1 ELSE 0) /\ b \in 0 .. 1
      BY DEF Writers
    <3>2. Writers(s)' = Writing(s)' + b + (IF m THEN 1 ELSE 0)
      BY <1>1 DEF Writers, diskerVars
    <3>3. (m <=> (l \/ nw # 0)) /\ Writers(s) = n /\ n \in 0 .. 1
      BY <2>1, <2>9 DEF LockOK
    <3> HIDE DEF b, l, m, n
    <3>4. CASE nw = 0
      BY <2>1, <2>4, <3>1, <3>2, <3>3, <3>4
    <3>5. CASE nw # 0
      <4>1. Writing(s) = 1 /\ nw = 1 /\ b = 0 /\ ~l
        BY <2>1, <2>3, <2>4, <3>1, <3>3, <3>5
      <4>2. Writing(s)' = 0 /\ m
        BY <2>4, <3>3, <3>5, <4>1
      <4> QED
        BY <3>1, <3>2, <4>1, <4>2
    <3> QED
      BY <3>4, <3>5
  <2> QED
    BY <1>1, <2>1, <2>10, <2>11, <2>12
<1>7. Types'
  <2>1. leaked' \in [Slot -> [writer: BOOLEAN, readers: Nat]]
    BY <1>1, <1>6
  <2>2. entry' \in [Entry -> EntryType \cup {NoEntry}] /\ lastId' \in [Worker -> Nat]
    BY <1>1, <1>3
  <2> QED
    BY <1>1, <2>1, <2>2 DEF Inv, Types, diskerVars
<1>8. Locks'
  BY <1>6 DEF Locks
<1>9. \A e \in Entry : entry'[e].pc # "idle" => entry'[e] = entry[e]
  BY <1>5 DEF NoEntry
<1>10. Owned' /\ CellsMatch' /\ RebuildMatches'
  BY <1>1, <1>9 DEF Inv, Owned, CellsMatch, RebuildMatches, At, diskerVars, WriteLocked, ReadLocked
<1>11. VersionsMatch' /\ WritesMatch'
  BY <1>1, <1>9 DEF Inv, VersionsMatch, WritesMatch, At, WriteLocked
<1> QED
  BY <1>7, <1>8, <1>10, <1>11 DEF Inv

-----------------------------------------------------------------------------
(* Every reachable state                                                   *)

LEMMA InitInv == Init => Inv
<1> SUFFICES ASSUME Init PROVE Inv
  OBVIOUS
<1> DEFINE S0 == [state |-> "Empty", writer |-> FALSE, readers |-> 0,
                  freed |-> FALSE, key |-> NoKey, ver |-> 0]
           L0 == [writer |-> FALSE, readers |-> 0]
<1>1. S0 \in SlotType /\ S0.writer = FALSE /\ S0.state = "Empty" /\ S0.readers = 0
  BY DEF SlotType
<1>2. L0 \in [writer: BOOLEAN, readers: Nat] /\ L0.writer = FALSE /\ L0.readers = 0
  OBVIOUS
<1>3. slot = [s \in Slot |-> S0] /\ leaked = [s \in Slot |-> L0]
  BY DEF Init
<1> HIDE DEF S0, L0
<1>4. \A s \in Slot : slot[s] = S0 /\ leaked[s] = L0
  BY <1>3
<1>5. \A e \in Entry : entry[e].pc = "idle"
  BY DEF Init, NoEntry
<1>6. rebuild.pc = "scan" /\ late = <<>>
  BY DEF Init
<1>7. Sent(toDisk) = {} /\ Sent(fromDisk) = {}
  BY DEF Init, Sent
<1>8. Types
  <2>1. cell \in [Slot -> Cell]
    BY RockAssumption DEF Init, Cell
  <2>2. NoCell \in Cell
    BY RockAssumption DEF NoCell, Cell
  <2>3. rebuild \in [pc: {"scan", "open", "opened", "off"}, filen: Nat \ {0}, found: Cell]
    BY <2>2 DEF Init
  <2>4. slot \in [Slot -> SlotType] /\ leaked \in [Slot -> [writer: BOOLEAN, readers: Nat]]
    BY <1>1, <1>2, <1>3
  <2>5. entry \in [Entry -> EntryType \cup {NoEntry}] /\ lastId \in [Worker -> Nat] /\ lastVer \in Nat
    BY DEF Init
  <2>6. toDisk \in [Worker -> Seq(Request)] /\ fromDisk \in [Worker -> Seq(Response)] /\ late \in Seq(Slot)
    BY DEF Init
  <2> QED
    BY <2>1, <2>3, <2>4, <2>5, <2>6 DEF Types
<1>9. Locks
  <2> SUFFICES ASSUME NEW s \in Slot PROVE LockOK(slot[s], Writers(s), Readers(s))
    BY DEF Locks
  <2>1. HeldBy(entry, s, WriteLocked) = {} /\ HeldBy(entry, s, ReadLocked) = {} /\ Releases(late, s) = {}
    BY <1>5, <1>6 DEF HeldBy, Holds, Releases, WriteLocked, ReadLocked
  <2>2. Writing(s) = 0 /\ Reading(s) = 0 /\ Late(s) = 0
    BY <2>1, FS_EmptySet DEF Writing, Reading, Late
  <2>3. ~Rebuilds(rebuild, s) /\ ~leaked[s].writer /\ leaked[s].readers = 0
    BY <1>2, <1>4, <1>6 DEF Rebuilds
  <2>4. Writers(s) = 0 /\ Readers(s) = 0
    BY <2>2, <2>3 DEF Writers, Readers
  <2> QED
    BY <1>1, <1>4, <2>4 DEF LockOK
<1>10. Owned /\ CellsMatch /\ RebuildMatches
  BY <1>1, <1>4, <1>5, <1>6 DEF Owned, CellsMatch, RebuildMatches, WriteLocked, ReadLocked
<1>11. VersionsMatch /\ WritesMatch
  BY <1>5, <1>7 DEF VersionsMatch, WritesMatch, WriteLocked
<1> QED
  BY <1>8, <1>9, <1>10, <1>11 DEF Inv

LEMMA StutterInv ==
    ASSUME Inv, UNCHANGED vars
    PROVE  Inv'
<1>1. UNCHANGED <<slot, entry, cell, toDisk, fromDisk, lastId, rebuild, late, lastVer, leaked, strayed, hollow>>
  BY DEF vars, ioVars, diskerVars, histVars
<1>2. /\ fromDisk \in [Worker -> Seq(Response)]
      /\ rebuild \in [pc: {"scan", "open", "opened", "off"}, filen: Nat \ {0}, found: Cell]
  BY DEF Inv, Types
<1> QED
  BY <1>1, <1>2, QuietInv

LEMMA NextInv == Inv /\ [Next]_vars => Inv'
<1> SUFFICES ASSUME Inv, [Next]_vars PROVE Inv'
  OBVIOUS
<1>1. CASE \E e \in Entry, w \in Worker, k \in Key : get(e, w, k) \/ createStoreIO(e, w, k)
  BY <1>1, GetInv, CreateInv
<1>2. CASE \E e \in Entry : \/ disconnect(e) \/ release(e)
                            \/ startWriting(e) \/ closeWriterGone(e)
                            \/ WriteTimeout(e) \/ storeSwapOutFileClosed(e)
  BY <1>2, DisconnectInv, StartWritingInv, CloseWriterGoneInv, WriteTimeoutInv, FileClosedInv
<1>3. CASE \E w \in Worker : \/ HandleResponse(w) \/ readCompletedWithError(w)
                            \/ diskerWrite(w) \/ WorkerRestart(w)
  BY <1>3, HandleResponseInv, ReadErrorInv, DiskerWriteInv, WorkerRestartInv
<1>4. CASE \/ doOneEntry \/ addEntryOpens \/ addEntryCloses
           \/ RebuildDone \/ storeLateRelease \/ DiskerRestart
  BY <1>4, DoOneEntryInv, AddEntryOpensInv, AddEntryClosesInv, RebuildDoneInv, LateReleaseInv,
     DiskerRestartInv
<1>5. CASE UNCHANGED vars
  BY <1>5, StutterInv
<1> QED
  BY <1>1, <1>2, <1>3, <1>4, <1>5 DEF Next

\* The inductive invariant of a Rock cache_dir that is used by several
\* workers, rebuilt by the disker and survives restarts of both.
THEOREM InvHolds == Spec => []Inv
  BY InitInv, NextInv, PTL DEF Spec

\* Every lock of the shared map has its holder, on all paths by which
\* entries take and leave slots (get(), createStoreIO(), writeCompleted(),
\* disconnect(), unlink(), addEntry(), late releases and restarts).
THEOREM LocksAlwaysHaveHolders == Spec => []LocksHaveHolders
<1>1. Inv => LocksHaveHolders
  <2> SUFFICES ASSUME Inv, NEW s \in Slot
               PROVE  /\ Writers(s) = IF slot[s].writer THEN 1 ELSE 0
                      /\ slot[s].writer <=> slot[s].state = "Writeable"
                      /\ slot[s].readers = Readers(s)
    BY DEF LocksHaveHolders, Writers, Readers, Writing, Reading, Late, HeldBy, Holds, Releases,
           Rebuilds, Has, At
  <2> QED
    BY DEF Inv, Locks, LockOK
<1> QED
  BY <1>1, InvHolds, PTL

\* An entry that is open for reading finds in its slot, and in the slot's
\* disk cell, what was stored for it ("the disk entry remains open for
\* reading, protected from modifications"), but for the three ways out
\* that the history variables record.
THEOREM ReadersFindTheirEntries == Spec => []ReaderFindsItsEntry
<1>1. Inv => ReaderFindsItsEntry
  <2> SUFFICES ASSUME Inv, NEW e \in Entry, entry[e].pc \in ReadLocked
               PROVE  /\ slot[At(e)].state = "Readable"
                      /\ slot[At(e)].key = entry[e].key /\ slot[At(e)].ver = entry[e].ver
                      /\ At(e) \notin strayed \cup hollow
                            => cell[At(e)] = [key |-> entry[e].key, ver |-> entry[e].ver]
    BY DEF ReaderFindsItsEntry, Has
  <2>1. /\ slot[At(e)].state = "Readable"
        /\ slot[At(e)].key = entry[e].key /\ slot[At(e)].ver = entry[e].ver
    BY DEF Inv, Owned
  <2>2. At(e) \in Slot
    BY ReaderLocks DEF Inv
  <2>3. cell[At(e)] \in Cell
    BY <2>2 DEF Inv, Types
  <2>4. ASSUME At(e) \notin strayed \cup hollow
        PROVE  cell[At(e)].key = entry[e].key /\ cell[At(e)].ver = entry[e].ver
    BY <2>1, <2>2, <2>4 DEF Inv, CellsMatch
  <2>5. At(e) \notin strayed \cup hollow => cell[At(e)] = [key |-> entry[e].key, ver |-> entry[e].ver]
    BY <2>3, <2>4 DEF Cell
  <2> QED
    BY <2>1, <2>5
<1> QED
  BY <1>1, InvHolds, PTL
=============================================================================
