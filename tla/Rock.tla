--------------------------------- MODULE Rock ---------------------------------
(***************************************************************************)
(* The Rock cache_dir: Rock::SwapDir and Rock::IoState in several workers, *)
(* Rock::Rebuild and disk I/O in the disker.  The index is an              *)
(* Ipc::StoreMap in shared memory; module StoreMap shows that its          *)
(* operations may be taken as atomic by callers that hold the slot's lock. *)
(* Requests travel through the queues of module IpcIo, which survive the   *)
(* processes that use them, as does the index.                             *)
(***************************************************************************)
EXTENDS Naturals, FiniteSets, Sequences

CONSTANTS
    Worker, Entry,   \* processes; StoreEntry objects with a swap_filen
    Key, SlotOf,     \* keys and slotIndexByKey()
    entryLimit,      \* number of slots and of disk cells
    Scenarios,       \* what cells may hold when Squid starts, and a bound
                     \* on restarts of kids and failed reads
    maxVer           \* bound: versions of cached responses

Slot == 1..entryLimit

ASSUME RockAssumption ==
    /\ SlotOf \in [Key -> Slot] /\ "none" \notin Key /\ Key # {}
    /\ entryLimit \in Nat /\ IsFiniteSet(Entry)
    /\ Scenarios \subseteq [cells: [Slot -> [key: Key, ver: Nat]], faults: Nat]

VARIABLES
    slot,       \* StoreMap slots: state, lock, key and basics (ver)
    cell,       \* disk cells: what was last written to them
    entry,      \* StoreEntry objects that hold a slot
    toDisk,     \* write requests queued for the disker, by worker
    fromDisk,   \* its responses
    lastId,     \* lastRequestId of each worker
    broken,     \* workers whose IpcIoFile has error_ set
    rebuild,    \* Rock::Rebuild job of the disker
    late,       \* LateReleaseStack of the disker
    lastVer,    \* last version given to a response
    faults,     \* restarts and failed reads still to come
    leaked,     \* locks left by dead processes (history)
    strayed,    \* cells last written by an abandoned request (history)
    hollow      \* slots published without their own write (history)

histVars == <<leaked, strayed, hollow>>
ioVars == <<cell, toDisk, fromDisk, lastId, broken>>
diskerVars == <<rebuild, late>>
vars == <<slot, entry, ioVars, diskerVars, lastVer, faults, histVars>>

NoKey == "none"
NoEntry == [pc |-> "idle"]
NoCell == [key |-> CHOOSE k \in Key : TRUE, ver |-> 0]
Has(e, pcs) == entry[e].pc \in pcs
At(e) == SlotOf[entry[e].key]
NewEntry == CHOOSE e \in Entry : Has(e, {"idle"})
WriteLocked == {"buffering", "writing", "failed", "stuck"}
ReadLocked == {"closing", "reading"}

Init ==
    /\ \E sc \in Scenarios : cell = sc.cells /\ faults = sc.faults
    /\ slot = [s \in Slot |-> [state |-> "Empty", writer |-> FALSE, readers |-> 0,
                               freed |-> FALSE, key |-> NoKey, ver |-> 0]]
    /\ entry = [e \in Entry |-> NoEntry]
    /\ toDisk = [w \in Worker |-> <<>>] /\ fromDisk = [w \in Worker |-> <<>>]
    /\ lastId = [w \in Worker |-> 0] /\ broken = {}
    /\ rebuild = [pc |-> "scan", filen |-> 1, found |-> NoCell]
    /\ late = <<>>
    /\ lastVer = 2
    /\ leaked = [s \in Slot |-> [writer |-> FALSE, readers |-> 0]]
    /\ strayed = {} /\ hollow = {}

-----------------------------------------------------------------------------
(* Operations of Ipc::StoreMap on a slot                                   *)

Unlocked(s) == ~s.writer /\ s.readers = 0
Opens(s, k) == ~s.writer /\ s.state = "Readable" /\ ~s.freed /\ s.key = k
openForReading(s) == [s EXCEPT !.readers = @ + 1]
closeForReading(s) == [s EXCEPT !.readers = @ - 1]
openForWriting(s) == [s EXCEPT !.state = "Writeable", !.writer = TRUE, !.freed = FALSE]
set(s, k, v) == [s EXCEPT !.key = k, !.ver = v]
closeForWriting(s, lockForReading) ==
    [s EXCEPT !.state = "Readable", !.writer = FALSE,
              !.readers = @ + (IF lockForReading THEN 1 ELSE 0)]
freeLocked(s) == [s EXCEPT !.state = "Empty", !.freed = FALSE, !.writer = FALSE]
free(s) == IF Unlocked(s) THEN freeLocked(s) ELSE [s EXCEPT !.freed = TRUE]

(* The slot's state tells the writer from a reader.                        *)
abortIo(s) == IF s.state = "Writeable" THEN freeLocked(s) ELSE closeForReading(s)

unlink(s) == abortIo(free(s))

-----------------------------------------------------------------------------
(* Workers: reading                                                        *)

(* SwapDir::get() leaves the slot locked for reading.                      *)
get(e, w, k) ==
    /\ Has(e, {"idle"}) /\ e = NewEntry
    /\ Opens(slot[SlotOf[k]], k)
    /\ slot' = [slot EXCEPT ![SlotOf[k]] = openForReading(@)]
    /\ entry' = [entry EXCEPT ![e] = [pc |-> "reading", w |-> w, key |-> k,
                                      ver |-> slot[SlotOf[k]].ver, id |-> 0]]
    /\ UNCHANGED <<ioVars, diskerVars, lastVer, faults, histVars>>

(* The last user of the entry is gone: ~StoreEntry() calls disconnect().   *)
disconnect(e) ==
    /\ Has(e, {"reading"})
    /\ slot' = [slot EXCEPT ![At(e)] = abortIo(@)]
    /\ entry' = [entry EXCEPT ![e] = NoEntry]
    /\ UNCHANGED <<ioVars, diskerVars, lastVer, faults, histVars>>

(* release(), for an entry that is stale, was purged or is a victim of     *)
(* maintain().                                                             *)
release(e) ==
    /\ Has(e, {"reading"})
    /\ slot' = [slot EXCEPT ![At(e)] = unlink(@)]
    /\ entry' = [entry EXCEPT ![e] = NoEntry]
    /\ UNCHANGED <<ioVars, diskerVars, lastVer, faults, histVars>>

-----------------------------------------------------------------------------
(* Workers: writing                                                        *)

(* A read is answered with an error.  Reads take no locks and are modelled *)
(* no further; error_ is not reset before the worker restarts.             *)
readCompletedWithError(w) ==
    /\ faults > 0 /\ faults' = faults - 1
    /\ broken' = broken \cup {w}
    /\ UNCHANGED <<slot, entry, cell, toDisk, fromDisk, lastId, diskerVars, lastVer, histVars>>

createStoreIO(e, w, k) ==
    /\ Has(e, {"idle"}) /\ e = NewEntry /\ lastVer < maxVer
    /\ w \notin broken
    /\ Unlocked(slot[SlotOf[k]])
    /\ lastVer' = lastVer + 1
    /\ slot' = [slot EXCEPT ![SlotOf[k]] = set(openForWriting(@), k, lastVer')]
    /\ entry' = [entry EXCEPT ![e] = [pc |-> "buffering", w |-> w, key |-> k,
                                      ver |-> lastVer', id |-> 0]]
    /\ UNCHANGED <<ioVars, diskerVars, faults, histVars>>

(* Faulty: the failed write gives its slot up at once.                     *)
writeCompletedFaulty(e, ok) ==
    /\ slot' = [slot EXCEPT ![At(e)] = IF ok THEN closeForWriting(@, TRUE) ELSE freeLocked(@)]
    /\ entry' = [entry EXCEPT ![e].pc = IF ok THEN "closing" ELSE "failed", ![e].id = 0]

(* SwapDir::writeCompleted().  An error leaves the entry its write lock.   *)
writeCompleted(e, ok) ==
    /\ slot' = [slot EXCEPT ![At(e)] = IF ok THEN closeForWriting(@, TRUE) ELSE free(@)]
    /\ entry' = [entry EXCEPT ![e].pc = IF ok THEN "closing" ELSE "failed", ![e].id = 0]

(* An exception leaves storeClose() with flags.closing set and no callback *)
(* scheduled: no later storeClose() does anything.                         *)
closeThrows(e) ==
    /\ entry' = [entry EXCEPT ![e].pc = "stuck"]
    /\ UNCHANGED <<slot, toDisk>>

(* close(wroteAll) after all write() calls.  Must(!error_) comes first;    *)
(* IpcIoFile::push() then queues the request, fails to, or is left by an   *)
(* exception of a read nested in HandleResponses(), after another response *)
(* has set error_.                                                         *)
startWriting(e) ==
    /\ Has(e, {"buffering"})
    /\ LET w == entry[e].w IN
       \/ w \in broken /\ closeThrows(e) /\ UNCHANGED <<lastId, broken>>
       \/ /\ w \notin broken
          /\ lastId' = [lastId EXCEPT ![w] = @ + 1]
          /\ \/ /\ toDisk' = [toDisk EXCEPT ![w] = Append(@,
                       [id |-> lastId'[w], key |-> entry[e].key, ver |-> entry[e].ver])]
                /\ entry' = [entry EXCEPT ![e].pc = "writing", ![e].id = lastId'[w]]
                /\ UNCHANGED <<slot, broken>>
             \/ writeCompleted(e, FALSE) /\ UNCHANGED <<toDisk, broken>>
             \/ closeThrows(e) /\ broken' = broken \cup {w}
    /\ UNCHANGED <<cell, fromDisk, diskerVars, lastVer, faults, histVars>>

(* close(writerGone): only the callback is scheduled.                      *)
closeWriterGone(e) ==
    /\ Has(e, {"buffering"})
    /\ entry' = [entry EXCEPT ![e].pc = "failed"]
    /\ UNCHANGED <<slot, ioVars, diskerVars, lastVer, faults, histVars>>

(* IpcIoFile finds the request by its id, which starts again from zero in  *)
(* a restarted worker; other responses are late.  An error sets error_.    *)
HandleResponse(w) ==
    /\ fromDisk[w] # <<>>
    /\ fromDisk' = [fromDisk EXCEPT ![w] = Tail(@)]
    /\ LET r == Head(fromDisk[w])
           match == {e \in Entry : Has(e, {"writing"}) /\ entry[e].w = w /\ entry[e].id = r.id}
       IN  IF match = {} THEN UNCHANGED <<slot, entry, broken, hollow>>
           ELSE \E e \in match :
                  /\ writeCompleted(e, r.ok)
                  /\ broken' = IF r.ok THEN broken ELSE broken \cup {w}
                  /\ hollow' = IF ~r.ok THEN hollow
                               ELSE IF r.ver = entry[e].ver THEN hollow \ {At(e)}
                               ELSE hollow \cup {At(e)}
    /\ UNCHANGED <<cell, toDisk, lastId, diskerVars, lastVer, faults, leaked, strayed>>


(* IpcIoFile::checkTimeouts() abandons the request, wherever it is.        *)
WriteTimeout(e) ==
    /\ Has(e, {"writing"})
    /\ writeCompleted(e, FALSE)
    /\ UNCHANGED <<ioVars, diskerVars, lastVer, faults, histVars>>

(* The close callback.  After an error, or without a known object size,    *)
(* the entry is unlinked.                                                  *)
storeSwapOutFileClosed(e) ==
    /\ \/ /\ Has(e, {"closing"})
          /\ entry' = [entry EXCEPT ![e].pc = "reading"]
          /\ UNCHANGED slot
       \/ /\ Has(e, {"closing", "failed"})
          /\ entry' = [entry EXCEPT ![e] = NoEntry]
          /\ slot' = [slot EXCEPT ![At(e)] = unlink(@)]
    /\ UNCHANGED <<ioVars, diskerVars, lastVer, faults, histVars>>

-----------------------------------------------------------------------------
(* The disker                                                              *)

DiskerFreeFaulty == TRUE

(* doOneEntry() does not return to the main loop.                          *)
DiskerFree == rebuild.pc \in {"scan", "off"}

(* DiskerHandleRequest(): a write of w, which may fail; the response may   *)
(* find no room.                                                           *)
diskerWrite(w) ==
    /\ DiskerFree
    /\ toDisk[w] # <<>>
    /\ toDisk' = [toDisk EXCEPT ![w] = Tail(@)]
    /\ LET r == Head(toDisk[w])
           s == SlotOf[r.key]
           awaited == \E e \in Entry : Has(e, {"writing"}) /\ entry[e].ver = r.ver
           respond(ok) == \/ UNCHANGED fromDisk
                          \/ fromDisk' = [fromDisk EXCEPT ![w] = Append(@,
                                 [id |-> r.id, ver |-> r.ver, ok |-> ok])]
       IN  \/ /\ cell' = [cell EXCEPT ![s] = [key |-> r.key, ver |-> r.ver]]
              /\ strayed' = IF awaited THEN strayed \ {s} ELSE strayed \cup {s}
              /\ respond(TRUE)
           \/ respond(FALSE) /\ UNCHANGED <<cell, strayed>>
    /\ UNCHANGED <<slot, entry, lastId, broken, diskerVars, lastVer, faults, leaked, hollow>>

(* doOneEntry() up to storeRebuildKeepEntry(), which keeps an entry that   *)
(* is as new.  The release() of an older one is put off until rebuilding   *)
(* ends, and so is its read lock.                                          *)
doOneEntry ==
    /\ rebuild.pc = "scan" /\ rebuild.filen <= entryLimit
    /\ LET found == cell[rebuild.filen]
           s == SlotOf[found.key]
           known == Opens(slot[s], found.key)
           kept == known /\ slot[s].ver >= found.ver
           old == known /\ ~kept
       IN  /\ rebuild' = IF found.ver = 0 \/ kept
                         THEN [rebuild EXCEPT !.filen = @ + 1]
                         ELSE [rebuild EXCEPT !.pc = "open", !.found = found]
           /\ slot' = IF old THEN [slot EXCEPT ![s] = openForReading(@)] ELSE slot
           /\ late' = IF old THEN Append(late, s) ELSE late
    /\ UNCHANGED <<entry, ioVars, lastVer, faults, histVars>>

(* addEntry(): the slot is filled if the entry belongs into this cell, and *)
(* published in any case.                                                  *)
addEntryOpens ==
    /\ rebuild.pc = "open"
    /\ LET s == SlotOf[rebuild.found.key]
           here == s = rebuild.filen
           opened == openForWriting(slot[s])
       IN  IF Unlocked(slot[s])
           THEN /\ rebuild' = [rebuild EXCEPT !.pc = "opened"]
                /\ slot' = [slot EXCEPT ![s] = IF here
                              THEN set(opened, rebuild.found.key, rebuild.found.ver)
                              ELSE opened]
           ELSE /\ rebuild' = [pc |-> "scan", filen |-> rebuild.filen + 1, found |-> NoCell]
                /\ UNCHANGED slot
    /\ UNCHANGED <<entry, ioVars, late, lastVer, faults, histVars>>

addEntryCloses ==
    /\ rebuild.pc = "opened"
    /\ LET s == SlotOf[rebuild.found.key]
       IN  /\ slot' = [slot EXCEPT ![s] = closeForWriting(@, FALSE)]
           /\ hollow' = IF s = rebuild.filen THEN hollow \ {s} ELSE hollow \cup {s}
    /\ rebuild' = [pc |-> "scan", filen |-> rebuild.filen + 1, found |-> NoCell]
    /\ UNCHANGED <<entry, ioVars, late, lastVer, faults, leaked, strayed>>

RebuildDone ==
    /\ rebuild.pc = "scan" /\ rebuild.filen > entryLimit
    /\ rebuild' = [rebuild EXCEPT !.pc = "off"]
    /\ UNCHANGED <<slot, entry, ioVars, late, lastVer, faults, histVars>>

storeLateRelease ==
    /\ rebuild.pc = "off" /\ late # <<>>
    /\ late' = SubSeq(late, 1, Len(late) - 1)
    /\ slot' = [slot EXCEPT ![late[Len(late)]] = unlink(@)]
    /\ UNCHANGED <<entry, ioVars, rebuild, lastVer, faults, histVars>>

-----------------------------------------------------------------------------
(* Restarts: nobody breaks the locks of a dead kid.                        *)

Leak(reads, writes) ==
    leaked' = [s \in Slot |-> [writer |-> leaked[s].writer \/ s \in writes,
                               readers |-> leaked[s].readers + reads[s]]]

DiskerRestart ==
    /\ faults > 0 /\ faults' = faults - 1
    /\ Leak([s \in Slot |-> Cardinality({i \in DOMAIN late : late[i] = s})],
            IF rebuild.pc = "opened" THEN {SlotOf[rebuild.found.key]} ELSE {})
    /\ rebuild' = [pc |-> "scan", filen |-> 1, found |-> NoCell]
    /\ late' = <<>>
    /\ UNCHANGED <<slot, entry, ioVars, lastVer, strayed, hollow>>

WorkerRestart(w) ==
    /\ faults > 0 /\ faults' = faults - 1
    /\ LET mine == {e \in Entry : ~Has(e, {"idle"}) /\ entry[e].w = w}
       IN  /\ Leak([s \in Slot |-> Cardinality({e \in mine : Has(e, ReadLocked) /\ At(e) = s})],
                   {At(e) : e \in {x \in mine : Has(x, WriteLocked)}})
           /\ entry' = [e \in Entry |-> IF e \in mine THEN NoEntry ELSE entry[e]]
    /\ lastId' = [lastId EXCEPT ![w] = 0] /\ broken' = broken \ {w}
    /\ UNCHANGED <<slot, cell, toDisk, fromDisk, diskerVars, lastVer, strayed, hollow>>

-----------------------------------------------------------------------------

Next ==
    \/ \E e \in Entry, w \in Worker, k \in Key : get(e, w, k) \/ createStoreIO(e, w, k)
    \/ \E e \in Entry :
          \/ disconnect(e) \/ release(e)
          \/ startWriting(e) \/ closeWriterGone(e)
          \/ WriteTimeout(e) \/ storeSwapOutFileClosed(e)
    \/ \E w \in Worker : \/ HandleResponse(w) \/ readCompletedWithError(w)
                         \/ diskerWrite(w) \/ WorkerRestart(w)
    \/ doOneEntry \/ addEntryOpens \/ addEntryCloses
    \/ RebuildDone \/ storeLateRelease \/ DiskerRestart

(* Timeout checks, close callbacks and rebuilding steps are events of the  *)
(* main loop; that a swapout is finished or given up is up to its entry.   *)
Fairness ==
    /\ \A e \in Entry :
          /\ WF_vars(startWriting(e) \/ closeWriterGone(e))
          /\ WF_vars(WriteTimeout(e)) /\ WF_vars(storeSwapOutFileClosed(e))
    /\ WF_vars(doOneEntry \/ addEntryOpens \/ addEntryCloses \/ RebuildDone)

Spec == Init /\ [][Next]_vars /\ Fairness

-----------------------------------------------------------------------------

TypeOK ==
    /\ slot \in [Slot -> [state: {"Empty", "Writeable", "Readable"}, writer: BOOLEAN,
                          readers: Nat, freed: BOOLEAN, key: Key \cup {NoKey}, ver: Nat]]
    /\ cell \in [Slot -> [key: Key, ver: Nat]]
    /\ rebuild.pc \in {"scan", "open", "opened", "off"}
    /\ broken \subseteq Worker
    /\ \A e \in Entry : Has(e, {"idle"} \cup WriteLocked \cup ReadLocked)

(* What get() says of the slot it has locked: "the disk entry remains open *)
(* for reading, protected from modifications".  An entry in use finds the  *)
(* slot and the disk cell as they were written for it, while other kids    *)
(* write, free, rebuild and restart.  Three ways out are excluded, each by *)
(* its cause: a write that landed after its writer had given it up, a slot *)
(* that addEntry() published for an entry of another cell, and a write     *)
(* taken for done by the response to a dead worker's request.              *)
ReaderFindsItsEntry ==
    \A e \in Entry : Has(e, ReadLocked) =>
        LET s == At(e) IN
        /\ slot[s].state = "Readable"
        /\ slot[s].key = entry[e].key /\ slot[s].ver = entry[e].ver
        /\ s \notin strayed \cup hollow
              => cell[s] = [key |-> entry[e].key, ver |-> entry[e].ver]

(* "since e has swap_filen, its slot is locked for either reading or       *)
(* writing" (disconnect()): every lock of the map belongs to one entry, to *)
(* the rebuild job or to a dead process, whatever path an entry took to    *)
(* its end.  A lock too many makes the slot useless for good; one too few  *)
(* lets a writer in under a reader.                                        *)
LocksHaveHolders ==
    \A s \in Slot :
        LET held(pcs) == {e \in Entry : Has(e, pcs) /\ At(e) = s}
            rebuilds == rebuild.pc = "opened" /\ SlotOf[rebuild.found.key] = s
            writers == Cardinality(held(WriteLocked)) + (IF rebuilds THEN 1 ELSE 0)
                         + (IF leaked[s].writer THEN 1 ELSE 0)
        IN  /\ writers = IF slot[s].writer THEN 1 ELSE 0
            /\ slot[s].writer <=> slot[s].state = "Writeable"
            /\ slot[s].readers = Cardinality(held(ReadLocked)) + leaked[s].readers
                                   + Cardinality({i \in DOMAIN late : late[i] = s})


=============================================================================
