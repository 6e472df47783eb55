------------------------------ MODULE ReqQueue ------------------------------
(***************************************************************************)
(* The event queue of the kernel library (kbase/req-queue.c): two lists of *)
(* request records, one per pool type, filled by the hook handlers at any  *)
(* moment and drained by the user-mode client that is connected.           *)
(*                                                                         *)
(* A step is what the code does between two points at which another thread *)
(* can interfere: an interlocked operation, a read of an unprotected flag, *)
(* or a whole critical section of one of the list locks.  Consecutive      *)
(* interlocked updates of the statistics counters commute with everything  *)
(* else and are one step.                                                  *)
(***************************************************************************)
EXTENDS Integers, Sequences, FiniteSets, SequencesExt

CONSTANTS
  Requests,      \* the request records (memory blocks), each used at most once
  Paged,         \* those allocated from paged pool (REQUEST_FLAG_PAGED)
  Producers,     \* threads that report requests (hook handlers)
  Clients,       \* threads that issue the queue IOCTLs
  Getters,       \* the clients that read requests
  MaxSnapshot,   \* the most records one connect lists as a snapshot
  CollectValues, \* values ReqQueueCollectWhenDisconnected may be set to
  ClearValues,   \* values ReqQueueClearOnDisconnect may be set to
  Nobody         \* "no thread"

Threads == Producers \cup Clients

ASSUME QueueAssumption ==
  /\ Paged \subseteq Requests
  /\ Producers \cap Clients = {}
  /\ Getters \subseteq Clients
  /\ Nobody \notin Threads
  /\ MaxSnapshot \in Nat
  /\ CollectValues \subseteq BOOLEAN /\ CollectValues # {}
  /\ ClearValues \subseteq BOOLEAN /\ ClearValues # {}
  /\ IsFiniteSet(Requests) /\ IsFiniteSet(Threads)

VARIABLES
  paged,         \* _pagedRequestListHead
  npaged,        \* _npagedRequestListHead
  ioCount,       \* _removeLock.IoCount
  removed,       \* _removeLock.Removed
  removeEvent,   \* _removeLock.RemoveEvent, set when IoCount reaches zero
  connectLock,   \* the holder of _connectLock
  connected,     \* ReqQueueConnected
  collect,       \* ReqQueueCollectWhenDisconnected
  clearOnDisc,   \* ReqQueueClearOnDisconnect
  bootLog,       \* a callback is registered in _callbackList
  lastId,        \* ReqQueueLastRequestId
  length,        \* ReqQueueLength
  pagedLength,   \* ReqQueuePagedLength
  npagedLength,  \* ReqQueueNonPagedLength
  pc,            \* where each thread is
  held,          \* the records each thread has in hand, oldest first
  mem,           \* the fate of each record
  id,            \* Header->Id
  preds          \* history: what was in the queue when the record got its Id

lists    == <<paged, npaged>>
rlock    == <<ioCount, removed, removeEvent>>
settings == <<collect, clearOnDisc>>
counters == <<length, pagedLength, npagedLength>>
ids      == <<lastId, id, preds>>
vars     == <<lists, rlock, connectLock, connected, settings, bootLog, ids,
              counters, pc, held, mem>>

-----------------------------------------------------------------------------
Queued == ToSet(paged) \cup ToSet(npaged)

\* Records RequestQueueGet has unlinked and may put back.
InReadersHand == UNION {ToSet(held[g]) : g \in {h \in Getters : pc[h] = "get.size"}}

IsPaged(r) == r \in Paged

\* Go(t, l): thread t continues at label l.
Go(t, l) == pc' = [pc EXCEPT ![t] = l]

\* Mutant: the last release does not set the event.
ReleaseRemoveLockSilently ==
  /\ ioCount' = ioCount - 1
  /\ UNCHANGED <<removed, removeEvent>>

\* IoReleaseRemoveLock: the event is set when the count reaches zero.
ReleaseRemoveLock ==
  /\ ioCount' = ioCount - 1
  /\ removeEvent' = (removeEvent \/ ioCount = 1)
  /\ UNCHANGED removed

\* IoAcquireRemoveLock succeeds (STATUS_DELETE_PENDING once removed).
AcquireRemoveLock ==
  /\ ~removed
  /\ ioCount' = ioCount + 1
  /\ UNCHANGED <<removed, removeEvent>>

\* Mutant: the counter runs backwards.
AssignIdBackwards(r) ==
  /\ lastId' = lastId - 1
  /\ id' = [id EXCEPT ![r] = lastId - 1]
  /\ preds' = [preds EXCEPT ![r] = Queued \cup InReadersHand]

\* Header->Id = InterlockedIncrement(&ReqQueueLastRequestId), outside any lock.
AssignId(r) ==
  /\ lastId' = lastId + 1
  /\ id' = [id EXCEPT ![r] = lastId + 1]
  /\ preds' = [preds EXCEPT ![r] = Queued \cup InReadersHand]

\* _RequestInsert, under the lock of the record's list.
Link(r, atHead) ==
  IF IsPaged(r)
    THEN /\ paged' = IF atHead THEN <<r>> \o paged ELSE Append(paged, r)
         /\ UNCHANGED npaged
    ELSE /\ npaged' = IF atHead THEN <<r>> \o npaged ELSE Append(npaged, r)
         /\ UNCHANGED paged

\* _RequestInsert, after the list's lock is released.
Count(r) ==
  /\ pagedLength' = pagedLength + (IF IsPaged(r) THEN 1 ELSE 0)
  /\ npagedLength' = npagedLength + (IF IsPaged(r) THEN 0 ELSE 1)
  /\ length' = length + 1

Free(S) == mem' = [r \in Requests |-> IF r \in S THEN "freed" ELSE mem[r]]

NoRepeats(s) == \A i, j \in 1..Len(s) : s[i] = s[j] => i = j

Unused == {r \in Requests : mem[r] = "unused"}

Hold(t, s) == held' = [held EXCEPT ![t] = s]

-----------------------------------------------------------------------------
Init ==
  /\ paged = <<>> /\ npaged = <<>>
  /\ ioCount = 1 /\ removed = FALSE /\ removeEvent = FALSE
  /\ connectLock = Nobody
  /\ connected = FALSE
  /\ collect \in CollectValues
  /\ clearOnDisc \in ClearValues
  /\ bootLog \in BOOLEAN
  /\ lastId = 0
  /\ length = 0 /\ pagedLength = 0 /\ npagedLength = 0
  /\ pc = [t \in Threads |-> "idle"]
  /\ held = [t \in Threads |-> <<>>]
  /\ mem = [r \in Requests |-> "unused"]
  /\ id = [r \in Requests |-> 0]
  /\ preds = [r \in Requests |-> {}]

-----------------------------------------------------------------------------
(* RequestQueueInsert.  The caller has allocated the record.               *)

InsertBegin(p, r) ==
  /\ pc[p] = "idle"
  /\ mem[r] = "unused"
  /\ mem' = [mem EXCEPT ![r] = "live"]
  /\ Hold(p, <<r>>)
  /\ Go(p, IF connected \/ collect THEN "insert.acquire" ELSE "insert.callback")
  /\ UNCHANGED <<lists, rlock, connectLock, connected, settings, bootLog, ids,
                 counters>>

InsertAcquire(p) ==
  /\ pc[p] = "insert.acquire"
  /\ AcquireRemoveLock
  /\ Go(p, "insert.id")
  /\ UNCHANGED <<lists, connectLock, connected, settings, bootLog, ids,
                 counters, held, mem>>

\* STATUS_DELETE_PENDING is not STATUS_CONNECTION_DISCONNECTED: the record
\* is freed, no callback sees it.
InsertRefused(p) ==
  /\ pc[p] = "insert.acquire"
  /\ removed
  /\ Free(ToSet(held[p]))
  /\ Hold(p, <<>>)
  /\ Go(p, "idle")
  /\ UNCHANGED <<lists, rlock, connectLock, connected, settings, bootLog, ids,
                 counters>>

InsertId(p) ==
  /\ pc[p] = "insert.id"
  /\ AssignId(Head(held[p]))
  /\ Go(p, "insert.link")
  /\ UNCHANGED <<lists, rlock, connectLock, connected, settings, bootLog,
                 counters, held, mem>>

InsertLink(p) ==
  /\ pc[p] = "insert.link"
  /\ Link(Head(held[p]), FALSE)
  /\ Go(p, "insert.count")
  /\ UNCHANGED <<rlock, connectLock, connected, settings, bootLog, ids,
                 counters, held, mem>>

InsertCount(p) ==
  /\ pc[p] = "insert.count"
  /\ Count(Head(held[p]))
  /\ Hold(p, <<>>)
  /\ Go(p, "insert.release")
  /\ UNCHANGED <<lists, rlock, connectLock, connected, settings, bootLog, ids,
                 mem>>

InsertRelease(p) ==
  /\ pc[p] = "insert.release"
  /\ ReleaseRemoveLock
  /\ Go(p, "idle")
  /\ UNCHANGED <<lists, connectLock, connected, settings, bootLog, ids,
                 counters, held, mem>>

\* Nobody is connected: the callbacks take the record, if there are any
\* (module CallbackList has the details), else it is freed.
InsertCallback(p) ==
  /\ pc[p] = "insert.callback"
  /\ IF bootLog
       THEN /\ AssignId(Head(held[p]))
            /\ mem' = [mem EXCEPT ![Head(held[p])] = "logged"]
       ELSE /\ Free(ToSet(held[p]))
            /\ UNCHANGED ids
  /\ Hold(p, <<>>)
  /\ Go(p, "idle")
  /\ UNCHANGED <<lists, rlock, connectLock, connected, settings, bootLog,
                 counters>>

-----------------------------------------------------------------------------
(* RequestQueueConnect, then BLDisable (UMRequestQueueConnect).  A second  *)
(* connect finds ReqQueueConnected set and changes nothing.                *)

\* The remove lock is initialised anew, whoever may still hold it.
ConnectBegin(c) ==
  /\ pc[c] = "idle"
  /\ connectLock = Nobody
  /\ ~connected
  /\ connectLock' = c
  /\ ioCount' = 2
  /\ removed' = FALSE
  /\ removeEvent' = FALSE
  /\ Go(c, "connect.list")
  /\ UNCHANGED <<lists, connected, settings, bootLog, ids, counters, held, mem>>

\* ListProcessesByEvents, ListDriversAndDevicesByEvents: a private list of
\* new records, in the order they will be queued.
ConnectList(c) ==
  /\ pc[c] = "connect.list"
  /\ \E s \in SeqOf(Unused, MaxSnapshot) :
       /\ NoRepeats(s)
       /\ Hold(c, s)
       /\ mem' = [r \in Requests |-> IF r \in ToSet(s) THEN "live" ELSE mem[r]]
  /\ Go(c, "connect.id")
  /\ UNCHANGED <<lists, rlock, connectLock, connected, settings, bootLog, ids,
                 counters>>

\* Listing failed half way: what was listed is freed, the lock released.
\* With both snapshot settings off (MaxSnapshot = 0) nothing can fail.
ConnectFail(c) ==
  /\ pc[c] = "connect.list"
  /\ MaxSnapshot > 0
  /\ \E S \in SUBSET Unused : Cardinality(S) <= MaxSnapshot /\ Free(S)
  /\ ReleaseRemoveLock
  /\ connectLock' = Nobody
  /\ Go(c, "idle")
  /\ UNCHANGED <<lists, connected, settings, bootLog, ids, counters, held>>

ConnectId(c) ==
  /\ pc[c] = "connect.id"
  /\ held[c] # <<>>
  /\ AssignId(Head(held[c]))
  /\ Go(c, "connect.link")
  /\ UNCHANGED <<lists, rlock, connectLock, connected, settings, bootLog,
                 counters, held, mem>>

ConnectLink(c) ==
  /\ pc[c] = "connect.link"
  /\ Link(Head(held[c]), FALSE)
  /\ Go(c, "connect.count")
  /\ UNCHANGED <<rlock, connectLock, connected, settings, bootLog, ids,
                 counters, held, mem>>

ConnectCount(c) ==
  /\ pc[c] = "connect.count"
  /\ Count(Head(held[c]))
  /\ Hold(c, Tail(held[c]))
  /\ Go(c, "connect.id")
  /\ UNCHANGED <<lists, rlock, connectLock, connected, settings, bootLog, ids,
                 mem>>

ConnectDone(c) ==
  /\ pc[c] = "connect.id"
  /\ held[c] = <<>>
  /\ connected' = TRUE
  /\ connectLock' = Nobody
  /\ Go(c, "connect.disable")
  /\ UNCHANGED <<lists, rlock, settings, bootLog, ids, counters, held, mem>>

ConnectDisable(c) ==
  /\ pc[c] = "connect.disable"
  /\ bootLog' = FALSE
  /\ Go(c, "idle")
  /\ UNCHANGED <<lists, rlock, connectLock, connected, settings, ids, counters,
                 held, mem>>

-----------------------------------------------------------------------------
(* RequestQueueDisconnect.                                                 *)

\* Mutant: the disconnect does not wait.
DisconnectBeginNoWait(c) ==
  /\ pc[c] = "idle"
  /\ connectLock = Nobody
  /\ connected
  /\ connectLock' = c
  /\ removed' = TRUE
  /\ ioCount' = ioCount - 2
  /\ Go(c, "disconnect.unset")
  /\ UNCHANGED <<lists, removeEvent, connected, settings, bootLog, ids,
                 counters, held, mem>>

\* IoReleaseRemoveLockAndWait gives back two references, its own and the
\* initial one, and waits if others are left.
DisconnectBegin(c) ==
  /\ pc[c] = "idle"
  /\ connectLock = Nobody
  /\ connected
  /\ connectLock' = c
  /\ removed' = TRUE
  /\ ioCount' = ioCount - 2
  /\ Go(c, IF ioCount > 2 THEN "disconnect.wait" ELSE "disconnect.unset")
  /\ UNCHANGED <<lists, removeEvent, connected, settings, bootLog, ids,
                 counters, held, mem>>

DisconnectWait(c) ==
  /\ pc[c] = "disconnect.wait"
  /\ removeEvent
  /\ Go(c, "disconnect.unset")
  /\ UNCHANGED <<lists, rlock, connectLock, connected, settings, bootLog, ids,
                 counters, held, mem>>

DisconnectUnset(c) ==
  /\ pc[c] = "disconnect.unset"
  /\ connected' = FALSE
  /\ Go(c, "disconnect.clear")
  /\ UNCHANGED <<lists, rlock, connectLock, settings, bootLog, ids, counters,
                 held, mem>>

DisconnectKeep(c) ==
  /\ pc[c] = "disconnect.clear"
  /\ ~clearOnDisc
  /\ connectLock' = Nobody
  /\ Go(c, "idle")
  /\ UNCHANGED <<lists, rlock, connected, settings, bootLog, ids, counters,
                 held, mem>>

-----------------------------------------------------------------------------
(* RequestQueueClear: the IOCTL, or the end of a disconnect.  Each list is *)
(* taken over under its lock and freed outside it.                         *)

\* Mutant: the list is not emptied.
ClearNonPagedKept(c) ==
  /\ \/ pc[c] = "idle"
     \/ pc[c] = "disconnect.clear" /\ clearOnDisc
  /\ Hold(c, npaged)
  /\ Go(c, "clear.freeNonPaged")
  /\ UNCHANGED <<lists, rlock, connectLock, connected, settings, bootLog, ids,
                 counters, mem>>

ClearNonPaged(c) ==
  /\ \/ pc[c] = "idle"
     \/ pc[c] = "disconnect.clear" /\ clearOnDisc
  /\ Hold(c, npaged)
  /\ npaged' = <<>>
  /\ Go(c, "clear.freeNonPaged")
  /\ UNCHANGED <<paged, rlock, connectLock, connected, settings, bootLog, ids,
                 counters, mem>>

ClearFreeNonPaged(c) ==
  /\ pc[c] = "clear.freeNonPaged"
  /\ Free(ToSet(held[c]))
  /\ npagedLength' = npagedLength - Len(held[c])
  /\ length' = length - Len(held[c])
  /\ Hold(c, <<>>)
  /\ Go(c, "clear.paged")
  /\ UNCHANGED <<lists, rlock, connectLock, connected, settings, bootLog, ids,
                 pagedLength>>

\* Mutant: the paged list is forgotten.
ClearPagedSkipped(c) ==
  /\ pc[c] = "clear.paged"
  /\ Go(c, "clear.freePaged")
  /\ UNCHANGED <<lists, rlock, connectLock, connected, settings, bootLog, ids,
                 counters, held, mem>>

ClearPaged(c) ==
  /\ pc[c] = "clear.paged"
  /\ Hold(c, paged)
  /\ paged' = <<>>
  /\ Go(c, "clear.freePaged")
  /\ UNCHANGED <<npaged, rlock, connectLock, connected, settings, bootLog, ids,
                 counters, mem>>

\* Mutant: the total is not corrected.
ClearFreePagedUncounted(c) ==
  /\ pc[c] = "clear.freePaged"
  /\ Free(ToSet(held[c]))
  /\ pagedLength' = pagedLength - Len(held[c])
  /\ Hold(c, <<>>)
  /\ connectLock' = IF connectLock = c THEN Nobody ELSE connectLock
  /\ Go(c, "idle")
  /\ UNCHANGED <<lists, rlock, connected, settings, bootLog, ids, npagedLength,
                 length>>

ClearFreePaged(c) ==
  /\ pc[c] = "clear.freePaged"
  /\ Free(ToSet(held[c]))
  /\ pagedLength' = pagedLength - Len(held[c])
  /\ length' = length - Len(held[c])
  /\ Hold(c, <<>>)
  /\ connectLock' = IF connectLock = c THEN Nobody ELSE connectLock
  /\ Go(c, "idle")
  /\ UNCHANGED <<lists, rlock, connected, settings, bootLog, ids, npagedLength>>

-----------------------------------------------------------------------------
(* RequestQueueGet.                                                        *)

\* Mutant: whether anyone is connected is not looked at.
GetBeginAnyTime(c) ==
  /\ pc[c] = "idle"
  /\ Go(c, "get.acquire")
  /\ UNCHANGED <<lists, rlock, connectLock, connected, settings, bootLog, ids,
                 counters, held, mem>>

GetBegin(c) ==
  /\ pc[c] = "idle"
  /\ connected
  /\ Go(c, "get.acquire")
  /\ UNCHANGED <<lists, rlock, connectLock, connected, settings, bootLog, ids,
                 counters, held, mem>>

GetAcquire(c) ==
  /\ pc[c] = "get.acquire"
  /\ AcquireRemoveLock
  /\ Go(c, "get.remove")
  /\ UNCHANGED <<lists, connectLock, connected, settings, bootLog, ids,
                 counters, held, mem>>

GetRefused(c) ==
  /\ pc[c] = "get.acquire"
  /\ removed
  /\ Go(c, "idle")
  /\ UNCHANGED <<lists, rlock, connectLock, connected, settings, bootLog, ids,
                 counters, held, mem>>

\* Mutant: the Ids are not compared.
NonPagedAlways == npaged # <<>>

\* _RequestRemove prefers the nonpaged head only if its Id is the lower one.
NonPagedFirst ==
  npaged # <<>> /\ (paged = <<>> \/ id[Head(npaged)] < id[Head(paged)])

\* Both list locks are held while the head is chosen and unlinked.
GetRemove(c) ==
  /\ pc[c] = "get.remove"
  /\ Queued # {}
  /\ IF NonPagedFirst
       THEN /\ Hold(c, <<Head(npaged)>>)
            /\ npaged' = Tail(npaged)
            /\ npagedLength' = npagedLength - 1
            /\ UNCHANGED <<paged, pagedLength>>
       ELSE /\ Hold(c, <<Head(paged)>>)
            /\ paged' = Tail(paged)
            /\ pagedLength' = pagedLength - 1
            /\ UNCHANGED <<npaged, npagedLength>>
  /\ length' = length - 1
  /\ Go(c, "get.size")
  /\ UNCHANGED <<rlock, connectLock, connected, settings, bootLog, ids, mem>>

\* Mutant: the reader that finds nothing keeps the remove lock.
GetNoMoreLeaks(c) ==
  /\ pc[c] = "get.remove"
  /\ Queued = {}
  /\ Go(c, "idle")
  /\ UNCHANGED <<lists, rlock, connectLock, connected, settings, bootLog, ids,
                 counters, held, mem>>

GetNoMore(c) ==
  /\ pc[c] = "get.remove"
  /\ Queued = {}
  /\ Go(c, "get.release")
  /\ UNCHANGED <<lists, rlock, connectLock, connected, settings, bootLog, ids,
                 counters, held, mem>>

\* The record fits in the caller's buffer and becomes the caller's.
GetDeliver(c) ==
  /\ pc[c] = "get.size"
  /\ mem' = [mem EXCEPT ![Head(held[c])] = "client"]
  /\ Hold(c, <<>>)
  /\ Go(c, "get.release")
  /\ UNCHANGED <<lists, rlock, connectLock, connected, settings, bootLog, ids,
                 counters>>

\* STATUS_BUFFER_TOO_SMALL: the record goes back to the head of its list.
GetPutBack(c) ==
  /\ pc[c] = "get.size"
  /\ Link(Head(held[c]), TRUE)
  /\ Go(c, "get.count")
  /\ UNCHANGED <<rlock, connectLock, connected, settings, bootLog, ids,
                 counters, held, mem>>

GetCount(c) ==
  /\ pc[c] = "get.count"
  /\ Count(Head(held[c]))
  /\ Hold(c, <<>>)
  /\ Go(c, "get.release")
  /\ UNCHANGED <<lists, rlock, connectLock, connected, settings, bootLog, ids,
                 mem>>

GetRelease(c) ==
  /\ pc[c] = "get.release"
  /\ ReleaseRemoveLock
  /\ Go(c, "idle")
  /\ UNCHANGED <<lists, connectLock, connected, settings, bootLog, ids,
                 counters, held, mem>>

-----------------------------------------------------------------------------
\* DriverSettingsSet, with the two settings the queue looks at.
SettingsSet ==
  /\ collect' \in CollectValues
  /\ clearOnDisc' \in ClearValues
  /\ UNCHANGED <<lists, rlock, connectLock, connected, bootLog, ids, counters,
                 pc, held, mem>>

\* What a thread that is inside one of the operations does next.
InsertStep(p) ==
  \/ InsertAcquire(p) \/ InsertRefused(p) \/ InsertId(p) \/ InsertLink(p)
  \/ InsertCount(p) \/ InsertRelease(p) \/ InsertCallback(p)

ConnectStep(c) ==
  \/ ConnectList(c) \/ ConnectFail(c) \/ ConnectId(c) \/ ConnectLink(c)
  \/ ConnectCount(c) \/ ConnectDone(c) \/ ConnectDisable(c)

DisconnectStep(c) ==
  \/ DisconnectWait(c) \/ DisconnectUnset(c) \/ DisconnectKeep(c)
  \/ pc[c] # "idle" /\ ClearNonPaged(c)
  \/ ClearFreeNonPaged(c) \/ ClearPaged(c) \/ ClearFreePaged(c)

GetStep(c) ==
  \/ GetAcquire(c) \/ GetRefused(c) \/ GetRemove(c) \/ GetNoMore(c)
  \/ GetDeliver(c) \/ GetPutBack(c) \/ GetCount(c) \/ GetRelease(c)

Next ==
  \/ \E p \in Producers :
       \/ \E r \in Requests : InsertBegin(p, r)
       \/ InsertStep(p)
  \/ \E c \in Clients :
       \/ ConnectBegin(c) \/ ConnectStep(c)
       \/ DisconnectBegin(c) \/ ClearNonPaged(c) \/ DisconnectStep(c)
  \/ \E c \in Getters : GetBegin(c) \/ GetStep(c)
  \/ SettingsSet

Spec == Init /\ [][Next]_vars

(* A thread that is inside an operation is scheduled again and the list    *)
(* locks are held for a bounded time, so each pending operation advances.  *)
(* Nothing obliges a thread to start an operation.                         *)
Fairness ==
  /\ \A p \in Producers : WF_vars(InsertStep(p))
  /\ \A c \in Clients : WF_vars(ConnectStep(c)) /\ WF_vars(DisconnectStep(c))
  /\ \A c \in Getters : WF_vars(GetStep(c))

FairSpec == Spec /\ Fairness

-----------------------------------------------------------------------------
Labels ==
  {"idle", "insert.acquire", "insert.callback", "insert.id", "insert.link",
   "insert.count", "insert.release", "connect.list", "connect.id",
   "connect.link", "connect.count", "connect.disable", "disconnect.wait",
   "disconnect.unset", "disconnect.clear", "clear.freeNonPaged",
   "clear.paged", "clear.freePaged", "get.acquire", "get.remove", "get.size",
   "get.count", "get.release"}

\* Type invariant of the queue's variables.
TypeOK ==
  /\ paged \in Seq(Requests) /\ npaged \in Seq(Requests)
  /\ ioCount \in Int /\ removed \in BOOLEAN /\ removeEvent \in BOOLEAN
  /\ connectLock \in Clients \cup {Nobody}
  /\ connected \in BOOLEAN /\ bootLog \in BOOLEAN
  /\ collect \in BOOLEAN /\ clearOnDisc \in BOOLEAN
  /\ lastId \in Nat
  /\ length \in Int /\ pagedLength \in Int /\ npagedLength \in Int
  /\ pc \in [Threads -> Labels]
  /\ held \in [Threads -> Seq(Requests)]
  /\ mem \in [Requests -> {"unused", "live", "freed", "client", "logged"}]
  /\ id \in [Requests -> Nat]
  /\ preds \in [Requests -> SUBSET Requests]

-----------------------------------------------------------------------------
(* Safety.                                                                 *)

\* Labels at which the first record in hand is linked already.
CountLabels == {"insert.count", "connect.count", "get.count"}

\* The records that thread t alone can reach.
Owned(t) == IF pc[t] \in CountLabels THEN Tail(held[t]) ELSE held[t]

\* A live record is in exactly one place: linked once in the list of its pool
\* type, or in the hands of one thread.  A record that was freed, delivered or
\* logged is in none.  (No leak, no double free, no dangling list entry,
\* whatever _RequestInsert, RequestQueueGet, RequestQueueClear and a failing
\* RequestQueueConnect interleave to.)
OnePlace ==
  /\ ToSet(paged) \subseteq Paged /\ NoRepeats(paged)
  /\ ToSet(npaged) \cap Paged = {} /\ NoRepeats(npaged)
  /\ \A t \in Threads :
       /\ NoRepeats(Owned(t))
       /\ ToSet(Owned(t)) \cap Queued = {}
       /\ \A u \in Threads \ {t} : ToSet(Owned(t)) \cap ToSet(Owned(u)) = {}
  /\ \A r \in Requests :
       mem[r] = "live" <=> r \in Queued \/ \E t \in Threads : r \in ToSet(Owned(t))

Uncounted(S) == {t \in Threads : pc[t] \in CountLabels /\ Head(held[t]) \in S}

BeingCleared(label) ==
  UNION {ToSet(held[c]) : c \in {d \in Clients : pc[d] = label}}

\* The three statistics counters follow the lists up to the insertions that
\* are linked but not yet counted (they may be ahead of or, for a record that
\* was removed before its inserter counted it, behind the truth, even below
\* zero) and the cleared records not yet freed; they agree with the lists
\* whenever no operation is under way.
CountersExact ==
  /\ pagedLength = Cardinality(ToSet(paged) \cup BeingCleared("clear.freePaged"))
                     - Cardinality(Uncounted(Paged))
  /\ npagedLength = Cardinality(ToSet(npaged) \cup BeingCleared("clear.freeNonPaged"))
                     - Cardinality(Uncounted(Requests \ Paged))
  /\ length = pagedLength + npagedLength

\* The threads inside the remove lock on behalf of an insert or a get.
Inside ==
  {t \in Threads : pc[t] \in {"insert.id", "insert.link", "insert.count",
                              "insert.release", "get.remove", "get.size",
                              "get.count", "get.release"}}

\* What RequestQueueDisconnect waits for: once it has marked the queue as
\* disconnected, no insert and no get is still at work on the lists.
DisconnectDrains == removed /\ ~connected => Inside = {}

\* A disconnect that clears leaves nothing behind for the next consumer, and
\* nothing gets in until the next connect.
EmptyAfterDisconnect ==
  removed /\ ~connected /\ connectLock = Nobody => Queued = {}

Removes(g, r) ==
  pc[g] = "get.remove" /\ pc'[g] = "get.size" /\ held'[g] = <<r>>

\* With one reader, a record queued before another one got its Id is read
\* before it, although Ids are given out outside the list locks (so the lists
\* are not sorted by Id) and the two records may be in different lists, and
\* although a record that does not fit is put back.
NoOvertaking ==
  [][\A g \in Getters, r \in Requests :
       Removes(g, r) => preds[r] \cap Queued = {}]_vars

\* A doc comment the code does not honour.
\*
\* general-types.h: with ReqQueueCollectWhenDisconnected the driver stores
\* requests "even when no one is connected".
CollectsWhenDisconnected ==
  [][\A p \in Producers :
       (pc[p] = "insert.acquire" /\ collect /\ ~connected /\ connectLock = Nobody)
         => ~(pc'[p] = "idle" /\ mem'[Head(held[p])] = "freed")]_vars

-----------------------------------------------------------------------------
(* Refinement of EventQueue.  A record in the reader's hand is still queued *)
(* until the size check decides; one that a clear has taken over is gone.  *)

InClearersHand(r) ==
  r \in BeingCleared("clear.freePaged") \cup BeingCleared("clear.freeNonPaged")

Stage(r) ==
  CASE mem[r] = "unused" -> "new"
    [] mem[r] = "client" -> "taken"
    [] mem[r] = "logged" -> "diverted"
    [] mem[r] = "freed" -> "discarded"
    [] mem[r] = "live" /\ (r \in Queued \/ r \in InReadersHand) -> "queued"
    [] mem[r] = "live" /\ InClearersHand(r) -> "discarded"
    [] OTHER -> IF id[r] # 0 THEN "announced" ELSE "new"

Abstract ==
  INSTANCE EventQueue WITH stage <- [r \in Requests |-> Stage(r)],
                           order <- preds,
                           open <- connected

\* The queue implements EventQueue (with one client, which connects, reads,
\* clears and disconnects).
ImplementsEventQueue == Abstract!Spec

-----------------------------------------------------------------------------
(* Liveness.                                                               *)

\* Every operation on the queue returns: RequestQueueDisconnect in particular
\* is not left waiting for its remove lock by the inserts and gets inside it.
OperationsReturn == \A t \in Threads : pc[t] # "idle" ~> pc[t] = "idle"
=============================================================================
