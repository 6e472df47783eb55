------------------------------- MODULE BootLog ------------------------------
(***************************************************************************)
(* The boot log (boot-log.c) and the one callback it registers with the    *)
(* request queue (req-queue.c).  While no client is connected, a thread    *)
(* that has a record to report references the callback record, calls       *)
(* _BLOnRequest, which keeps the request, and drops its reference.  The    *)
(* saving thread writes what was kept to a file.  The first client that    *)
(* connects, or the unloading driver, disables the log: the callback is    *)
(* unregistered, the thread told to stop and waited for.                   *)
(*                                                                         *)
(* An inserting thread is at "refer", "invoke", "append", "dereference" or *)
(* "signal"; one that disables the log at "check", "unregister", "unlink", *)
(* "await", "free", "stop", "join".  "faulted": it used a freed callback.  *)
(***************************************************************************)
EXTENDS Integers, Sequences, FiniteSets, SequencesExt

CONSTANTS
  Requests,      \* the records
  Inserters,     \* threads that report records
  Disablers,     \* clients that connect, one after another or not
  LogBoot,       \* the setting of that name
  OpenResults,   \* subset of BOOLEAN: whether ZwCreateFile succeeds
  WriteResults,  \* subset of BOOLEAN: whether ZwWriteFile of a record does
  HeaderResults  \* subset of BOOLEAN: whether ZwWriteFile of the header does

Unloader == "unload"

ASSUME BootLogAssumption ==
  /\ IsFiniteSet(Requests)
  /\ Inserters \cap (Disablers \cup {Unloader}) = {} /\ Unloader \notin Disablers
  /\ LogBoot \in BOOLEAN
  /\ OpenResults \subseteq BOOLEAN /\ OpenResults # {}
  /\ WriteResults \subseteq BOOLEAN /\ WriteResults # {}
  /\ HeaderResults \subseteq BOOLEAN /\ HeaderResults # {}

Stoppers == Disablers \cup {Unloader}

VARIABLES
  connected,   \* ReqQueueConnected
  enabled,     \* _blEnabled
  linked,      \* whether the callback record is on _callbackList
  refs,        \* its ReferenceCount
  callback,    \* its memory: "live" "freed"
  event,       \* its Event
  np, paged,   \* _blNPCache and _blRequestListHead
  mem,         \* each record: "unused" "live" "saved" "lost" (not in the file) "freed"
  headed,      \* whether the log file exists and has its header
  file,        \* what it holds
  saver,       \* where _BLSaveThread is
  batch,       \* its reqsToSave
  final,       \* whether it is in the flush after its inner loop
  pc, hand,    \* the other threads and what each inserter has in hand
  unloaded,    \* BLModuleFinit has returned
  resurrected  \* history: a reference was taken on a callback that had none

cb == <<linked, refs, callback, event>>
log == <<np, paged, mem>>
saving == <<headed, file, saver, batch, final>>
vars == <<connected, enabled, cb, log, saving, pc, hand, unloaded, resurrected>>

At(t, l) == pc' = [pc EXCEPT ![t] = l]

Become(S, state) == mem' = [r \in Requests |-> IF r \in S THEN state ELSE mem[r]]

\* BLModuleInit: the callback is registered and the thread started whatever
\* the setting says.
Init ==
  /\ connected = FALSE /\ enabled = LogBoot
  /\ linked = TRUE /\ refs = 1 /\ callback = "live" /\ event = FALSE
  /\ np = <<>> /\ paged = <<>>
  /\ mem = [r \in Requests |-> "unused"]
  /\ headed = FALSE /\ file = <<>> /\ saver = "top" /\ batch = <<>> /\ final = FALSE
  /\ pc = [t \in Inserters \cup Stoppers |-> "idle"]
  /\ hand = [t \in Inserters |-> <<>>]
  /\ unloaded = FALSE /\ resurrected = FALSE

-----------------------------------------------------------------------------
(* RequestQueueInsert when nobody is connected.                            *)

InsertBegin(t, r) ==
  /\ pc[t] = "idle"
  /\ mem[r] = "unused"
  /\ ~connected
  /\ Become({r}, "live")
  /\ hand' = [hand EXCEPT ![t] = <<r>>]
  /\ At(t, "refer")
  /\ UNCHANGED <<connected, enabled, cb, np, paged, saving, unloaded, resurrected>>

\* _CallbackListReference finds no callback; the record is freed.
InsertUnwanted(t) ==
  /\ pc[t] = "refer"
  /\ ~linked
  /\ Become(ToSet(hand[t]), "freed")
  /\ hand' = [hand EXCEPT ![t] = <<>>]
  /\ At(t, "idle")
  /\ UNCHANGED <<connected, enabled, cb, np, paged, saving, unloaded, resurrected>>

InsertRefer(t) ==
  /\ pc[t] = "refer"
  /\ linked
  /\ refs' = refs + 1
  /\ resurrected' = (resurrected \/ refs = 0)
  /\ At(t, "invoke")
  /\ UNCHANGED <<connected, enabled, linked, callback, event, log, saving, hand,
                 unloaded>>

\* _BLOnRequest at DISPATCH_LEVEL: _NPCacheInsert.
InvokeCache(t) ==
  /\ pc[t] = "invoke"
  /\ linked
  /\ np' = np \o hand[t]
  /\ hand' = [hand EXCEPT ![t] = <<>>]
  /\ At(t, "dereference")
  /\ UNCHANGED <<connected, enabled, cb, paged, mem, saving, unloaded, resurrected>>

\* Below it: what is cached is taken over first, ...
InvokeFlush(t) ==
  /\ pc[t] = "invoke"
  /\ linked
  /\ hand' = [hand EXCEPT ![t] = np \o hand[t]]
  /\ np' = <<>>
  /\ At(t, "append")
  /\ UNCHANGED <<connected, enabled, cb, paged, mem, saving, unloaded, resurrected>>

\* ... and appended, with the new record, under the other lock.
InvokeAppend(t) ==
  /\ pc[t] = "append"
  /\ paged' = paged \o hand[t]
  /\ hand' = [hand EXCEPT ![t] = <<>>]
  /\ At(t, "dereference")
  /\ UNCHANGED <<connected, enabled, cb, np, mem, saving, unloaded, resurrected>>

\* _CallbackListDereference: the last reference unlinks the callback.
InsertDereference(t) ==
  /\ pc[t] = "dereference"
  /\ linked
  /\ refs' = refs - 1
  /\ linked' = (refs # 1)
  /\ At(t, IF refs = 1 THEN "signal" ELSE "idle")
  /\ UNCHANGED <<connected, enabled, callback, event, log, saving, hand, unloaded,
                 resurrected>>

\* Mutant: the event is forgotten.
InsertSignalNot(t) ==
  /\ pc[t] = "signal"
  /\ callback = "live"
  /\ At(t, "idle")
  /\ UNCHANGED <<connected, enabled, cb, log, saving, hand, unloaded, resurrected>>

InsertSignal(t) ==
  /\ pc[t] = "signal"
  /\ callback = "live"
  /\ event' = TRUE
  /\ At(t, "idle")
  /\ UNCHANGED <<connected, enabled, linked, refs, callback, log, saving, hand,
                 unloaded, resurrected>>

\* The walk along _callbackList misses an unlinked record; the event of a freed
\* one is gone.
InsertFault(t) ==
  /\ \/ pc[t] \in {"invoke", "dereference"} /\ ~linked
     \/ pc[t] = "signal" /\ callback = "freed"
  /\ At(t, "faulted")
  /\ UNCHANGED <<connected, enabled, cb, log, saving, hand, unloaded, resurrected>>

-----------------------------------------------------------------------------
(* BLDisable and its callers.                                              *)

\* UMRequestQueueConnect: the queue is connected, then the log disabled.
Connect(d) ==
  /\ pc[d] = "idle"
  /\ ~connected
  /\ pc[Unloader] = "idle" /\ ~unloaded
  /\ connected' = TRUE
  /\ At(d, "check")
  /\ UNCHANGED <<enabled, cb, log, saving, hand, unloaded, resurrected>>

\* The client, or another one that closes its handle, disconnects.
Disconnect ==
  /\ connected
  /\ connected' = FALSE
  /\ UNCHANGED <<enabled, cb, log, saving, pc, hand, unloaded, resurrected>>

\* BLModuleFinit, when every handle is closed.
Unload ==
  /\ pc[Unloader] = "idle" /\ ~unloaded
  /\ \A d \in Disablers : pc[d] = "idle"
  /\ ~connected
  /\ At(Unloader, "check")
  /\ UNCHANGED <<connected, enabled, cb, log, saving, hand, unloaded, resurrected>>

DisableCheck(d) ==
  /\ pc[d] = "check"
  /\ At(d, IF enabled THEN "unregister" ELSE "join")
  /\ UNCHANGED <<connected, enabled, cb, log, saving, hand, unloaded, resurrected>>

\* Mutant: the callback's users are not waited for.
UnregisterAtOnce(d) ==
  /\ pc[d] = "unregister"
  /\ refs' = refs - 1
  /\ At(d, "unlink")
  /\ UNCHANGED <<connected, enabled, linked, callback, event, log, saving, hand,
                 unloaded, resurrected>>

\* RequestQueueCallbackUnregister drops its reference outside the lock.
Unregister(d) ==
  /\ pc[d] = "unregister"
  /\ refs' = refs - 1
  /\ At(d, IF refs = 1 THEN "unlink" ELSE "await")
  /\ UNCHANGED <<connected, enabled, linked, callback, event, log, saving, hand,
                 unloaded, resurrected>>

Unlink(d) ==
  /\ pc[d] = "unlink"
  /\ linked' = FALSE
  /\ At(d, "free")
  /\ UNCHANGED <<connected, enabled, refs, callback, event, log, saving, hand,
                 unloaded, resurrected>>

Await(d) ==
  /\ pc[d] = "await"
  /\ event
  /\ At(d, "free")
  /\ UNCHANGED <<connected, enabled, cb, log, saving, hand, unloaded, resurrected>>

FreeCallback(d) ==
  /\ pc[d] = "free"
  /\ callback' = "freed"
  /\ At(d, "stop")
  /\ UNCHANGED <<connected, enabled, linked, refs, event, log, saving, hand,
                 unloaded, resurrected>>

Stop(d) ==
  /\ pc[d] = "stop"
  /\ enabled' = FALSE
  /\ At(d, "join")
  /\ UNCHANGED <<connected, cb, log, saving, hand, unloaded, resurrected>>

Join(d) ==
  /\ pc[d] = "join"
  /\ saver = "ended"
  /\ At(d, IF d = Unloader THEN "purge" ELSE "idle")
  /\ UNCHANGED <<connected, enabled, cb, log, saving, hand, unloaded, resurrected>>

\* Mutant: the nonpaged cache is forgotten.
PurgePaged ==
  /\ pc[Unloader] = "purge"
  /\ Become(ToSet(paged), "freed")
  /\ paged' = <<>>
  /\ unloaded' = TRUE
  /\ At(Unloader, "idle")
  /\ UNCHANGED <<connected, enabled, cb, np, saving, hand, resurrected>>

\* The rest of BLModuleFinit frees what was never written.
Purge ==
  /\ pc[Unloader] = "purge"
  /\ Become(ToSet(np) \cup ToSet(paged), "freed")
  /\ np' = <<>> /\ paged' = <<>>
  /\ unloaded' = TRUE
  /\ At(Unloader, "idle")
  /\ UNCHANGED <<connected, enabled, cb, saving, hand, resurrected>>

-----------------------------------------------------------------------------
(* _BLSaveThread.                                                          *)

SaverAt(l) == saver' = l

\* The outer loop.
SaverTop ==
  /\ saver = "top"
  /\ SaverAt(IF enabled THEN "open" ELSE "ended")
  /\ UNCHANGED <<connected, enabled, cb, log, headed, file, batch, final, pc, hand,
                 unloaded, resurrected>>

\* ZwCreateFile supersedes the file of an earlier round.  Without a header
\* there is only the last flush.
SaverOpen ==
  /\ saver = "open"
  /\ \/ /\ TRUE \in OpenResults
        /\ file' = <<>> /\ Become(ToSet(file), "lost")
        /\ \E header \in HeaderResults :
             /\ SaverAt(IF header THEN "loop" ELSE "cache")
             /\ headed' = header /\ final' = ~header
     \/ /\ FALSE \in OpenResults
        /\ SaverAt("top")
        /\ UNCHANGED <<mem, headed, file, final>>
  /\ UNCHANGED <<connected, enabled, cb, np, paged, batch, pc, hand, unloaded,
                 resurrected>>

\* Mutant: the thread ends with the inner loop.
SaverLoopOnly ==
  /\ saver = "loop"
  /\ final' = ~enabled
  /\ SaverAt(IF enabled THEN "cache" ELSE "top")
  /\ UNCHANGED <<connected, enabled, cb, log, headed, file, batch, pc, hand, unloaded,
                 resurrected>>

\* The inner loop, and the flush that follows it.
SaverLoop ==
  /\ saver = "loop"
  /\ final' = ~enabled
  /\ SaverAt("cache")
  /\ UNCHANGED <<connected, enabled, cb, log, headed, file, batch, pc, hand, unloaded,
                 resurrected>>

\* _FlushBootRequests takes over the cache, then the list.
FlushCache ==
  /\ saver = "cache"
  /\ batch' = np
  /\ np' = <<>>
  /\ SaverAt("take")
  /\ UNCHANGED <<connected, enabled, cb, paged, mem, headed, file, final, pc, hand,
                 unloaded, resurrected>>

\* Mutant: the list is copied, not moved.
FlushCopy ==
  /\ saver = "take"
  /\ batch' = paged \o batch
  /\ SaverAt("write")
  /\ UNCHANGED <<connected, enabled, cb, log, headed, file, final, pc, hand, unloaded,
                 resurrected>>

FlushTake ==
  /\ saver = "take"
  /\ batch' = paged \o batch
  /\ paged' = <<>>
  /\ SaverAt("write")
  /\ UNCHANGED <<connected, enabled, cb, np, mem, headed, file, final, pc, hand, unloaded,
                 resurrected>>

\* A record is written, or cannot be, and freed.
FlushWrite ==
  /\ saver = "write"
  /\ batch # <<>>
  /\ \E ok \in WriteResults :
       /\ file' = IF ok THEN Append(file, Head(batch)) ELSE file
       /\ Become({Head(batch)}, IF ok THEN "saved" ELSE "lost")
  /\ batch' = Tail(batch)
  /\ UNCHANGED <<connected, enabled, cb, np, paged, headed, saver, final, pc, hand,
                 unloaded, resurrected>>

FlushDone ==
  /\ saver = "write"
  /\ batch = <<>>
  /\ SaverAt(IF final THEN "top" ELSE "loop")
  /\ UNCHANGED <<connected, enabled, cb, log, headed, file, batch, final, pc, hand,
                 unloaded, resurrected>>

-----------------------------------------------------------------------------
InsertStep(t) ==
  \/ InsertUnwanted(t) \/ InsertRefer(t) \/ InvokeCache(t) \/ InvokeFlush(t)
  \/ InvokeAppend(t) \/ InsertDereference(t) \/ InsertSignal(t) \/ InsertFault(t)

DisableStep(d) ==
  \/ DisableCheck(d) \/ Unregister(d) \/ Unlink(d) \/ Await(d)
  \/ FreeCallback(d) \/ Stop(d) \/ Join(d)

SaverStep ==
  \/ SaverTop \/ SaverOpen \/ SaverLoop
  \/ FlushCache \/ FlushTake \/ FlushWrite \/ FlushDone

Next ==
  \/ \E t \in Inserters : InsertStep(t) \/ \E r \in Requests : InsertBegin(t, r)
  \/ \E d \in Disablers : Connect(d)
  \/ \E d \in Stoppers : DisableStep(d)
  \/ Disconnect \/ Unload \/ Purge
  \/ SaverStep

Spec == Init /\ [][Next]_vars

(* Threads inside an operation run on and the saving thread does not stop. *)
Fairness ==
  /\ \A t \in Inserters : WF_vars(InsertStep(t))
  /\ \A d \in Stoppers : WF_vars(DisableStep(d))
  /\ WF_vars(Purge) /\ WF_vars(SaverStep)

FairSpec == Spec /\ Fairness

-----------------------------------------------------------------------------
\* The callback record is freed when nobody uses it any more, unless someone
\* referenced it after the last reference was dropped and before it was unlinked.
CallbackOutlivesUse ==
  callback = "freed" /\ ~resurrected =>
    \A t \in Inserters : pc[t] \notin {"invoke", "append", "dereference", "signal",
                                       "faulted"}

\* Every record the log was given is in one place: with an inserter, on one of
\* the two lists, or with the saving thread.
LogOnePlace ==
  LET everywhere == np \o paged \o batch
  IN  /\ IsInjective(everywhere)
      /\ \A r \in Requests :
           mem[r] = "live" <=>
             (r \in ToSet(everywhere)) # (\E t \in Inserters : r \in ToSet(hand[t]))
      /\ \A t, u \in Inserters : t # u => ToSet(hand[t]) \cap ToSet(hand[u]) = {}

\* The log file holds each record once, and every record that was written and
\* whose file no later round of the saving thread superseded.
FileComplete ==
  /\ IsInjective(file)
  /\ \A r \in Requests : mem[r] = "saved" <=> r \in ToSet(file)

\* Once there is a log file with a header, the log is disabled only after all it
\* was given has been written (or its writing failed): nothing is left behind or
\* arrives later.
DisableSavesAll ==
  headed /\ callback = "freed" /\ saver = "ended" /\ ~resurrected =>
    np = <<>> /\ paged = <<>> /\ batch = <<>>

\* After BLModuleFinit nothing is left in the log's lists or on its way there.
UnloadLeavesNothing ==
  unloaded /\ ~resurrected =>
    \A r \in Requests :
      mem[r] = "live" => \E t \in Inserters : pc[t] = "refer" /\ r \in ToSet(hand[t])

\* Nothing is logged when the setting is off (general-types.h: "If set to TRUE,
\* the drive logs requests during system startup").
NothingLoggedWhenOff == ~LogBoot => np = <<>> /\ paged = <<>>

\* Disabling the log returns: the callback's users signal and the thread ends.
DisableReturns ==
  \A d \in Disablers : pc[d] = "check" ~> pc[d] = "idle"
=============================================================================
