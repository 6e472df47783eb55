----------------------------- MODULE DriverHook -----------------------------
(***************************************************************************)
(* Hooking one driver: its hook records (hook.c), the table that finds the *)
(* record of a hooked driver, the table that validates record ids, the     *)
(* handles given to clients (handle-table.c), the services that use them   *)
(* (um-services.c), the IRPs that are sent meanwhile and the unloading.    *)
(* "slot" stands for the MajorFunction entries of the target driver; the   *)
(* AddDevice, DriverUnload, StartIo and FastIo entries are handled alike.  *)
(*                                                                         *)
(* A client is "idle" or between two steps of a service: "insert",         *)
(* "validate", "check" of HookDriverObject; "mark", "exchange", "store",   *)
(* "unmark", "putback" of DriverHookRecordEnable; "delete", "flag",        *)
(* "restore", "clear", "invalidate", "drop" of UnhookDriverObject; "open"  *)
(* and "output", "close" and "closed", "translate" of the handle table;    *)
(* "set" and "setmore" of DriverHookRecordSetInfo; "deref" at the end.     *)
(***************************************************************************)
EXTENDS Integers, FiniteSets

CONSTANTS
  Records,       \* places in memory for driver hook records
  Handles,       \* handle values
  Clients,       \* clients: those that open, close and go away
  Controllers,   \* those of them that also hook, unhook and change records
  Irps,          \* threads that send IRPs to the target driver
  StaleHandles,  \* whether handles of unhooked records are still used
  Nobody

ASSUME DriverHookAssumption ==
  /\ IsFiniteSet(Records) /\ IsFiniteSet(Handles)
  /\ IsFiniteSet(Clients) /\ IsFiniteSet(Irps)
  /\ Controllers \subseteq Clients
  /\ StaleHandles \in BOOLEAN
  /\ Nobody \notin Records \cup Handles

VARIABLES
  slot,      \* the driver's dispatch entry: "driver" "hook" "null"
  table,     \* the target driver's record in _driverTable, or Nobody
  valid,     \* _driverValidationTable
  rec,       \* the records
  handles,   \* _driverHandleTable: the record of each handle, or Nobody
  pc, op,    \* each client: where it is, in which service
  hand, hnd, \* its record and its handle, or Nobody
  kept,      \* what its InterlockedExchangePointer returned
  irp,       \* each IRP: where it is
  irec,      \* the record its handler holds
  crossed,   \* history: an unhook, or the first enabling, overlapped it
  unload     \* HookModuleFinit: "no" "restore" "drop" "wait" "done"

tables == <<table, valid, handles>>
client == <<pc, op, hand, hnd, kept>>
irps == <<irp, irec, crossed>>
vars == <<slot, tables, rec, client, irps, unload>>

Freed == [live |-> FALSE, refs |-> 0, enabled |-> FALSE, mon |-> FALSE,
          old |-> "null"]

Init ==
  /\ slot = "driver" /\ table = Nobody /\ valid = {}
  /\ rec = [r \in Records |-> Freed]
  /\ handles = [h \in Handles |-> Nobody]
  /\ pc = [c \in Clients |-> "idle"]
  /\ op = [c \in Clients |-> "none"]
  /\ hand = [c \in Clients |-> Nobody]
  /\ hnd = [c \in Clients |-> Nobody]
  /\ kept = [c \in Clients |-> "null"]
  /\ irp = [t \in Irps |-> "idle"]
  /\ irec = [t \in Irps |-> Nobody]
  /\ crossed = [t \in Irps |-> FALSE]
  /\ unload = "no"

\* DriverHookRecordReference, and DriverHookRecordDereference n times.
Referenced(r) == [rec EXCEPT ![r].refs = @ + 1]
Dropped(r, n) ==
  [rec EXCEPT ![r] = IF rec[r].refs = n THEN Freed
                     ELSE [rec[r] EXCEPT !.refs = @ - n]]

At(c, place) == pc[c] = place
Goto(c, place) == pc' = [pc EXCEPT ![c] = place]

\* A client takes up a service, with a record or a handle in its hands.
Start(c, service, place, r, h) ==
  /\ At(c, "idle") /\ unload = "no"
  /\ Goto(c, place)
  /\ op' = [op EXCEPT ![c] = service]
  /\ hand' = [hand EXCEPT ![c] = r]
  /\ hnd' = [hnd EXCEPT ![c] = h]
  /\ UNCHANGED kept

\* It is done with it.
Leave(c) ==
  /\ Goto(c, "idle")
  /\ op' = [op EXCEPT ![c] = "none"]
  /\ hand' = [hand EXCEPT ![c] = Nobody]
  /\ hnd' = [hnd EXCEPT ![c] = Nobody]
  /\ kept' = [kept EXCEPT ![c] = "null"]

\* It goes on with the service.
Proceed(c, place) == Goto(c, place) /\ UNCHANGED <<op, hand, hnd, kept>>

\* An unhook, or an exchange whose result is not stored yet, meets the IRPs
\* that are on their way from the entry to the record's old entry.
Exposing == {"exchange", "store", "flag", "restore"}
Cross == crossed' = [t \in Irps |-> crossed[t] \/ irp[t] \in {"lookup", "call"}]

-----------------------------------------------------------------------------
(* HookDriverObject.  The references it takes for its caller and drops for *)
(* itself at the end cancel out: the first one becomes the caller's.       *)

HookCreate(c, r, mon) ==
  /\ c \in Controllers /\ ~rec[r].live
  /\ Start(c, "hook", "insert", r, Nobody)
  /\ rec' = [rec EXCEPT ![r] = [live |-> TRUE, refs |-> 1, enabled |-> FALSE,
                                mon |-> mon, old |-> "null"]]
  /\ UNCHANGED <<slot, tables, irps, unload>>

HookInsert(c) ==
  /\ At(c, "insert")
  /\ IF table = Nobody
     THEN /\ table' = hand[c]
          /\ rec' = Referenced(hand[c])
          /\ Proceed(c, "validate")
     ELSE Proceed(c, "deref") /\ UNCHANGED <<table, rec>>
  /\ UNCHANGED <<slot, valid, handles, irps, unload>>

HookValidate(c) ==
  /\ At(c, "validate")
  /\ valid' = valid \cup {hand[c]}
  /\ Proceed(c, "check")
  /\ UNCHANGED <<slot, table, handles, rec, irps, unload>>

HookCheck(c) ==
  /\ At(c, "check")
  /\ Proceed(c, IF rec[hand[c]].enabled THEN "exchange" ELSE "open")
  /\ UNCHANGED <<slot, tables, rec, irps, unload>>

-----------------------------------------------------------------------------
(* UnhookDriverObject: the record is looked up by its DriverObject, so what *)
(* is deleted from the table is the record the driver has now.             *)

UnhookDelete(c) ==
  /\ At(c, "delete")
  /\ IF table = Nobody
     THEN /\ Goto(c, "deref")
          /\ op' = [op EXCEPT ![c] = "missed"]
          /\ UNCHANGED <<table, crossed, hand, hnd, kept>>
     ELSE table' = Nobody /\ Cross /\ Proceed(c, "flag")
  /\ UNCHANGED <<slot, valid, handles, rec, irp, irec, unload>>

UnhookFlag(c) ==
  /\ At(c, "flag")
  /\ Proceed(c, IF rec[hand[c]].enabled THEN "restore" ELSE "invalidate")
  /\ UNCHANGED <<slot, tables, rec, irps, unload>>

\* _UnhookDriverObject
Original(r) == IF rec[r].mon THEN rec[r].old ELSE slot

UnhookRestore(c) ==
  /\ At(c, "restore")
  /\ slot' = Original(hand[c])
  /\ Proceed(c, "clear")
  /\ UNCHANGED <<tables, rec, irps, unload>>

UnhookClear(c) ==
  /\ At(c, "clear")
  /\ rec' = [rec EXCEPT ![hand[c]].enabled = FALSE]
  /\ Proceed(c, "invalidate")
  /\ UNCHANGED <<slot, tables, irps, unload>>

\* Mutant: the record stays in the validation table.
UnhookInvalidateNot(c) ==
  /\ At(c, "invalidate") /\ Proceed(c, "drop")
  /\ UNCHANGED <<slot, tables, rec, irps, unload>>

UnhookInvalidate(c) ==
  /\ At(c, "invalidate")
  /\ valid' = valid \ {hand[c]}
  /\ Proceed(c, "drop")
  /\ UNCHANGED <<slot, table, handles, rec, irps, unload>>

UnhookDrop(c) ==
  /\ At(c, "drop")
  /\ rec' = Dropped(hand[c], 1)
  /\ Proceed(c, "deref")
  /\ UNCHANGED <<slot, tables, irps, unload>>

-----------------------------------------------------------------------------
(* DriverHookRecordEnable and the exchange of _HookDriverObject.           *)

\* Mutant: without looking whether monitoring is on already.
EnableAlways(c) ==
  /\ At(c, "enable") /\ Proceed(c, "mark")
  /\ UNCHANGED <<slot, tables, rec, irps, unload>>

Enable(c) ==
  /\ At(c, "enable")
  /\ Proceed(c, IF rec[hand[c]].enabled THEN "deref" ELSE "mark")
  /\ UNCHANGED <<slot, tables, rec, irps, unload>>

EnableMark(c) ==
  /\ At(c, "mark")
  /\ rec' = [rec EXCEPT ![hand[c]].enabled = TRUE]
  /\ Proceed(c, "exchange")
  /\ UNCHANGED <<slot, tables, irps, unload>>

AfterHooking(c) == IF op[c] = "hook" THEN "open" ELSE "deref"

Exchange(c) ==
  /\ At(c, "exchange")
  /\ IF rec[hand[c]].mon
     THEN /\ slot' = "hook"
          /\ kept' = [kept EXCEPT ![c] = slot]
          /\ Goto(c, "store")
          /\ UNCHANGED <<op, hand, hnd>>
     ELSE Proceed(c, AfterHooking(c)) /\ UNCHANGED slot
  /\ UNCHANGED <<tables, rec, irps, unload>>

Store(c) ==
  /\ At(c, "store")
  /\ rec' = [rec EXCEPT ![hand[c]].old = kept[c]]
  /\ kept' = [kept EXCEPT ![c] = "null"]
  /\ Goto(c, AfterHooking(c))
  /\ UNCHANGED <<slot, tables, op, hand, hnd, irps, unload>>

Disable(c) ==
  /\ At(c, "disable")
  /\ Proceed(c, IF rec[hand[c]].enabled THEN "unmark" ELSE "deref")
  /\ UNCHANGED <<slot, tables, rec, irps, unload>>

DisableUnmark(c) ==
  /\ At(c, "unmark")
  /\ rec' = [rec EXCEPT ![hand[c]].enabled = FALSE]
  /\ Proceed(c, "putback")
  /\ UNCHANGED <<slot, tables, irps, unload>>

\* Mutant: monitoring is off but the entries stay hooked.
DisablePutBackNot(c) ==
  /\ At(c, "putback") /\ Proceed(c, "deref")
  /\ UNCHANGED <<slot, tables, rec, irps, unload>>

DisablePutBack(c) ==
  /\ At(c, "putback")
  /\ slot' = Original(hand[c])
  /\ Proceed(c, "deref")
  /\ UNCHANGED <<tables, rec, irps, unload>>

\* DriverHookRecordSetInfo: what is monitored changes only while nothing is.
\* How records are made (with completions, data, stacks) is abstracted.
Set(c) ==
  /\ At(c, "set")
  /\ Proceed(c, IF rec[hand[c]].enabled THEN "deref" ELSE "setmore")
  /\ UNCHANGED <<slot, tables, rec, irps, unload>>

SetMore(c, mon) ==
  /\ At(c, "setmore")
  /\ rec' = [rec EXCEPT ![hand[c]].mon = mon]
  /\ Proceed(c, "deref")
  /\ UNCHANGED <<slot, tables, irps, unload>>
-----------------------------------------------------------------------------
(* The handle table and the services' use of it.                           *)

\* UMUnhookDriver, UMHookedDriverMonitoringEnable and UMHookedDriverSetInfo
\* translate a handle; the lock is released before the record is referenced.
Translate(c, service, h) ==
  /\ c \in Controllers /\ handles[h] # Nobody
  /\ StaleHandles \/ handles[h] = table
  /\ Start(c, service, "translate", handles[h], h)
  /\ UNCHANGED <<slot, tables, rec, irps, unload>>

\* Mutant: the record is used without a reference.
TranslateReferNot(c) ==
  /\ At(c, "translate")
  /\ Proceed(c, IF op[c] = "unhook" THEN "delete" ELSE op[c])
  /\ UNCHANGED <<slot, tables, rec, irps, unload>>

TranslateRefer(c) ==
  /\ At(c, "translate")
  /\ rec' = Referenced(hand[c])
  /\ Proceed(c, IF op[c] = "unhook" THEN "delete" ELSE op[c])
  /\ UNCHANGED <<slot, tables, irps, unload>>

\* UMOpenObjectById, DriverHookRecordValid
OpenById(c, r) ==
  /\ r \in valid
  /\ Start(c, "open", "open", r, Nobody)
  /\ rec' = Referenced(r)
  /\ UNCHANGED <<slot, tables, irps, unload>>

\* Handle values are not reused while somebody remembers them.
Fresh(h) == handles[h] = Nobody /\ \A c \in Clients : hnd[c] # h

HandleCreate(c, h) ==
  /\ At(c, "open") /\ Fresh(h)
  /\ handles' = [handles EXCEPT ![h] = hand[c]]
  /\ rec' = Referenced(hand[c])
  /\ hnd' = [hnd EXCEPT ![c] = h]
  /\ Goto(c, "output")
  /\ UNCHANGED <<slot, table, valid, op, hand, kept, irps, unload>>

\* Mutant: whatever failed, the driver is unhooked.
AfterFailureUnhook(c) == "delete"

\* What a service does after a failure: a hooked driver is unhooked again.
AfterFailure(c) == IF op[c] = "hook" THEN "delete" ELSE "deref"

\* HeapMemoryAlloc fails
HandleCreateFail(c) ==
  /\ At(c, "open")
  /\ Proceed(c, AfterFailure(c))
  /\ UNCHANGED <<slot, tables, rec, irps, unload>>

\* The result is copied to the client's buffer, or the copying faults.
Output(c) ==
  /\ At(c, "output")
  /\ \E place \in {"deref", "close"} : Proceed(c, place)
  /\ UNCHANGED <<slot, tables, rec, irps, unload>>

\* UMCloseHandle
Close(c, h) ==
  /\ Start(c, "close", "close", Nobody, h)
  /\ UNCHANGED <<slot, tables, rec, irps, unload>>

\* HandleTableHandleClose
CloseDelete(c) ==
  /\ At(c, "close")
  /\ IF handles[hnd[c]] # Nobody
     THEN /\ handles' = [handles EXCEPT ![hnd[c]] = Nobody]
          /\ hand' = [hand EXCEPT ![c] = handles[hnd[c]]]
          /\ Goto(c, "closed")
          /\ UNCHANGED <<op, hnd, kept>>
     ELSE /\ IF op[c] \in {"hook", "open"}
             THEN Goto(c, AfterFailure(c)) /\ UNCHANGED <<op, hand, hnd, kept>>
             ELSE Leave(c)
          /\ UNCHANGED handles
  /\ UNCHANGED <<slot, table, valid, rec, irps, unload>>

CloseDereference(c) ==
  /\ At(c, "closed")
  /\ rec' = Dropped(hand[c], 1)
  /\ IF op[c] \in {"hook", "open"}
     THEN Proceed(c, AfterFailure(c))
     ELSE Leave(c)
  /\ UNCHANGED <<slot, tables, irps, unload>>

\* A successful UMUnhookDriver closes the handle last.
Dereference(c) ==
  /\ At(c, "deref")
  /\ rec' = Dropped(hand[c], 1)
  /\ IF op[c] = "unhook"
     THEN /\ Goto(c, "close")
          /\ hand' = [hand EXCEPT ![c] = Nobody]
          /\ UNCHANGED <<op, hnd, kept>>
     ELSE Leave(c)
  /\ UNCHANGED <<slot, tables, irps, unload>>

\* DriverCreateCleanup: a client closes the device; UMDeleteHandlesForProcess
\* clears the handles of everybody.
HandlesOf(r) == {h \in Handles : handles[h] = r}

Cleanup(c) ==
  /\ At(c, "idle") /\ unload = "no"
  /\ handles' = [h \in Handles |-> Nobody]
  /\ rec' = [r \in Records |-> IF HandlesOf(r) = {} THEN rec[r]
                               ELSE Dropped(r, Cardinality(HandlesOf(r)))[r]]
  /\ UNCHANGED <<slot, table, valid, client, irps, unload>>

-----------------------------------------------------------------------------
(* IRPs: the I/O manager calls the driver's entry; HookHandlerIRPDisptach  *)
(* finds the record and calls the entry the record has kept.               *)

Send(t) ==
  /\ irp[t] = "idle" /\ slot # "driver"
  /\ irp' = [irp EXCEPT ![t] = IF slot = "hook" THEN "lookup" ELSE "crashed"]
  /\ crossed' = [crossed EXCEPT ![t] = \/ unload # "no"
                                       \/ \E c \in Clients : pc[c] \in Exposing]
  /\ UNCHANGED <<slot, tables, rec, client, irec, unload>>

\* Mutant: the record is used without a reference.
LookupUnreferenced(t) ==
  /\ irp[t] = "lookup" /\ table # Nobody
  /\ irp' = [irp EXCEPT ![t] = "call"]
  /\ irec' = [irec EXCEPT ![t] = table]
  /\ UNCHANGED <<slot, tables, rec, client, crossed, unload>>

\* DriverHookRecordGet
Lookup(t) ==
  /\ irp[t] = "lookup"
  /\ IF table # Nobody /\ unload = "no"
     THEN /\ irp' = [irp EXCEPT ![t] = "call"]
          /\ irec' = [irec EXCEPT ![t] = table]
          /\ rec' = Referenced(table)
     ELSE irp' = [irp EXCEPT ![t] = "refused"] /\ UNCHANGED <<irec, rec>>
  /\ UNCHANGED <<slot, tables, client, crossed, unload>>

Call(t) ==
  /\ irp[t] = "call"
  /\ irp' = [irp EXCEPT ![t] = CASE rec[irec[t]].old = "driver" -> "return"
                                 [] rec[irec[t]].old = "hook"   -> "looped"
                                 [] rec[irec[t]].old = "null"   -> "crashed"]
  /\ UNCHANGED <<slot, tables, rec, client, irec, crossed, unload>>

\* Mutant: the handler forgets its reference.
ReturnLeaks(t) ==
  /\ irp[t] = "return"
  /\ irp' = [irp EXCEPT ![t] = "idle"]
  /\ irec' = [irec EXCEPT ![t] = Nobody]
  /\ UNCHANGED <<slot, tables, rec, client, crossed, unload>>

Return(t) ==
  /\ irp[t] = "return"
  /\ rec' = Dropped(irec[t], 1)
  /\ irp' = [irp EXCEPT ![t] = "idle"]
  /\ irec' = [irec EXCEPT ![t] = Nobody]
  /\ crossed' = [crossed EXCEPT ![t] = FALSE]
  /\ UNCHANGED <<slot, tables, client, unload>>

-----------------------------------------------------------------------------
(* HookModuleFinit, once nobody has the device open.                       *)

UnloadBegin ==
  /\ unload = "no" /\ \A c \in Clients : pc[c] = "idle"
  /\ \A h \in Handles : handles[h] = Nobody
  /\ unload' = "restore" /\ valid' = {} /\ Cross
  /\ UNCHANGED <<slot, table, handles, rec, client, irp, irec>>

\* Mutant: the record is dropped with its hooks in place.
UnloadRestoreNot ==
  /\ unload = "restore" /\ unload' = "drop"
  /\ UNCHANGED <<slot, tables, rec, client, irps>>

\* _DriverFreeFunction, called by HashTableDestroy
UnloadRestore ==
  /\ unload = "restore" /\ unload' = "drop"
  /\ IF table # Nobody /\ rec[table].enabled
     THEN slot' = Original(table) /\ rec' = [rec EXCEPT ![table].enabled = FALSE]
     ELSE UNCHANGED <<slot, rec>>
  /\ UNCHANGED <<tables, client, irps>>

UnloadDrop ==
  /\ unload = "drop" /\ unload' = "wait"
  /\ table' = Nobody
  /\ rec' = IF table = Nobody THEN rec ELSE Dropped(table, 1)
  /\ UNCHANGED <<slot, valid, handles, client, irps>>

\* IoReleaseRemoveLockAndWait: every record holds the rundown lock.
UnloadWait ==
  /\ unload = "wait" /\ unload' = "done"
  /\ \A r \in Records : ~rec[r].live
  /\ UNCHANGED <<slot, tables, rec, client, irps>>

-----------------------------------------------------------------------------
ClientStep(c) ==
  \/ HookInsert(c) \/ HookValidate(c) \/ HookCheck(c)
  \/ UnhookDelete(c) \/ UnhookFlag(c) \/ UnhookRestore(c) \/ UnhookClear(c)
  \/ UnhookInvalidate(c) \/ UnhookDrop(c)
  \/ Enable(c) \/ EnableMark(c) \/ Exchange(c) \/ Store(c)
  \/ Disable(c) \/ DisableUnmark(c) \/ DisablePutBack(c)
  \/ Set(c)
  \/ \E mon \in BOOLEAN : SetMore(c, mon)
  \/ TranslateRefer(c) \/ Output(c) \/ HandleCreateFail(c)
  \/ \E h \in Handles : HandleCreate(c, h)
  \/ CloseDelete(c) \/ CloseDereference(c) \/ Dereference(c)

ClientBegin(c) ==
  \/ \E r \in Records, mon \in BOOLEAN : HookCreate(c, r, mon)
  \/ \E h \in Handles, service \in {"unhook", "enable", "disable", "set"} :
       Translate(c, service, h)
  \/ \E r \in Records : OpenById(c, r)
  \/ \E h \in Handles : Close(c, h)
  \/ Cleanup(c)

IrpStep(t) == Lookup(t) \/ Call(t) \/ Return(t)
UnloadStep == UnloadRestore \/ UnloadDrop \/ UnloadWait

Next ==
  \/ \E c \in Clients : ClientBegin(c) \/ ClientStep(c)
  \/ \E t \in Irps : Send(t) \/ IrpStep(t)
  \/ UnloadBegin \/ UnloadStep

Spec == Init /\ [][Next]_vars

\* A handler that was entered runs on, the target driver returns from what it
\* is called for, and so does the unloading thread.
Fairness ==
  /\ \A t \in Irps : WF_vars(IrpStep(t))
  /\ WF_vars(UnloadStep)

FairSpec == Spec /\ Fairness

-----------------------------------------------------------------------------
UnhookPlaces == {"flag", "restore", "clear", "invalidate", "drop"}

\* The references a client holds: its own; that of the table, once it deleted
\* the record from it; that of the handle it closed.
Own(c) ==
  IF pc[c] = "closed" THEN (IF op[c] \in {"hook", "open"} THEN 2 ELSE 1)
  ELSE IF pc[c] \in UnhookPlaces THEN 2
  ELSE IF pc[c] = "translate" THEN 0 ELSE 1

HandlersOf(r) == {t \in Irps : irec[t] = r}
Holders(r, n) == {c \in Clients : hand[c] = r /\ Own(c) >= n}

Holds(r) ==
  (IF table = r THEN 1 ELSE 0)
  + Cardinality(HandlesOf(r)) + Cardinality(HandlersOf(r))
  + Cardinality(Holders(r, 1)) + Cardinality(Holders(r, 2))

\* The count of every record is the number of those that hold it: the table,
\* handles, handlers and clients in the middle of a service.  In particular a
\* record nobody holds has been freed: no failure path and no order of the
\* clients' steps leaks one.
RefsExact == \A r \in Records : rec[r].refs = Holds(r)

\* No table, handle, handler or client refers to a record that was freed,
\* also not the client that has translated a handle and not yet referenced.
RecordsOutliveUse ==
  \A r \in {table} \cup valid \cup {handles[h] : h \in Handles}
           \cup {hand[c] : c \in Clients} \cup {irec[t] : t \in Irps} :
    r = Nobody \/ rec[r].live

\* A record can be opened by its id when it is its driver's record, except
\* while a hook or an unhook is under way.
ValidIsHooked ==
  unload = "no" =>
    \A r \in Records :
      \/ r \in valid <=> table = r
      \/ \E c \in Clients :
           hand[c] = r /\ pc[c] \in UnhookPlaces \cup {"validate"}

\* Whoever unhooks a record deletes that record from the table, and so does
\* not reach ASSERT(FALSE) (hook.c:609).
UnhookFindsItsRecord == \A c \in Clients : pc[c] = "delete" => table = hand[c]

\* When no client is in the middle of changing them, the driver's entries
\* are hooked exactly when its record says so, and the original entry is kept.
Changing == Exposing \cup {"clear", "putback"}

SlotMatches ==
  (\A c \in Clients : pc[c] \notin Changing) /\ unload # "drop" =>
    IF table # Nobody /\ rec[table].enabled /\ rec[table].mon
    THEN slot = "hook" /\ rec[table].old = "driver"
    ELSE slot = "driver"

\* Only an IRP that an unhook or the enabling of the monitoring overlapped is
\* not passed on to the target driver; and none enters the handler twice.
UndisturbedIrpsArrive ==
  \A t \in Irps : /\ irp[t] \in {"refused", "crashed"} => crossed[t]
                  /\ irp[t] # "looped"

\* The unloaded driver leaves no record and no hook behind.
UnloadLeavesNothing ==
  unload = "done" => slot = "driver" /\ \A r \in Records : ~rec[r].live

\* The handler finds the record of the driver whose entry led to it
\* (hook-handlers.c:1609 reports "Hook is installed for non-hooked driver").
HandlerFindsRecord == \A t \in Irps : irp[t] # "refused"

\* The unloading is not left waiting for a record (unless the machine crashed).
UnloadEnds ==
  unload = "wait" ~> unload = "done" \/ \E t \in Irps : irp[t] = "crashed"
=============================================================================
