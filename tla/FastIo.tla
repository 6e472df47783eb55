-------------------------------- MODULE FastIo --------------------------------
(***************************************************************************)
(* The hook handlers that are not IRP dispatchers (hook-handlers.c): the   *)
(* FastIo routines, StartIo, AddDevice and the driver's unload routine.    *)
(* They have one shape: find the records, decide whether to report, make   *)
(* the report, call the routine that was hooked, complete the report from  *)
(* what it answered, release the records.  A routine is described by what  *)
(* its handler does differently.                                           *)
(*                                                                         *)
(* A caller is "idle", or in a handler: "records" before it has looked     *)
(* them up, "catch", "call", "report", "unhook", "release", and "done"     *)
(* when its own caller has the answer.                                     *)
(***************************************************************************)
EXTENDS Integers, FiniteSets

CONSTANTS
  Callers,    \* threads that call the hooked driver
  MaxDepth    \* nested calls of one handler before its stack is used up

VARIABLES
  target,     \* the driver: has it a FastIo table, and this routine in it
  slot, old,  \* its entry ("driver" or "hook"), OldXxx of the record (or "null")
  rec,        \* the driver hook record
  device,     \* the device hook record: "none", "off" or "on" (monitored)
  devRefs,    \* references of handlers to it
  client,     \* what a client of the driver is doing with the record
  call,       \* each caller
  undef       \* why the behaviour is no longer defined: "no" when it is

vars == <<target, slot, old, rec, device, devRefs, client, call, undef>>

-----------------------------------------------------------------------------
(* result: the type of the answer; iosb: is the status block the original   *)
(* filled copied to the report; data: when are its data; unhooked: what a   *)
(* handler does that finds no record; catch: the settings that decide.      *)

Boolean == [result |-> "boolean", iosb |-> "own", data |-> "none",
            unhooked |-> "nothing", catch |-> "device"]
Status == [Boolean EXCEPT !.result = "status", !.iosb = "none", !.unhooked = "call"]

HookHandlerFastIoCheckIfPossible == Boolean
HookHandlerFastIoDetachDevice == [Boolean EXCEPT !.result = "void", !.iosb = "none"]
HookHandlerFastIoDeviceControl == Boolean
HookHandlerFastIoLock == Boolean
HookHandlerFastIoQueryBasicInfo == [Boolean EXCEPT !.data = "success"]
HookHandlerFastIoQueryNetworkOpenInfo == [Boolean EXCEPT !.data = "success"]
HookHandlerFastIoQueryOpenInfo == [Boolean EXCEPT !.iosb = "none", !.data = "true"]
HookHandlerFastIoQueryStandardInfo == [Boolean EXCEPT !.data = "success"]
HookHandlerFastIoRead == [Boolean EXCEPT !.data = "iosb"]
HookHandlerFastIoUnlockAll == Boolean
HookHandlerFastIoUnlockByKey == Boolean
HookHandlerFastIoUnlockSingle == Boolean
HookHandlerFastIoWrite == [Boolean EXCEPT !.data = "always", !.unhooked = "call"]
HookHandlerFastIoMdlRead == [Boolean EXCEPT !.unhooked = "call"]
HookHandlerFastIoMdlWrite == [Boolean EXCEPT !.unhooked = "call"]
HookHandlerFastIoMdlReadComplete == [Boolean EXCEPT !.iosb = "none", !.unhooked = "call"]
HookHandlerFastIoMdlWriteComplete == [Boolean EXCEPT !.iosb = "none", !.unhooked = "call"]
HookHandlerFastIoReadCompressed == [Boolean EXCEPT !.data = "success", !.unhooked = "call"]
HookHandlerFastIoWriteCompressed == [Boolean EXCEPT !.data = "success", !.unhooked = "call"]
HookHandlerFastIoAcquireForModWrite == [Status EXCEPT !.data = "resource"]
HookHandlerFastIoReleaseForModWrite == Status
HookHandlerFastIoAcquireForCcFlush == Status
HookHandlerFastIoReleaseForCcFlush == Status
HookHandlerFastIoMdlReadCompleteCompressed ==
  [Boolean EXCEPT !.iosb = "none", !.unhooked = "call"]
HookHandlerFastIoMdlWriteCompleteCompressed ==
  [Boolean EXCEPT !.iosb = "none", !.unhooked = "call"]
HookHandlerStartIoDispatch == [Boolean EXCEPT !.result = "void", !.iosb = "user"]
HookHandlerAddDeviceDispatch ==
  [Status EXCEPT !.unhooked = "nothing", !.catch = "driver", !.data = "detected"]
HookHandlerDriverUnloadDisptach ==
  [Boolean EXCEPT !.result = "void", !.iosb = "none", !.catch = "driver",
                  !.data = "unhook"]

FastIoRoutines == {
  HookHandlerFastIoCheckIfPossible, HookHandlerFastIoDetachDevice,
  HookHandlerFastIoDeviceControl, HookHandlerFastIoLock,
  HookHandlerFastIoQueryBasicInfo, HookHandlerFastIoQueryNetworkOpenInfo,
  HookHandlerFastIoQueryOpenInfo, HookHandlerFastIoQueryStandardInfo,
  HookHandlerFastIoRead, HookHandlerFastIoUnlockAll,
  HookHandlerFastIoUnlockByKey, HookHandlerFastIoUnlockSingle,
  HookHandlerFastIoWrite, HookHandlerFastIoMdlRead, HookHandlerFastIoMdlWrite,
  HookHandlerFastIoMdlReadComplete, HookHandlerFastIoMdlWriteComplete,
  HookHandlerFastIoReadCompressed, HookHandlerFastIoWriteCompressed,
  HookHandlerFastIoAcquireForModWrite, HookHandlerFastIoReleaseForModWrite,
  HookHandlerFastIoAcquireForCcFlush, HookHandlerFastIoReleaseForCcFlush,
  HookHandlerFastIoMdlReadCompleteCompressed,
  HookHandlerFastIoMdlWriteCompleteCompressed}
OtherRoutines == {HookHandlerStartIoDispatch, HookHandlerAddDeviceDispatch,
                  HookHandlerDriverUnloadDisptach}
Routines == FastIoRoutines \cup OtherRoutines

-----------------------------------------------------------------------------
NoReport == [made |-> FALSE, inserted |-> FALSE, result |-> "unset",
             iosb |-> FALSE, data |-> FALSE]

\* "original" is what the original routine answered; ptr: does the caller pass
\* the optional pointers (IoStatusBlock, MdlChain, ResourceToRelease)?
\* crossed: its lookups and calls saw a hooking or an unhooking half done.
Idle == [at |-> "idle", routine |-> HookHandlerFastIoLock, ptr |-> FALSE,
         depth |-> 0, dev |-> "none", calls |-> 0, original |-> "none",
         ret |-> "none", detected |-> 0, report |-> NoReport, crossed |-> FALSE]

Init ==
  /\ target \in {"no table", "without", "with"}
  /\ slot = "driver" /\ old = "null"
  /\ \E ext \in BOOLEAN :
       /\ ext \/ target = "with"
       /\ rec = [table |-> TRUE, refs |-> 1, enabled |-> FALSE, ext |-> ext,
                 newDevices |-> FALSE]
  /\ device \in {"none", "off"} /\ devRefs = 0
  /\ client = "idle"
  /\ call = [c \in Callers |-> Idle]
  /\ undef = "no"

\* A handler is reached through the driver's entry; with device extension
\* hooks, the FastIo handlers through proxies, which an unhook leaves in place.
Proxied(r) == rec.ext /\ r \in FastIoRoutines
Installed(r) == Proxied(r) \/ slot = "hook"
\* What a call of the driver's entry reaches.
Entry(r) == IF ~Proxied(r) THEN slot
            ELSE IF target = "with" THEN "driver" ELSE "null"

(* The client: DriverHookRecordEnable, DriverHookRecordSetInfo, the         *)
(* monitoring of the device and UnhookDriverObject.                         *)
Client(from, to) == client = from /\ client' = to /\ undef = "no"

Enable ==
  /\ Client("idle", "exchange")
  /\ rec.table /\ ~rec.enabled
  /\ rec' = [rec EXCEPT !.enabled = TRUE]
  /\ UNCHANGED <<target, slot, old, device, devRefs, call, undef>>
Exchange ==
  /\ Client("exchange", "store")
  /\ slot' = "hook"
  /\ UNCHANGED <<target, old, rec, device, devRefs, call, undef>>
Store ==
  /\ Client("store", "idle")
  /\ old' = "driver"
  /\ UNCHANGED <<target, slot, rec, device, devRefs, call, undef>>
Disable ==
  /\ Client("idle", "restore")
  /\ rec.table /\ rec.enabled
  /\ rec' = [rec EXCEPT !.enabled = FALSE]
  /\ UNCHANGED <<target, slot, old, device, devRefs, call, undef>>
Unhook ==
  /\ Client("idle", IF rec.enabled THEN "restore" ELSE "idle")
  /\ rec.table
  /\ rec' = [rec EXCEPT !.table = FALSE, !.refs = @ - 1]
  /\ UNCHANGED <<target, slot, old, device, devRefs, call, undef>>
Restore ==
  /\ Client("restore", "idle")
  /\ slot' = "driver"
  /\ rec' = [rec EXCEPT !.enabled = FALSE]
  /\ UNCHANGED <<target, old, device, devRefs, call, undef>>
Change ==
  /\ Client("idle", "idle")
  /\ \/ /\ rec' = [rec EXCEPT !.newDevices = ~@]
        /\ UNCHANGED device
     \/ /\ device \in {"off", "on"}
        /\ device' = IF device = "off" THEN "on" ELSE "off"
        /\ UNCHANGED rec
  /\ UNCHANGED <<target, slot, old, devRefs, call, undef>>

-----------------------------------------------------------------------------
(* The handler.                                                             *)

At(c, place) == call[c].at = place /\ undef = "no"
Become(c, k) == call' = [call EXCEPT ![c] = k]

Enter(c, r, ptr) ==
  /\ At(c, "idle") /\ Installed(r)
  /\ Become(c, [Idle EXCEPT !.at = "records", !.routine = r, !.ptr = ptr,
                            !.depth = 1, !.crossed = client # "idle"])
  /\ UNCHANGED <<target, slot, old, rec, device, devRefs, client, undef>>

\* _GetHookRecords; the handlers of the driver look up no device.
GetHookRecords(c) ==
  LET k == call[c] IN
  /\ At(c, "records") /\ rec.table
  /\ LET d == IF k.routine.catch = "driver" THEN "none" ELSE device IN
     /\ Become(c, [k EXCEPT !.at = "catch", !.dev = d])
     /\ devRefs' = devRefs + (IF d = "none" THEN 0 ELSE 1)
  /\ rec' = [rec EXCEPT !.refs = @ + 1]
  /\ UNCHANGED <<target, slot, old, device, client, undef>>

\* No record.  Some handlers answer FALSE; the others call the routine of the
\* driver's table, which may again be the handler, or none.
NoRecord(c) ==
  LET k == call[c]
      Answer(n, answer) ==
        Become(c, [k EXCEPT !.at = "done", !.calls = n, !.crossed = TRUE,
                            !.original = IF n = 1 THEN answer ELSE "none",
                            !.ret = answer])
  IN
  /\ At(c, "records") /\ ~rec.table
  /\ CASE k.routine.unhooked = "nothing" -> Answer(0, "no") /\ UNCHANGED undef
       [] Entry(k.routine) = "hook" ->
            /\ Become(c, [k EXCEPT !.depth = @ + 1, !.crossed = TRUE])
            /\ undef' = IF k.depth = MaxDepth THEN "stack overflow" ELSE "no"
       [] Entry(k.routine) = "null" -> undef' = "null called" /\ UNCHANGED call
       [] OTHER -> (\E answer \in {"yes", "no"} : Answer(1, answer)) /\ UNCHANGED undef
  /\ UNCHANGED <<target, slot, old, rec, device, devRefs, client>>

\* _CatchRequest: a device that is new is added and reported, or the adding
\* fails; its request is caught in both cases.
Caught(k) ==
  rec.enabled /\ (\/ k.routine.catch = "driver"
                  \/ rec.newDevices /\ k.dev = "none"
                  \/ k.dev # "none" /\ device = "on")

\* _CreateFastIoRequest may find no memory.
Catch(c) ==
  LET k == call[c] IN
  /\ At(c, "catch")
  /\ \E made \in {Caught(k)} \cup {FALSE}, added \in BOOLEAN :
       /\ added => /\ rec.enabled /\ rec.newDevices /\ k.dev = "none"
                   /\ k.routine.catch = "device" /\ device = "none"
       /\ Become(c, [k EXCEPT !.at = "call", !.report.made = made,
                              !.detected = IF added THEN 1 ELSE 0])
       /\ device' = IF added THEN "on" ELSE device
  /\ UNCHANGED <<target, slot, old, rec, devRefs, client, undef>>

\* What the original answers: "error" is TRUE with a failure in the status
\* block.  A routine that is absent is not called: FALSE, or success.
Answers(k) == IF k.routine.result = "boolean" THEN {"yes", "error", "no"}
                                              ELSE {"yes", "no"}
\* _GetOriginalFastIo; the others take the record's pointer as it is.
Original(k) ==
  IF Proxied(k.routine)
  THEN CASE target = "no table" -> "no table"
         [] target = "without"  -> "null"
         [] OTHER               -> "driver"
  ELSE old

CallOriginal(c) ==
  LET k == call[c]
      next == [k EXCEPT !.at = IF k.routine.data = "unhook" THEN "unhook" ELSE "report"]
  IN
  /\ At(c, "call")
  /\ CASE Original(k) = "no table" ->
            undef' = "null table" /\ UNCHANGED call
       [] Original(k) = "null" /\ k.routine \in FastIoRoutines ->
            /\ Become(c, [next EXCEPT
                 !.ret = IF k.routine.result = "status" THEN "yes" ELSE "no"])
            /\ UNCHANGED undef
       [] Original(k) = "null" /\ k.routine \in OtherRoutines ->
            undef' = "null called" /\ UNCHANGED call
       [] OTHER ->
            /\ \E answer \in Answers(k) :
                 Become(c, [next EXCEPT !.calls = @ + 1, !.original = answer,
                              !.ret = IF answer = "error" THEN "yes" ELSE answer])
            /\ UNCHANGED undef
  /\ UNCHANGED <<target, slot, old, rec, device, devRefs, client>>

\* The unload handler unhooks the driver it was called for.
UnloadUnhook(c) ==
  LET k == call[c] IN
  /\ At(c, "unhook")
  /\ IF rec.table
     THEN /\ rec' = [rec EXCEPT !.table = FALSE, !.refs = @ - 1, !.enabled = FALSE]
          /\ slot' = "driver"
          /\ Become(c, [k EXCEPT !.at = "report"])
          /\ UNCHANGED undef
     ELSE undef' = "unhooked twice" /\ UNCHANGED <<rec, slot, call>>
  /\ UNCHANGED <<target, old, device, devRefs, client>>

\* Mutant: the status block is copied whatever the routine answered.
CopiesIosbAlways(k) == k.routine.iosb # "none" /\ k.ptr

\* Which data the original's answer lets the handler copy.
CopiesIosb(k) ==
  CASE k.routine.iosb = "own"  -> k.ret = "yes" /\ k.ptr
    [] k.routine.iosb = "user" -> k.ptr
    [] OTHER                   -> FALSE

CopiesData(k) ==
  CASE k.routine.data = "success"  -> CopiesIosb(k) /\ k.original = "yes"
    [] k.routine.data = "iosb"     -> CopiesIosb(k)
    [] k.routine.data = "true"     -> k.ret = "yes"
    [] k.routine.data = "always"   -> k.ptr
    [] k.routine.data = "resource" -> k.ret = "yes" /\ k.ptr
    [] OTHER                       -> FALSE

\* The report, and AddDevice's reports of the devices it finds in the stack:
\* a driver and a device each time, made or not.  Memory may be read that is
\* gone or was never written: StartIo's status block after the IRP was
\* completed; the resource of a routine that is absent; Write's status block
\* after an answer FALSE, whose Information may exceed the report's room.
Unwritten(k) == k.routine.data = "resource" /\ k.calls = 0
Completed(k) ==
  IF ~k.report.made THEN NoReport
  ELSE [made |-> TRUE, inserted |-> TRUE,
        result |-> IF k.routine.result = "void" THEN "unset" ELSE k.ret,
        iosb |-> CopiesIosb(k), data |-> CopiesData(k)]
Report(c) ==
  LET k == call[c]
      Undefined(why) == k.report.made /\ k.ptr /\ undef' = why /\ UNCHANGED call
  IN
  /\ At(c, "report")
  /\ \/ /\ ~(CopiesData(k) /\ Unwritten(k))
        /\ \E n \in IF k.routine.data = "detected" THEN 0..2 ELSE {k.detected} :
             Become(c, [k EXCEPT !.at = "release", !.detected = n,
                                 !.report = Completed(k)])
        /\ UNCHANGED undef
     \/ CopiesData(k) /\ Unwritten(k) /\ Undefined("never written")
     \/ k.routine.iosb = "user" /\ k.original = "yes" /\ Undefined("status block gone")
     \/ k.routine.data = "always" /\ k.ret = "no" /\ Undefined("overrun")
  /\ UNCHANGED <<target, slot, old, rec, device, devRefs, client>>

Release(c) ==
  LET k == call[c] IN
  /\ At(c, "release")
  /\ Become(c, [k EXCEPT !.at = "done"])
  /\ devRefs' = devRefs - (IF k.dev = "none" THEN 0 ELSE 1)
  /\ rec' = [rec EXCEPT !.refs = @ - 1]
  /\ UNCHANGED <<target, slot, old, device, client, undef>>

Again(c) ==
  /\ At(c, "done")
  /\ Become(c, Idle)
  /\ UNCHANGED <<target, slot, old, rec, device, devRefs, client, undef>>

Next ==
  \/ Enable \/ Exchange \/ Store \/ Disable \/ Unhook \/ Restore \/ Change
  \/ \E c \in Callers :
       \/ \E r \in Routines, ptr \in BOOLEAN : Enter(c, r, ptr)
       \/ GetHookRecords(c) \/ NoRecord(c) \/ Catch(c) \/ CallOriginal(c)
       \/ UnloadUnhook(c) \/ Report(c) \/ Release(c) \/ Again(c)
Spec == Init /\ [][Next]_vars

-----------------------------------------------------------------------------
\* The references are those of the table and of the handlers.
Held(c) == call[c].at \in {"catch", "call", "report", "unhook", "release"}
RefsExact ==
  /\ rec.refs = (IF rec.table THEN 1 ELSE 0) + Cardinality({c \in Callers : Held(c)})
  /\ devRefs = Cardinality({c \in Callers : Held(c) /\ call[c].dev # "none"})

\* The driver's routine is called once, unless the call met a hooking or an
\* unhooking, and its caller has its answer.
CalledOnce(k) ==
  /\ k.calls <= 1
  /\ k.calls = 0 => k.crossed \/ target # "with"
  /\ k.calls = 1 => (k.ret = "yes" <=> k.original \in {"yes", "error"})

\* The report says what the caller got.
ReportTruthful(k) ==
  /\ k.report.made <=> k.report.inserted
  /\ k.report.made =>
       /\ k.report.result \in {k.ret, "unset"}
       /\ k.report.result = "unset" <=> k.routine.result = "void"
       /\ k.report.iosb /\ k.routine.iosb = "own" => k.ptr /\ k.original \in {"yes", "error"}
       /\ k.report.data =>
            \/ k.routine.data = "always" \/ k.original = "yes"
            \/ k.routine.data \in {"iosb", "true"} /\ k.original = "error"

HandlersTruthful ==
  undef = "no" =>
    /\ RefsExact
    /\ \A c \in Callers :
         call[c].at = "done" => CalledOnce(call[c]) /\ ReportTruthful(call[c])
=============================================================================
