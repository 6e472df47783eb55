----------------------------- MODULE DeviceHook -----------------------------
(***************************************************************************)
(* The device records of a hooked driver (hook.c): the list of a driver's  *)
(* devices (SelectedDevices), the table that validates record ids, the     *)
(* handles (um-services.c), the proxies of device extension hooks          *)
(* (devext-hooks.c) and the hook handlers that look records up and add the *)
(* devices they meet (hook-handlers.c).  One device of one driver: the     *)
(* lists of different devices do not touch each other.                     *)
(*                                                                         *)
(* An actor is "idle" or between two steps: "insert", "proxy", "make" of   *)
(* DriverHookRecordAddDevice, reached by the service or by a handler,      *)
(* "back" when the proxy failed; "find", "revert", "invalidate" of         *)
(* DriverHookRecordDeleteDevice; "handle" of HandleTableHandleCreate;      *)
(* "clear" of UnhookDriverObject; "device", "catch", "call" of a handler;  *)
(* "close" when a service still closes its handle; "translate to ..." with *)
(* a handle's record not yet referenced, "set" with it referenced; "fill"  *)
(* of HookObjectsEnumerate; "leave" when it still drops what it holds.     *)
(***************************************************************************)
EXTENDS Integers, FiniteSets

CONSTANTS
  DriverRecords,  \* places in memory for driver hook records
  Records,        \* places in memory for device hook records
  Handles,        \* handle values
  Controllers,    \* clients that hook, unhook, add and delete devices
  Openers,        \* clients that open by id, change, enumerate and close
  Handlers,       \* threads whose requests reach the hook handlers
  Nobody

VARIABLES
  drv,      \* the target driver's record in _driverTable, or Nobody
  drec,     \* driver records; history: a device was added after the unhook
  sel,      \* SelectedDevices of each driver record: the device's record
  dev,      \* device records
  valid,    \* _deviceValidationTable
  handles,  \* _deviceHandleTable
  at, job,  \* each actor: where it is, what it holds
  undef     \* why the behaviour is no longer defined: "no" when it is

vars == <<drv, drec, sel, dev, valid, handles, at, job, undef>>

Actors == Controllers \cup Openers \cup Handlers

\* An actor is a client of one kind, or a handler; nothing is called Nobody.
DeviceAssumption ==
  /\ IsFiniteSet(DriverRecords) /\ IsFiniteSet(Records)
  /\ IsFiniteSet(Handles) /\ IsFiniteSet(Actors)
  /\ Nobody \notin DriverRecords \cup Records \cup Handles \cup Actors
  /\ Controllers \cap Openers = {} /\ Controllers \cap Handlers = {}
  /\ Openers \cap Handlers = {}

ASSUME DeviceHookAssumption == DeviceAssumption

Freed == [refs |-> 0, owner |-> Nobody, reason |-> "none",
          proxy |-> FALSE, by |-> Nobody, crossed |-> FALSE]
Made(d, reason) == [refs |-> 1, owner |-> d, reason |-> reason,
                    proxy |-> FALSE, by |-> Nobody, crossed |-> FALSE]
NoJob == [driver |-> Nobody, new |-> Nobody, got |-> Nobody, found |-> Nobody,
          hnd |-> Nobody, added |-> FALSE, size |-> 0]

Init ==
  /\ drv = Nobody
  /\ drec = [d \in DriverRecords |-> [refs |-> 0, ext |-> FALSE, late |-> FALSE]]
  /\ sel = [d \in DriverRecords |-> Nobody]
  /\ dev = [r \in Records |-> Freed]
  /\ valid = {}
  /\ handles = [h \in Handles |-> Nobody]
  /\ at = [a \in Actors |-> "idle"]
  /\ job = [a \in Actors |-> NoJob]
  /\ undef = "no"

\* An actor in the middle of _DeviceHookRecordFree does nothing else.
Freeing(a) == {r \in Records : dev[r].by = a}
At(a, place) == at[a] = place /\ Freeing(a) = {} /\ undef = "no"
Goto(a, place) == at' = [at EXCEPT ![a] = place]
Hold(a, field, x) == job' = [job EXCEPT ![a][field] = x]
Leave(a) == Goto(a, "idle") /\ job' = [job EXCEPT ![a] = NoJob]

\* DeviceHookRecordReference, DeviceHookRecordDereference and the same of a
\* driver record.  Who drops the last reference frees the record.
Referenced(r) == [dev EXCEPT ![r].refs = @ + 1]
Dropped(r, a) ==
  [dev EXCEPT ![r].refs = @ - 1, ![r].by = IF dev[r].refs = 1 THEN a ELSE @]
DriverRefs(d, n) == [drec EXCEPT ![d].refs = @ + n]

Free(a) ==
  /\ undef = "no"
  /\ \E r \in Freeing(a) :
       /\ valid' = valid \ {r}
       /\ drec' = DriverRefs(dev[r].owner, -1)
       /\ dev' = [dev EXCEPT ![r] = Freed]
  /\ UNCHANGED <<drv, sel, handles, at, job, undef>>

\* The record that is being added: the new one, or the one it met.
Target(a) == IF job[a].got = Nobody THEN job[a].new ELSE job[a].got

\* History: an adding and a deletion that are under way with one record.
Adding(r) == \E a \in Actors : at[a] \in {"proxy", "make"} /\ Target(a) = r
Deleting(r) == \E a \in Actors : job[a].found = r
Cross(d, r, other) == IF other THEN [d EXCEPT ![r].crossed = TRUE] ELSE d

-----------------------------------------------------------------------------
(* HookDriverObject and UnhookDriverObject as the devices see them.  A      *)
(* record made for a device the driver already has is in no other hands     *)
(* before the driver's record is in the table.                              *)

Hook(c, d, ext) ==
  /\ c \in Controllers /\ At(c, "idle") /\ drv = Nobody /\ drec[d].refs = 0
  /\ drv' = d
  /\ \/ /\ drec' = [drec EXCEPT ![d] = [refs |-> 1, ext |-> ext, late |-> FALSE]]
        /\ UNCHANGED <<dev, sel>>
     \/ \E r \in Records :
          /\ dev[r] = Freed
          /\ drec' = [drec EXCEPT ![d] = [refs |-> 2, ext |-> ext, late |-> FALSE]]
          /\ dev' = [dev EXCEPT ![r] = Made(d, "hooked")]
          /\ sel' = [sel EXCEPT ![d] = r]
  /\ UNCHANGED <<valid, handles, at, job, undef>>

UnhookDelete(c) ==
  /\ c \in Controllers /\ At(c, "idle") /\ drv # Nobody
  /\ drv' = Nobody
  /\ Hold(c, "driver", drv) /\ Goto(c, "clear")
  /\ UNCHANGED <<drec, sel, dev, valid, handles, undef>>

UnhookClear(c) ==
  /\ At(c, "clear")
  /\ LET d == job[c].driver IN
     /\ sel' = [sel EXCEPT ![d] = Nobody]
     /\ dev' = IF sel[d] = Nobody THEN dev ELSE Dropped(sel[d], c)
  /\ Goto(c, "leave")
  /\ UNCHANGED <<drv, drec, valid, handles, job, undef>>

\* The last references an actor holds, one by one: the device records, then
\* the driver's (for an unhook, the one of the table).
DropNew(a) ==
  /\ At(a, "leave") /\ job[a].new # Nobody
  /\ dev' = Dropped(job[a].new, a) /\ Hold(a, "new", Nobody)
  /\ UNCHANGED <<drv, drec, sel, valid, handles, at, undef>>
DropGot(a) ==
  /\ At(a, "leave") /\ job[a].new = Nobody /\ job[a].got # Nobody
  /\ dev' = Dropped(job[a].got, a) /\ Hold(a, "got", Nobody)
  /\ UNCHANGED <<drv, drec, sel, valid, handles, at, undef>>
DropDriver(a) ==
  /\ At(a, "leave") /\ job[a].new = Nobody /\ job[a].got = Nobody
  /\ drec' = IF job[a].driver = Nobody THEN drec
             ELSE DriverRefs(job[a].driver, -1)
  /\ Leave(a)
  /\ UNCHANGED <<drv, sel, dev, valid, handles, undef>>

-----------------------------------------------------------------------------
(* DriverHookRecordAddDevice.                                               *)

\* The service finds the driver's record; a handler has it already.
Create(a, r) ==
  /\ dev[r] = Freed
  /\ LET d == IF a \in Handlers THEN job[a].driver ELSE drv IN
     /\ \/ a \in Controllers /\ At(a, "idle") /\ drv # Nobody
        \/ a \in Handlers /\ At(a, "catch") /\ job[a].got = Nobody
     /\ drec' = DriverRefs(d, IF a \in Handlers THEN 1 ELSE 2)
     /\ dev' = [dev EXCEPT ![r] = Made(d, "user")]
     /\ job' = [job EXCEPT ![a].driver = d, ![a].new = r]
  /\ Goto(a, "insert")
  /\ UNCHANGED <<drv, sel, valid, handles, undef>>

\* Mutant: Insert that does not count the reference of the list.
InsertUncounted(a) ==
  /\ At(a, "insert")
  /\ sel[job[a].driver] = Nobody
  /\ sel' = [sel EXCEPT ![job[a].driver] = job[a].new]
  /\ Goto(a, "proxy")
  /\ UNCHANGED <<drv, drec, dev, valid, handles, job, undef>>

\* Under the driver record's lock: the device has no record yet, or "got"
\* becomes the record it has.
Insert(a) ==
  /\ At(a, "insert")
  /\ LET d == job[a].driver IN
     IF sel[d] = Nobody
     THEN /\ sel' = [sel EXCEPT ![d] = job[a].new]
          /\ dev' = Referenced(job[a].new)
          /\ drec' = IF drv = d THEN drec ELSE [drec EXCEPT ![d].late = TRUE]
          /\ Goto(a, "proxy")
          /\ UNCHANGED job
     ELSE /\ dev' = Cross(Referenced(sel[d]), sel[d], Deleting(sel[d]) \/ Adding(sel[d]))
          /\ Hold(a, "got", sel[d])
          /\ Goto(a, IF dev[sel[d]].reason = "hooked" THEN "proxy" ELSE "leave")
          /\ UNCHANGED <<sel, drec>>
  /\ UNCHANGED <<drv, valid, handles, undef>>

\* ProxyDeviceCreate, which fails when memory is short or nothing is above.
Proxy(a) ==
  /\ At(a, "proxy")
  /\ \/ /\ ~drec[job[a].driver].ext
        /\ Goto(a, "make") /\ UNCHANGED dev
     \/ /\ drec[job[a].driver].ext
        /\ dev' = [dev EXCEPT ![Target(a)].proxy = TRUE]
        /\ Goto(a, "make")
     \/ /\ drec[job[a].driver].ext
        /\ Goto(a, IF job[a].got = Nobody THEN "back" ELSE "leave")
        /\ UNCHANGED dev
  /\ UNCHANGED <<drv, drec, sel, valid, handles, job, undef>>

\* The new record goes out of the list again, and its reference with it: an
\* unhook that emptied the list meanwhile has already dropped that one.
TakeBack(a) ==
  /\ At(a, "back")
  /\ LET d == job[a].driver IN
     IF sel[d] = job[a].new
     THEN /\ sel' = [sel EXCEPT ![d] = Nobody]
          /\ dev' = Dropped(job[a].new, a)
          /\ Goto(a, "leave")
          /\ UNCHANGED undef
     ELSE /\ undef' = "dropped twice"
          /\ UNCHANGED <<sel, dev, at>>
  /\ UNCHANGED <<drv, drec, valid, handles, job>>

\* The record becomes valid, and the user's if it was not.  Inserting a record
\* that is in the table of valid ones again breaks the bucket's chain.
Make(a) ==
  /\ At(a, "make")
  /\ LET r == Target(a) IN
     IF r \in valid
     THEN undef' = "inserted twice" /\ UNCHANGED <<dev, valid, job, at>>
     ELSE /\ valid' = valid \cup {r}
          /\ dev' = IF job[a].got = Nobody THEN Referenced(r)
                    ELSE [Referenced(r) EXCEPT ![r].reason = "user"]
          /\ Hold(a, "added", TRUE)
          /\ Goto(a, IF a \in Handlers THEN "report" ELSE "handle")
          /\ UNCHANGED undef
  /\ UNCHANGED <<drv, drec, sel, handles>>

\* A handler reports the device and drops the record AddDevice gave it.
Report(a) ==
  /\ At(a, "report")
  /\ dev' = Dropped(Target(a), a) /\ Hold(a, "added", FALSE)
  /\ Goto(a, "leave")
  /\ UNCHANGED <<drv, drec, sel, valid, handles, undef>>

-----------------------------------------------------------------------------
(* UMHookAddDevice gives the client a handle; a step that fails takes the   *)
(* device back.                                                             *)

HandleCreate(a, h) ==
  /\ At(a, "handle") /\ handles[h] = Nobody
  /\ handles' = [handles EXCEPT ![h] = Target(a)]
  /\ dev' = Referenced(Target(a))
  /\ Hold(a, "hnd", h) /\ Goto(a, "output")
  /\ UNCHANGED <<drv, drec, sel, valid, undef>>

\* "added" says that the reference AddDevice passed out is still held.
HandleCreateFail(a) ==
  /\ At(a, "handle")
  /\ Goto(a, IF a \in Openers THEN "leave" ELSE "find")
  /\ UNCHANGED <<drv, drec, sel, dev, valid, handles, job, undef>>

Output(a) ==
  /\ At(a, "output")
  /\ \/ Goto(a, IF a \in Openers THEN "leave" ELSE "out") /\ UNCHANGED <<dev, handles>>
     \/ /\ handles' = [handles EXCEPT ![job[a].hnd] = Nobody]
        /\ dev' = IF handles[job[a].hnd] = Nobody THEN dev
                  ELSE Dropped(handles[job[a].hnd], a)
        /\ Goto(a, IF a \in Openers THEN "leave" ELSE "find")
  /\ UNCHANGED <<drv, drec, sel, valid, job, undef>>

Out(a) ==
  /\ At(a, "out")
  /\ dev' = Dropped(Target(a), a) /\ Hold(a, "added", FALSE)
  /\ Goto(a, "leave")
  /\ UNCHANGED <<drv, drec, sel, valid, handles, undef>>

-----------------------------------------------------------------------------
(* DriverHookRecordDeleteDevice, of a record translated from a handle or of *)
(* the record whose adding failed.  The list has no record of the device    *)
(* after an unhook.                                                         *)

\* HandleTablehandleTranslate: the record is referenced once the table is
\* unlocked, when another client may have closed the handle and freed it.
Translate(a, h, place) ==
  /\ At(a, "idle") /\ handles[h] # Nobody
  /\ job' = [job EXCEPT ![a].got = handles[h], ![a].hnd = h]
  /\ Goto(a, place)
  /\ UNCHANGED <<drv, drec, sel, dev, valid, handles, undef>>
Refer(a, from, to) ==
  /\ At(a, from)
  /\ IF dev[job[a].got].refs = 0
     THEN undef' = "used after it was freed" /\ UNCHANGED <<dev, at>>
     ELSE dev' = Referenced(job[a].got) /\ Goto(a, to) /\ UNCHANGED undef
  /\ UNCHANGED <<drv, drec, sel, valid, handles, job>>
Translating == {"translate to delete", "translate to set"}

DeleteDevice(c, h) ==
  \/ c \in Controllers /\ Translate(c, h, "translate to delete")
  \/ Refer(c, "translate to delete", "find")

\* After: an added device's reference goes back, or the handle is closed.
AfterDelete(a, success) ==
  IF job[a].added THEN "out" ELSE IF success THEN "close" ELSE "leave"

\* The record it changes is the one the list has for the device.
Find(a) ==
  /\ At(a, "find")
  /\ LET r == sel[dev[Target(a)].owner] IN
     IF r # Nobody /\ dev[r].reason = "user"
     THEN /\ dev' = Cross(Referenced(r), r, Deleting(r) \/ Adding(r))
          /\ Hold(a, "found", r) /\ Goto(a, "revert")
     ELSE Goto(a, AfterDelete(a, FALSE)) /\ UNCHANGED <<dev, job>>
  /\ UNCHANGED <<drv, drec, sel, valid, handles, undef>>

Revert(a) ==
  /\ At(a, "revert")
  /\ dev' = [dev EXCEPT ![job[a].found].proxy = FALSE,
                        ![job[a].found].reason = "hooked"]
  /\ Goto(a, "invalidate")
  /\ UNCHANGED <<drv, drec, sel, valid, handles, job, undef>>

Invalidate(a) ==
  /\ At(a, "invalidate")
  /\ valid' = valid \ {job[a].found}
  /\ dev' = Dropped(job[a].found, a) /\ Hold(a, "found", Nobody)
  /\ Goto(a, AfterDelete(a, TRUE))
  /\ UNCHANGED <<drv, drec, sel, handles, undef>>

Close(a) ==
  /\ At(a, "close")
  /\ handles' = [handles EXCEPT ![job[a].hnd] = Nobody]
  /\ dev' = IF handles[job[a].hnd] = Nobody THEN dev
            ELSE Dropped(handles[job[a].hnd], a)
  /\ Goto(a, "leave")
  /\ UNCHANGED <<drv, drec, sel, valid, job, undef>>

-----------------------------------------------------------------------------
(* A second client: UMOpenObjectById, UMCloseHandle, UMHookedDeviceSetInfo  *)
(* and UMHookedObjectsEnumerate.                                            *)

\* The id of a record whose last reference is gone is valid until the
\* record's freeing takes it out of the table.
Open(c, r) ==
  /\ c \in Openers /\ At(c, "idle") /\ r \in valid
  /\ IF dev[r].refs = 0
     THEN undef' = "opened while freed" /\ UNCHANGED <<dev, job, at>>
     ELSE /\ dev' = Referenced(r) /\ Hold(c, "got", r) /\ Goto(c, "handle")
          /\ UNCHANGED undef
  /\ UNCHANGED <<drv, drec, sel, valid, handles>>

CloseHandle(c, h) ==
  /\ c \in Openers /\ At(c, "idle") /\ handles[h] # Nobody
  /\ handles' = [handles EXCEPT ![h] = Nobody]
  /\ dev' = Dropped(handles[h], c)
  /\ UNCHANGED <<drv, drec, sel, valid, at, job, undef>>

SetInfo(c, h) ==
  \/ c \in Openers /\ Translate(c, h, "translate to set")
  \/ Refer(c, "translate to set", "set")
Set(c) ==
  /\ At(c, "set")
  /\ Goto(c, "leave")
  /\ UNCHANGED <<drv, drec, sel, dev, valid, handles, job, undef>>

\* HookObjectsEnumerate counts the user's devices and then copies them: the
\* table of drivers is locked all the time, the list of devices is not.
Listed == IF drv # Nobody /\ sel[drv] # Nobody /\ dev[sel[drv]].reason = "user"
          THEN 1 ELSE 0
Measure(c) ==
  /\ c \in Openers /\ At(c, "idle") /\ drv # Nobody
  /\ Hold(c, "size", Listed) /\ Goto(c, "fill")
  /\ UNCHANGED <<drv, drec, sel, dev, valid, handles, undef>>
Fill(c) ==
  /\ At(c, "fill")
  /\ IF Listed > job[c].size
     THEN undef' = "overrun" /\ UNCHANGED <<at, job>>
     ELSE Leave(c) /\ UNCHANGED undef
  /\ UNCHANGED <<drv, drec, sel, dev, valid, handles>>
Locked == \E c \in Openers : at[c] = "fill"

-----------------------------------------------------------------------------
(* A hook handler: _GetHookRecords, _CatchRequest, the original routine.    *)

Arrive(a) ==
  /\ a \in Handlers /\ At(a, "idle") /\ drv # Nobody
  /\ Hold(a, "driver", drv)
  /\ drec' = DriverRefs(drv, 1)
  /\ Goto(a, "device")
  /\ UNCHANGED <<drv, sel, dev, valid, handles, undef>>

GetDevice(a) ==
  /\ At(a, "device")
  /\ LET r == sel[job[a].driver] IN
     /\ Hold(a, "got", r)
     /\ dev' = IF r = Nobody THEN dev ELSE Referenced(r)
  /\ Goto(a, "catch")
  /\ UNCHANGED <<drv, drec, sel, valid, handles, undef>>

\* Without a new device to add: the original routine, then the release.
Call(a) ==
  /\ At(a, "catch")
  /\ Goto(a, "leave")
  /\ UNCHANGED <<drv, drec, sel, dev, valid, handles, job, undef>>

-----------------------------------------------------------------------------
\* Steps that take _driverTableLock.
LockedStep ==
  \/ \E c \in Controllers :
       \/ \E d \in DriverRecords, x \in BOOLEAN : Hook(c, d, x)
       \/ UnhookDelete(c)
       \/ \E r \in Records : Create(c, r)
  \/ \E a \in Handlers : Arrive(a)

FreeStep ==
  \/ \E a \in Actors :
       \/ Free(a) \/ DropNew(a) \/ DropGot(a) \/ DropDriver(a) \/ UnhookClear(a)
       \/ Insert(a) \/ Proxy(a) \/ TakeBack(a) \/ Make(a) \/ Report(a)
       \/ HandleCreateFail(a) \/ Output(a) \/ Out(a)
       \/ Find(a) \/ Revert(a) \/ Invalidate(a) \/ Close(a)
       \/ Set(a) \/ Fill(a) \/ GetDevice(a) \/ Call(a)
       \/ \E h \in Handles : \/ HandleCreate(a, h) \/ DeleteDevice(a, h)
                             \/ CloseHandle(a, h) \/ SetInfo(a, h)
  \/ \E a \in Handlers, r \in Records : Create(a, r)
  \/ \E c \in Openers : Measure(c) \/ \E r \in Records : Open(c, r)

\* Once the behaviour is undefined nothing more can be said of it.
Undefined == undef # "no" /\ UNCHANGED vars

Next == (~Locked /\ LockedStep) \/ FreeStep \/ Undefined
Spec == Init /\ [][Next]_vars

-----------------------------------------------------------------------------
\* What holds a device record: lists, handles, and the hands of the actors.
ListsWith(r) == {d \in DriverRecords : sel[d] = r}
HandlesOf(r) == {h \in Handles : handles[h] = r}
Creators(r) == {a \in Actors : job[a].new = r}
Getters(r) == {a \in Actors : job[a].got = r /\ at[a] \notin Translating}
Finders(r) == {a \in Actors : job[a].found = r}
Adders(r) == {a \in Actors : job[a].added /\ Target(a) = r}
References(r) ==
  Cardinality(ListsWith(r)) + Cardinality(HandlesOf(r)) + Cardinality(Creators(r))
    + Cardinality(Getters(r)) + Cardinality(Finders(r)) + Cardinality(Adders(r))

\* And a driver record: the table, its device records, the actors.
DevicesOf(d) == {r \in Records : dev[r].owner = d}
UsersOf(d) == {a \in Actors : job[a].driver = d}

\* Every reference counts, and nothing else does.
DeviceRefsExact == \A r \in Records : dev[r].refs = References(r)
DriverRefsExact ==
  \A d \in DriverRecords :
    drec[d].refs = (IF drv = d THEN 1 ELSE 0)
                     + Cardinality(DevicesOf(d)) + Cardinality(UsersOf(d))

\* A record in the list of its driver is valid if and only if it is the
\* user's, once nobody is changing it and unless two did at once; no freed
\* record is in a list or can be opened by its id.
ListsAgree ==
  /\ \A d \in DriverRecords :
       sel[d] # Nobody =>
         /\ dev[sel[d]].owner = d
         /\ ~dev[sel[d]].crossed /\ ~Adding(sel[d]) /\ ~Deleting(sel[d])
              /\ ~(\E a \in Actors : at[a] = "back" /\ Target(a) = sel[d])
            => (sel[d] \in valid <=> dev[sel[d]].reason = "user")
  /\ \A r \in valid : dev[r].owner # Nobody

\* With the driver unhooked and the handles closed nothing is left, unless a
\* handler added its device to the list after the unhook had emptied it.
NothingLeft ==
  (drv = Nobody /\ \A a \in Actors : at[a] = "idle" /\ Freeing(a) = {})
    => \A r \in Records : dev[r].owner # Nobody =>
         (\E h \in Handles : handles[h] = r) \/ drec[dev[r].owner].late

\* Whatever clients, handlers and the unhooking do to the device records, the
\* reference counts (hook.c:518) are exact, so that no record is freed while
\* somebody holds it, and the lists and the validation table agree (136, 149).
DeviceRecordsSound ==
  undef = "no" => DeviceRefsExact /\ DriverRefsExact /\ ListsAgree /\ NothingLeft
=============================================================================
