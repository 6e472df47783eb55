# IRPMon: a verification project

IRPMon watches the requests that Windows device objects and drivers receive.
A kernel driver replaces entries of driver objects, records every request in
an event queue, and hands the records to a user-mode client over IOCTLs. The
same protocol can be carried over a network, Hyper-V or virtio socket.

This directory models the concurrent and stateful core of that program in
TLA+, checks it with TLC on small instances, and proves the most important
invariants with TLAPS for instances of any size.

## 1. The system

### 1.1 Components, their state and their operations

| Component | Source | State | Operations |
|---|---|---|---|
| Event queue | `kbase/req-queue.c` | two lists of records (paged, nonpaged pool), a remove lock, a connect lock, `ReqQueueConnected`, Id counter, length counters, callback list | `RequestQueueInsert`, `Connect`, `Disconnect`, `Get`, `Clear`, `CallbackRegister/Unregister` |
| Boot log | `kbase/boot-log.c`, `kbase/data-loggers.c` | paged and nonpaged buffer lists, a small nonpaged cache, the save thread, the log file | queue callback, periodic save, `BLEnable`, `BLDisable` |
| Hook records | `kbase/hook.c` | driver hook records (reference counted, in a hash table and in a validation table), their device records, `MonitoringEnabled`, the replaced dispatch table | hook/unhook driver and device, enable/disable monitoring, set info, lookups |
| Hook handlers | `kbase/hook-handlers.c`, `kbase/devext-hooks.c` | per-IRP completion context with a reference count and a request record | IRP dispatch, IRP completion, FastIo, AddDevice, StartIo, DriverUnload |
| IOCTL services | `irpmndrv/um-services.c`, `irpmndrv/driver.c` | none of their own; user buffers | one service per IOCTL, create/cleanup/close |
| Handle table | `km-shared/handle-table.c` | handle values, objects, reference callbacks, lock | create, translate, close, clear |
| Hash tables | `km-shared/hash_table.c`, `string-hash-table.c`, `string-ref-table.c` | buckets of intrusive items | insert, get, delete, iterate, clear |
| Context tables | `km-shared/process-context-table.c`, `fo-context-table.c`, `kbase/thread-context.c` | tables keyed by process id, file object, thread id; records with reference counts | create or get, dereference, delete |
| Process and image events | `kbase/process-events.c`, `irpmndrv/image-load.c` | the process table; whether notify routines are registered | process created/exited, list on connect, image loaded |
| Watches | `kbase/pnp-driver-watch.c`, `irpmndrv/pnp-class-watch.c`, `irpmndrv/fs-watch.c` | watched names and classes; the class filter lists in the registry | register, unregister, new driver, new device |
| Registry callback | `kbase/registry-callback.c`, `key-record.c`, `value-record.c` | emulated keys and values | open, query, enumerate |
| Settings | `kbase/driver-settings.c`, `kbase/regman.c` | one settings block shared by everybody without a lock | load, save, set |
| Module framework | `km-shared/modules.c`, `kbase/kbase.c` | array of modules, reference count of the library | ordered init with rollback, finit |
| Utilities | `km-shared/allocator.c`, `utils.c`, `utils-dym-array.c`, `multistring.c` | dynamic array: buffer, reserved and valid length | push, grow, copy |
| Remote access | `libserver/libserver.c`, `irpmon-server`, `server-svc`, `libvsock` | a listening socket, the client served, a stop event | accept, read request, DeviceIoControl, write answer |
| Connectors | `device-`, `network-`, `hyperv-`, `vsock-connector` | a handle or socket | connect, send IOCTL, read answer, close |
| User-mode library | `irpmondll` | the connector in use | one wrapper per IOCTL |
| Clients | `irpmonc`, `gui`, `ReqList`, `DParser`, `CallbackStream`, `shared/pas`, `parsers` | request lists, filters, process lists, symbol tables | read loop, filter, format |

### 1.2 How they interact

Hook handlers run in the context of whatever thread sends a request, at up to
DISPATCH level. They look up the hook record, allocate a record, and call
`RequestQueueInsert`. Process, image and driver notifications do the same. The
queue either stores the record, gives it to the callbacks (the boot log is the
one there is), or frees it. A client opens the driver's device, hooks drivers
through handles, connects, and polls `IOCTL_IRPMNDRV_GET_RECORD`; each call may
return several records. Closing the device disconnects the queue.

All kernel state is shared memory; the mechanisms are spin locks, push locks,
resources, interlocked counters, remove locks and events. Persistent are the
boot log, the settings, the watched driver names, and the graphical client's
filters.

### 1.3 What is hard

* Insert, get, clear, connect and disconnect overlap: each uses short critical
  sections, and the order of their interlocked steps decides whether a record
  is lost, freed twice, delivered out of order, or left behind after a
  disconnect.
* Reference counts without locks: callbacks, hook records, IRP completion
  contexts, process and thread contexts.
* Check-then-act on flags (`MonitoringEnabled`, `ReqQueueConnected`, the boot
  log's handle).
* Failures in the middle: allocation, copying to the user buffer, a module's
  initialisation, a short network read.
* What is saved piece by piece: settings, keys of watched drivers, filters;
  the system may stop between two writes.
* Records that are processed long after they were captured, in a client whose
  user meanwhile filters, clears and stops.

PROJECT.json lists the hazards with their lines and the properties that cover them.

## 2. The modules

| Module | Models | Status |
|---|---|---|
| `ReqQueue` | `kbase/req-queue.c`: the event queue, one action per step another thread can observe | checked; its safety and the refinement proved |
| `EventQueue` | what the queue promises its users; `ReqQueue` implements it | the refined specification |
| `IrpCompletion` | `kbase/hook-handlers.c`: dispatch handler, completion routine, their context, the rundown | checked; its safety proved |
| `BootLog` | `kbase/boot-log.c` and the callback list of `req-queue.c` | checked; its safety proved |
| `DriverHook` | driver hook records of `kbase/hook.c`, `km-shared/handle-table.c`, the services of `irpmndrv/um-services.c` on them | checked; its safety proved |
| `DeviceHook` | device hook records of `kbase/hook.c`, proxies of `devext-hooks.c`, the services and handlers that use them | checked, in `Devices`; its safety proved |
| `FastIo` | the other handlers of `kbase/hook-handlers.c`: FastIo, StartIo, AddDevice, DriverUnload | checked, in `Components` |
| `ProcessEvents` | `kbase/process-events.c`, `irpmndrv/image-load.c`, `km-shared/process-context-table.c` | checked, in `Components` |
| `ThreadContexts` | `kbase/thread-context.c`, the capture of stack traces in `km-shared/utils.c` | checked, in `Components`; its safety proved |
| `FileContexts` | `km-shared/fo-context-table.c`, the file object events of the handlers | checked, in `Components`; its safety proved |
| `Registry` | `kbase/registry-callback.c`, `key-record.c`, `value-record.c`, `regman.c` and their user, the class watches of `irpmndrv/pnp-class-watch.c` | checked, in `Components` |
| `Modules` | `km-shared/modules.c`, `kbase/kbase.c`, `irpmndrv/driver.c`, the Init and Finit routines of every module | checked, in `Components` |
| `Watches` | `kbase/pnp-driver-watch.c`, the registry part of `boot-log.c`, `_AddDevice` of the class filter | checked, in `Components` |
| `Containers` | `km-shared/hash_table.c`, `utils-dym-array.c` | checked, in `Components` |
| `Enumeration` | the enumeration of drivers and devices in `km-shared/utils.c`, `irpmndrv/um-services.c` | checked, in `Components` |
| `Settings` | `kbase/driver-settings.c` | checked, in `Components` |
| `Library` | the lists and connectors of `irpmondll/driver-com.cpp` | checked, in `Components` |
| `Fetch` | `UMGetRequestRecord`, and the reading loop of `irpmonc/irpmonc.cpp` | checked, in `Components` |
| `Remote` | `libserver/libserver.c`, `network-connector/network-connector.c` | checked, in `Components` |
| `RequestList` | `gui/RequestThread.pas`, `shared/pas/RequestList.pas`, `ProcessList.pas`, `RefObject.pas` | checked, in `Components` |
| `Filters` | `gui/RequestFilter.pas`, `FillterForm.pas`, the filters of `MainForm.pas` | checked, in `Components` |
| `MCReqQueue`, `MCIrpCompletion`, `MCBootLog`, `MCDriverHook`, `MCDeviceHook` | the instances TLC checks; the `.cfg` files extend each to a run | |
| `MCComponents` | the instances of the other components, each by itself | |
| `ReqQueue_proofs`, `ReqQueueOrder_proofs`, `IrpCompletion_proofs`, `BootLog_proofs`, `DriverHook_proofs`, `DeviceHook_proofs`, `FileContexts_proofs`, `ThreadContexts_proofs` | the theorems | proved |

`IrpCompletion`, `BootLog` and `ReqQueue` meet at `RequestQueueInsert`:
`IrpCompletion` appends to the abstract sequence of what the function is given,
`ReqQueue` is the function while a client is or may be connected, and `BootLog`
its other branch. In `ReqQueue` the boot log is a flag, `bootLog`, and a record
that goes to it is "logged". `Fetch` goes on where `ReqQueue` hands a record to
a reader, `Remote` carries the reader's requests, and `RequestList` gets what
`Fetch` returned: a sequence of records in order.

The components of `MCComponents` share no state with one another. The module
therefore declares one set of variables (`s1`, `s2`, ...), instantiates every
component with them, and lets the variable `part`, which never changes, say
which component a behaviour is of. A property of this run says of each `part`
what its component's module states.

Where the code does what the language or the kernel leaves undefined (a null
or freed pointer, a stack or buffer overrun) a component's `undef` names it and
the behaviour ends there, or its properties claim nothing any more. Section 6
lists these places.

Definitions whose comment starts with "Mutant:" are wrong versions of the
action that follows them. They belong to no specification; each shows that the
property it is paired with in PROJECT.json would notice the mistake.

### 2.1 ReqQueue

State. `paged` and `npaged` are the two lists; `ioCount`, `removed` and
`removeEvent` the fields of the remove lock; `connectLock` the holder of the
connect push lock; `connected`, `collect`, `clearOnDisc` members of the
settings block; `lastId`, `length`, `pagedLength`, `npagedLength` the
interlocked counters. `pc` and `held` are the program counter and the local
variables of each thread. `mem` is the state of each record's memory. `preds`,
what was queued when a record got its Id, is a history variable used by the
properties only.

Steps. A list lock protects a section with no other shared access, so the
section is one step. Every interlocked operation whose order matters is a step:
taking and giving back the remove lock, drawing the Id, linking, counting. The
threads of a connect and a disconnect hold `connectLock` from the first to the
last step. A record that enters the system is any unused one; payload and size
are abstracted: whether a record fits the reader's buffer is a choice between
`GetDeliver` and `GetPutBack`.

The remove lock is the operating system's and is modelled from its use:
acquire fails once the lock is removed, release signals the event when the
count reaches zero, and release-and-wait gives back two references.

Ids do not wrap in the model (`lastId` is 32 bits wide in the code).

`EventQueue` has three variables: the stage of each record, what was queued
when it was announced, and whether the queue is open. Its `Take` states the
promise: from an open queue, after everything that was queued before the
record's announcement. The refinement maps a record in the reader's hand to
"queued" until the size check decides, and one a clear has taken over to
"discarded". It is claimed for one client: a second one that disconnects while
the first is reading makes `Take` happen on a closed queue.

### 2.2 IrpCompletion

For each IRP, `handler` and `completion` say where `HookHandlerIRPDisptach`
and `_HookHandlerIRPCompletion` are; `request` and `answer` are the two
records, `context` and `refs` the shared context and its count. `rundown` is
the count of `_rundownLock`, `queue` what `RequestQueueInsert` was given.

The completion routine may begin as soon as the handler has called the
original driver, and runs in any interleaving with the rest of the handler and
with the other IRP. Each allocation succeeds or fails, and each monitoring
setting is on or off, independently per IRP: both only decide whether a record
or the context is made, so three constants of kind SUBSET BOOLEAN stand for
both.

A thread that follows a null or dangling pointer is "faulted". This happens
when a context exists and the request record does not (finding
`IrpCompletionDoc`). `ContextOutlivesUse` and `NothingLeft` are therefore about
IRPs whose two records are both made (`BothMade`), `AnswersInserted` about
those whose request record is; `UnloadWaits`, `ReportedOnce` and
`CompletionAfterRequest` hold for all of them.

The records about file objects that a create or a cleanup adds, and the table
of file objects, are in `FileContexts`.

### 2.3 BootLog

The callback record is `linked`, `refs`, `callback`, `event`; `_blNPCache` and
`_blRequestListHead` are `np` and `paged`. An inserting thread references the
callback, calls `_BLOnRequest` at either IRQL, and drops its reference. The
saving thread opens the file, writes the header, and then takes over both
lists, the cache first, and writes record by record; opening, the header and
each write succeed or fail. `BLDisable` runs on behalf of a client that connects
or of the unloading driver.

A round of the saving thread that follows a failed header supersedes the file
of the round before. The records it held become "lost" and are not in
`FileComplete`'s sum any more.

`RequestQueueCallbackUnregister` drops the last reference outside the list
lock, so an insert can reference a record that is about to be freed. The
history variable `resurrected` marks that; `CallbackOutlivesUse`,
`DisableSavesAll` and `UnloadLeavesNothing` are claimed for behaviours in which
it did not happen. The run with `Disablers = {d1}` has one client at a time; two that
connect in quick succession, the first one disconnected by a third, can
unregister the callback twice.

### 2.4 DriverHook

One target driver. `table` is its record in `_driverTable`, `valid` the
validation table, `handles` the handle table, `rec` the memory of the records
(reference count, `MonitoringEnabled`, whether dispatch entries are monitored,
the original entry), `slot` the driver's dispatch entry. One entry stands for
all: the code exchanges each in a loop of the same statements, and neither the
properties nor the handlers tell two of them apart. `pc`, `op`, `hand`, `hnd`
and `kept` are each client's position and local variables.

A service is a chain of steps: a table operation under its lock is one, every
interlocked exchange and every unprotected read or write of
`MonitoringEnabled` is another. The record's address is its id, and addresses
are reused.

The references `HookDriverObject` takes for its caller and drops for itself at
the end cancel out and are left out. Settings that only change what is recorded
are abstracted. Device hook records, which hold references to their driver
record, and device extension hooks are in `DeviceHook`.

`StaleHandles` says whether clients go on using handles of unhooked records.
The code lets them, and the finding `HookAgainDoc` comes from it; the passing
run is about clients that do not. One client
controls (hooks, unhooks, enables, sets); the other opens records by id, closes
handles and goes away, which clears the handles of both.

`crossed` is a history variable: an unhook or a first enabling overlapped the
IRP, and it may go astray.

### 2.5 DeviceHook, FastIo

`DeviceHook` has one device of one driver. A device record (`dev`) is reached
from its driver record's list (`sel`), the table of valid ids and the handles,
and is created by the service or by a handler that meets a device of a driver
whose new devices are monitored. Its `refs` are counted against all places that
refer to it; a record nobody refers to is being freed `by` the actor that
dropped the last reference, in the order of `_DeviceHookRecordFree`. Adding,
deleting, unhooking the driver, opening by id, enumerating and the handlers
interleave between their critical sections. Driver records are reduced to what
device records need of them.

`FastIo` has one caller that enters any of the 28 routines. A routine is a
record of the ways in which its handler differs from the others: the type of
the answer, whether the status block and the data are reported, what happens
without a hook record. Calls nest (a handler may call the hooked driver
again), and a client hooks, enables, disables and unhooks meanwhile.

### 2.6 ProcessEvents, ThreadContexts, FileContexts

The system calls the notify routines of one process in order, and those of
different ones at the same time. `table` and `context` are the process table,
`view` what the client has been told by the snapshot and by events. A process
the driver could not know (short of memory, or started while the table was
filled) is in `missed`; an image that met the snapshot may be told `twice`.

A thread in `ThreadContexts` has a stack of captures, since the capture and the
allocation can reach a hook handler in the same thread. `table` is the hash
table as lookups see it: for each thread id the contexts with that id, in the
order they follow one another in the bucket, the latest first.

`FileContexts` follows requests on one file object: creates, others and
clean-ups, each caught or not. A context left by a clean-up that was not caught
makes the address `stale`; a file whose context could not be made is `unknown`.

### 2.7 Registry

One class key with the values UpperFilters and LowerFilters. `real` is what the
registry holds, `key` and `value` are the records. A program's operation finds
the key record, references it, passes through it, and may have a post
operation; a class watch registers and unregisters step by step. `Shown` is
what programs should be told: the registry's data with the service's name in it
exactly when the value is watched. `behind` marks values whose record was
overtaken by a write that did not pass through it.

### 2.8 Modules, Watches, Settings

`Modules` lists for each module's Init routine the steps that can fail or that
acquire something. `Uses` says which resource needs which other one. The driver
starts the library first; either can fail at every step and is rolled back.

`Watches` has the watched names, their registry keys (a key's name is the
driver's with its separators replaced, so names may collide), the loading loop
of the next start, and the drivers that come and go. A failed registry access
leaves a key `damaged`.

`Settings` reads and writes field by field. `alone` remembers a set that no
other one overlapped: only of that something can be promised.

### 2.9 Containers, Enumeration, Library

`Containers` runs the operations beside the sequence or map they implement and
compares every answer; `PerCents` is chosen larger than the code's 20 so that a
short array is extended by the percentage and by one.

`Enumeration` counts the references the code takes (`refs`) against those it
still knows of (`Holds`). Lists that turn out too small lose theirs (`lost`).

`Library` has the heap as the set of blocks of the four kinds of lists. Each
allocation may fail; `HeapAlloc` sets no last error, so the code's
`GetLastError` may then say that all is well.

### 2.10 Fetch, Remote

`Fetch` is one reader's request: as many records as fit are taken from the
queue and copied one by one, while others insert, disconnect and connect.

`Remote` has two streams per client. Messages are headers and payloads. A
stream from which one side took less than the other had sent is out of step
(`broken`): the code goes on using it, and a payload may then be taken for a
header.

### 2.11 RequestList, Filters

`RequestList`: the thread reads a record, collects its buffer and posts the
list (`PostRequestList`); the main thread processes a posted list in one step,
as the window's message handler does. All records are about one process id,
which is used again. `seen` is history: what was processed, dropped, and which
kinds every filter setting since then accepted.

`Filters`: a list of filters with the two links of each, twice while the dialog
is open, and the two files. `SectionOf` maps names to sections of the file,
which do not tell upper from lower case. `known` is history: what OK saved last and whether
the file it went to is the one that is read.

## 3. What is checked

### 3.1 Runs

| Run | Question | Instance | Distinct states |
|---|---|---|---|
| `ReqQueueRecords` | is each record in one place, do the counters follow the lists, does the reader see records in order, is every step one of `EventQueue`? | 3 records (1 paged), 2 handlers, 1 client, a connect that lists one process, clearing on and off | 2.3 million, with symmetry |
| `ReqQueueSessions` | does a disconnect wait for everyone, leave nothing behind, and return? | 2 records of different kinds, 2 handlers, 2 clients, one of which reads | 113 000 |
| `ReqQueueCollectDoc` | the documented meaning of the collect setting | violated, section 6 | |
| `IrpCompletion` | is the context freed once and by the last, are the records inserted once and in order, does the unloading wait and end? | 2 IRPs, every setting, every allocation failing or not | 18 700 |
| `IrpCompletionDoc` | are completions reported when IRPs are not monitored? | violated, section 6 | |
| `BootLog` | does the callback outlive its users, does every record reach the file, does `BLDisable` return? | 2 records, 2 inserting threads, 1 client, every file operation failing or not | 138 000 |
| `BootLogOffDoc` | is nothing logged when the setting is off? | violated, section 6 | |
| `DriverHook` | are references exact, do records outlive their use, do the driver's entries agree with the record, does the unloading end? | 2 record places, 2 handles, 2 clients, 1 IRP | 1.9 million |
| `Devices` | are the references of device records and of their driver records exact, whoever adds, deletes, meets and opens devices at once? | see 3.2 | 4.3 million |
| `Components` | are the references of process, thread, file, key and value records exact; do FastIo callers get the driver's answers; does the client know the processes; do programs see the registry's values; do start and stop undo one another; does the next start find what was saved; do containers and lists hold what they stand for; does a client get its answers and records, and attribute them rightly? | see 3.2 | 6.3 million, with symmetry |
| `HookAgainDoc` | is a driver's record where the assertion says it is? | violated, section 6 | |
| `HookHandlerDoc` | does the handler find its record? | violated, section 6 | |

### 3.2 Bounds and why they are enough

* Queue: two records of different kinds are the smallest instance in which the
  two lists must be merged; the third lets one record overtake two. Two
  handlers are needed for one to link between another's Id and link. Two clients are
  needed for a clear or a disconnect during a get. Records are not reused:
  a new one is like a freed one.
* `ReqQueueRecords` is reduced by the symmetry of records of one kind, which no
  property or action tells apart; it has no liveness property. `Components` is
  reduced likewise by the symmetry of the places of key and of value records.
* `ReqQueueSessions` sets `MaxSnapshot = 0` (then no connect fails) and never
  collects while disconnected: with either, `RequestQueueConnect` initialises
  anew a remove lock that is still held, and the next disconnect miscounts.
  `DisconnectDrains` does not hold then; this is listed as a hazard.
  `ReqQueueRecords` does not collect either, for the number of states;
  `OnePlace` is proved for both values of the setting.
* Completion: the IRPs interact through `queue` and `rundown` only, so two show
  every order. Unloading may begin at any time.
* Boot log: two inserters are needed for one to drop the last reference while
  another takes one; two records for the cache and the list to hold one each.
* Driver hook: the second place for a record is what a driver unhooked and
  hooked again gets, or what a place that is reused is told apart from; two
  handles allow two to one record. One IRP suffices: handlers share only the
  reference count.
* `Devices`: one driver record, two places for device records (one can be
  created while the other is being freed), one handle, one controlling and one
  opening client, two handlers: both may meet the same new device, while the
  driver is unhooked and its records are opened by id.
* `Components`. FastIo: one
  caller, nested three deep. Processes: two, with two places for contexts and
  one image each. Threads: two, three places, three captures deep. Files: one
  address, three requests, two openers, three places. Registry: one program
  beside the class watch, two values, two places each for keys and values.
  Watches: three names, two of which share a key, and one driver.
  Containers: four items, two of one key and three in one bucket; arrays up to
  four. Enumeration: two drivers in two directories, two devices, one lost
  reference. Library: up to two drivers with two devices each. Fetch: three
  records of sizes one to three, so that one, two or none fit. Settings: two
  fields, two values, two clients. Remote: a client with two requests and one
  that connects and pings. Requests: three records, lists of two, a log file of
  two records, two filter settings, four clicks. Filters: four names, two of
  which share a section, five edits: enough to link three filters, change one
  and save.
* Places in memory are reused as soon as they are free, which is the case in which
  stale references show.

`CHECK_DEADLOCK FALSE` is set throughout: when all records are used up, all
IRPs handled, the driver unloaded, all clicks made or a behaviour undefined,
the system stops.

### 3.3 Fairness

Weak fairness of the steps of a thread that is inside an operation: the kernel
schedules it again, and the list locks are held for a bounded time. No
fairness for starting an operation, so no liveness property assumes that
clients connect, read or leave.

* `ReqQueue`: handlers, connect, disconnect and get, per thread.
* `IrpCompletion`: the handler, the completion routine and the unloading
  thread; and that a driver that returned from its dispatch routine completes
  the IRP some time, which drivers must.
* `BootLog`: inserting threads, `BLDisable`, and the saving thread, whose timed
  wait ends without anyone's help. Its `ZwCreateFile` may fail for ever.
* `DriverHook`: the handlers and the unloading thread. Clients need none:
  the unloading begins when none has the device open.

`Devices` and `Components` are checked for safety only. The code
justifies little more: a client that pings keeps the server from stopping, a
boot log's or a class watch's registry access may fail for ever.

## 4. What is proved

The theorems hold for every value of the constants that the modules'
assumptions allow: finite sets, disjoint where they are of different kinds,
sets of outcomes that are not empty. TLC evaluates these assumptions on every
run. A theorem with a narrower premise names it in `ASSUME`. These are the premises,
each there because the property fails without it:

| Premise | Says | Without it |
|---|---|---|
| `PlainSessions` | nothing is collected while disconnected, and no connect lists processes (so none fails) | `RequestQueueConnect` initialises the remove lock anew while an insert holds it (`req-queue.c:216`), and the next disconnect miscounts |
| `AlwaysClears` | the queue is cleared on disconnect | it is the setting that `EmptyAfterDisconnect` is about |
| `OneReader`, `OneClient` | one client reads; there is one client | a reader may deliver a record behind one that another reader has put back; a second client disconnects, or connects, while the first is reading |
| `OneDisabler` | one client at a time connects | two can both pass the test at `boot-log.c:620` and unregister the callback twice |
| `OneController` | one client hooks, unhooks, enables; handles of unhooked records are not used | `hook.c:692` and finding `HookAgainDoc` |

### 4.1 ReqQueue_proofs, ReqQueueOrder_proofs

* `QueueTypeOK`: `TypeOK`. It is not inductive alone. `TypeInv` adds `HandsOK`,
  how many records a thread holds at each of its labels; without it `Head(held[t])`
  need not be a record.
* `QueueOnePlace`: every live record is linked once in the list of its pool
  type or in one thread's hands, and no other record is. `TypeInv /\ OnePlace`
  is inductive. Most of the 34 cases are an instance of one of six lemmas, one for
  each way records move: kept in the same hands (`KeepMove`), linked
  (`LinkMove`), counted (`CountMove`), disposed of (`DisposeMove`), newly
  allocated (`NewMove`), taken from a list (`TakeMove`); these rest on
  `OwnerStep`, which says that a step of one thread leaves what others own
  alone, and on facts about the sets and the distinctness of sequences that are
  linked at the front and at the end.
* `QueueCountersExact`: `CountersExact`, inductive with `TypeInv /\ OnePlace`.
  The counters differ from the lists by cardinalities of sets of threads and
  of records in their hands; each step moves one record between these sets.
* `QueueDisconnectDrains`: `SessionInv` says that the count of the remove lock
  is the number of threads inside it plus the queue's own reference, and which
  of the session variables go with the holder of the connect lock and its
  label. From it follows that a disconnect passes its wait only when nobody is
  inside.
* `QueueEmptyAfterDisconnect`: on top of `SessionInv`, what the clear of a
  disconnect has emptied stays empty, because nobody can insert any more.
* `QueueNoOvertaking`: an action property. Its invariant `OrderInv` says that Ids
  are handed out once and increase (`IdsOK`), that whoever came after a record
  of a list came after those in front of it as well (`Ordered`), that a record
  not linked yet was seen by nobody (`AnnouncedOK`), and that the one in the
  reader's hand still comes before its list (`HandFirst`), so putting it back
  keeps the order.
* `QueueImplementsEventQueue`: initial states map to initial states, and
  every step of `ReqQueue` is mapped to a step of `EventQueue` or a stutter; the
  temporal theorem combines the two.

### 4.2 IrpCompletion_proofs

The inductive invariant `Inv` is `TypeOK` and

* `IrpOK`: for each IRP, which places of the handler and of the completion
  routine go together, with which records, context and count;
* `QueueOK`: a record is in the queue exactly when its state is "queued";
* `RundownOK`: the rundown count is the number of IRPs whose completion is
  still expected, plus the two references that the unloading gives back. It is needed to show
  that `rundown = 0` means nobody is left; it is why `Irps` is assumed to be
  finite.

From it follow `CompletionTypeOK`, `CompletionUnloadWaits`,
`CompletionContext` and `CompletionNothingLeft`. `CompletionReportedOnce` and
`CompletionOrder` are inductive on top of it, by what an append does to
the queue.

### 4.3 BootLog_proofs

`PlaceInv`, without a premise, says where each live record is, once: with one
inserting thread, in the cache, on the list or in the saving thread's batch
(`LiveSomewhere`, `NoneTwice`, `Apart`); and that the file has those that were
saved. `OnePlace` and `FileHolds` follow.

`Inv` is what the threads know of each other as long as no reference was taken
after the last one was dropped (`resurrected`, section 2.3): the references of
the callback are its list's and its users' (`RefsOK`), the stages of the one
thread that stops it (`CallbackStages`), what the event signals (`SignalOK`),
what the saving thread has yet to write (`SaverInv`), what the unloading knows
(`UnloadInv`, for a log that is on: when it is off the callback is never
unregistered, finding `BootLogOffDoc`). `CallbackSafe`, `DisableSaves` and
`UnloadClean` follow.

### 4.4 DriverHook_proofs

One inductive invariant carries all seven theorems: `TypeOK`; `Roles` (what a
client may be doing), `Hands` (which local variables are set at which place),
`RefsExact`, `LiveInv` (a record lives while it is referenced), `Tables` (what the
controlling client knows of the hash table and of the validation table at each
of its places), `Slots` (what the driver's entry is then), `IrpInv` and
`UnloadInv`. `RefsExact` is a sum over tables, handles, clients and IRPs; each
step moves one reference between two of the sets, and lemmas on cardinalities
say that the sum follows the count.

### 4.5 DeviceHook_proofs

`DevicesSound` is `DeviceRecordsSound` of section 2.5 for any numbers of driver
and device records, handles, controlling and opening clients and handlers. The
invariant is `TypeOK`, and, as long as the behaviour is defined, `Sound`: which
variables of an actor are set at which place (`Hands`), that records are alive
while referred to (`Lives`), the counts of both kinds of records
(`DeviceRefsExact`, `DriverRefsExact`), that a record being made is nobody else's
(`Fresh`), that one actor at a time adds or deletes a record (`OneBusy`) and what
it knows of it (`Works`), and how the driver's list and the table of valid ids
go together meanwhile (`Lists`, `Valid`, `Lates`).

### 4.6 FileContexts_proofs

`FilesSound` is `ContextsSound` for any numbers of files, requests, clients and
contexts. The invariant has the counts (`RefsOK`), one table entry per context
(`OneEntry`, without which `FoTableFinit` would drop too little), what a request
at each place knows of its file (`RequestsOK`), that a file being opened is used
by nobody else (`Alone`), that a context in the table or in a request's
hands is the opener's (`OpenerOK`), and that a noticed opening is in the table until its
clean-up (`KnownOK`). Four lemmas say what the table's operations do to the
references; the steps cite them.

### 4.7 ThreadContexts_proofs

`ThreadsSound` is `ContextsSound` for any numbers of threads, contexts and
captures within one another. The invariant has one part for each thread and one
for each context. `StackOK` says how captures nest: all but the innermost
are where they allocate or walk, of those only the second from the top can walk,
and then the innermost does not; this is why two walks of one thread never
meet. It also says that a capture that has a context has the head of the thread's
chain; this needs that no context is inserted while another capture has one.
`PlaceOK` counts the references of a context from its thread's chain and stack,
`TableOK` says that no context is in a chain twice, `NestOK` that a thread that
did not capture while it allocated has at most one. `SameChain` states what a
step that leaves the chain alone must do to the counts; the actions cite it.
The counts of sets in `ContextsSound` follow from these parts
(`EntriesOf`, `CapturesOf`).

### 4.8 Only model-checked

* Liveness (`OperationsReturn`, `AnswersInserted`, `UnloadEnds`,
  `DisableReturns`) is beyond the prover.
* The other invariants of `Components`: `FastIo`, `ProcessEvents`,
  `Registry`, `Modules`, `Watches`, `Settings`, `Containers`, `Enumeration`,
  `Library`, `Fetch`, `Remote`, `RequestList`, `Filters`. In `Containers` and
  `Enumeration` the answers are values of recursive or folded functions of data,
  which need an induction the prover cannot do.

## 5. Plan

In order of importance to the program; all modules are there, and what is left
are theorems.

1. `ReqQueue` with `EventQueue`: every record passes through it. Checked, proved.
2. `IrpCompletion`: every request that is watched. Checked, proved.
3. `BootLog`: the queue's other outlet. Checked, proved.
4. `DriverHook`, `DeviceHook`: what makes requests be watched. Checked, proved.
5. `FileContexts`, `ThreadContexts`: checked, proved. `ProcessEvents`: checked.
6. `FastIo`, `Fetch`, `Enumeration`, `Registry`: checked.
7. `Modules`, `Settings`, `Watches`: start, stop and what is saved. Checked.
8. `Remote`, `Library`, `Containers`. Checked.
9. `RequestList`, `Filters`: the graphical client. Checked.

Theorems worth proving next: of `Fetch`, that no record is given twice;
`ProcessesKnown`; that a FastIo caller gets the driver's answer.
Of the premises of section 4, `OneReader` could be narrowed to readers that do
not put back.

Abstract specifications worth stating: `EventQueue` (done); for the hook
records, a hooked driver as one state machine (not hooked, hooked, monitored)
that `DriverHook` implements; for `Remote`, one local call.

## 6. Where the code and its documentation disagree

With a run that shows it:

| Run | The repository says | The code does |
|---|---|---|
| `ReqQueueCollectDoc` | `general-types.h:560`: with the collect setting requests are stored "even when no one is connected" | after a disconnect the remove lock stays removed; inserts fail and the records are freed |
| `IrpCompletionDoc` | `general-types.h:496`: "Report IRP completions." | with completions monitored and IRPs not, or short of memory, the handler drops a reference it did not take; the completion is lost or the context used after it was freed |
| `BootLogOffDoc` | `general-types.h:592`: the driver logs during startup "If set to TRUE" | the callback is registered anyway and never unregistered |
| `HookAgainDoc` | `hook.c:609`: `ASSERT(FALSE)` when the driver is not in the table | unhooking a driver with a second handle gets there |
| `HookHandlerDoc` | `hook-handlers.c:1609`: an entry without a record is an error | an IRP that meets an unhook gets there and is neither passed on nor completed |

Seen in the code, without a run:

* `irpmondll.h:522` says that reading needs a connection; `RequestQueueGet`
  (`req-queue.c:404`) needs that somebody is connected.
* `irpmondll.h:247` says that unhooking a driver fails while it is monitored;
  `hook.c:595` stops the monitoring and unhooks it. `irpmondll.h:215` says that
  of the settings only MonitorNewDevices takes effect then; `hook.c:644` sets
  MonitorIRPCompletion, MonitorData and MonitorStackTrace as well.
* `irpmondll.h:365` says that a device handle is "automatically invalidated"
  when its driver is unhooked; the handle table keeps it, and deleting the device
  with it reaches `ASSERT(FALSE)` (`hook.c:813`, in `DeviceHook`).
* `irpmondll.h:565` says that closing a handle "should always return
  ERROR_SUCCESS"; `HandleTableHandleClose` (`handle-table.c:301`) never changes
  its status from STATUS_UNSUCCESSFUL when it closes one. The model's `Close` returns
  nothing.
* Two clients that enable the monitoring of one driver at once make its record keep the
  hook itself as the original entry (`hook.c:692`); `SlotMatches` fails with
  two controlling clients.

Undefined or lost in the code, where a model's `undef` or a history variable
marks it:

* `DeviceHook`: an id is opened whose record has no reference left
  (`hook.c:995`); a device hooked twice at once is inserted twice; a list of
  hooked objects that grows after it was measured overruns its buffer.
* `FastIo`: a call before the original table or routine is stored goes through
  a null pointer; the record kept itself as the original, and calls itself until the stack is
  used up; two unload calls unhook twice.
* `Registry`: the key record is referenced after its table was unlocked
  (`registry-callback.c:92`); a watched value that is deleted calls a
  `DeleteValue` routine that was never given (`value-record.c:65`); a post
  operation that no longer finds its key record loses its context.
* `Enumeration`: the drivers described before a failure are dereferenced twice
  (`um-services.c:543`); a driver's device list that grows loses the references
  of the shorter one (`utils.c:264`).
* `Library`: a failed allocation is taken for success when the last error was 0
  (`driver-com.cpp:554`); an entry or an array is leaked (198, 783, 914); the
  Hyper-V connector is looked up as "hyperv-connector.h" (1129).
* `Remote`: after a request that failed between header and payload, streams are
  out of step; a client that leaves before the hello leaks the server's device
  handle.
* `Modules`: the shutdown notification, the name of the service, the process
  table after a failed filling, and the saving thread whose object cannot be
  referenced are never given back.
* `RequestList`: buffers the thread holds when it stops are lost
  (`RequestThread.pas:112`). `Filters`: an older file of the user hides the one
  saved beside the program (`MainForm.pas:339`).
* Not modelled but seen: `RequestFilter.pas:472` sets `FEnabled` where the
  property is about `FEphemeral`, so a new filter is disabled and a temporary
  one is saved; `RequestFilter.pas:276` reads links by position as if the list
  had been empty.

## 7. What is not modelled

PROJECT.json lists every component with its status. Left out are:

* the construction and serialisation of records: sizes, copies and pointer
  fix-ups (`request.cpp`, `data-loggers.c`);
* services and library functions that only pass their input on;
* the branch of the class watches for Windows XP, which edits the registry
  itself, and `fs-watch.c`;
* the registry callback as seen by users other than the class watches; there
  are none;
* what a filter matches; the name maps for drivers, devices and files of the
  request list, which work like the one of processes; file formats;
* the pool allocator's debugging lists, wrappers over single system calls, the
  programs that only start the server;
* the presentation, the data parsers, tools and samples.

Everywhere: formatting, logging, the contents of records, and IRQL, except
where a branch depends on it.
