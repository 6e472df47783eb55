------------------------------ MODULE Modules ------------------------------
(***************************************************************************)
(* Start and stop of the two drivers: the module framework (modules.c,     *)
(* compiled into each), the kernel library (kbase.c) and the driver        *)
(* (DriverEntry, DriverInit, DriverFinit, DriverUnload, driver.c), with    *)
(* what every module's initialisation acquires, in order, and what its     *)
(* failure and its finalisation give back.                                 *)
(***************************************************************************)
EXTENDS Integers, Sequences, FiniteSets, SequencesExt

VARIABLES
  run,     \* each driver: where its framework is, and the current step
  ready,   \* each driver: its initialised modules, in order
  held,    \* what is acquired: memory, tables, callbacks, references
  leaked,  \* what nobody will give back
  proxies  \* a proxy device is the driver's latest device

vars == <<run, ready, held, leaked, proxies>>

Drivers == {"kbase", "irpmndrv"}

\* _modules and _moduleEntries.
ModulesOf(d) ==
  IF d = "kbase"
  THEN <<"ThreadContext", "Utils", "DriverSettings", "DataLogger", "RegMan",
         "RequestQueue", "ProcessEvents", "HookHandler", "DevExtHooks", "Hook",
         "PWD", "BL">>
  ELSE <<"KBase", "CW", "FSW", "ImageLoad", "UMServices", "Driver">>

\* The steps of each module's Init routine that can fail or leave something;
\* the Finit routine beside it undoes them.
ThreadContextModuleInit == <<"thread contexts", "thread notify">>
UtilsModuleInit == <<"driver type">>
DriverSettingsModuleInit == <<"service key", "settings in the registry">>
DataLoggerModuleInit == <<"logger settings">>
RegManModuleInit == <<"version", "key table", "registry callback">>
RequestQueueModuleInit == <<"queue">>
ProcessEventsModuleInit == <<"process table", "filled", "process notify">>
HookHandlerModuleInit == <<"file objects", "handler rundown">>
DevExtHooksModuleInit == <<>>
HookModuleInit ==
  <<"hook rundown", "driver validation",
    "device validation", "driver table">>
PWDModuleInit == <<"driver names">>
BLModuleInit ==
  <<"boot path", "settings in the registry", "control set", "request callback",
    "raw callback", "saving thread", "thread object">>
KBaseModuleInit == <<"library">>
CWModuleInit ==
  <<"service name", "version", "control set",
    "lower classes", "upper classes">>
FSWModuleInit == <<>>
ImageLoadModuleInit == <<"image notify">>
UMServicesModuleInit == <<"driver handles", "device handles">>
DriverInit ==
  <<"fast io dispatch", "create lock", "control device",
    "symbolic link", "shutdown notification">>

Steps(m) ==
  CASE m = "ThreadContext"  -> ThreadContextModuleInit
    [] m = "Utils"          -> UtilsModuleInit
    [] m = "DriverSettings" -> DriverSettingsModuleInit
    [] m = "DataLogger"     -> DataLoggerModuleInit
    [] m = "RegMan"         -> RegManModuleInit
    [] m = "RequestQueue"   -> RequestQueueModuleInit
    [] m = "ProcessEvents"  -> ProcessEventsModuleInit
    [] m = "HookHandler"    -> HookHandlerModuleInit
    [] m = "DevExtHooks"    -> DevExtHooksModuleInit
    [] m = "Hook"           -> HookModuleInit
    [] m = "PWD"            -> PWDModuleInit
    [] m = "BL"             -> BLModuleInit
    [] m = "KBase"          -> KBaseModuleInit
    [] m = "CW"             -> CWModuleInit
    [] m = "FSW"            -> FSWModuleInit
    [] m = "ImageLoad"      -> ImageLoadModuleInit
    [] m = "UMServices"     -> UMServicesModuleInit
    [] m = "Driver"         -> DriverInit

\* Steps that look something up and acquire nothing.
Checks == {"settings in the registry", "version", "filled", "control set", "library"}
Cannot == {"queue", "logger settings", "process table"}  \* steps that cannot fail

\* What a failing Init routine forgets: ProcessEventsModuleInit its table,
\* CWModuleInit the service name, BLModuleInit a thread that it created and
\* could not reference.
Forgets(m) ==
  CASE m = "ProcessEvents" -> {"process table"}
    [] m = "CW"            -> {"service name"}
    [] m = "BL"            -> {"saving thread"}
    [] OTHER               -> {}

\* What a Finit routine leaves: DriverFinit does not unregister the shutdown
\* notification, and it deletes the driver's latest device.
Leaves(m) ==
  IF m = "Driver"
  THEN {"shutdown notification"} \cup (IF proxies THEN {"control device"} ELSE {})
  ELSE {}

\* Routines that run by themselves, and modules that call others: what has
\* to be there while something else is.
Uses ==
  [r \in {"thread notify", "registry callback", "process notify", "logger settings",
          "queue", "driver table", "request callback", "raw callback", "saving thread",
          "image notify", "lower classes", "device handles", "control device"} |->
     CASE r = "thread notify"     -> {"thread contexts"}
       [] r = "logger settings"   -> {"service key"}
       [] r = "registry callback" -> {"key table"}
       [] r = "queue"             -> {"service key"}
       [] r = "process notify"    -> {"process table", "queue", "driver type"}
       [] r = "driver table"      -> {"driver validation", "hook rundown", "queue",
                                      "file objects", "thread contexts"}
       [] r = "request callback"  -> {"queue", "boot path"}
       [] r = "raw callback"      -> {"registry callback", "boot path"}
       [] r = "saving thread"     -> {"queue", "boot path"}
       [] r = "image notify"      -> {"process table", "queue"}
       [] r = "lower classes"     -> {"key table", "service name", "driver names"}
       [] r = "device handles"    -> {"driver table", "driver handles"}
       [] r = "control device"    -> {"device handles", "lower classes", "queue",
                                      "driver names", "create lock", "fast io dispatch"}]

Framework(d) == IF d = "kbase" THEN {"debug allocator"} ELSE {"driver object"}

Init ==
  /\ run = [d \in Drivers |-> [at |-> "down", step |-> 0]]
  /\ ready = [d \in Drivers |-> <<>>]
  /\ held = {} /\ leaked = {} /\ proxies = FALSE

-----------------------------------------------------------------------------
Moves(d, at, step) == run' = [run EXCEPT ![d] = [at |-> at, step |-> step]]
Current(d) == ModulesOf(d)[Len(ready[d]) + 1]
Starting(d) == run[d].at = "init" /\ Len(ready[d]) < Len(ModulesOf(d))

\* DllInitialize by the system, when the library is loaded before the driver;
\* _initialized keeps a second call from doing anything.
DllInitialize ==
  /\ run["kbase"].at = "down" /\ run["irpmndrv"].at = "down"
  /\ Moves("kbase", "init", 0)
  /\ held' = held \cup Framework("kbase")
  /\ UNCHANGED <<ready, leaked, proxies>>

\* ProxySetDriverObject references the driver object for the library, and
\* ModuleFrameworkInit for the framework.
DriverEntry ==
  /\ run["irpmndrv"].at = "down" /\ run["kbase"].at \in {"down", "up"}
  /\ Moves("irpmndrv", "init", 0)
  /\ held' = held \cup Framework("irpmndrv") \cup {"proxy reference"}
  /\ UNCHANGED <<ready, leaked, proxies>>

\* ModuleFrameworkInitializeModules: a step of the current module.
Acquire(d) ==
  /\ Starting(d) /\ Current(d) # "KBase"
  /\ run[d].step < Len(Steps(Current(d)))
  /\ held' = held \cup ({Steps(Current(d))[run[d].step + 1]} \ Checks)
  /\ Moves(d, "init", run[d].step + 1)
  /\ UNCHANGED <<ready, leaked, proxies>>

Ready(d) ==
  /\ Starting(d) /\ run[d].step = Len(Steps(Current(d)))
  /\ ready' = [ready EXCEPT ![d] = Append(@, Current(d))]
  /\ Moves(d, IF Len(ready[d]) + 1 = Len(ModulesOf(d)) THEN "up" ELSE "init", 0)
  /\ UNCHANGED <<held, leaked, proxies>>

\* A step fails: the module gives back what it acquired, and the framework
\* finalises the modules before it.
Fail(d) ==
  /\ Starting(d) /\ Current(d) # "KBase" /\ run[d].step < Len(Steps(Current(d)))
  /\ LET m == Current(d)
         got == ToSet(SubSeq(Steps(m), 1, run[d].step)) \cap held IN
     /\ Steps(m)[run[d].step + 1] \notin Cannot
     /\ held' = held \ got
     /\ leaked' = leaked \cup (got \cap Forgets(m))
  /\ Moves(d, "undo", 0)
  /\ UNCHANGED <<ready, proxies>>

\* KBaseInit calls DllInitialize, which does nothing when the library is
\* initialised.
KBaseInit ==
  /\ Starting("irpmndrv") /\ Current("irpmndrv") = "KBase" /\ run["irpmndrv"].step = 0
  /\ run' = [run EXCEPT !["irpmndrv"].step = 1,
                        !["kbase"] = IF @.at = "up" THEN @ ELSE [at |-> "init", step |-> 0]]
  /\ held' = held \cup (IF run["kbase"].at = "up" THEN {} ELSE Framework("kbase"))
  /\ UNCHANGED <<ready, leaked, proxies>>

\* The library's initialisation ended, or failed and with it the driver's.
KBaseInitialized == run["kbase"].at = "up" /\ Ready("irpmndrv")
KBaseFailed ==
  /\ Starting("irpmndrv") /\ Current("irpmndrv") = "KBase" /\ run["irpmndrv"].step = 1
  /\ run["kbase"].at = "down"
  /\ Moves("irpmndrv", "undo", 0)
  /\ UNCHANGED <<ready, held, leaked, proxies>>

\* Mutant: the modules are finalised in the order of their initialisation.
FinitForward(d) ==
  /\ run[d].at \in {"undo", "finit"} /\ ready[d] # <<>> /\ Head(ready[d]) # "KBase"
  /\ LET m == Head(ready[d])  got == ToSet(Steps(m)) \cap held IN
     /\ held' = held \ (got \cup (IF m = "DevExtHooks" THEN {"proxy reference"} ELSE {}))
     /\ leaked' = leaked \cup (got \cap Leaves(m))
     /\ proxies' = (proxies /\ m # "Driver")
  /\ ready' = [ready EXCEPT ![d] = Tail(@)]
  /\ UNCHANGED run

\* The last of the modules that are left is finalised, in both cases.
Finit(d) ==
  /\ run[d].at \in {"undo", "finit"} /\ ready[d] # <<>> /\ Last(ready[d]) # "KBase"
  /\ LET m == Last(ready[d])  got == ToSet(Steps(m)) \cap held IN
     /\ held' = held \ (got \cup (IF m = "DevExtHooks" THEN {"proxy reference"} ELSE {}))
     /\ leaked' = leaked \cup (got \cap Leaves(m))
     /\ proxies' = (proxies /\ m # "Driver")
  /\ ready' = [ready EXCEPT ![d] = Front(@)]
  /\ UNCHANGED run

\* KBaseFinit and DllUnload.
KBaseFinit ==
  /\ run["irpmndrv"].at \in {"undo", "finit"} /\ ready["irpmndrv"] = <<"KBase">>
  /\ IF run["kbase"].at = "up"
     THEN Moves("kbase", "finit", 0) /\ UNCHANGED ready
     ELSE /\ run["kbase"].at = "down"
          /\ ready' = [ready EXCEPT !["irpmndrv"] = <<>>]
          /\ UNCHANGED run
  /\ UNCHANGED <<held, leaked, proxies>>

\* ModuleFrameworkFinit, and for the library DebugAllocatorModuleFinit.
FrameworkFinit(d) ==
  /\ run[d].at \in {"undo", "finit"} /\ ready[d] = <<>>
  /\ Moves(d, "down", 0)
  /\ held' = held \ Framework(d)
  /\ UNCHANGED <<ready, leaked, proxies>>

\* DriverUnload, and DllUnload by the system when the driver was not loaded.
Unload(d) ==
  /\ run[d].at = "up"
  /\ d = "kbase" => run["irpmndrv"].at = "down"
  /\ Moves(d, "finit", 0)
  /\ UNCHANGED <<ready, held, leaked, proxies>>

\* A device of the driver is created as a proxy of another (ProxyDeviceCreate).
ProxyCreated ==
  /\ run["irpmndrv"].at = "up" /\ ~proxies
  /\ proxies' = TRUE
  /\ UNCHANGED <<run, ready, held, leaked>>

Next ==
  \/ DllInitialize \/ DriverEntry \/ KBaseInit \/ KBaseInitialized \/ KBaseFailed
  \/ KBaseFinit \/ ProxyCreated
  \/ \E d \in Drivers :
       \/ Acquire(d) \/ Fail(d) \/ Finit(d) \/ FrameworkFinit(d) \/ Unload(d)
       \/ Starting(d) /\ Current(d) # "KBase" /\ Ready(d)
Spec == Init /\ [][Next]_vars

-----------------------------------------------------------------------------
\* What uses something is gone before it, whichever step of a start fails and
\* whatever the order of unloading; a driver that is down holds nothing, and
\* loses nothing but what three Init routines and DriverFinit forget.
ModulesSound ==
  /\ \A r \in DOMAIN Uses \cap held : Uses[r] \subseteq held
  /\ \A d \in Drivers :
       run[d].at = "down" =>
         /\ held \cap Framework(d) = {}
         /\ \A i \in DOMAIN ModulesOf(d) : ToSet(Steps(ModulesOf(d)[i])) \cap held = {}
  /\ leaked \subseteq {"process table", "service name", "saving thread",
                       "shutdown notification", "control device"}
=============================================================================
