---------------------------- MODULE MCComponents ----------------------------
(* TLC instances of the components that share no state: each behaviour is   *)
(* one of them, in variables that they all use.  First the parts of the     *)
(* kernel library, then what is around it.                                  *)
EXTENDS Integers, TLC

CONSTANTS n1, n2, n3, p1, p2, t1, t2, f1, g1, r1, r2, r3, k1, k2, v1, v2,
          x1, x2, x3, x4, d1, d2, c1, c2, Own, Absent, NoData, Nobody

VARIABLES part, s1, s2, s3, s4, s5, s6, s7, s8, s9, s10, s11, s12, s13, s14,
          s15, s16, s17

vars == <<part, s1, s2, s3, s4, s5, s6, s7, s8, s9, s10, s11, s12, s13, s14,
          s15, s16, s17>>

Fast == INSTANCE FastIo WITH
  Callers <- {c1}, MaxDepth <- 3,
  target <- s1, slot <- s2, old <- s3, rec <- s4, device <- s5, devRefs <- s6,
  client <- s7, call <- s8, undef <- s9

Process == INSTANCE ProcessEvents WITH
  Processes <- {p1, p2}, Places <- {x1, x2}, MaxImages <- 1,
  module <- s1, alive <- s2, loaded <- s3, notify <- s4, holds <- s5,
  table <- s6, context <- s7, client <- s8, todo <- s9, view <- s10,
  missed <- s11, twice <- s12

Thread == INSTANCE ThreadContexts WITH
  Threads <- {t1, t2}, Places <- {x1, x2, x3}, MaxDepth <- 3,
  loaded <- s1, alive <- s2, stack <- s3, table <- s4, context <- s5, nested <- s6
ASSUME ThreadNames == Thread!ThreadAssumption

File == INSTANCE FileContexts WITH
  FileObjects <- {f1}, Requests <- {r1, r2, r3}, Clients <- {c1, c2},
  Places <- {x1, x2, x3},
  loaded <- s1, file <- s2, table <- s3, context <- s4, req <- s5, stale <- s6,
  unknown <- s7
ASSUME FileNames == File!FileAssumption

Keys == {k1, k2}
Values == {v1, v2}
Reg == INSTANCE Registry WITH
  Programs <- {g1}, Names <- {"upper", "lower"}, Positions <- {"end"},
  Inputs <- {<<"other", Own>>}, Keys <- Keys, Values <- Values,
  real <- s1, keyTable <- s2, key <- s3, value <- s4, prog <- s5, cw <- s6,
  watches <- s7, classes <- s8, addDevice <- s9, crossed <- s10, misled <- s11,
  undef <- s12

Module == INSTANCE Modules WITH
  run <- s1, ready <- s2, held <- s3, leaked <- s4, proxies <- s5

\* Two names that have the same key below BootLogging, and one of its own.
Watch == INSTANCE Watches WITH
  Names <- {n1, n2, n3}, Keys <- {"k1", "k2"},
  KeyOf <- (n1 :> "k1") @@ (n2 :> "k1") @@ (n3 :> "k2"),
  Drivers <- {n1}, Stacks <- {<<n1>>, <<n1, n1>>},
  Settings <- {[newDevices |-> TRUE, perIrp |-> TRUE]},
  phase <- s1, logBoot <- s2, names <- s3, registry <- s4, unread <- s5,
  driver <- s6, hooked <- s7, check <- s8, stack <- s9, told <- s10,
  damaged <- s11, before <- s12

\* Two items with one key, one whose key falls into the same bucket, another.
Container == INSTANCE Containers WITH
  Items <- {x1, x2, x3, x4},
  KeyOf <- (x1 :> "k1") @@ (x2 :> "k1") @@ (x3 :> "k2") @@ (x4 :> "k3"),
  Bucket <- ("k1" :> 0) @@ ("k2" :> 0) @@ ("k3" :> 1),
  Size <- 2, Values <- {"a", "b"}, Initial <- 2, PerCents <- 60, MaxLength <- 4,
  Null <- Nobody,
  buckets <- s1, count <- s2, locked <- s3, it <- s4, visited <- s5, model <- s6,
  array <- s7, list <- s8, result <- s9, expected <- s10

Enum == INSTANCE Enumeration WITH
  Drivers <- {d1, d2}, Devices <- {x1, x2},
  Directory <- (d1 :> 1) @@ (d2 :> 2), DriverOf <- (x1 :> d1) @@ (x2 :> d1),
  MaxLost <- 1,
  alive <- s1, refs <- s2, op <- s3, at <- s4, directory <- s5, scan <- s6,
  name <- s7, found <- s8, next <- s9, room <- s10, list <- s11,
  described <- s12, target <- s13, given <- s14, status <- s15, lost <- s16,
  undef <- s17

Lib == INSTANCE Library WITH
  MaxDrivers <- 2, MaxDevices <- 2, Nothing <- Nobody,
  interface <- s1, loaded <- s2, listed <- s3, heap <- s4, call <- s5, list <- s6,
  undef <- s7

Get == INSTANCE Fetch WITH
  MaxRecords <- 3, Sizes <- {1, 2, 3},
  queue <- s1, size <- s2, connected <- s3, call <- s4, reader <- s5, lost <- s6,
  excused <- s7

Setting == INSTANCE Settings WITH
  Fields <- 2, Values <- {0, 1}, Default <- 0, Clients <- {c1, c2}, MaxLength <- 1,
  driver <- s1, memory <- s2, length <- s3, queued <- s4, registry <- s5,
  field <- s6, op <- s7, before <- s8, alone <- s9

\* One client with requests and one that only connects and pings.
Far == INSTANCE Remote WITH
  Clients <- {c1, c2}, MaxRequests <- (c1 :> 2) @@ (c2 :> 0),
  server <- s1, conn <- s2, app <- s3, ping <- s4, lock <- s5, broken <- s6,
  undef <- s7

\* A log file of a process that is created and does something.
Captured == INSTANCE RequestList WITH
  MaxRecords <- 3, Batch <- 2, LogFile <- <<"create", "irp">>,
  Filters <- {{"irp"}, {"create", "exit", "load", "irp"}}, MaxClicks <- 4,
  reader <- s1, stop <- s2, capture <- s3, opened <- s4, posted <- s5,
  buffers <- s6, list <- s7, tab <- s8, wanted <- s9, clicks <- s10, seen <- s11

\* Two filters whose names differ only in case; two that all may pass to.
Filter == INSTANCE Filters WITH
  Names <- {n1, n2, n3, x1},
  SectionOf <- (n1 :> 1) @@ (n2 :> 2) @@ (n3 :> 3) @@ (x1 :> 3),
  TypeOf <- (n1 :> "any") @@ (n2 :> "irp") @@ (n3 :> "irp") @@ (x1 :> "any"),
  AnyType <- "any", Nil <- Nobody, MaxEdits <- 5,
  main <- s1, dialog <- s2, beside <- s3, own <- s4, edits <- s5, known <- s6

\* The variables that a component has no use for.
From13 == <<s13, s14, s15, s16, s17>>
From12 == <<s12, From13>>
From10 == <<s10, s11, From12>>
From8  == <<s8, s9, From10>>
Unused13 == s13 = 0 /\ s14 = 0 /\ s15 = 0 /\ s16 = 0 /\ s17 = 0
Unused12 == s12 = 0 /\ Unused13
Unused11 == s11 = 0 /\ Unused12
Unused10 == s10 = 0 /\ Unused11
Unused8  == s8 = 0 /\ s9 = 0 /\ Unused10

Init ==
  \/ part = "fastio" /\ Fast!Init /\ Unused10
  \/ part = "process" /\ Process!Init /\ Unused13
  \/ part = "thread" /\ Thread!Init /\ s7 = 0 /\ Unused8
  \/ part = "file" /\ File!Init /\ Unused8
  \/ part = "registry" /\ Reg!Init /\ Unused13
  \/ part = "modules" /\ Module!Init /\ s6 = 0 /\ s7 = 0 /\ Unused8
  \/ part = "watches" /\ Watch!Init /\ Unused13
  \/ part = "containers" /\ Container!Init /\ Unused11
  \/ part = "enumeration" /\ Enum!Init
  \/ part = "library" /\ Lib!Init /\ Unused8
  \/ part = "fetch" /\ Get!Init /\ Unused8
  \/ part = "settings" /\ Setting!Init /\ Unused10
  \/ part = "remote" /\ Far!Init /\ Unused8
  \/ part = "requests" /\ Captured!Init /\ Unused12
  \/ part = "filters" /\ Filter!Init /\ s7 = 0 /\ Unused8

Next ==
  /\ UNCHANGED part
  /\ \/ part = "fastio" /\ Fast!Next /\ UNCHANGED From10
     \/ part = "process" /\ Process!Next /\ UNCHANGED From13
     \/ part = "thread" /\ Thread!Next /\ UNCHANGED <<s7, From8>>
     \/ part = "file" /\ File!Next /\ UNCHANGED From8
     \/ part = "registry" /\ Reg!Next /\ UNCHANGED From13
     \/ part = "modules" /\ Module!Next /\ UNCHANGED <<s6, s7, From8>>
     \/ part = "watches" /\ Watch!Next /\ UNCHANGED From13
     \/ part = "containers" /\ Container!Next /\ UNCHANGED <<s11, s12, From13>>
     \/ part = "enumeration" /\ Enum!Next
     \/ part = "library" /\ Lib!Next /\ UNCHANGED From8
     \/ part = "fetch" /\ Get!Next /\ UNCHANGED From8
     \/ part = "settings" /\ Setting!Next /\ UNCHANGED From10
     \/ part = "remote" /\ Far!Next /\ UNCHANGED From8
     \/ part = "requests" /\ Captured!Next /\ UNCHANGED From12
     \/ part = "filters" /\ Filter!Next /\ UNCHANGED <<s7, From8>>

Spec == Init /\ [][Next]_vars

\* The records of a key and its values are interchangeable.
RecordSymmetry == Permutations(Keys) \cup Permutations(Values)

\* A hooked FastIo entry answers what the driver would have answered
\* (hook-handlers.c, FastIo handlers).
HandlersTruthful == part = "fastio" => Fast!HandlersTruthful

\* The table and the client know the processes there are and their images,
\* but for the races that process-events.c leaves open.
ProcessesKnown == part = "process" => Process!ProcessesKnown

\* One context for each thread that is being traced, and a file object's
\* requests told with its opener (thread-context.c, fo-context-table.c).
ContextsSound ==
  /\ part = "thread" => Thread!ContextsSound
  /\ part = "file" => File!ContextsSound


\* A start that fails and an unload undo what was done, in reverse order, and
\* nothing is used before it is ready or after it is gone (modules.c,
\* driver.c, kbase.c).
ModulesSound == part = "modules" => Module!ModulesSound


\* The hash tables and the dynamic arrays hold what was put into them
\* (hash_table.c, string-hash-table.c, utils-dym-array.c).
ContainersSound == part = "containers" => Container!ContainersSound

\* The lists of drivers and devices are what they were when asked for; every
\* reference taken for them in the driver, and every block of memory in the
\* library, is given back once (utils.c, um-services.c, driver-com.cpp).
ListsSound ==
  /\ part = "enumeration" => Enum!EnumerationSound
  /\ part = "library" => Lib!LibrarySound

\* A client gets the answers to its own requests and every record once, in
\* order, and shows it as one of the process that caused it (libserver.c,
\* network-connector.c, um-services.c, RequestThread.pas, RequestList.pas).
ClientsServed ==
  /\ part = "remote" => Far!RemoteSound
  /\ part = "fetch" => Get!FetchSound
  /\ part = "requests" => Captured!RequestListSound
=============================================================================
