-------------------------------- MODULE Library --------------------------------
(***************************************************************************)
(* The memory of the user-mode library (driver-com.cpp).  The functions    *)
(* that return a list ask the driver with a buffer that is doubled until   *)
(* the answer fits, while what the driver has to list may change; then     *)
(* they turn the answer into blocks of the process heap that refer to one  *)
(* another, any of which may be refused, and the caller gives them all     *)
(* back by one call.  HeapAlloc does not set the last error, so that       *)
(* GetLastError after it may well say that nothing is wrong.               *)
(***************************************************************************)
EXTENDS Integers, Sequences, SequencesExt

CONSTANTS
  MaxDrivers,  \* entries of a list
  MaxDevices,  \* devices of an entry
  Nothing

VARIABLES
  interface,  \* whether a connector is loaded and connected (_dcInterface)
  loaded,     \* whether the connector's library is loaded (_hConnector)
  listed,     \* what the driver has: the number of devices of each driver
  heap,       \* the blocks that are allocated
  call,       \* the function that is being executed
  list,       \* what the caller has been given and not given back
  undef       \* why the behaviour is no longer defined: "no" when it is

vars == <<interface, loaded, listed, heap, call, list, undef>>

Lists == {"snapshot", "hooked", "class", "name"}
Shapes == UNION {[1..n -> 0..MaxDevices] : n \in 0..MaxDrivers}

\* What entry i of a list is made of, in the order of the allocations.
Devices(shape, i) == [j \in 1..shape[i] |-> <<"device", i, j>>]
Entry(f, shape, i) ==
  IF f = "snapshot" THEN <<<<"entry", i>>>> \o Devices(shape, i)
  ELSE IF f = "hooked"
  THEN <<<<"entry", i>>>> \o (IF shape[i] > 0 THEN <<<<"devices", i>>>> ELSE <<>>)
                          \o Devices(shape, i)
  ELSE <<<<"entry", i>>>>

\* A list: an array and its entries; only the snapshot has an array when empty.
Layout(f, shape) ==
  IF shape = <<>> /\ f # "snapshot" THEN <<>>
  ELSE <<<<"array">>>> \o FlattenSeq([i \in 1..Len(shape) |-> Entry(f, shape, i)])
Blocks(seq) == {seq[i] : i \in DOMAIN seq}
Of(f, block) == <<f>> \o block
AllOf(f, blocks) == {Of(f, b) : b \in blocks}

\* The size of an answer, in entries and devices.
Entries(shape) == Len(shape) + FoldLeft(LAMBDA sum, n : sum + n, 0, shape)

Idle == [fn |-> Nothing, at |-> "idle", size |-> 0, shape |-> <<>>, next |-> 1, ret |-> "ok"]
Buffer(f) == Of(f, <<"buffer">>)

Init ==
  /\ interface = FALSE /\ loaded = FALSE
  /\ listed \in Shapes
  /\ heap = {}
  /\ call = Idle /\ list = Nothing
  /\ undef = "no"

At(place) == call.at = place /\ undef = "no"

\* The blocks that the call has allocated so far, and those of the list.
Made == AllOf(call.fn, {Layout(call.fn, call.shape)[k] : k \in 1..(call.next - 1)})
Held ==
  (IF call.at \in {"ioctl", "input", "decode"} THEN {Buffer(call.fn)} ELSE {})
    \cup (IF call.at = "decode" THEN Made ELSE {})
    \cup (IF list = Nothing THEN {}
          ELSE AllOf(list.fn, Blocks(Layout(list.fn, list.shape))))

\* HeapFree of a block that is not allocated has no defined effect.
HeapFree(blocks) ==
  /\ heap' = heap \ blocks
  /\ undef' = IF blocks \subseteq heap THEN "no" ELSE "freed twice"

Return(ret) == call' = [Idle EXCEPT !.fn = call.fn, !.ret = ret]

-----------------------------------------------------------------------------
(* DriverComModuleInit and DriverComModuleFinit.                            *)

\* The connector is loaded and has to export its interface and to connect.
DriverComModuleInit ==
  /\ At("idle") /\ ~interface
  /\ \/ interface' = TRUE /\ loaded' = TRUE
     \/ interface' = FALSE /\ loaded' = FALSE
  /\ UNCHANGED <<listed, heap, call, list, undef>>
DriverComModuleFinit ==
  /\ At("idle") /\ interface
  /\ interface' = FALSE /\ loaded' = FALSE
  /\ UNCHANGED <<listed, heap, call, list, undef>>

\* Drivers and devices come and go, hooked or not.
Change ==
  /\ undef = "no"
  /\ \E shape \in Shapes : listed' = shape
  /\ UNCHANGED <<interface, loaded, heap, call, list, undef>>

-----------------------------------------------------------------------------
(* _SynchronousVariableOutputIOCTL: a buffer and a request, until it fits.  *)

\* What nobody refers to is forgotten when a function is called.
Call(f) ==
  /\ At("idle") /\ list = Nothing
  /\ heap' = heap \cap Held
  /\ call' = [Idle EXCEPT !.fn = f, !.at = "buffer", !.size = 1]
  /\ UNCHANGED <<interface, loaded, listed, list, undef>>
AllocBuffer ==
  /\ At("buffer")
  /\ \/ /\ heap' = heap \cup {Buffer(call.fn)}
        /\ call' = [call EXCEPT !.at = "ioctl"]
     \/ Return("no memory") /\ UNCHANGED heap
  /\ UNCHANGED <<interface, loaded, listed, list, undef>>

\* Mutant: the buffer that was too small is not freed.
IoctlKeeps ==
  /\ At("ioctl")
  /\ \/ /\ interface /\ Entries(listed) <= call.size
        /\ call' = [call EXCEPT !.at = "decode", !.shape = listed]
        /\ UNCHANGED <<heap, undef>>
     \/ /\ interface /\ Entries(listed) > call.size
        /\ call' = [call EXCEPT !.at = "buffer", !.size = 2 * @]
        /\ UNCHANGED <<heap, undef>>
     \/ /\ Return("refused")
        /\ HeapFree({Buffer(call.fn)})
  /\ UNCHANGED <<interface, loaded, listed, list>>

\* Refused by the driver for any other reason, or without a connector.
Ioctl ==
  /\ At("ioctl")
  /\ \/ /\ interface /\ Entries(listed) <= call.size
        /\ call' = [call EXCEPT !.at = "decode", !.shape = listed]
        /\ UNCHANGED <<heap, undef>>
     \/ /\ interface /\ Entries(listed) > call.size
        /\ call' = [call EXCEPT !.at = "buffer", !.size = 2 * @]
        /\ HeapFree({Buffer(call.fn)})
     \/ /\ Return("refused")
        /\ HeapFree({Buffer(call.fn)})
  /\ UNCHANGED <<interface, loaded, listed, list>>

-----------------------------------------------------------------------------
(* DriverComSnapshotRetrieve, DriverComHookedObjectsEnumerate,              *)
(* DriverComClassWatchEnum and DriverComDriverNameWatchEnum.                *)

Steps == Layout(call.fn, call.shape)
Current == Steps[call.next]
Decoding == At("decode") /\ call.next <= Len(Steps)

Alloc ==
  /\ Decoding
  /\ heap' = heap \cup {Of(call.fn, Current)}
  /\ call' = [call EXCEPT !.next = @ + 1]
  /\ UNCHANGED <<interface, loaded, listed, list, undef>>

\* Everything has been allocated: the caller gets the list.
Decoded ==
  /\ At("decode") /\ call.next > Len(Steps)
  /\ list' = [fn |-> call.fn, shape |-> call.shape]
  /\ HeapFree({Buffer(call.fn)})
  /\ Return("ok")
  /\ UNCHANGED <<interface, loaded, listed>>

Undo(blocks) ==
  /\ HeapFree(AllOf(call.fn, blocks \cup {<<"buffer">>}))
  /\ Return("no memory")
MadeBefore(i) == {b \in Blocks(SubSeq(Steps, 1, call.next - 1)) : b # <<"array">> /\ b[2] < i}

\* The devices of the entry in hand are freed, the entries before and the
\* array, but not the entry itself.
SnapshotFails ==
  /\ Decoding /\ call.fn = "snapshot" /\ Current # <<"array">>
  /\ LET i == Current[2]
         devices == {<<"device", i, j>> : j \in 1..(IF Current[1] = "device" THEN Current[3] - 1 ELSE 0)}
     IN Undo(devices \cup MadeBefore(i) \cup {<<"array">>})
  /\ UNCHANGED <<interface, loaded, listed, list>>

\* The devices' names from the last back, their array, the name; then the
\* entries before, whose devices are freed when they have any; the array.
HookedFails ==
  /\ Decoding /\ call.fn = "hooked" /\ Current # <<"array">>
  /\ LET i == Current[2]
         names == {<<"device", i, j>> : j \in 1..(IF Current[1] = "device" THEN Current[3] - 1 ELSE 0)}
         devices == IF Current[1] = "device" THEN {<<"devices", i>>} ELSE {}
         name == IF Current[1] = "entry" THEN {} ELSE {<<"entry", i>>}
     IN Undo(names \cup devices \cup name \cup MadeBefore(i) \cup {<<"array">>})
  /\ UNCHANGED <<interface, loaded, listed, list>>

\* The strings of the entries before; nobody frees the array.
WatchFails ==
  /\ Decoding /\ call.fn \in {"class", "name"} /\ Current # <<"array">>
  /\ Undo(MadeBefore(Current[2]))
  /\ UNCHANGED <<interface, loaded, listed, list>>

\* No memory for the array.
ArrayFails ==
  /\ Decoding /\ Current = <<"array">>
  /\ Undo({})
  /\ UNCHANGED <<interface, loaded, listed, list>>

\* The error is GetLastError's, and that is 0: the function succeeds without
\* a list, or with entries that have no name or no devices.
FailureUnseen ==
  /\ Decoding
  /\ call.fn = "hooked" \/ (call.fn = "snapshot" /\ Current = <<"array">>)
  /\ undef' = "failure taken for success"
  /\ UNCHANGED <<interface, loaded, listed, heap, call, list>>

-----------------------------------------------------------------------------
(* What the caller gives back, each list to its own function.               *)

FreeList(f, blocks) ==
  /\ At("idle") /\ list # Nothing /\ list.fn = f
  /\ HeapFree(AllOf(f, blocks))
  /\ list' = Nothing
  /\ UNCHANGED <<interface, loaded, listed, call>>
EntriesOf(shape) == {<<"entry", i>> : i \in DOMAIN shape}
DevicesOf(shape) == UNION {Blocks(Devices(shape, i)) : i \in DOMAIN shape}

DriverComSnapshotFree ==
  list # Nothing /\ FreeList("snapshot",
    EntriesOf(list.shape) \cup DevicesOf(list.shape) \cup {<<"array">>})
DriverComHookedObjectsFree ==
  list # Nothing /\ FreeList("hooked",
    IF list.shape = <<>> THEN {}
    ELSE EntriesOf(list.shape) \cup DevicesOf(list.shape) \cup {<<"array">>}
           \cup {<<"devices", i>> : i \in {k \in DOMAIN list.shape : list.shape[k] > 0}})
DriverComClassWatchEnumFree ==
  list # Nothing /\ FreeList("class",
    IF list.shape = <<>> THEN {} ELSE EntriesOf(list.shape) \cup {<<"array">>})
DriverComDriverNameWatchEnumFree ==
  list # Nothing /\ FreeList("name",
    IF list.shape = <<>> THEN {} ELSE EntriesOf(list.shape) \cup {<<"array">>})

-----------------------------------------------------------------------------
(* Functions that send a name: hook a driver or a device, register and      *)
(* unregister a watch.                                                      *)

SendName ==
  /\ At("idle") /\ list = Nothing
  /\ \/ /\ heap' = (heap \cap Held) \cup {Buffer("input")}
        /\ call' = [Idle EXCEPT !.fn = "input", !.at = "input"]
     \/ Return("no memory") /\ UNCHANGED heap
  /\ UNCHANGED <<interface, loaded, listed, list, undef>>
Sent ==
  /\ At("input")
  /\ HeapFree({Buffer("input")})
  /\ \/ Return("refused")
     \/ interface /\ Return("ok")
  /\ UNCHANGED <<interface, loaded, listed, list>>

-----------------------------------------------------------------------------
Next ==
  \/ DriverComModuleInit \/ DriverComModuleFinit \/ Change
  \/ \E f \in Lists : Call(f)
  \/ AllocBuffer \/ Ioctl \/ Alloc \/ Decoded
  \/ SnapshotFails \/ HookedFails \/ WatchFails \/ ArrayFails \/ FailureUnseen
  \/ DriverComSnapshotFree \/ DriverComHookedObjectsFree
  \/ DriverComClassWatchEnumFree \/ DriverComDriverNameWatchEnumFree
  \/ SendName \/ Sent
Spec == Init /\ [][Next]_vars

\* Whatever the library uses is allocated and whatever is allocated is used,
\* but for the entry of a snapshot whose device could not be allocated
\* (driver-com.cpp:199) and the array of watches one of whose strings could
\* not (driver-com.cpp:783); a buffer is at most twice what it had to hold; a
\* connector stays loaded exactly while the library uses it.
LibrarySound ==
  undef # "failure taken for success" =>
    /\ undef = "no"
    /\ Held \subseteq heap
    /\ \A block \in heap \ Held :
         \/ block[1] = "snapshot" /\ block[2] = "entry"
         \/ block[1] \in {"class", "name"} /\ block[2] = "array"
    /\ call.at = "decode" => Entries(call.shape) <= call.size
    /\ call.size <= 2 * MaxDrivers * (MaxDevices + 1)
    /\ interface <=> loaded
=============================================================================
