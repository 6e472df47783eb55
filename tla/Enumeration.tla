---------------------------- MODULE Enumeration ----------------------------
(***************************************************************************)
(* The enumeration of drivers and devices (utils.c) for its three users:   *)
(* the search of a device ("address", _GetDeviceAddressByCondition), the   *)
(* client's list of everything ("list", UMEnumDriversDevices) and the      *)
(* emulated events of a new client ("events",                              *)
(* ListDriversAndDevicesByEvents).  Meanwhile the system loads and unloads *)
(* drivers and their devices come and go; every call may fail.  What is    *)
(* listed is referenced, and the references are the point of the model.    *)
(***************************************************************************)
EXTENDS Integers, Sequences, SequencesExt, FiniteSets

CONSTANTS
  Drivers, Devices,
  Directory,   \* 1 (\Driver) or 2 (\FileSystem), of each driver
  DriverOf,    \* of each device
  MaxLost,     \* bound of this model: references lost by growing lists
  Nobody

VARIABLES
  alive,     \* drivers and devices that exist
  refs,      \* references taken by the code, of each
  op, at,    \* the operation, and where it is
  directory, \* that is read
  scan,      \* drivers _GetDriversInDirectory has collected, in order
  name,      \* the driver it has just read the name of
  found,     \* drivers of the directories read
  next,      \* position of the driver that is looked at
  room,      \* length of the array for its devices
  list,      \* its devices
  described, \* "list": the devices of the drivers before
  target,    \* "address": the device to find, and what was found
  given,
  status,    \* of the last operation: "success", "found", "failure"
  lost,      \* history: references nobody can drop any more
  undef

vars == <<alive, refs, op, at, directory, scan, name, found, next, room, list,
          described, target, given, status, lost, undef>>
call == <<op, target>>
Objects == Drivers \cup Devices

Init ==
  /\ alive = {} /\ refs = [o \in Objects |-> 0]
  /\ op = "none" /\ at = "idle" /\ directory = 1
  /\ scan = <<>> /\ name = Nobody /\ found = <<>>
  /\ next = 1 /\ room = 0 /\ list = <<>> /\ described = <<>>
  /\ target = Nobody /\ given = Nobody /\ status = "success"
  /\ lost = [o \in Objects |-> 0] /\ undef = "no"

Occurs(o, s) == Cardinality({i \in DOMAIN s : s[i] = o})
\* ObReferenceObject and ObDereferenceObject, of every element.
Plus(s) == [o \in Objects |-> refs[o] + Occurs(o, s)]
Minus(s) == [o \in Objects |-> refs[o] - Occurs(o, s)]
At(place) == at = place /\ undef = "no"

-----------------------------------------------------------------------------
(* The system.                                                              *)

Load(d) == d \notin alive /\ alive' = alive \cup {d}
Unload(d) ==
  d \in alive /\ alive' = alive \ ({d} \cup {x \in Devices : DriverOf[x] = d})
AddDevice(x) == DriverOf[x] \in alive /\ x \notin alive /\ alive' = alive \cup {x}
RemoveDevice(x) == x \in alive /\ alive' = alive \ {x}
System ==
  /\ undef = "no"
  /\ \/ \E d \in Drivers : Load(d) \/ Unload(d)
     \/ \E x \in Devices : AddDevice(x) \/ RemoveDevice(x)
  /\ UNCHANGED <<refs, op, at, directory, scan, name, found, next, room, list,
                 described, target, given, status, lost, undef>>

-----------------------------------------------------------------------------
(* _GetDriversInDirectory.                                                  *)

\* A new operation; the user of a device that was found is done with it.
Begin(o, x) ==
  /\ At("idle")
  /\ op' = o /\ target' = x /\ at' = "names" /\ directory' = 1
  /\ refs' = IF given = Nobody THEN refs ELSE Minus(<<given>>)
  /\ given' = Nobody /\ found' = <<>> /\ scan' = <<>> /\ described' = <<>>
  /\ next' = 1 /\ room' = 0 /\ list' = <<>> /\ status' = "failure"
  /\ UNCHANGED <<alive, name, lost, undef>>

\* ZwQueryDirectoryObject and the name's comparison.
QueryDirectory(d) ==
  /\ At("names")
  /\ d \in alive /\ Directory[d] = directory /\ Occurs(d, scan) = 0
  /\ name' = d /\ at' = "reference"
  /\ UNCHANGED <<alive, refs, call, directory, scan, found, next, room, list,
                 described, given, status, lost, undef>>

\* _AppendDriverNameToDirectory, ObReferenceObjectByName, DymArrayPushBack.
ReferenceDriver(d) ==
  /\ At("reference") /\ d = name /\ name \in alive
  /\ scan' = Append(scan, name) /\ refs' = Plus(<<name>>)
  /\ name' = Nobody /\ at' = "names"
  /\ UNCHANGED <<alive, call, directory, found, next, room, list, described, given,
                 status, lost, undef>>

\* Mutant: a failing scan forgets the drivers it has.
ScanForgets ==
  /\ At("names") \/ At("reference")
  /\ scan' = <<>> /\ name' = Nobody
  /\ at' = "release"
  /\ UNCHANGED <<alive, refs, call, directory, found, next, room, list, described,
                 given, status, lost, undef>>

\* Any failure, the driver having gone included, gives the whole list up;
\* what follows is the user's.
ScanFails ==
  /\ At("names") \/ At("reference")
  /\ refs' = Minus(scan) /\ scan' = <<>> /\ name' = Nobody
  /\ IF op = "events" /\ directory = 1
     THEN directory' = 2 /\ at' = "names"
     ELSE UNCHANGED directory /\ at' = "release"
  /\ UNCHANGED <<alive, call, found, next, room, list, described, given, status,
                 lost, undef>>

\* STATUS_NO_MORE_ENTRIES.  "events" handles the directories one by one.
GetDriversInDirectory ==
  /\ At("names")
  /\ \A d \in alive \cap Drivers : Directory[d] = directory => Occurs(d, scan) > 0
  /\ found' = found \o scan /\ scan' = <<>>
  /\ IF op # "events" /\ directory = 1
     THEN directory' = 2 /\ at' = "names"
     ELSE UNCHANGED directory /\ at' = "drivers"
  /\ UNCHANGED <<alive, refs, call, name, next, room, list, described, given, status,
                 lost, undef>>

-----------------------------------------------------------------------------
(* UtilsEnumDriverDevices.  IoEnumerateDeviceObjectList references the       *)
(* devices that fit, and tells when some do not: those it did reference are  *)
(* then forgotten with the array.                                            *)

DevicesOf(d) == SetToSeq({x \in Devices \cap alive : DriverOf[x] = d})

EnumDriverDevices ==
  /\ At("drivers") /\ next <= Len(found)
  /\ LET devices == DevicesOf(found[next]) IN
     IF Len(devices) <= room
     THEN /\ list' = devices /\ refs' = Plus(devices)
          /\ room' = 0 /\ at' = "devices"
          /\ UNCHANGED lost
     ELSE /\ \A o \in Objects : lost[o] < MaxLost
          /\ refs' = Plus(SubSeq(devices, 1, room))
          /\ lost' = [o \in Objects |-> lost[o] + Occurs(o, SubSeq(devices, 1, room))]
          /\ room' = Len(devices)
          /\ UNCHANGED <<list, at>>
  /\ UNCHANGED <<alive, call, directory, scan, name, found, next, described, given,
                 status, undef>>

\* "list" drops, of the drivers before, the devices and the driver, which
\* the list of drivers drops once more.
GiveUpList ==
  IF next > 1 THEN undef' = "dereferenced twice" ELSE UNCHANGED undef

EnumDevicesFails ==
  /\ At("drivers") /\ next <= Len(found) /\ room > 0
  /\ room' = 0
  /\ CASE op = "events" -> next' = next + 1 /\ UNCHANGED <<at, undef>>
       [] op = "address" -> at' = "release" /\ UNCHANGED <<next, undef>>
       [] op = "list" -> at' = "release" /\ GiveUpList /\ UNCHANGED next
  /\ UNCHANGED <<alive, refs, call, directory, scan, name, found, list, described,
                 given, status, lost>>

NextDriver ==
  /\ next' = next + 1 /\ at' = "drivers"
  /\ refs' = Minus(list) /\ list' = <<>>

\* The condition of _GetDeviceAddressByCondition: the device, another one, or
\* a failure (_GetObjectName), which ends the search.
CheckDevices ==
  /\ At("devices") /\ op = "address"
  /\ \/ Occurs(target, list) = 0 /\ NextDriver /\ UNCHANGED <<given, status>>
     \/ /\ Occurs(target, list) > 0
        /\ given' = target /\ status' = "found"
        /\ refs' = [Minus(list) EXCEPT ![target] = @ + 1] /\ list' = <<>>
        /\ at' = "release" /\ UNCHANGED next
     \/ /\ list # <<>>
        /\ refs' = Minus(list) /\ list' = <<>>
        /\ at' = "release" /\ UNCHANGED <<next, given, status>>
  /\ UNCHANGED <<alive, call, directory, scan, name, found, room, described, lost,
                 undef>>

\* The name of the driver and of its devices.  A failure before the last
\* device frees the names of those before it and goes on.
DescribeDriver ==
  /\ At("devices") /\ op = "list"
  /\ \/ /\ described' = described \o list
        /\ list' = <<>> /\ next' = next + 1 /\ at' = "drivers"
        /\ UNCHANGED <<refs, undef>>
     \/ /\ refs' = Minus(list) /\ list' = <<>> /\ at' = "release"
        /\ GiveUpList
        /\ UNCHANGED <<described, next>>
     \/ /\ Len(list) > 1 /\ undef' = "names lost"
        /\ UNCHANGED <<refs, list, at, described, next>>
  /\ UNCHANGED <<alive, call, directory, scan, name, found, room, given, status, lost>>

ReportDriver ==
  /\ At("devices") /\ op = "events"
  /\ NextDriver
  /\ UNCHANGED <<alive, call, directory, scan, name, found, room, described, given,
                 status, lost, undef>>

\* After the last driver: nothing was found, the list is copied to the
\* client or is too long, or the other directory is next.  The search that
\* has no memory for its array never starts, and calls that a success.
Finished ==
  /\ At("drivers")
  /\ \/ /\ next > Len(found) /\ op = "events" /\ directory = 1
        /\ directory' = 2 /\ at' = "names" /\ next' = 1
        /\ refs' = Minus(found) /\ found' = <<>> /\ UNCHANGED status
     \/ /\ next > Len(found) /\ ~(op = "events" /\ directory = 1)
        /\ at' = "release" /\ UNCHANGED <<directory, refs, found, next>>
        /\ status' \in IF op = "address" THEN {"failure"} ELSE {"success", "failure"}
     \/ /\ op = "address" /\ next = 1 /\ room = 0
        /\ at' = "release" /\ status' = "success without memory"
        /\ UNCHANGED <<directory, refs, found, next>>
     \/ /\ op = "list" /\ next = 1 /\ room = 0
        /\ at' = "release" /\ UNCHANGED <<directory, refs, found, next, status>>
  /\ UNCHANGED <<alive, call, scan, name, room, list, described, given, lost, undef>>

\* _ReleaseDriverArray and _ReleaseDeviceArray of all that is held.
Release ==
  /\ At("release")
  /\ refs' = Minus(found \o described) /\ found' = <<>> /\ described' = <<>>
  /\ at' = "idle" /\ op' = "none" /\ target' = Nobody
  /\ UNCHANGED <<alive, directory, scan, name, next, room, list, given, status, lost,
                 undef>>

-----------------------------------------------------------------------------
Undefined == undef # "no" /\ UNCHANGED vars
Next ==
  \/ System
  \/ \E x \in Devices : Begin("address", x)
  \/ Begin("list", Nobody) \/ Begin("events", Nobody)
  \/ \E d \in Drivers : QueryDirectory(d) \/ ReferenceDriver(d)
  \/ ScanFails \/ GetDriversInDirectory
  \/ EnumDriverDevices \/ EnumDevicesFails
  \/ CheckDevices \/ DescribeDriver \/ ReportDriver \/ Finished \/ Release
  \/ Undefined
Spec == Init /\ [][Next]_vars

-----------------------------------------------------------------------------
Holds(o) ==
  Occurs(o, scan) + Occurs(o, found) + Occurs(o, list) + Occurs(o, described)
    + (IF given = o THEN 1 ELSE 0)

\* Whatever fails and whatever comes and goes meanwhile, every reference that
\* was taken is held by somebody who will drop it (utils.c:173, 256, 285),
\* but for those of a device list that grew (utils.c:264); a search that
\* succeeds has found a device, unless there was no memory (utils.c:312).
EnumerationSound ==
  undef = "no" =>
    /\ \A o \in Objects : refs[o] = Holds(o) + lost[o]
    /\ at = "idle" => \A o \in Objects : Holds(o) = IF given = o THEN 1 ELSE 0
    /\ status = "found" <=> given # Nobody
=============================================================================
