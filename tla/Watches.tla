------------------------------- MODULE Watches -------------------------------
(***************************************************************************)
(* The watched driver names (pnp-driver-watch.c), their registry keys      *)
(* (boot-log.c), which outlive the system, and the checks that hook        *)
(* watched drivers: of all names when the system closes a service key, of  *)
(* one device stack when the filter of a watched class gets a device       *)
(* (pnp-class-watch.c).                                                    *)
(*                                                                         *)
(* A name is also the driver of that name.  KeyOf is the key name: the     *)
(* driver's with "_" for each "\", so that two drivers may share one.      *)
(***************************************************************************)
EXTENDS Naturals, Sequences

CONSTANTS
  Names, Keys, KeyOf,
  Drivers,    \* the names that have a driver
  Stacks,     \* the device stacks a watched class sees: sequences of drivers
  Settings,   \* settings a client may ask for: [newDevices, perIrp]
  Nobody

VARIABLES
  phase,     \* "off", "loading" (_LoadSettings), "loaded", "running", "failed"
  logBoot,   \* the global setting LogBoot
  names,     \* _driverNameTable: the settings of a watched name, or Nobody
  registry,  \* the keys below BootLogging: [name, settings], or Nobody
  unread,    \* the keys the loading loop has not enumerated yet
  driver,    \* each driver: "absent", "starting", "ready", "unloading"
  hooked,    \* the settings a driver was hooked with by a watch, or Nobody
  check,     \* names a PDWCheckDrivers under way has still to look at
  stack,     \* drivers of a device stack _AddDevice has still to look at
  told,      \* reports made since the driver was started
  damaged,   \* history: keys that a failed or a shared access left wrong
  before     \* history: the names when the system went down, and was it in order

vars == <<phase, logBoot, names, registry, unread, driver, hooked, check,
          stack, told, damaged, before>>

\* IRPSettings and FastIoSettings are not among the saved values; loading
\* sets all of them.
Saved(s) == [s EXCEPT !.perIrp = FALSE]
Default == [newDevices |-> FALSE, perIrp |-> FALSE]
\* No start is under way.
NoHistory == [names |-> [n \in Names |-> Nobody], exact |-> FALSE]

Init ==
  /\ phase = "running" /\ logBoot \in BOOLEAN
  /\ names = [n \in Names |-> Nobody]
  /\ registry = [k \in Keys |-> Nobody]
  /\ unread = {}
  /\ driver = [n \in Names |-> "absent"]
  /\ hooked = [n \in Names |-> Nobody]
  /\ check = {} /\ stack = <<>> /\ told = {}
  /\ damaged = {}
  /\ before = NoHistory

Up == phase = "running"
\* Checks hold _driverNamesLock shared.
Exclusive == Up /\ check = {}
Watched == {n \in Names : names[n] # Nobody}
Sharing(n) == {o \in Watched \ {n} : KeyOf[o] = KeyOf[n]}

-----------------------------------------------------------------------------
(* BLDriverNameSave and BLDriverNameDelete, with what a failure leaves.     *)

\* What a save of n may leave in its key: nothing done, the key, the name,
\* the settings.  A value that was there stays until it is overwritten.
SaveSteps(n, s) ==
  LET old == registry[KeyOf[n]]
      none == [name |-> Nobody, settings |-> Default]
      key == IF old = Nobody THEN none ELSE old
  IN <<old, key, [key EXCEPT !.name = n], [name |-> n, settings |-> Saved(s)]>>
Complete == 4

\* BLDriverNameDelete answers nothing that Unregister would look at.
BLDriverNameDelete(n, done) ==
  registry' = IF done THEN [registry EXCEPT ![KeyOf[n]] = Nobody] ELSE registry

-----------------------------------------------------------------------------
(* PWDDriverNameRegister: the name stays when it was saved completely.      *)

Register(n, s, i) ==
  /\ names[n] = Nobody
  /\ registry' = [registry EXCEPT ![KeyOf[n]] = SaveSteps(n, s)[i]]
  /\ names' = IF i = Complete THEN [names EXCEPT ![n] = s] ELSE names
  /\ damaged' = IF i = Complete /\ Sharing(n) = {} THEN damaged \ {KeyOf[n]}
                ELSE damaged \cup {KeyOf[n]}

DriverNameRegister(n, s, i) ==
  /\ Exclusive
  /\ Register(n, s, i)
  /\ UNCHANGED <<phase, logBoot, unread, driver, hooked, check, stack, told, before>>

DriverNameUnregister(n, done) ==
  /\ Exclusive /\ names[n] # Nobody
  /\ names' = [names EXCEPT ![n] = Nobody]
  /\ BLDriverNameDelete(n, done)
  /\ damaged' = IF done /\ Sharing(n) = {} THEN damaged \ {KeyOf[n]}
                ELSE damaged \cup {KeyOf[n]}
  /\ UNCHANGED <<phase, logBoot, unread, driver, hooked, check, stack, told, before>>

\* The system goes down, in any state; LogBoot decides what comes back.
Shutdown ==
  /\ phase # "off"
  /\ phase' = "off"
  /\ before' = [names |-> names, exact |-> damaged \cup unread = {}]
  /\ names' = [n \in Names |-> Nobody]
  /\ logBoot' \in BOOLEAN
  /\ driver' = [n \in Names |-> "absent"]
  /\ hooked' = [n \in Names |-> Nobody]
  /\ check' = {} /\ stack' = <<>> /\ told' = {} /\ unread' = {}
  /\ UNCHANGED <<registry, damaged>>

Boot ==
  /\ phase = "off"
  /\ phase' = IF logBoot THEN "loading" ELSE "running"
  /\ unread' = {k \in Keys : registry[k] # Nobody}
  \* Without LogBoot the keys stay, and nobody watches their names.
  /\ damaged' = IF logBoot THEN damaged ELSE damaged \cup unread'
  /\ UNCHANGED <<logBoot, names, registry, driver, hooked, check, stack, told,
                 before>>

\* _LoadSettings, one key: a key without a name ends the loop and is no
\* error; what is loaded is registered, and thereby saved, again.
LoadKey(k, i) ==
  /\ phase = "loading" /\ k \in unread
  /\ LET v == registry[k] IN
     IF v.name = Nobody
     THEN /\ phase' = "loaded" /\ unread' = {}
          /\ damaged' = damaged \cup unread
          /\ UNCHANGED <<names, registry>>
     ELSE /\ Register(v.name, v.settings, i)
          /\ phase' = IF i = Complete THEN "loading" ELSE "failed"
          /\ unread' = unread \ {k}
  /\ UNCHANGED <<logBoot, driver, hooked, check, stack, told, before>>

LoadedAll ==
  /\ phase = "loading" /\ unread = {}
  /\ phase' = "loaded"
  /\ UNCHANGED <<logBoot, names, registry, unread, driver, hooked, check, stack,
                 told, damaged, before>>

\* BLModuleInit, and the rest of the driver, is done.
Started ==
  /\ phase = "loaded"
  /\ phase' = "running"
  /\ before' = NoHistory
  /\ UNCHANGED <<logBoot, names, registry, unread, driver, hooked, check, stack,
                 told, damaged>>

\* A key or a value cannot be read: the module fails, and with it the driver.
LoadFails ==
  /\ phase = "loading" /\ unread # {}
  /\ phase' = "failed"
  /\ UNCHANGED <<logBoot, names, registry, unread, driver, hooked, check, stack, told,
                 damaged, before>>

-----------------------------------------------------------------------------
(* The drivers of the system, and a client that hooks and unhooks nothing   *)
(* by itself but may unhook what a watch hooked.                            *)

Change(n, from, to) ==
  /\ Up /\ driver[n] = from
  /\ to = "absent" => \A i \in DOMAIN stack : stack[i] # n
  /\ driver' = [driver EXCEPT ![n] = to]
  /\ hooked' = IF to = "absent" THEN [hooked EXCEPT ![n] = Nobody] ELSE hooked
  /\ told' = IF to = "absent" THEN told \ ({n} \X {"driver", "device"}) ELSE told
  /\ UNCHANGED <<phase, logBoot, names, registry, unread, check, stack, damaged,
                 before>>
DriverStep(n) ==
  \/ Change(n, "absent", "starting") \/ Change(n, "starting", "ready")
  \/ Change(n, "ready", "unloading") \/ Change(n, "unloading", "absent")

UnhookDriverObject(n) ==
  /\ Up /\ hooked[n] # Nobody
  /\ hooked' = [hooked EXCEPT ![n] = Nobody]
  /\ told' = told \ {<<n, "driver">>}
  /\ UNCHANGED <<phase, logBoot, names, registry, unread, driver, check, stack,
                 damaged, before>>

\* Mutant: a driver that is on its way in or out is hooked as well.
HookAnyDriver(n) == hooked[n] = Nobody /\ driver[n] # "absent"

\* _HookDriverAndDevices: not before the driver is initialised, not after its
\* unloading began, not twice.
Hookable(n) == hooked[n] = Nobody /\ driver[n] = "ready"

\* PDWCheckDrivers, the registry callback of the boot log.
CheckDrivers ==
  /\ Up /\ check = {} /\ logBoot
  /\ check' = Watched
  /\ UNCHANGED <<phase, logBoot, names, registry, unread, driver, hooked, stack,
                 told, damaged, before>>

\* _OnDriverNameCheck, for a driver that has an object; memory may be short.
OnDriverNameCheck(n, memory) ==
  /\ n \in check
  /\ check' = check \ {n}
  /\ IF memory /\ Hookable(n)
     THEN /\ hooked' = [hooked EXCEPT ![n] = names[n]]
          /\ told' = told \cup {<<n, "driver">>}
     ELSE UNCHANGED <<hooked, told>>
  /\ UNCHANGED <<phase, logBoot, names, registry, unread, driver, stack, damaged,
                 before>>

\* _AddDevice of the class filter: the stack, from the bottom to the top.
AddDevice(s) ==
  /\ Up /\ stack = <<>>
  /\ \A i \in DOMAIN s : driver[s[i]] # "absent"
  /\ stack' = s
  /\ UNCHANGED <<phase, logBoot, names, registry, unread, driver, hooked, check,
                 told, damaged, before>>

\* PDWCheckDriver: a name nobody watches is reported, a watched one when
\* this check hooked it.
CheckDriver(memory) ==
  /\ Up /\ stack # <<>>
  /\ LET n == Head(stack) IN
     /\ IF names[n] = Nobody
        THEN /\ told' = told \cup ({n} \X {"driver", "device"})
             /\ UNCHANGED hooked
        ELSE IF memory /\ Hookable(n)
        THEN /\ hooked' = [hooked EXCEPT ![n] = names[n]]
             /\ told' = told \cup ({n} \X {"driver", "device"})
        ELSE UNCHANGED <<hooked, told>>
  /\ stack' = Tail(stack)
  /\ UNCHANGED <<phase, logBoot, names, registry, unread, driver, check, damaged,
                 before>>

Next ==
  \/ \E n \in Names :
       \/ \E s \in Settings, i \in 1 .. Complete : DriverNameRegister(n, s, i)
       \/ \E done \in BOOLEAN : DriverNameUnregister(n, done)
       \/ n \in Drivers /\ DriverStep(n)
       \/ UnhookDriverObject(n)
       \/ \E memory \in BOOLEAN : OnDriverNameCheck(n, memory)
  \/ \E k \in Keys, i \in 1 .. Complete : LoadKey(k, i)
  \/ Shutdown \/ Boot \/ LoadedAll \/ Started \/ LoadFails
  \/ CheckDrivers
  \/ \E s \in Stacks : AddDevice(s)
  \/ \E memory \in BOOLEAN : CheckDriver(memory)
Spec == Init /\ [][Next]_vars

-----------------------------------------------------------------------------
\* What is watched is what the next start will find: each key that no failure
\* and no other name touched holds the one watched name it stands for.
KeysExact ==
  phase \in {"loaded", "running"} /\ logBoot =>
    \A k \in Keys \ damaged :
      LET owners == {n \in Watched : KeyOf[n] = k} IN
      IF registry[k] = Nobody THEN owners = {}
      ELSE /\ owners = {registry[k].name}
           /\ registry[k].settings = Saved(names[registry[k].name])

\* A start with LogBoot watches the names that were watched, with the settings
\* that are saved.
StartRestores ==
  phase = "loaded" /\ before.exact =>
    \A n \in Names :
      names[n] = IF before.names[n] = Nobody THEN Nobody ELSE Saved(before.names[n])

\* A watch hooks no driver before it is initialised; a driver that a watch
\* has hooked is reported.
HooksInTime ==
  \A n \in Names :
    hooked[n] # Nobody => driver[n] \in {"ready", "unloading"} /\ <<n, "driver">> \in told

WatchesSound == KeysExact /\ StartRestores /\ HooksInTime
=============================================================================
