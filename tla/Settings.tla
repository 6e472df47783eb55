------------------------------- MODULE Settings -------------------------------
(***************************************************************************)
(* The driver's settings (driver-settings.c): one structure without a      *)
(* lock, that the queue also counts its records in, and the values of the  *)
(* service's Parameters key.  Clients query it and set it, field by field, *)
(* at the same time; a set that is to be saved writes the fields as they   *)
(* are when it comes to them.  The system may stop between any two writes, *)
(* and the next start reads what there is and writes it back.              *)
(***************************************************************************)
EXTENDS Integers, Sequences

CONSTANTS
  Fields,     \* how many settings there are
  Values,     \* their values
  Default,    \* the value of a setting that the registry does not have
  Clients,    \* threads that query and set
  MaxLength,  \* records that are queued at a time
  Absent      \* no value, or one that is not a REG_DWORD

Range1 == 1..Fields

VARIABLES
  driver,    \* "off" "save" "on": DriverSettingsInit loads, then saves
  memory,    \* the settings in _globalSettings
  length,    \* ReqQueueLength in _globalSettings
  queued,    \* history: the records in the queue
  registry,  \* the values of the Parameters key
  field,     \* how far each client, and the start, has got
  op,        \* what each client does
  before,    \* history: the registry when the driver started, until it is on
  alone      \* history: the set that ended last, if no other was under way

vars == <<driver, memory, length, queued, registry, field, op, before, alone>>

Start == "start"
Idle == [at |-> "idle", input |-> [f \in Range1 |-> Default], save |-> FALSE, saw |-> 0]
NoSet == [input |-> [f \in Range1 |-> Default], saved |-> FALSE, known |-> FALSE]

Init ==
  /\ driver = "off"
  /\ memory = [f \in Range1 |-> Default]
  /\ length = 0 /\ queued = 0
  /\ registry \in [Range1 -> Values \cup {Absent}]
  /\ field = [c \in Clients \cup {Start} |-> 1]
  /\ op = [c \in Clients |-> Idle]
  /\ before = registry
  /\ alone = NoSet

Or(value) == IF value = Absent THEN Default ELSE value
Setting == {c \in Clients : op[c].at \in {"set", "save"}}

\* DriverSettingsInit: the defaults, then what the registry has instead.  The
\* driver does not start when a value cannot be read.
Load ==
  /\ driver = "off"
  /\ \/ /\ memory' = [f \in Range1 |-> Or(registry[f])]
        /\ driver' = "save"
     \/ UNCHANGED <<memory, driver>>
  /\ length' = 0 /\ queued' = 0
  /\ field' = [field EXCEPT ![Start] = 1]
  /\ before' = registry /\ alone' = NoSet
  /\ UNCHANGED <<registry, op>>

\* Mutant: the last setting is not among those that are saved.
LastSavedShort == Fields - 1

LastSaved == Fields

\* _SaveToRegistry when the driver starts.
SaveLoaded ==
  /\ driver = "save"
  /\ \/ /\ field[Start] <= LastSaved
        /\ registry' = [registry EXCEPT ![field[Start]] = memory[field[Start]]]
        /\ field' = [field EXCEPT ![Start] = @ + 1]
        /\ UNCHANGED <<driver, before>>
     \/ /\ field[Start] > LastSaved
        /\ driver' = "on" /\ before' = memory
        /\ UNCHANGED <<registry, field>>
     \/ driver' = "off" /\ UNCHANGED <<registry, field, before>>
  /\ UNCHANGED <<memory, length, queued, op, alone>>

\* The system stops, at any point.
Crash ==
  /\ driver # "off"
  /\ driver' = "off"
  /\ op' = [c \in Clients |-> Idle]
  /\ field' = [c \in Clients \cup {Start} |-> 1]
  /\ memory' = [f \in Range1 |-> Default]
  /\ length' = 0 /\ queued' = 0
  /\ alone' = NoSet /\ before' = registry
  /\ UNCHANGED registry

\* The queue counts in the same structure (RequestQueueInsert and Get).
Queue ==
  /\ driver = "on"
  /\ \/ length < MaxLength /\ length' = length + 1 /\ queued' = queued + 1
     \/ length > 0 /\ length' = length - 1 /\ queued' = queued - 1
  /\ UNCHANGED <<driver, memory, registry, field, op, before, alone>>

-----------------------------------------------------------------------------
(* UMDriverSettingsQuery and UMDriverSettingsSet.                           *)

At(c, place) == driver = "on" /\ op[c].at = place

\* The whole structure, counters and all; the client changes what it likes,
\* so that what it sends may be anything.
Query(c) ==
  /\ At(c, "idle")
  /\ op' = [op EXCEPT ![c].at = "has", ![c].saw = length]
  /\ UNCHANGED <<driver, memory, length, queued, registry, field, before, alone>>
Set(c, input, save) ==
  /\ At(c, "has")
  /\ op' = [op EXCEPT ![c].at = "set", ![c].input = input, ![c].save = save]
  /\ field' = [field EXCEPT ![c] = 1]
  /\ alone' = IF Setting = {} THEN [NoSet EXCEPT !.input = input, !.known = TRUE] ELSE NoSet
  /\ UNCHANGED <<driver, memory, length, queued, registry, before>>

\* Mutant: the whole structure is assigned.
CopyAll(c) ==
  /\ At(c, "set")
  /\ memory' = op[c].input /\ length' = op[c].saw
  /\ op' = [op EXCEPT ![c] = IF @.save THEN [@ EXCEPT !.at = "save"] ELSE Idle]
  /\ UNCHANGED <<driver, queued, registry, field, before, alone>>

\* DriverSettingsSet: one setting after the other, and only settings.
Copy(c) ==
  /\ At(c, "set")
  /\ \/ /\ field[c] <= Fields
        /\ memory' = [memory EXCEPT ![field[c]] = op[c].input[field[c]]]
        /\ field' = [field EXCEPT ![c] = @ + 1]
        /\ UNCHANGED op
     \/ /\ field[c] > Fields
        /\ op' = [op EXCEPT ![c] = IF @.save THEN [@ EXCEPT !.at = "save"] ELSE Idle]
        /\ field' = [field EXCEPT ![c] = 1]
        /\ UNCHANGED memory
  /\ UNCHANGED <<driver, length, queued, registry, before, alone>>

\* _SaveToRegistry for a client: an error ends it where it is.
Save(c) ==
  /\ At(c, "save")
  /\ \/ /\ field[c] <= LastSaved
        /\ registry' = [registry EXCEPT ![field[c]] = memory[field[c]]]
        /\ field' = [field EXCEPT ![c] = @ + 1]
        /\ UNCHANGED <<op, alone>>
     \/ /\ field[c] > LastSaved
        /\ op' = [op EXCEPT ![c] = Idle]
        /\ field' = [field EXCEPT ![c] = 1]
        /\ alone' = [alone EXCEPT !.saved = alone.known]
        /\ UNCHANGED registry
     \/ /\ op' = [op EXCEPT ![c] = Idle]
        /\ field' = [field EXCEPT ![c] = 1]
        /\ UNCHANGED <<registry, alone>>
  /\ UNCHANGED <<driver, memory, length, queued, before>>

-----------------------------------------------------------------------------
Next ==
  \/ Load \/ SaveLoaded \/ Crash \/ Queue
  \/ \E c \in Clients :
       \/ Query(c) \/ Copy(c) \/ Save(c)
       \/ \E input \in [Range1 -> Values], save \in BOOLEAN : Set(c, input, save)
Spec == Init /\ [][Next]_vars

\* What one client has set, with no other setting at the same time, is what
\* holds, and after a save what the next start finds (driver-settings.c:220);
\* a start takes over what there was and leaves no setting out
\* (driver-settings.c:268); setting never touches the counters of the queue,
\* however old what the client has queried.
SettingsSound ==
  /\ (driver = "on" /\ Setting = {} /\ alone.known) => memory = alone.input
  /\ alone.saved => Setting # {} \/ registry = alone.input
  /\ driver = "save" => \A f \in Range1 :
       memory[f] = Or(before[f]) /\ registry[f] \in {before[f], memory[f]}
  /\ (driver = "on" /\ Setting = {} /\ ~alone.known) => Absent \notin {registry[f] : f \in Range1}
  /\ length = queued
=============================================================================
