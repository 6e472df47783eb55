------------------------------ MODULE Registry ------------------------------
(***************************************************************************)
(* The watches of device classes (pnp-class-watch.c) and the registry      *)
(* emulation they use (registry-callback.c, key-record.c, value-record.c,  *)
(* string-ref-table.c, multistring.c), for one class: its key and the two  *)
(* values that can be watched, UpperFilters and LowerFilters.  A watched   *)
(* value is shown to programs with the name of the driver's own service in *)
(* it; the registry itself never holds the name because of a watch.  The   *)
(* system is Vista or later, and no other client of the emulation is       *)
(* there.  A callback is not called for what it does to the registry       *)
(* itself.                                                                 *)
(***************************************************************************)
EXTENDS Integers, Sequences, FiniteSets, SequencesExt

CONSTANTS
  Programs,      \* threads that use the key, the system's among them
  Names,         \* the values of the key
  Positions,     \* where a watch inserts: "beginning", "end"
  Inputs,        \* what programs write: sequences of service names
  Keys, Values,  \* places in memory for key records and value records
  Own,           \* the name of the driver's service
  Absent,        \* no such value
  NoData,        \* a value record of type REG_NONE
  Nobody

VARIABLES
  real,      \* what the registry holds
  keyTable,  \* _keyTable: the record of the key, or Nobody
  key,       \* key records
  value,     \* value records
  prog,      \* what each program is doing
  cw,        \* the class watch call that holds _classGuidsLock
  watches,   \* the hash tables: the record of each watched value
  classes,   \* _numberofClasses
  addDevice, \* DriverExtension->AddDevice is set
  crossed,   \* history: both values were watched at a time
  misled,    \* history: a program was told something else than it should be
  undef      \* what undefined behaviour or leak was met, or "none"

vars == <<real, keyTable, key, value, prog, cw, watches, classes, addDevice,
          crossed, misled, undef>>

FreeKey == [refs |-> 0, values |-> <<>>, behind |-> {}]
FreeValue == [name |-> Nobody, data |-> NoData, refs |-> 0, key |-> Nobody,
              callback |-> "none"]
Idle == [at |-> "idle", key |-> Nobody, name |-> Nobody, value |-> Nobody,
         ok |-> FALSE]
NoCall == [at |-> "idle", key |-> Nobody, name |-> Nobody, value |-> Nobody,
           place |-> "none", clears |-> FALSE]
Free(records, free) == {x \in DOMAIN records : records[x] = free}

Init ==
  /\ real \in [Names -> Inputs \cup {Absent}]
  /\ keyTable = Nobody
  /\ key = [k \in Keys |-> FreeKey] /\ value = [v \in Values |-> FreeValue]
  /\ prog = [p \in Programs |-> Idle] /\ cw = NoCall
  /\ watches = [n \in Names |-> Nobody] /\ classes = 0 /\ addDevice = FALSE
  /\ crossed = FALSE /\ misled = FALSE /\ undef = "none"

-----------------------------------------------------------------------------
(* The multi-string of services: a name is in it or not, whatever its case *)
MultiStringExists(data, name) == Contains(data, name)
MultiStringInsert(data, name, beginning) ==
  IF MultiStringExists(data, name) THEN data
  ELSE IF beginning THEN <<name>> \o data ELSE Append(data, name)
MultiStringRemove(data, name) ==
  IF MultiStringExists(data, name) THEN Remove(data, name) ELSE data

-----------------------------------------------------------------------------
(* Records and their references                                            *)
ValueReferenced(vs, v) == [vs EXCEPT ![v].refs = @ + 1]
ValueDropped(vs, v) == IF vs[v].refs = 1 THEN [vs EXCEPT ![v] = FreeValue]
                                         ELSE [vs EXCEPT ![v].refs = @ - 1]

\* _KeyRecordDestroy: the record's table lets go of its values.
KeyDestroyed(vs, k) == FoldLeft(ValueDropped, vs, key[k].values)

\* KeyRecordDereference, n times, with vs the value records at that moment.
KeyDropped(k, n, vs) ==
  IF key[k].refs > n
  THEN key' = [key EXCEPT ![k].refs = @ - n] /\ value' = vs
  ELSE key' = [key EXCEPT ![k] = FreeKey] /\ value' = KeyDestroyed(vs, k)

\* StringRefTableGet on the value table, or Nobody.
ValueGet(k, n) ==
  LET found == SelectSeq(key[k].values, LAMBDA v : value[v].name = n)
  IN IF found = <<>> THEN Nobody ELSE Head(found)

\* The operation lock is held between two steps of a program.
Unlocked(k) == \A p \in Programs : prog[p].at = "adding" => prog[p].key # k

NewValue(k, n, d, refs) ==
  [FreeValue EXCEPT !.name = n, !.data = d, !.refs = refs, !.key = k]


\* ValueRecordCallbackQueryInvoke with _QueryCallback.
QueryInvoke(v) ==
  LET data == IF value[v].data = NoData THEN <<>> ELSE value[v].data
  IN IF value[v].callback = "none" THEN value[v].data
     ELSE MultiStringInsert(data, Own, value[v].callback = "beginning")

\* _ValueRecordCallbackSetInvoke with _SetCallback.
SetInvoke(v, data) ==
  IF value[v].callback = "none" THEN data ELSE MultiStringRemove(data, Own)

\* The records that stand, or will stand, for the key: writes that do not
\* go through them leave them behind the registry.
Current == {keyTable, cw.key} \ {Nobody}
Behind(ks, through, n) ==
  [k \in Keys |-> IF k \in Current \ through
                  THEN [ks[k] EXCEPT !.behind = @ \cup {n}] ELSE ks[k]]

-----------------------------------------------------------------------------
(* Programs.  _GetKeyRecord finds the record and then references it, under *)
(* no lock.                                                                *)
Becomes(p, r) == prog' = [prog EXCEPT ![p] = r]

\* The configuration manager calls _RegistryCallback before an operation,
\* and after a deletion.  Without a record the operation takes its course,
\* and after one the context of the deletion is lost with its value record.
GetKeyRecord(p) ==
  /\ prog[p].at \in {"idle", "deleted"}
  /\ LET after == prog[p].at = "deleted"  v == prog[p].value IN
     IF keyTable # Nobody
     THEN /\ Becomes(p, [prog[p] EXCEPT !.at = IF after THEN "foundPost" ELSE "found",
                                        !.key = keyTable])
          /\ UNCHANGED undef
     ELSE /\ Becomes(p, IF after THEN Idle ELSE [Idle EXCEPT !.at = "pass"])
          /\ undef' = IF after /\ v # Nobody THEN "context lost" ELSE undef
  /\ UNCHANGED <<real, keyTable, key, value, cw, watches, classes, addDevice,
                 crossed, misled>>

KeyReference(p) ==
  /\ prog[p].at \in {"found", "foundPost"}
  /\ LET k == prog[p].key IN
     IF key[k].refs = 0
     THEN undef' = "used after it was freed" /\ UNCHANGED <<key, prog>>
     ELSE /\ key' = [key EXCEPT ![k].refs = @ + 1]
          /\ Becomes(p, [prog[p] EXCEPT !.at = IF @ = "found" THEN "held" ELSE "post"])
          /\ UNCHANGED undef
  /\ UNCHANGED <<real, keyTable, value, cw, watches, classes, addDevice, crossed, misled>>

Others == <<keyTable, cw, watches, classes, addDevice, crossed, misled, undef>>

\* The operation itself, no record in between.
PassSet(p, n, data) ==
  /\ prog[p].at = "pass"
  /\ real' = [real EXCEPT ![n] = data]
  /\ key' = Behind(key, {}, n)
  /\ Becomes(p, Idle) /\ UNCHANGED <<value>> /\ UNCHANGED Others

\* Names whose deletion is between the registry and the post operation.
Deleting == {prog[q].name : q \in {q \in Programs :
               prog[q].at \in {"deleted", "foundPost", "post"}}}
Watched == {n \in Names : watches[n] # Nobody}

\* What can be said of the values to a program that uses record k: nothing
\* of those the record is behind the registry with; a value that was deleted
\* through the record is still there, without data.
Doubtful(k) ==
  IF k # keyTable \/ cw.at # "idle" \/ crossed THEN Names
  ELSE key[k].behind \cup Deleting
         \cup {n \in Watched : value[watches[n].value].key = Nobody}
Shown(n) ==
  IF n \in Watched
  THEN {MultiStringInsert(IF real[n] = Absent THEN <<>> ELSE real[n], Own,
                          value[watches[n].value].callback = "beginning")}
  ELSE IF real[n] = Absent THEN {Absent, NoData} ELSE {real[n]}

\* An operation ends with the reference to the record: told is the answer,
\* as pairs of name and data, and asked what the program asked for.
Held(p) == prog[p].at = "held" /\ Unlocked(prog[p].key)
Finish(p) ==
  /\ Becomes(p, Idle)
  /\ KeyDropped(prog[p].key, 1, value)
  /\ UNCHANGED <<real, keyTable, cw, watches, classes, addDevice, crossed, undef>>
Answer(p, asked, told) ==
  /\ Finish(p)
  /\ misled' = (misled \/ \E n \in asked \ Doubtful(prog[p].key) :
                   /\ \A d \in Shown(n) : <<n, d>> \notin told
                   /\ Absent \notin Shown(n) \/ \E t \in told : t[1] = n)
Refuse(p) == Finish(p) /\ UNCHANGED misled

\* KeyRecordOnQueryValue and ValueRecordOnQueryValue: a value that has no
\* record is answered by the registry; a buffer that is too small fails the
\* operation.
OnQueryValue(p, n) ==
  /\ Held(p)
  /\ LET v == ValueGet(prog[p].key, n) IN
     \/ Answer(p, {n}, {<<n, IF v = Nobody THEN real[n] ELSE QueryInvoke(v)>>})
     \/ v # Nobody /\ Refuse(p)

\* KeyRecordOnEnumValue (which compares the index before it takes the
\* lock), one index after the other until there are no more entries.
OnEnumValue(p) ==
  /\ Held(p)
  /\ Answer(p, Names, {<<value[v].name, QueryInvoke(v)>> :
                          v \in ToSet(key[prog[p].key].values)})

\* KeyRecordQueryMultipleValues takes no lock, and fails for a value that
\* has no record.
QueryMultipleValues(p, names) ==
  /\ prog[p].at = "held"
  /\ LET k == prog[p].key IN
     IF \E n \in names : ValueGet(k, n) = Nobody THEN Refuse(p)
     ELSE Answer(p, names, {<<n, QueryInvoke(ValueGet(k, n))>> : n \in names})

\* _KeyRecordGatherStatistics: every value record counts, and the status
\* stays a failure when there is none.
GatherStatistics(k) == Len(key[k].values)

\* KeyRecordOnQuery: information classes other than the full and the cached
\* one end with the initial status, which is a failure.
OnQuery(p, handled) ==
  /\ Held(p)
  /\ LET k == prog[p].key
         there == {n \in Names : Absent \notin Shown(n)} IN
     IF ~handled \/ GatherStatistics(k) = 0 THEN Refuse(p)
     ELSE /\ Finish(p)
          /\ misled' = (misled \/ (/\ Doubtful(k) = {}
                                  /\ GatherStatistics(k) < Cardinality(there)))

\* ValueRecordOnSetValue of value record v: the registry, then the record.
Stored(k, v, n, data) ==
  /\ real' = [real EXCEPT ![n] = SetInvoke(v, data)]
  /\ LET vs == [value EXCEPT ![v].data = SetInvoke(v, data)]
         ks == Behind(key, IF n \in Deleting THEN {} ELSE {k}, n)
     IN IF key[k].refs > 1
        THEN key' = [ks EXCEPT ![k].refs = @ - 1] /\ value' = vs
        ELSE key' = [ks EXCEPT ![k] = FreeKey] /\ value' = KeyDestroyed(vs, k)

\* KeyRecordOnSetValue for a value that has a record; the write can fail.
OnSetValue(p, n, data) ==
  /\ Held(p)
  /\ LET k == prog[p].key  v == ValueGet(k, n) IN
     /\ v # Nobody
     /\ \/ Stored(k, v, n, data)
        \/ KeyDropped(k, 1, value) /\ UNCHANGED real
  /\ Becomes(p, Idle) /\ UNCHANGED Others

\* KeyRecordOnSetValue for one that has none: KeyRecordValueAdd, and then,
\* with the lock still held, the write; a failure takes the record back.
SetAdd(p, n) ==
  /\ Held(p) /\ ValueGet(prog[p].key, n) = Nobody
  /\ LET k == prog[p].key IN \E v \in Free(value, FreeValue) :
     /\ value' = [value EXCEPT ![v] = NewValue(k, n, NoData, 2)]
     /\ key' = [key EXCEPT ![k].values = Append(@, v)]
     /\ Becomes(p, [prog[p] EXCEPT !.at = "adding", !.name = n, !.value = v])
  /\ UNCHANGED real /\ UNCHANGED Others

\* KeyRecordValueDelete: out of the table and the array, and no record of
\* its own any more.
ValueDeleted(vs, v) == ValueDropped([vs EXCEPT ![v].key = Nobody], v)

SetEnd(p, data) ==
  /\ prog[p].at = "adding"
  /\ LET k == prog[p].key  v == prog[p].value  n == prog[p].name
         dropped == [key EXCEPT ![k].refs = @ - 1] IN
     /\ key[k].refs > 1
     /\ \/ /\ real' = [real EXCEPT ![n] = SetInvoke(v, data)]
           /\ value' = ValueDropped([value EXCEPT ![v].data = SetInvoke(v, data)], v)
           /\ key' = Behind(dropped, IF n \in Deleting THEN {} ELSE {k}, n)
        \/ /\ value' = ValueDropped(ValueDeleted(value, v), v)
           /\ key' = [dropped EXCEPT ![k].values = Remove(@, v)]
           /\ UNCHANGED real
  /\ Becomes(p, Idle) /\ UNCHANGED Others

\* SetEnd when the record went out of the table meanwhile and the program
\* has the last reference.
SetEndLast(p, data) ==
  /\ prog[p].at = "adding" /\ key[prog[p].key].refs = 1
  /\ LET k == prog[p].key  v == prog[p].value  n == prog[p].name IN
     /\ \/ real' = [real EXCEPT ![n] = SetInvoke(v, data)]
           /\ key' = [Behind(key, {}, n) EXCEPT ![k] = FreeKey]
        \/ UNCHANGED real /\ key' = [key EXCEPT ![k] = FreeKey]
     /\ value' = KeyDestroyed(ValueDropped(value, v), k)
  /\ Becomes(p, Idle) /\ UNCHANGED Others

\* KeyRecordOnDeleteValue: the class watches register no DeleteValue
\* routine, and _ValueRecordCallbackDeleteInvoke calls it all the same.
OnDeleteValue(p, n) ==
  /\ Held(p)
  /\ LET k == prog[p].key  v == ValueGet(k, n) IN
     IF v # Nobody /\ value[v].callback # "none"
     THEN undef' = "DeleteValue is NULL" /\ UNCHANGED <<key, value, prog>>
     ELSE /\ Becomes(p, [Idle EXCEPT !.at = "deleting", !.name = n, !.value = v])
          /\ KeyDropped(k, 1, IF v = Nobody THEN value ELSE ValueReferenced(value, v))
          /\ UNCHANGED undef
  /\ UNCHANGED <<real, keyTable, cw, watches, classes, addDevice, crossed, misled>>

\* The registry deletes the value, or does not.
Delete(p, n) ==
  /\ \/ prog[p].at = "deleting" /\ n = prog[p].name
     \/ prog[p].at = "pass"
  /\ LET v == prog[p].value IN
     \/ /\ real' = [real EXCEPT ![n] = Absent]
        /\ key' = Behind(key, {k \in Keys : Contains(key[k].values, v)}, n)
        /\ Becomes(p, [prog[p] EXCEPT !.at = "deleted", !.name = n, !.ok = TRUE])
     \/ /\ Becomes(p, [prog[p] EXCEPT !.at = "deleted", !.name = n])
        /\ UNCHANGED <<real, key>>
  /\ UNCHANGED <<value>> /\ UNCHANGED Others

\* KeyRecordOnPostOperation and ValueRecordOnPostOperation: the record stays
\* and becomes a value without data (StopEmulation is never set).
OnPostOperation(p) ==
  /\ prog[p].at = "post"
  /\ LET k == prog[p].key  v == prog[p].value
         vs == IF prog[p].ok THEN [value EXCEPT ![v].data = NoData] ELSE value
     IN KeyDropped(k, 1, IF v = Nobody THEN value ELSE ValueDropped(vs, v))
  /\ Becomes(p, Idle) /\ UNCHANGED real /\ UNCHANGED Others

-----------------------------------------------------------------------------
(* Class watches: one call at a time, under _classGuidsLock                *)
Rest == <<real, prog, misled>>

\* A place a program is about to reference is not used again before it does.
FreeKeys == Free(key, FreeKey) \ {prog[p].key : p \in Programs}

\* CWRegister up to KeyRecordFromKey, which takes a snapshot of the key.
CWRegister(n, place) ==
  /\ cw.at = "idle" /\ watches[n] = Nobody
  /\ classes' = classes + 1
  /\ addDevice' = (addDevice \/ classes = 0)
  /\ crossed' = (Watched # {})
  /\ LET present == SetToSeq({m \in Names : real[m] # Absent}) IN
     \E k \in FreeKeys, used \in SetToAllKPermutations(Free(value, FreeValue)) :
     /\ Len(used) = Len(present)
     /\ key' = [key EXCEPT ![k] = [refs |-> 1, values |-> used, behind |-> {}]]
     /\ value' = [v \in Values |->
          IF v \in ToSet(used)
          THEN LET m == present[IndexFirstSubSeq(<<v>>, used)] IN NewValue(k, m, real[m], 1)
          ELSE value[v]]
     /\ cw' = [NoCall EXCEPT !.at = "publish", !.key = k, !.name = n, !.place = place]
  /\ UNCHANGED <<keyTable, watches, undef>> /\ UNCHANGED Rest

\* RegCallbackKeyRegister: the record that is in the table already is taken
\* and the new one thrown away.
KeyRegister ==
  /\ cw.at = "publish"
  /\ IF keyTable = Nobody
     THEN /\ keyTable' = cw.key
          /\ key' = [key EXCEPT ![cw.key].refs = @ + 1]
          /\ cw' = [cw EXCEPT !.at = "add"]
          /\ UNCHANGED value
     ELSE /\ key' = [key EXCEPT ![keyTable].refs = @ + 1, ![cw.key] = FreeKey]
          /\ value' = KeyDestroyed(value, cw.key)
          /\ cw' = [cw EXCEPT !.at = "add", !.key = keyTable]
          /\ UNCHANGED keyTable
  /\ UNCHANGED <<watches, classes, addDevice, crossed, undef>> /\ UNCHANGED Rest

\* KeyRecordValueAdd: a record that is in the value table is referenced
\* under no lock (STATUS_OBJECT_NAME_EXISTS is a success), a new one takes
\* the operation lock.
ValueAdd ==
  /\ cw.at = "add"
  /\ LET k == cw.key  old == ValueGet(k, cw.name) IN
     IF old # Nobody
     THEN /\ value' = ValueReferenced(value, old)
          /\ cw' = [cw EXCEPT !.at = "callback", !.value = old]
          /\ UNCHANGED key
     ELSE \E new \in Free(value, FreeValue) :
          /\ Unlocked(k)
          /\ value' = [value EXCEPT ![new] = NewValue(k, cw.name, NoData, 2)]
          /\ key' = [key EXCEPT ![k].values = Append(@, new)]
          /\ cw' = [cw EXCEPT !.at = "callback", !.value = new]
  /\ UNCHANGED <<keyTable, watches, classes, addDevice, crossed, undef>>
  /\ UNCHANGED Rest

\* ValueRecordCallbackRegister and the insertion into the hash table.
CallbackRegister ==
  /\ cw.at = "callback"
  /\ value' = [value EXCEPT ![cw.value].callback = cw.place]
  /\ watches' = [watches EXCEPT ![cw.name] = [key |-> cw.key, value |-> cw.value]]
  /\ cw' = NoCall
  /\ UNCHANGED <<keyTable, key, classes, addDevice, crossed, undef>> /\ UNCHANGED Rest

\* Memory is short: what was done is undone, the value first.
RegisterFails ==
  /\ cw.at \in {"publish", "add", "callback"}
  /\ classes' = classes - 1
  /\ addDevice' = (addDevice /\ classes # 1)
  /\ IF cw.at = "publish"
     THEN /\ key' = [key EXCEPT ![cw.key] = FreeKey]
          /\ value' = KeyDestroyed(value, cw.key) /\ cw' = NoCall
     ELSE /\ cw' = [cw EXCEPT !.at = IF @ = "add" THEN "unregister" ELSE "delete"]
          /\ UNCHANGED <<key, value>>
  /\ UNCHANGED <<keyTable, watches, crossed, undef>> /\ UNCHANGED Rest

\* CWUnregister, and CWClear for each watch there is, when the system shuts
\* down; CWClear leaves _numberofClasses and AddDevice as they are.
Unwatch(n, clears) ==
  /\ watches[n] # Nobody
  /\ watches' = [watches EXCEPT ![n] = Nobody]
  /\ cw' = [NoCall EXCEPT !.at = "delete", !.key = watches[n].key, !.name = n,
                        !.value = watches[n].value, !.clears = clears]
  /\ value' = [value EXCEPT ![watches[n].value].callback = "none"]
  /\ UNCHANGED <<keyTable, key, crossed, undef>> /\ UNCHANGED Rest

CWUnregister(n) ==
  /\ cw.at = "idle" /\ Unwatch(n, FALSE)
  /\ classes' = classes - 1
  /\ addDevice' = (addDevice /\ classes # 1)

CWClear(n) ==
  /\ cw.at \in {"idle", "clear"} /\ Unwatch(n, TRUE)
  /\ UNCHANGED <<classes, addDevice>>

\* RegManKeyValueDelete: by the name, out of the record the value is in.
KeyValueDelete ==
  /\ cw.at = "delete"
  /\ LET v == cw.value  k == value[v].key IN
     IF k = Nobody
     THEN undef' = "no key record" /\ UNCHANGED <<key, value, cw>>
     ELSE /\ Unlocked(k)
          /\ value' = ValueDropped(ValueDeleted(value, v), v)
          /\ key' = [key EXCEPT ![k].values = Remove(@, v)]
          /\ cw' = [cw EXCEPT !.at = "unregister", !.value = Nobody]
          /\ UNCHANGED undef
  /\ UNCHANGED <<keyTable, watches, classes, addDevice, crossed>> /\ UNCHANGED Rest

\* RegCallbackKeyUnregister takes whatever record is in the table under the
\* name; then the references go, the table's and the watch's.
KeyUnregister ==
  /\ cw.at = "unregister"
  /\ keyTable' = Nobody
  /\ IF keyTable \in {Nobody, cw.key}
     THEN KeyDropped(cw.key, IF keyTable = Nobody THEN 1 ELSE 2, value)
     ELSE LET gone(vs, k) == IF key[k].refs = 1 THEN KeyDestroyed(vs, k) ELSE vs
              left(r) == IF r.refs = 1 THEN FreeKey ELSE [r EXCEPT !.refs = @ - 1]
          IN /\ key' = [key EXCEPT ![keyTable] = left(@), ![cw.key] = left(@)]
             /\ value' = gone(gone(value, keyTable), cw.key)
  /\ cw' = IF cw.clears /\ Watched # {} THEN [NoCall EXCEPT !.at = "clear"]
         ELSE IF cw.clears THEN [NoCall EXCEPT !.at = "down"] ELSE NoCall
  /\ UNCHANGED <<watches, classes, addDevice, crossed, undef>> /\ UNCHANGED Rest

Next ==
  /\ undef = "none"
  /\ \/ \E p \in Programs :
          \/ GetKeyRecord(p) \/ KeyReference(p) \/ OnEnumValue(p) \/ OnPostOperation(p)
          \/ \E n \in Names :
               \/ OnQueryValue(p, n) \/ SetAdd(p, n) \/ OnDeleteValue(p, n) \/ Delete(p, n)
               \/ \E data \in Inputs : PassSet(p, n, data) \/ OnSetValue(p, n, data)
          \/ \E names \in SUBSET Names : QueryMultipleValues(p, names)
          \/ \E handled \in BOOLEAN : OnQuery(p, handled)
          \/ \E data \in Inputs : SetEnd(p, data) \/ SetEndLast(p, data)
     \/ \E n \in Names :
          \/ \E place \in Positions : CWRegister(n, place)
          \/ CWUnregister(n) \/ CWClear(n)
     \/ KeyRegister \/ ValueAdd \/ CallbackRegister \/ RegisterFails
     \/ KeyValueDelete \/ KeyUnregister
Spec == Init /\ [][Next]_vars

-----------------------------------------------------------------------------
Count(S) == Cardinality(S)
KeyHolders(k) ==
  (IF keyTable = k THEN 1 ELSE 0) + (IF cw.key = k THEN 1 ELSE 0)
    + Count({n \in Watched : watches[n].key = k})
    + Count({p \in Programs : prog[p].key = k /\ prog[p].at \in {"held", "adding", "post"}})
ValueHolders(v) ==
  Count({k \in Keys : Contains(key[k].values, v)}) + (IF cw.value = v THEN 1 ELSE 0)
    + Count({n \in Watched : watches[n].value = v})
    + Count({p \in Programs : prog[p].value = v})

\* Key and value records are freed with the last of their holders: tables,
\* watches, operations of programs and contexts of deletions.
RecordsExact ==
  undef = "none" =>
    /\ \A k \in Keys : key[k].refs = KeyHolders(k)
    /\ \A v \in Values : value[v].refs = ValueHolders(v)

\* What programs are told of a value is what the registry holds, with the
\* service's own name in it once exactly when the value is watched; the
\* exceptions: writes that overtook the record, a second watch, and a watch
\* that took the record of a write in progress, which failed.
ValuesTrue ==
  undef = "none" =>
    /\ ~misled
    /\ (keyTable # Nobody /\ Unlocked(keyTable)) =>
         \A n \in Names \ Doubtful(keyTable) :
           LET v == ValueGet(keyTable, n) IN
           IF v = Nobody THEN real[n] = Absent
           ELSE value[v].data = IF real[n] = Absent THEN NoData ELSE real[n]

\* A watch is in force while it lasts, unless both values were watched: the
\* first of two watches to end takes the record they share out of the table.
WatchesHold ==
  (undef = "none" /\ cw.at = "idle") =>
    /\ Watched # {} => addDevice
    /\ (~crossed /\ Watched # {}) => keyTable # Nobody
    /\ (Watched = {} /\ \A p \in Programs : prog[p].at \in {"idle", "pass"}) =>
         \A k \in Keys : key[k] = FreeKey

=============================================================================
