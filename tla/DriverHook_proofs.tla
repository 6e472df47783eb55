-------------------------- MODULE DriverHook_proofs -------------------------
(***************************************************************************)
(* The hook records: their reference counts are exact and they outlive     *)
(* their users, the validation table and the driver's entries follow the   *)
(* driver table, for any number of records, handles, clients and IRPs.     *)
(***************************************************************************)
EXTENDS DriverHook, FiniteSetTheorems, TLAPS

\* Only one client hooks and unhooks, and it uses no handle whose record has been
\* unhooked: otherwise a handle can be translated to a record that is freed before
\* it is referenced.
OneController == (\A c, d \in Controllers : c = d) /\ ~StaleHandles

Places ==
  {"idle", "insert", "validate", "check", "mark", "exchange", "store", "unmark",
   "putback", "delete", "flag", "restore", "clear", "invalidate", "drop", "open",
   "output", "close", "closed", "translate", "set", "setmore", "enable", "disable",
   "deref"}

Services ==
  {"none", "hook", "unhook", "enable", "disable", "set", "open", "close", "missed"}

Record == [live : BOOLEAN, refs : Int, enabled : BOOLEAN, mon : BOOLEAN,
           old : {"driver", "null"}]

TypeOK ==
  /\ slot \in {"driver", "hook"}
  /\ table \in Records \cup {Nobody}
  /\ valid \subseteq Records
  /\ rec \in [Records -> Record]
  /\ handles \in [Handles -> Records \cup {Nobody}]
  /\ pc \in [Clients -> Places]
  /\ op \in [Clients -> Services]
  /\ hand \in [Clients -> Records \cup {Nobody}]
  /\ hnd \in [Clients -> Handles \cup {Nobody}]
  /\ kept \in [Clients -> {"driver", "null"}]
  /\ irp \in [Irps -> {"idle", "lookup", "call", "return", "refused", "crashed",
                       "looped"}]
  /\ irec \in [Irps -> Records \cup {Nobody}]
  /\ crossed \in [Irps -> BOOLEAN]
  /\ unload \in {"no", "restore", "drop", "wait", "done"}

-----------------------------------------------------------------------------
(* What a client at a place is doing.                                      *)

RoleOK(c) ==
  /\ op[c] \in {"hook", "unhook", "enable", "disable", "set", "missed"}
       => c \in Controllers
  /\ pc[c] = "idle" <=> op[c] = "none"
  /\ pc[c] \in {"insert", "validate", "check"} => op[c] = "hook"
  /\ pc[c] \in {"enable", "mark"} => op[c] = "enable"
  /\ pc[c] \in {"exchange", "store"} => op[c] \in {"hook", "enable"}
  /\ pc[c] \in {"disable", "unmark", "putback"} => op[c] = "disable"
  /\ pc[c] \in {"set", "setmore"} => op[c] = "set"
  /\ pc[c] \in {"delete"} \cup UnhookPlaces => op[c] \in {"hook", "unhook"}
  /\ pc[c] \in {"open", "output"} => op[c] \in {"hook", "open"}
  /\ pc[c] \in {"close", "closed"} => op[c] \in {"hook", "open", "close", "unhook"}
  /\ pc[c] = "translate" => op[c] \in {"unhook", "enable", "disable", "set"}

Roles == \A c \in Clients : RoleOK(c)

\* A client has a record in its hands, except before it found the one to close.
HandOK(c) ==
  /\ hand[c] = Nobody <=>
       pc[c] = "idle" \/ (pc[c] = "close" /\ op[c] \in {"close", "unhook"})
  /\ pc[c] \in {"output", "close"} \/ op[c] = "unhook" => hnd[c] \in Handles
  /\ pc[c] \in {"output", "close"} /\ op[c] \in {"hook", "open"}
       => handles[hnd[c]] \in {hand[c], Nobody}

Hands == \A c \in Clients : HandOK(c)

\* A record is in use while it has references.
LiveInv == \A r \in Records : rec[r].live <=> rec[r].refs > 0

-----------------------------------------------------------------------------
(* What the one controller knows of the tables.                            *)

\* Its record is the driver's.
TablePlaces ==
  {"validate", "check", "enable", "mark", "exchange", "store", "disable", "unmark",
   "putback", "set", "setmore", "translate", "delete"}

Mine(c) ==
  \/ pc[c] \in TablePlaces
  \/ op[c] = "hook" /\ pc[c] \in {"open", "output", "close", "closed"}

TableOK(c) ==
  /\ Mine(c) => table = hand[c]
  /\ pc[c] = "validate" => valid = {}
  /\ pc[c] \in {"flag", "restore", "clear", "invalidate"}
       => table = Nobody /\ valid = {hand[c]}
  /\ pc[c] = "drop" => table = Nobody /\ valid = {}
  /\ pc[c] \notin UnhookPlaces \cup {"validate"} /\ unload = "no"
       => valid = {table} \ {Nobody}

Tables ==
  /\ \A c \in Controllers : TableOK(c)
  /\ Controllers = {} => table = Nobody /\ valid = {}

-----------------------------------------------------------------------------
(* What it knows of the driver's entries.                                  *)

\* The entries while record r is the one they were hooked with.
Hooked(r, on) ==
  IF on /\ rec[r].mon THEN slot = "hook" /\ rec[r].old = "driver" ELSE slot = "driver"

SlotOK(c) ==
  /\ pc[c] \in {"insert", "validate", "check", "mark", "setmore", "putback",
                "invalidate", "drop"}
       => ~rec[hand[c]].enabled
  /\ pc[c] \in {"exchange", "store", "restore", "clear", "unmark"}
       => rec[hand[c]].enabled
  /\ pc[c] = "flag" => Hooked(hand[c], rec[hand[c]].enabled)
  /\ pc[c] \in {"restore", "putback"} => Hooked(hand[c], TRUE)
  /\ pc[c] \in {"exchange", "clear"} => slot = "driver"
  /\ pc[c] = "store" => slot = "hook" /\ kept[c] = "driver" /\ rec[hand[c]].mon

\* Between the services, and in those that change nothing.
Settled ==
  (\A c \in Controllers : pc[c] \notin Changing) =>
    IF table = Nobody THEN slot = "driver" ELSE Hooked(table, rec[table].enabled)

Slots == (\A c \in Controllers : SlotOK(c)) /\ Settled

-----------------------------------------------------------------------------
(* The IRPs and the unloading.                                             *)

IrpOK(t) ==
  /\ irp[t] \in {"idle", "lookup", "refused"} => irec[t] = Nobody
  /\ irp[t] \in {"call", "return"} => irec[t] \in Records
  /\ irp[t] = "lookup" /\ ~crossed[t]
       => unload = "no" /\ table # Nobody /\ rec[table].old = "driver"
  /\ irp[t] = "call" /\ ~crossed[t] => rec[irec[t]].old = "driver"
  /\ irp[t] \in {"refused", "crashed"} => crossed[t]
  /\ irp[t] # "looped"

IrpInv == \A t \in Irps : IrpOK(t)

UnloadInv ==
  /\ unload # "no" => /\ valid = {} /\ \A c \in Clients : pc[c] = "idle"
                      /\ \A h \in Handles : handles[h] = Nobody
  /\ unload = "drop" => table = Nobody \/ ~rec[table].enabled
  /\ unload \in {"wait", "done"} => table = Nobody
  /\ unload = "done" => \A r \in Records : ~rec[r].live

Inv ==
  /\ TypeOK /\ Roles /\ Hands
  /\ RefsExact /\ LiveInv
  /\ Tables /\ Slots /\ IrpInv /\ UnloadInv

-----------------------------------------------------------------------------
(* Records.                                                                *)

\* What was monitored and kept by a record that still lives.
SameSettings ==
  \A q \in Records :
    rec'[q].live => /\ rec[q].live /\ rec'[q].enabled = rec[q].enabled
                    /\ rec'[q].mon = rec[q].mon /\ rec'[q].old = rec[q].old

LEMMA EnabledType ==
  ASSUME NEW q \in Record, NEW b \in BOOLEAN
  PROVE  [q EXCEPT !.enabled = b] \in Record
  BY DEF Record

LEMMA ReferencedFacts ==
  ASSUME TypeOK, NEW r \in Records, rec' = Referenced(r)
  PROVE  /\ rec' \in [Records -> Record]
         /\ \A q \in Records : rec'[q].refs = rec[q].refs + (IF q = r THEN 1 ELSE 0)
         /\ \A q \in Records : rec'[q].live = rec[q].live
         /\ SameSettings
<1>1. rec' = [rec EXCEPT ![r] = [rec[r] EXCEPT !.refs = rec[r].refs + 1]]
  BY DEF Referenced
<1>2. rec[r] \in Record
  BY DEF TypeOK
<1>3. [rec[r] EXCEPT !.refs = rec[r].refs + 1] \in Record
  BY <1>2 DEF Record
<1>4. /\ rec' \in [Records -> Record] /\ \A q \in Records \ {r} : rec'[q] = rec[q]
      /\ rec'[r] = [rec[r] EXCEPT !.refs = rec[r].refs + 1]
  BY <1>1, <1>3 DEF TypeOK
<1>5. /\ rec'[r].refs = rec[r].refs + 1 /\ rec'[r].live = rec[r].live
      /\ rec'[r].enabled = rec[r].enabled /\ rec'[r].mon = rec[r].mon
      /\ rec'[r].old = rec[r].old
  BY <1>2, <1>4 DEF Record
<1>6. rec[r].refs \in Int /\ \A q \in Records : rec[q].refs \in Int
  BY <1>2 DEF TypeOK, Record
<1>7. ASSUME NEW q \in Records
      PROVE  rec'[q].refs = rec[q].refs + (IF q = r THEN 1 ELSE 0)
  <2>1. CASE q = r
    BY <1>5, <2>1
  <2>2. CASE q # r
    <3>1. rec'[q].refs = rec[q].refs
      BY <1>4, <2>2
    <3> QED BY <1>6, <2>2, <3>1
  <2> QED BY <2>1, <2>2
<1>8. /\ \A q \in Records : rec'[q].live = rec[q].live
      /\ SameSettings
  BY <1>4, <1>5 DEF SameSettings
<1> QED BY <1>4, <1>7, <1>8

LEMMA DroppedFacts ==
  ASSUME TypeOK, NEW r \in Records, NEW n \in Int, rec' = Dropped(r, n)
  PROVE  /\ rec' \in [Records -> Record]
         /\ \A q \in Records : rec'[q].refs = rec[q].refs - (IF q = r THEN n ELSE 0)
         /\ \A q \in Records :
              rec'[q].live <=> rec[q].live /\ (q = r => rec[q].refs # n)
         /\ SameSettings
<1>1. rec[r] \in Record
  BY DEF TypeOK
<1>2. CASE rec[r].refs = n
  <2>1. rec' = [rec EXCEPT ![r] = Freed]
    BY <1>2 DEF Dropped
  <2>2. Freed \in Record /\ Freed.refs = 0 /\ ~Freed.live
    BY DEF Freed, Record
  <2> QED BY <1>1, <1>2, <2>1, <2>2 DEF TypeOK, Record, SameSettings
<1>3. CASE rec[r].refs # n
  <2>1. rec' = [rec EXCEPT ![r] = [rec[r] EXCEPT !.refs = rec[r].refs - n]]
    BY <1>3 DEF Dropped
  <2> QED BY <1>1, <1>3, <2>1 DEF TypeOK, Record, SameSettings
<1> QED BY <1>2, <1>3

-----------------------------------------------------------------------------
(* Types.                                                                  *)

LEMMA CrossType ==
  ASSUME crossed \in [Irps -> BOOLEAN], Cross
  PROVE  crossed' \in [Irps -> BOOLEAN]
  BY Zenon DEF Cross

LEMMA UncrossType ==
  ASSUME crossed \in [Irps -> BOOLEAN], NEW t \in Irps,
         crossed' = [crossed EXCEPT ![t] = FALSE]
  PROVE  crossed' \in [Irps -> BOOLEAN]
  OBVIOUS

LEMMA TypeStep ==
  ASSUME TypeOK, Hands, Roles, Slots, IrpInv, UnloadInv, [Next]_vars
  PROVE  TypeOK'
<1> USE DEF vars, tables, client, irps, Goto, Proceed, At, Places, Services
<1>1. CASE UNCHANGED vars
  BY <1>1 DEF TypeOK
<1>2. ASSUME NEW c \in Clients, HookInsert(c)
      PROVE  TypeOK'
  <2>1. hand[c] \in Records
    BY <1>2 DEF HookInsert, TypeOK, Hands, HandOK, Roles, RoleOK, UnhookPlaces
  <2>2. rec' \in [Records -> Record]
    BY <1>2, <2>1, ReferencedFacts DEF HookInsert, TypeOK
  <2> QED BY <1>2, <2>1, <2>2 DEF HookInsert, TypeOK
<1>3. ASSUME NEW c \in Clients, HookValidate(c)
      PROVE  TypeOK'
  <2>1. hand[c] \in Records
    BY <1>3 DEF HookValidate, TypeOK, Hands, HandOK, Roles, RoleOK, UnhookPlaces
  <2> QED BY <1>3, <2>1 DEF HookValidate, TypeOK
<1>4. ASSUME NEW c \in Clients, HookCheck(c)
      PROVE  TypeOK'
  BY <1>4 DEF HookCheck, TypeOK
<1>5. ASSUME NEW c \in Clients, UnhookDelete(c)
      PROVE  TypeOK'
  <2>1. CASE table = Nobody
    BY <1>5, <2>1 DEF UnhookDelete, TypeOK
  <2>2. CASE table # Nobody
    <3>1. crossed' \in [Irps -> BOOLEAN]
      BY <1>5, <2>2, CrossType DEF UnhookDelete, TypeOK
    <3> QED BY <1>5, <2>2, <3>1 DEF UnhookDelete, TypeOK
  <2> QED BY <2>1, <2>2
<1>6. ASSUME NEW c \in Clients, UnhookFlag(c)
      PROVE  TypeOK'
  BY <1>6 DEF UnhookFlag, TypeOK
<1>7. ASSUME NEW c \in Clients, UnhookRestore(c)
      PROVE  TypeOK'
  <2>1. hand[c] \in Records
    BY <1>7 DEF UnhookRestore, TypeOK, Hands, HandOK, Roles, RoleOK, UnhookPlaces
  <2>2. Original(hand[c]) \in {"driver", "hook"}
    <3>1. c \in Controllers
      BY <1>7 DEF UnhookRestore, Roles, RoleOK, UnhookPlaces
    <3> QED BY <1>7, <2>1, <3>1 DEF UnhookRestore, TypeOK, Original, Slots, SlotOK, Hooked
  <2> QED BY <1>7, <2>2 DEF UnhookRestore, TypeOK
<1>8. ASSUME NEW c \in Clients, UnhookClear(c)
      PROVE  TypeOK'
  <2>1. hand[c] \in Records
    BY <1>8 DEF UnhookClear, TypeOK, Hands, HandOK, Roles, RoleOK, UnhookPlaces
  <2>2. rec' \in [Records -> Record]
    <3>1. [rec[hand[c]] EXCEPT !.enabled = FALSE] \in Record
      BY <2>1, EnabledType DEF TypeOK
    <3> QED BY <1>8, <2>1, <3>1 DEF UnhookClear, TypeOK
  <2> QED BY <1>8, <2>2 DEF UnhookClear, TypeOK
<1>9. ASSUME NEW c \in Clients, UnhookInvalidate(c)
      PROVE  TypeOK'
  BY <1>9 DEF UnhookInvalidate, TypeOK
<1>10. ASSUME NEW c \in Clients, UnhookDrop(c)
      PROVE  TypeOK'
  <2>1. hand[c] \in Records
    BY <1>10 DEF UnhookDrop, TypeOK, Hands, HandOK, Roles, RoleOK, UnhookPlaces
  <2>2. rec' \in [Records -> Record]
    BY <1>10, <2>1, DroppedFacts DEF UnhookDrop, TypeOK
  <2> QED BY <1>10, <2>1, <2>2 DEF UnhookDrop, TypeOK, AfterFailure, Leave
<1>11. ASSUME NEW c \in Clients, Enable(c)
      PROVE  TypeOK'
  BY <1>11 DEF Enable, TypeOK
<1>12. ASSUME NEW c \in Clients, EnableMark(c)
      PROVE  TypeOK'
  <2>1. hand[c] \in Records
    BY <1>12 DEF EnableMark, TypeOK, Hands, HandOK, Roles, RoleOK, UnhookPlaces
  <2>2. rec' \in [Records -> Record]
    <3>1. [rec[hand[c]] EXCEPT !.enabled = TRUE] \in Record
      BY <2>1, EnabledType DEF TypeOK
    <3> QED BY <1>12, <2>1, <3>1 DEF EnableMark, TypeOK
  <2> QED BY <1>12, <2>2 DEF EnableMark, TypeOK
<1>13. ASSUME NEW c \in Clients, Exchange(c)
      PROVE  TypeOK'
  <2>1. CASE rec[hand[c]].mon
    <3>1. c \in Controllers /\ slot = "driver"
      BY <1>13 DEF Exchange, Roles, RoleOK, Slots, SlotOK
    <3> QED BY <1>13, <2>1, <3>1 DEF Exchange, TypeOK
  <2>2. CASE ~rec[hand[c]].mon
    BY <1>13, <2>2 DEF Exchange, TypeOK, AfterHooking
  <2> QED BY <2>1, <2>2
<1>14. ASSUME NEW c \in Clients, Store(c)
      PROVE  TypeOK'
  <2>1. hand[c] \in Records
    BY <1>14 DEF Store, TypeOK, Hands, HandOK, Roles, RoleOK, UnhookPlaces
  <2>2. rec' \in [Records -> Record]
    BY <1>14, <2>1 DEF Store, TypeOK, Record
  <2> QED BY <1>14, <2>2 DEF Store, TypeOK, AfterHooking
<1>15. ASSUME NEW c \in Clients, Disable(c)
      PROVE  TypeOK'
  BY <1>15 DEF Disable, TypeOK
<1>16. ASSUME NEW c \in Clients, DisableUnmark(c)
      PROVE  TypeOK'
  <2>1. hand[c] \in Records
    BY <1>16 DEF DisableUnmark, TypeOK, Hands, HandOK, Roles, RoleOK, UnhookPlaces
  <2>2. rec' \in [Records -> Record]
    <3>1. [rec[hand[c]] EXCEPT !.enabled = FALSE] \in Record
      BY <2>1, EnabledType DEF TypeOK
    <3> QED BY <1>16, <2>1, <3>1 DEF DisableUnmark, TypeOK
  <2> QED BY <1>16, <2>2 DEF DisableUnmark, TypeOK
<1>17. ASSUME NEW c \in Clients, DisablePutBack(c)
      PROVE  TypeOK'
  <2>1. hand[c] \in Records
    BY <1>17 DEF DisablePutBack, TypeOK, Hands, HandOK, Roles, RoleOK, UnhookPlaces
  <2>2. Original(hand[c]) \in {"driver", "hook"}
    <3>1. c \in Controllers
      BY <1>17 DEF DisablePutBack, Roles, RoleOK, UnhookPlaces
    <3> QED BY <1>17, <2>1, <3>1 DEF DisablePutBack, TypeOK, Original, Slots, SlotOK, Hooked
  <2> QED BY <1>17, <2>2 DEF DisablePutBack, TypeOK
<1>18. ASSUME NEW c \in Clients, Set(c)
      PROVE  TypeOK'
  BY <1>18 DEF Set, TypeOK
<1>19. ASSUME NEW c \in Clients, TranslateRefer(c)
      PROVE  TypeOK'
  <2>1. hand[c] \in Records
    BY <1>19 DEF TranslateRefer, TypeOK, Hands, HandOK, Roles, RoleOK, UnhookPlaces
  <2>2. rec' \in [Records -> Record]
    BY <1>19, <2>1, ReferencedFacts DEF TranslateRefer, TypeOK
  <2>3. op[c] \in {"unhook", "enable", "disable", "set"}
    BY <1>19 DEF TranslateRefer, Roles, RoleOK
  <2> QED BY <1>19, <2>2, <2>3 DEF TranslateRefer, TypeOK
<1>20. ASSUME NEW c \in Clients, Output(c)
      PROVE  TypeOK'
  BY <1>20 DEF Output, TypeOK
<1>21. ASSUME NEW c \in Clients, HandleCreateFail(c)
      PROVE  TypeOK'
  BY <1>21 DEF HandleCreateFail, TypeOK, AfterFailure
<1>22. ASSUME NEW c \in Clients, CloseDelete(c)
      PROVE  TypeOK'
  <2>1. hnd[c] \in Handles
    BY <1>22 DEF CloseDelete, Hands, HandOK
  <2>2. CASE handles[hnd[c]] # Nobody
    BY <1>22, <2>1, <2>2 DEF CloseDelete, TypeOK
  <2>3. CASE handles[hnd[c]] = Nobody /\ op[c] \in {"hook", "open"}
    BY <1>22, <2>3 DEF CloseDelete, TypeOK, AfterFailure
  <2>4. CASE handles[hnd[c]] = Nobody /\ op[c] \notin {"hook", "open"}
    BY <1>22, <2>4 DEF CloseDelete, TypeOK, Leave
  <2> QED BY <2>2, <2>3, <2>4
<1>23. ASSUME NEW c \in Clients, CloseDereference(c)
      PROVE  TypeOK'
  <2>1. hand[c] \in Records
    BY <1>23 DEF CloseDereference, TypeOK, Hands, HandOK, Roles, RoleOK, UnhookPlaces
  <2>2. rec' \in [Records -> Record]
    BY <1>23, <2>1, DroppedFacts DEF CloseDereference, TypeOK
  <2> QED BY <1>23, <2>1, <2>2 DEF CloseDereference, TypeOK, AfterFailure, Leave
<1>24. ASSUME NEW c \in Clients, Dereference(c)
      PROVE  TypeOK'
  <2>1. hand[c] \in Records
    BY <1>24 DEF Dereference, TypeOK, Hands, HandOK, Roles, RoleOK, UnhookPlaces
  <2>2. rec' \in [Records -> Record]
    BY <1>24, <2>1, DroppedFacts DEF Dereference, TypeOK
  <2> QED BY <1>24, <2>1, <2>2 DEF Dereference, TypeOK, AfterFailure, Leave
<1>25. ASSUME NEW c \in Clients, NEW mon \in BOOLEAN, SetMore(c, mon)
      PROVE  TypeOK'
  <2>1. hand[c] \in Records
    BY <1>25 DEF SetMore, TypeOK, Hands, HandOK, Roles, RoleOK, UnhookPlaces
  <2>2. rec' \in [Records -> Record]
    BY <1>25, <2>1 DEF SetMore, TypeOK, Record
  <2> QED BY <1>25, <2>2 DEF SetMore, TypeOK
<1>26. ASSUME NEW c \in Clients, NEW h \in Handles, HandleCreate(c, h)
      PROVE  TypeOK'
  <2>1. hand[c] \in Records
    BY <1>26 DEF HandleCreate, TypeOK, Hands, HandOK, Roles, RoleOK, UnhookPlaces
  <2>2. rec' \in [Records -> Record]
    BY <1>26, <2>1, ReferencedFacts DEF HandleCreate, TypeOK
  <2> QED BY <1>26, <2>1, <2>2 DEF HandleCreate, TypeOK
<1>27. ASSUME NEW c \in Clients, NEW r \in Records, NEW mon \in BOOLEAN,
             HookCreate(c, r, mon)
      PROVE  TypeOK'
  <2>1. rec' \in [Records -> Record]
    BY <1>27 DEF HookCreate, TypeOK, Record
  <2> QED BY <1>27, <2>1 DEF HookCreate, TypeOK, Start
<1>28. ASSUME NEW c \in Clients, NEW h \in Handles, NEW service \in {"unhook",
             "enable", "disable", "set"}, Translate(c, service, h)
      PROVE  TypeOK'
  BY <1>28 DEF Translate, TypeOK, Start
<1>29. ASSUME NEW c \in Clients, NEW r \in Records, OpenById(c, r)
      PROVE  TypeOK'
  <2>2. rec' \in [Records -> Record]
    BY <1>29, ReferencedFacts DEF OpenById, TypeOK
  <2> QED BY <1>29, <2>2 DEF OpenById, TypeOK, Start
<1>30. ASSUME NEW c \in Clients, NEW h \in Handles, Close(c, h)
      PROVE  TypeOK'
  BY <1>30 DEF Close, TypeOK, Start
<1>31. ASSUME NEW c \in Clients, Cleanup(c)
      PROVE  TypeOK'
  <2>1. ASSUME NEW r \in Records, HandlesOf(r) # {}
        PROVE  Dropped(r, Cardinality(HandlesOf(r)))[r] \in Record
    <3>1. Cardinality(HandlesOf(r)) \in Int
      BY FS_CardinalityType, FS_Subset, DriverHookAssumption DEF HandlesOf
    <3> QED BY <3>1 DEF Dropped, TypeOK, Record, Freed
  <2>2. rec' \in [Records -> Record]
    BY <1>31, <2>1 DEF Cleanup, TypeOK
  <2> QED BY <1>31, <2>2 DEF Cleanup, TypeOK
<1>32. ASSUME NEW t \in Irps, Send(t)
      PROVE  TypeOK'
  BY <1>32 DEF Send, TypeOK
<1>33. ASSUME NEW t \in Irps, Lookup(t)
      PROVE  TypeOK'
  <2>1. CASE table # Nobody /\ unload = "no"
    <3>1. table \in Records /\ rec' \in [Records -> Record]
      BY <1>33, <2>1, ReferencedFacts DEF Lookup, TypeOK
    <3> QED BY <1>33, <2>1, <3>1 DEF Lookup, TypeOK
  <2>2. CASE ~(table # Nobody /\ unload = "no")
    BY <1>33, <2>2 DEF Lookup, TypeOK
  <2> QED BY <2>1, <2>2
<1>34. ASSUME NEW t \in Irps, Call(t)
      PROVE  TypeOK'
  <2>1. irec[t] \in Records
    BY <1>34 DEF Call, IrpInv, IrpOK
  <2>2. rec[irec[t]].old \in {"driver", "null"}
    BY <2>1 DEF TypeOK, Record
  <2> QED BY <1>34, <2>2 DEF Call, TypeOK
<1>35. ASSUME NEW t \in Irps, Return(t)
      PROVE  TypeOK'
  <2>1. irec[t] \in Records
    BY <1>35 DEF Return, IrpInv, IrpOK
  <2>2. rec' \in [Records -> Record]
    BY <1>35, <2>1, DroppedFacts DEF Return, TypeOK
  <2>3. crossed' \in [Irps -> BOOLEAN]
    BY <1>35, UncrossType DEF Return, TypeOK
  <2>4. UNCHANGED <<slot, table, valid, handles, pc, op, hand, hnd, kept, unload>>
    BY <1>35 DEF Return
  <2>5. irp' = [irp EXCEPT ![t] = "idle"] /\ irec' = [irec EXCEPT ![t] = Nobody]
    BY <1>35 DEF Return
  <2> QED BY <2>2, <2>3, <2>4, <2>5 DEF TypeOK
<1>36. CASE UnloadBegin
  BY <1>36 DEF UnloadBegin, TypeOK, Cross
<1>37. CASE UnloadRestore
  <2>1. CASE table # Nobody /\ rec[table].enabled
    <3>1. table \in Records /\ rec' = [rec EXCEPT ![table].enabled = FALSE]
      BY <1>37, <2>1 DEF UnloadRestore, TypeOK
    <3>2. rec' \in [Records -> Record]
      <4>1. rec \in [Records -> Record] /\ rec[table] \in Record
        BY <3>1 DEF TypeOK
      <4>2. [rec[table] EXCEPT !.enabled = FALSE] \in Record
        BY <4>1 DEF Record
      <4>3. rec' = [rec EXCEPT ![table] = [rec[table] EXCEPT !.enabled = FALSE]]
        BY <3>1
      <4> QED BY <4>1, <4>2, <4>3
    <3>3. \A c \in Controllers : pc[c] \notin Changing
      BY <1>37, DriverHookAssumption DEF UnloadRestore, UnloadInv, Changing, Exposing
    <3>4. rec[table].mon => rec[table].old = "driver"
      BY <2>1, <3>3 DEF Slots, Settled, Hooked
    <3>5. slot' \in {"driver", "hook"}
      BY <1>37, <2>1, <3>4 DEF UnloadRestore, TypeOK, Original
    <3> QED BY <1>37, <3>2, <3>5 DEF UnloadRestore, TypeOK
  <2>2. CASE ~(table # Nobody /\ rec[table].enabled)
    BY <1>37, <2>2 DEF UnloadRestore, TypeOK
  <2> QED BY <2>1, <2>2
<1>38. CASE UnloadDrop
  <2>1. rec' \in [Records -> Record]
    BY <1>38, DroppedFacts DEF UnloadDrop, TypeOK
  <2> QED BY <1>38, <2>1 DEF UnloadDrop, TypeOK
<1>39. CASE UnloadWait
  BY <1>39 DEF UnloadWait, TypeOK
<1> QED BY <1>1, <1>2, <1>3, <1>4, <1>5, <1>6, <1>7, <1>8, <1>9, <1>10, <1>11, <1>12,
        <1>13, <1>14, <1>15, <1>16, <1>17, <1>18, <1>19, <1>20, <1>21, <1>22, <1>23,
        <1>24, <1>25, <1>26, <1>27, <1>28, <1>29, <1>30, <1>31, <1>32, <1>33, <1>34,
        <1>35, <1>36, <1>37, <1>38, <1>39
    DEF Next, ClientBegin, ClientStep, IrpStep, UnloadStep

-----------------------------------------------------------------------------
(* Roles.                                                                  *)

\* Only the client that acts moves.
Alone(c) ==
  \A d \in Clients : d # c => /\ pc'[d] = pc[d] /\ op'[d] = op[d]
                              /\ hand'[d] = hand[d] /\ hnd'[d] = hnd[d]
                              /\ kept'[d] = kept[d]

LEMMA ActsAlone ==
  ASSUME TypeOK, NEW c \in Clients, ClientBegin(c) \/ ClientStep(c)
  PROVE  Alone(c)
<1> USE DEF TypeOK, Alone, Goto, Proceed, client
<1>1. CASE HookInsert(c)
  BY <1>1 DEF HookInsert
<1>2. CASE HookValidate(c)
  BY <1>2 DEF HookValidate
<1>3. CASE HookCheck(c)
  BY <1>3 DEF HookCheck
<1>4. CASE UnhookDelete(c)
  BY <1>4 DEF UnhookDelete
<1>5. CASE UnhookFlag(c)
  BY <1>5 DEF UnhookFlag
<1>6. CASE UnhookRestore(c)
  BY <1>6 DEF UnhookRestore
<1>7. CASE UnhookClear(c)
  BY <1>7 DEF UnhookClear
<1>8. CASE UnhookInvalidate(c)
  BY <1>8 DEF UnhookInvalidate
<1>9. CASE UnhookDrop(c)
  BY <1>9 DEF UnhookDrop
<1>10. CASE Enable(c)
  BY <1>10 DEF Enable
<1>11. CASE EnableMark(c)
  BY <1>11 DEF EnableMark
<1>12. CASE Exchange(c)
  BY <1>12 DEF Exchange, AfterHooking
<1>13. CASE Store(c)
  BY <1>13 DEF Store, AfterHooking
<1>14. CASE Disable(c)
  BY <1>14 DEF Disable
<1>15. CASE DisableUnmark(c)
  BY <1>15 DEF DisableUnmark
<1>16. CASE DisablePutBack(c)
  BY <1>16 DEF DisablePutBack
<1>17. CASE Set(c)
  BY <1>17 DEF Set
<1>18. CASE TranslateRefer(c)
  BY <1>18 DEF TranslateRefer
<1>19. CASE Output(c)
  BY <1>19 DEF Output
<1>20. CASE HandleCreateFail(c)
  BY <1>20 DEF HandleCreateFail, AfterFailure
<1>21. CASE CloseDelete(c)
  BY <1>21 DEF CloseDelete, AfterFailure, Leave
<1>22. CASE CloseDereference(c)
  BY <1>22 DEF CloseDereference, AfterFailure, Leave
<1>23. CASE Dereference(c)
  BY <1>23 DEF Dereference, Leave
<1>24. ASSUME NEW mon \in BOOLEAN, SetMore(c, mon)
      PROVE  Alone(c)
  BY <1>24 DEF SetMore
<1>25. ASSUME NEW h \in Handles, HandleCreate(c, h)
      PROVE  Alone(c)
  BY <1>25 DEF HandleCreate
<1>26. ASSUME NEW r \in Records, NEW mon \in BOOLEAN, HookCreate(c, r, mon)
      PROVE  Alone(c)
  BY <1>26 DEF HookCreate, Start
<1>27. ASSUME NEW h \in Handles, NEW service \in {"unhook", "enable", "disable",
             "set"}, Translate(c, service, h)
      PROVE  Alone(c)
  BY <1>27 DEF Translate, Start
<1>28. ASSUME NEW r \in Records, OpenById(c, r)
      PROVE  Alone(c)
  BY <1>28 DEF OpenById, Start
<1>29. ASSUME NEW h \in Handles, Close(c, h)
      PROVE  Alone(c)
  BY <1>29 DEF Close, Start
<1>30. CASE Cleanup(c)
  BY <1>30 DEF Cleanup
<1> QED BY <1>1, <1>2, <1>3, <1>4, <1>5, <1>6, <1>7, <1>8, <1>9, <1>10, <1>11, <1>12,
        <1>13, <1>14, <1>15, <1>16, <1>17, <1>18, <1>19, <1>20, <1>21, <1>22, <1>23,
        <1>24, <1>25, <1>26, <1>27, <1>28, <1>29, <1>30
    DEF ClientBegin, ClientStep

LEMMA RolesOthers ==
  ASSUME TypeOK, Roles, Hands, NEW c \in Clients, RoleOK(c)', HandOK(c)', Alone(c),
         \A h \in Handles : handles'[h] \in {handles[h], Nobody} \/ Fresh(h)
  PROVE  Roles' /\ Hands'
<1>1. Roles'
  BY DEF Roles, RoleOK, Alone
<1>2. ASSUME NEW d \in Clients, d # c
      PROVE  HandOK(d)'
  <2>1. HandOK(d) /\ UNCHANGED <<pc[d], op[d], hand[d], hnd[d]>>
    BY <1>2 DEF Hands, Alone
  <2>2. ASSUME pc[d] \in {"output", "close"}, op[d] \in {"hook", "open"}
        PROVE  handles'[hnd[d]] \in {hand[d], Nobody}
    <3>1. hnd[d] \in Handles /\ handles[hnd[d]] \in {hand[d], Nobody}
      BY <2>1, <2>2 DEF HandOK
    <3>2. ~Fresh(hnd[d])
      BY DEF Fresh
    <3> QED BY <3>1, <3>2
  <2> QED BY <2>1, <2>2 DEF HandOK
<1> QED BY <1>1, <1>2 DEF Hands

LEMMA HandlesKept ==
  ASSUME TypeOK, NEW c \in Clients, ClientBegin(c) \/ ClientStep(c)
  PROVE  \A h \in Handles : handles'[h] \in {handles[h], Nobody} \/ Fresh(h)
<1>1. CASE UNCHANGED handles
  BY <1>1
<1>2. ASSUME NEW h \in Handles, HandleCreate(c, h)
      PROVE  \A g \in Handles : handles'[g] \in {handles[g], Nobody} \/ Fresh(g)
  BY <1>2 DEF HandleCreate, TypeOK
<1>3. CASE CloseDelete(c)
  BY <1>3 DEF CloseDelete, TypeOK
<1>4. CASE Cleanup(c)
  BY <1>4 DEF Cleanup, TypeOK
<1> QED BY <1>1, <1>2, <1>3, <1>4 DEF ClientBegin, ClientStep, tables, HookInsert,
     HookValidate, HookCheck, UnhookDelete, UnhookFlag, UnhookRestore, UnhookClear,
     UnhookInvalidate, UnhookDrop, Enable, EnableMark, Exchange, Store, Disable,
     DisableUnmark, DisablePutBack, Set, TranslateRefer, Output, HandleCreateFail,
     CloseDereference, Dereference, SetMore, HookCreate, Translate, OpenById, Close

LEMMA OwnRole ==
  ASSUME TypeOK, TypeOK', OneController, Roles, Hands, NEW c \in Clients,
         ClientBegin(c) \/ ClientStep(c)
  PROVE  RoleOK(c)' /\ HandOK(c)'
<1> USE DEF Goto, Proceed, At, tables, client, irps, UnhookPlaces
<1>0. RoleOK(c) /\ HandOK(c)
  BY DEF Roles, Hands
<1>1. CASE HookInsert(c)
  BY <1>0, <1>1, DriverHookAssumption DEF HookInsert, TypeOK, RoleOK, HandOK
<1>2. CASE HookValidate(c)
  BY <1>0, <1>2, DriverHookAssumption DEF HookValidate, TypeOK, RoleOK, HandOK
<1>3. CASE HookCheck(c)
  BY <1>0, <1>3, DriverHookAssumption DEF HookCheck, TypeOK, RoleOK, HandOK
<1>4. CASE UnhookDelete(c)
  BY <1>0, <1>4, DriverHookAssumption DEF UnhookDelete, TypeOK, RoleOK, HandOK
<1>5. CASE UnhookFlag(c)
  BY <1>0, <1>5, DriverHookAssumption DEF UnhookFlag, TypeOK, RoleOK, HandOK
<1>6. CASE UnhookRestore(c)
  BY <1>0, <1>6, DriverHookAssumption DEF UnhookRestore, TypeOK, RoleOK, HandOK
<1>7. CASE UnhookClear(c)
  BY <1>0, <1>7, DriverHookAssumption DEF UnhookClear, TypeOK, RoleOK, HandOK
<1>8. CASE UnhookInvalidate(c)
  BY <1>0, <1>8, DriverHookAssumption DEF UnhookInvalidate, TypeOK, RoleOK, HandOK
<1>9. CASE UnhookDrop(c)
  BY <1>0, <1>9, DriverHookAssumption DEF UnhookDrop, TypeOK, RoleOK, HandOK
<1>10. CASE Enable(c)
  BY <1>0, <1>10, DriverHookAssumption DEF Enable, TypeOK, RoleOK, HandOK
<1>11. CASE EnableMark(c)
  BY <1>0, <1>11, DriverHookAssumption DEF EnableMark, TypeOK, RoleOK, HandOK
<1>12. CASE Exchange(c)
  BY <1>0, <1>12, DriverHookAssumption DEF Exchange, AfterHooking, TypeOK, RoleOK, HandOK
<1>13. CASE Store(c)
  BY <1>0, <1>13, DriverHookAssumption DEF Store, AfterHooking, TypeOK, RoleOK, HandOK
<1>14. CASE Disable(c)
  BY <1>0, <1>14, DriverHookAssumption DEF Disable, TypeOK, RoleOK, HandOK
<1>15. CASE DisableUnmark(c)
  BY <1>0, <1>15, DriverHookAssumption DEF DisableUnmark, TypeOK, RoleOK, HandOK
<1>16. CASE DisablePutBack(c)
  BY <1>0, <1>16, DriverHookAssumption DEF DisablePutBack, TypeOK, RoleOK, HandOK
<1>17. CASE Set(c)
  BY <1>0, <1>17, DriverHookAssumption DEF Set, TypeOK, RoleOK, HandOK
<1>18. CASE TranslateRefer(c)
  BY <1>0, <1>18, DriverHookAssumption DEF TranslateRefer, TypeOK, RoleOK, HandOK
<1>19. CASE Output(c)
  BY <1>0, <1>19, DriverHookAssumption DEF Output, TypeOK, RoleOK, HandOK
<1>20. CASE HandleCreateFail(c)
  BY <1>0, <1>20, DriverHookAssumption DEF HandleCreateFail, AfterFailure, TypeOK, RoleOK, HandOK
<1>21. CASE CloseDelete(c)
  BY <1>0, <1>21, DriverHookAssumption DEF CloseDelete, AfterFailure, Leave, TypeOK, RoleOK, HandOK
<1>22. CASE CloseDereference(c)
  BY <1>0, <1>22, DriverHookAssumption DEF CloseDereference, AfterFailure, Leave, TypeOK, RoleOK, HandOK
<1>23. CASE Dereference(c)
  BY <1>0, <1>23, DriverHookAssumption DEF Dereference, Leave, TypeOK, RoleOK, HandOK
<1>24. ASSUME NEW mon \in BOOLEAN, SetMore(c, mon)
      PROVE  RoleOK(c)' /\ HandOK(c)'
  BY <1>0, <1>24, DriverHookAssumption DEF SetMore, TypeOK, RoleOK, HandOK
<1>25. ASSUME NEW h \in Handles, HandleCreate(c, h)
      PROVE  RoleOK(c)' /\ HandOK(c)'
  BY <1>0, <1>25, DriverHookAssumption DEF HandleCreate, TypeOK, RoleOK, HandOK
<1>26. ASSUME NEW r \in Records, NEW mon \in BOOLEAN, HookCreate(c, r, mon)
      PROVE  RoleOK(c)' /\ HandOK(c)'
  BY <1>0, <1>26, DriverHookAssumption DEF HookCreate, Start, TypeOK, RoleOK, HandOK
<1>27. ASSUME NEW h \in Handles, NEW service \in {"unhook", "enable", "disable",
             "set"}, Translate(c, service, h)
      PROVE  RoleOK(c)' /\ HandOK(c)'
  BY <1>0, <1>27, DriverHookAssumption DEF Translate, Start, TypeOK, RoleOK, HandOK
<1>28. ASSUME NEW r \in Records, OpenById(c, r)
      PROVE  RoleOK(c)' /\ HandOK(c)'
  BY <1>0, <1>28, DriverHookAssumption DEF OpenById, Start, TypeOK, RoleOK, HandOK
<1>29. ASSUME NEW h \in Handles, Close(c, h)
      PROVE  RoleOK(c)' /\ HandOK(c)'
  BY <1>0, <1>29, DriverHookAssumption DEF Close, Start, TypeOK, RoleOK, HandOK
<1>30. CASE Cleanup(c)
  BY <1>0, <1>30, DriverHookAssumption DEF Cleanup, TypeOK, RoleOK, HandOK
<1> QED BY <1>1, <1>2, <1>3, <1>4, <1>5, <1>6, <1>7, <1>8, <1>9, <1>10, <1>11, <1>12,
        <1>13, <1>14, <1>15, <1>16, <1>17, <1>18, <1>19, <1>20, <1>21, <1>22, <1>23,
        <1>24, <1>25, <1>26, <1>27, <1>28, <1>29, <1>30
    DEF ClientBegin, ClientStep

\* What each client does at its place, with what in its hands.
LEMMA RolesStep ==
  ASSUME TypeOK, TypeOK', OneController, Roles, Hands, [Next]_vars
  PROVE  Roles' /\ Hands'
<1> USE DEF Goto, Proceed, At, tables, client, irps
<1>1. ASSUME UNCHANGED <<client, handles>>
      PROVE  Roles' /\ Hands'
  BY <1>1 DEF Roles, Hands, RoleOK, HandOK
<1>2. CASE UNCHANGED vars \/ UnloadBegin \/ UnloadStep
  BY <1>1, <1>2 DEF vars, UnloadBegin, UnloadStep, UnloadRestore, UnloadDrop, UnloadWait
<1>3. ASSUME NEW t \in Irps, Send(t) \/ IrpStep(t)
      PROVE  Roles' /\ Hands'
  BY <1>1, <1>3 DEF Send, IrpStep, Lookup, Call, Return
<1>4. ASSUME NEW c \in Clients, ClientBegin(c) \/ ClientStep(c)
      PROVE  Roles' /\ Hands'
  <2>1. Alone(c)
    BY <1>4, ActsAlone
  <2>2. \A h \in Handles : handles'[h] \in {handles[h], Nobody} \/ Fresh(h)
    BY <1>4, HandlesKept
  <2>3. RoleOK(c)' /\ HandOK(c)'
    BY <1>4, OwnRole
  <2> QED BY <2>1, <2>2, <2>3, RolesOthers
<1> QED BY <1>2, <1>3, <1>4 DEF Next

-----------------------------------------------------------------------------
(* References.                                                             *)

Bit(b) == IF b THEN 1 ELSE 0

\* Two sets that differ in at most one element.
LEMMA OneDiffers ==
  ASSUME NEW S, NEW T, NEW x, IsFiniteSet(S), IsFiniteSet(T), S \ {x} = T \ {x}
  PROVE  /\ Cardinality(S) \in Nat /\ Cardinality(T) \in Nat
         /\ Cardinality(T) = Cardinality(S) - Bit(x \in S) + Bit(x \in T)
<1>1. ASSUME NEW U, IsFiniteSet(U)
      PROVE  Cardinality(U) \in Nat /\ Cardinality(U \ {x}) = Cardinality(U) - Bit(x \in U)
  <2>1. Cardinality(U) \in Nat
    BY <1>1, FS_CardinalityType
  <2>2. CASE x \in U
    BY <1>1, <2>1, <2>2, FS_RemoveElement DEF Bit
  <2>3. CASE x \notin U
    <3>1. U \ {x} = U
      BY <2>3
    <3>2. Cardinality(U \ {x}) = Cardinality(U)
      BY <3>1, Zenon
    <3> QED BY <2>1, <2>3, <3>2 DEF Bit
  <2> QED BY <2>1, <2>2, <2>3 DEF Bit
<1>2. Cardinality(S \ {x}) = Cardinality(T \ {x})
  OBVIOUS
<1> QED BY <1>1, <1>2 DEF Bit

LEMMA Finite ==
  ASSUME NEW r
  PROVE  /\ IsFiniteSet(HandlesOf(r)) /\ Cardinality(HandlesOf(r)) \in Nat
         /\ IsFiniteSet(HandlersOf(r)) /\ Cardinality(HandlersOf(r)) \in Nat
         /\ \A n : IsFiniteSet(Holders(r, n)) /\ Cardinality(Holders(r, n)) \in Nat
<1>1. IsFiniteSet(HandlesOf(r))
  BY FS_Subset, DriverHookAssumption DEF HandlesOf
<1>2. IsFiniteSet(HandlersOf(r))
  BY FS_Subset, DriverHookAssumption DEF HandlersOf
<1>3. ASSUME NEW n
      PROVE  IsFiniteSet(Holders(r, n)) /\ Cardinality(Holders(r, n)) \in Nat
  <2>1. Holders(r, n) \subseteq Clients
    BY DEF Holders
  <2> QED BY <2>1, FS_Subset, FS_CardinalityType, DriverHookAssumption
<1> QED BY <1>1, <1>2, <1>3, FS_CardinalityType

LEMMA FinitePrime ==
  ASSUME NEW r
  PROVE  /\ IsFiniteSet(HandlesOf(r)') /\ Cardinality(HandlesOf(r))' \in Nat
         /\ IsFiniteSet(HandlersOf(r)') /\ Cardinality(HandlersOf(r))' \in Nat
         /\ \A n : IsFiniteSet(Holders(r, n)') /\ Cardinality(Holders(r, n))' \in Nat
<1>1. IsFiniteSet(HandlesOf(r)')
  BY FS_Subset, DriverHookAssumption DEF HandlesOf
<1>2. IsFiniteSet(HandlersOf(r)')
  BY FS_Subset, DriverHookAssumption DEF HandlersOf
<1>3. ASSUME NEW n
      PROVE  IsFiniteSet(Holders(r, n)') /\ Cardinality(Holders(r, n))' \in Nat
  <2>1. Holders(r, n)' \subseteq Clients
    BY DEF Holders
  <2> QED BY <2>1, FS_Subset, FS_CardinalityType, DriverHookAssumption
<1> QED BY <1>1, <1>2, <1>3, FS_CardinalityType

\* What client c holds of record r.
Share(c, r) == IF hand[c] = r THEN Own(c) ELSE 0

LEMMA Shares ==
  ASSUME NEW c \in Clients, Alone(c), NEW r
  PROVE  Cardinality(Holders(r, 1))' + Cardinality(Holders(r, 2))'
           = Cardinality(Holders(r, 1)) + Cardinality(Holders(r, 2))
             - Share(c, r) + Share(c, r)'
<1>1. ASSUME NEW n
      PROVE  Cardinality(Holders(r, n))' = Cardinality(Holders(r, n))
               - Bit(c \in Holders(r, n)) + Bit(c \in Holders(r, n)')
  <2>1. Holders(r, n) \ {c} = Holders(r, n)' \ {c}
    BY DEF Holders, Alone, Own
  <2> QED BY <2>1, Finite, FinitePrime, OneDiffers
<1>2. Share(c, r) = Bit(c \in Holders(r, 1)) + Bit(c \in Holders(r, 2))
  BY DEF Share, Holders, Bit, Own
<1>3. Share(c, r)' = Bit(c \in Holders(r, 1)') + Bit(c \in Holders(r, 2)')
  BY DEF Share, Holders, Bit, Own
<1> QED BY <1>1, <1>2, <1>3, Finite, FinitePrime DEF Bit

\* A step of a client keeps the books if what it adds to the count of a record is
\* what the table, the handles and the client then hold more.
LEMMA Balance ==
  ASSUME TypeOK, TypeOK', RefsExact, NEW c \in Clients, Alone(c), irec' = irec,
         \A r \in Records :
           rec'[r].refs = rec[r].refs - Bit(table = r) + Bit(table' = r)
             - Cardinality(HandlesOf(r)) + Cardinality(HandlesOf(r))'
             - Share(c, r) + Share(c, r)'
  PROVE  RefsExact'
<1> SUFFICES ASSUME NEW r \in Records
             PROVE  rec'[r].refs = Holds(r)'
  BY DEF RefsExact
<1>1. Cardinality(HandlersOf(r))' = Cardinality(HandlersOf(r))
  BY DEF HandlersOf
<1>2. rec[r].refs = Holds(r)
  BY DEF RefsExact
<1>3. Share(c, r) \in Int /\ Share(c, r)' \in Int
  BY DEF Share, Own
<1>4. rec'[r].refs = rec[r].refs - Bit(table = r) + Bit(table' = r)
             - Cardinality(HandlesOf(r)) + Cardinality(HandlesOf(r))'
             - Share(c, r) + Share(c, r)'
  OBVIOUS
<1>5. Cardinality(Holders(r, 1))' + Cardinality(Holders(r, 2))'
        = Cardinality(Holders(r, 1)) + Cardinality(Holders(r, 2))
          - Share(c, r) + Share(c, r)'
  BY Shares
<1>6. Holds(r)' = Bit(table' = r) + Cardinality(HandlesOf(r))'
                  + Cardinality(HandlersOf(r))'
                  + Cardinality(Holders(r, 1))' + Cardinality(Holders(r, 2))'
  BY DEF Holds, Bit
<1>7. Holds(r) = Bit(table = r) + Cardinality(HandlesOf(r))
                  + Cardinality(HandlersOf(r))
                  + Cardinality(Holders(r, 1)) + Cardinality(Holders(r, 2))
  BY DEF Holds, Bit
<1>8. Bit(table = r) \in Int /\ Bit(table' = r) \in Int
  BY DEF Bit
<1> HIDE DEF Holds, Share, Bit
<1> QED BY <1>1, <1>2, <1>3, <1>4, <1>5, <1>6, <1>7, <1>8, Finite, FinitePrime

\* The same when it leaves the handles alone.
LEMMA BalanceHand ==
  ASSUME TypeOK, TypeOK', RefsExact, NEW c \in Clients, Alone(c), irec' = irec,
         handles' = handles,
         \A r \in Records :
           rec'[r].refs = rec[r].refs - Bit(table = r) + Bit(table' = r)
                          - Share(c, r) + Share(c, r)'
  PROVE  RefsExact'
<1>1. ASSUME NEW r \in Records
      PROVE  rec'[r].refs = rec[r].refs - Bit(table = r) + Bit(table' = r)
               - Cardinality(HandlesOf(r)) + Cardinality(HandlesOf(r))'
               - Share(c, r) + Share(c, r)'
  <2>1. Cardinality(HandlesOf(r))' = Cardinality(HandlesOf(r))
    BY DEF HandlesOf
  <2>2. Cardinality(HandlesOf(r)) \in Int /\ rec[r].refs \in Int
    BY Finite DEF TypeOK, Record
  <2>3. Share(c, r) \in Int /\ Share(c, r)' \in Int
    BY DEF Share, Own
  <2> QED BY <2>1, <2>2, <2>3 DEF Bit
<1> QED BY <1>1, Balance

\* And when it only goes from one place to another.
LEMMA BalanceNone ==
  ASSUME TypeOK, TypeOK', RefsExact, NEW c \in Clients, Alone(c), irec' = irec,
         handles' = handles, table' = table,
         \A r \in Records : rec'[r].refs = rec[r].refs /\ Share(c, r)' = Share(c, r)
  PROVE  RefsExact'
<1>1. ASSUME NEW r \in Records
      PROVE  rec'[r].refs = rec[r].refs - Bit(table = r) + Bit(table' = r)
                          - Share(c, r) + Share(c, r)'
  <2>1. Share(c, r) \in Int /\ rec[r].refs \in Int
    BY DEF Share, Own, TypeOK, Record
  <2>2. Share(c, r)' = Share(c, r) /\ rec'[r].refs = rec[r].refs
    OBVIOUS
  <2> QED BY <2>1, <2>2 DEF Bit
<1> QED BY <1>1, BalanceHand

\* Whom the count keeps alive.
LEMMA Alive ==
  ASSUME TypeOK, RefsExact, LiveInv
  PROVE  /\ table # Nobody => rec[table].live
         /\ \A h \in Handles : handles[h] # Nobody => rec[handles[h]].live
         /\ \A t \in Irps : irec[t] # Nobody => rec[irec[t]].live
         /\ \A c \in Clients :
              hand[c] # Nobody /\ pc[c] # "translate" => rec[hand[c]].live
<1>1. ASSUME NEW r \in Records,
             \/ table = r \/ HandlesOf(r) # {} \/ HandlersOf(r) # {} \/ Holders(r, 1) # {}
      PROVE  rec[r].live
  <2>1. Holds(r) > 0
    BY <1>1, Finite, FS_EmptySet DEF Holds
  <2> QED BY <2>1 DEF RefsExact, LiveInv
<1>2. \A h \in Handles : handles[h] # Nobody => rec[handles[h]].live
  BY <1>1 DEF HandlesOf, TypeOK
<1>3. \A t \in Irps : irec[t] # Nobody => rec[irec[t]].live
  BY <1>1 DEF HandlersOf, TypeOK
<1>4. \A c \in Clients : hand[c] # Nobody /\ pc[c] # "translate" => rec[hand[c]].live
  BY <1>1 DEF Holders, TypeOK, Own, UnhookPlaces
<1> QED BY <1>1, <1>2, <1>3, <1>4 DEF TypeOK

LEMMA ClientBooks ==
  ASSUME TypeOK, TypeOK', OneController, Roles, Hands, RefsExact, LiveInv, Tables,
         NEW c \in Clients, ClientBegin(c) \/ ClientStep(c)
  PROVE  RefsExact'
<1> USE DEF Goto, Proceed, At, tables, client, irps, UnhookPlaces
<1>0. RoleOK(c) /\ HandOK(c) /\ Alone(c)
  BY ActsAlone DEF Roles, Hands
<1>1. CASE HookInsert(c)
  <2>1. hand[c] \in Records
    BY <1>0, <1>1 DEF HookInsert, TypeOK, HandOK, RoleOK
  <2>2. CASE table = Nobody
    <3>1. \A r \in Records : rec'[r].refs = rec[r].refs + (IF r = hand[c] THEN 1 ELSE 0)
      BY <1>1, <2>1, <2>2, ReferencedFacts DEF HookInsert
    <3> QED BY <1>0, <1>1, <2>1, <2>2, <3>1, BalanceHand, DriverHookAssumption
      DEF HookInsert, TypeOK, Record, Share, Own, Bit
  <2>3. CASE table # Nobody
    BY <1>0, <1>1, <2>3, BalanceNone DEF HookInsert, TypeOK, Record, Share, Own
  <2> QED BY <2>2, <2>3
<1>2. CASE HookValidate(c)
  BY <1>0, <1>2, BalanceNone
    DEF HookValidate, TypeOK, Record, Share, Own
<1>3. CASE HookCheck(c)
  BY <1>0, <1>3, BalanceNone
    DEF HookCheck, TypeOK, Record, Share, Own
<1>4. CASE UnhookDelete(c)
  <2>1. table = hand[c] /\ table # Nobody
    BY <1>0, <1>4 DEF UnhookDelete, RoleOK, HandOK, Tables, TableOK, Mine, TablePlaces
  <2>2. table' = Nobody /\ rec' = rec
    BY <1>4, <2>1 DEF UnhookDelete
  <2>3. \A r \in Records : /\ Share(c, r) = (IF r = hand[c] THEN 1 ELSE 0)
                           /\ Share(c, r)' = (IF r = hand[c] THEN 2 ELSE 0)
    BY <1>0, <1>4, <2>1, DriverHookAssumption
       DEF UnhookDelete, TypeOK, HandOK, RoleOK, Share, Own
  <2>5. \A r \in Records : r # Nobody
    BY DriverHookAssumption
  <2>4. UNCHANGED <<irec, handles>> /\ \A r \in Records : rec[r].refs \in Int
    BY <1>4 DEF UnhookDelete, TypeOK, Record
  <2> QED BY <1>0, <2>1, <2>2, <2>5, <2>3, <2>4, BalanceHand DEF Bit
<1>5. CASE UnhookFlag(c)
  BY <1>0, <1>5, BalanceNone
    DEF UnhookFlag, TypeOK, Record, Share, Own
<1>6. CASE UnhookRestore(c)
  BY <1>0, <1>6, BalanceNone
    DEF UnhookRestore, TypeOK, Record, Share, Own
<1>7. CASE UnhookClear(c)
  BY <1>0, <1>7, BalanceNone
    DEF UnhookClear, TypeOK, Record, Share, Own
<1>8. CASE UnhookInvalidate(c)
  BY <1>0, <1>8, BalanceNone
    DEF UnhookInvalidate, TypeOK, Record, Share, Own
<1>9. CASE UnhookDrop(c)
  <2>1. hand[c] \in Records
    BY <1>0, <1>9 DEF UnhookDrop, TypeOK, HandOK, RoleOK
  <2>2. \A r \in Records : rec'[r].refs = rec[r].refs - (IF r = hand[c] THEN 1 ELSE 0)
    BY <1>9, <2>1, DroppedFacts DEF UnhookDrop
  <2> QED BY <1>0, <1>9, <2>1, <2>2, BalanceHand, DriverHookAssumption
    DEF UnhookDrop, TypeOK, Record, RoleOK, HandOK, Share, Own, Bit
<1>10. CASE Enable(c)
  BY <1>0, <1>10, BalanceNone
    DEF Enable, TypeOK, Record, Share, Own
<1>11. CASE EnableMark(c)
  BY <1>0, <1>11, BalanceNone
    DEF EnableMark, TypeOK, Record, Share, Own
<1>12. CASE Exchange(c)
  BY <1>0, <1>12, BalanceNone
    DEF Exchange, AfterHooking, TypeOK, Record, Share, Own
<1>13. CASE Store(c)
  BY <1>0, <1>13, BalanceNone
    DEF Store, AfterHooking, TypeOK, Record, Share, Own
<1>14. CASE Disable(c)
  BY <1>0, <1>14, BalanceNone
    DEF Disable, TypeOK, Record, Share, Own
<1>15. CASE DisableUnmark(c)
  BY <1>0, <1>15, BalanceNone
    DEF DisableUnmark, TypeOK, Record, Share, Own
<1>16. CASE DisablePutBack(c)
  BY <1>0, <1>16, BalanceNone
    DEF DisablePutBack, TypeOK, Record, Share, Own
<1>17. CASE Set(c)
  BY <1>0, <1>17, BalanceNone
    DEF Set, TypeOK, Record, Share, Own
<1>18. CASE TranslateRefer(c)
  <2>1. hand[c] \in Records
    BY <1>0, <1>18 DEF TranslateRefer, TypeOK, HandOK, RoleOK
  <2>2. \A r \in Records : rec'[r].refs = rec[r].refs + (IF r = hand[c] THEN 1 ELSE 0)
    BY <1>18, <2>1, ReferencedFacts DEF TranslateRefer
  <2>3. \A r \in Records : /\ Share(c, r) = 0
                           /\ Share(c, r)' = (IF r = hand[c] THEN 1 ELSE 0)
    BY <1>0, <1>18, <2>1, DriverHookAssumption
       DEF TranslateRefer, TypeOK, HandOK, RoleOK, Share, Own
  <2>5. table' = table
    BY <1>18 DEF TranslateRefer
  <2>4. UNCHANGED <<irec, handles>> /\ \A r \in Records : rec[r].refs \in Int
    BY <1>18 DEF TranslateRefer, TypeOK, Record
  <2> QED BY <1>0, <2>2, <2>5, <2>3, <2>4, BalanceHand DEF Bit
<1>19. CASE Output(c)
  BY <1>0, <1>19, BalanceNone
    DEF Output, TypeOK, Record, Share, Own
<1>20. CASE HandleCreateFail(c)
  BY <1>0, <1>20, BalanceNone
    DEF HandleCreateFail, AfterFailure, TypeOK, Record, Share, Own
<1>21. CASE CloseDelete(c)
  <2>1. hnd[c] \in Handles
    BY <1>0, <1>21 DEF CloseDelete, HandOK
  <2>2. CASE handles[hnd[c]] # Nobody
    <3> DEFINE q == handles[hnd[c]]
    <3>1. q \in Records
      BY <2>1, <2>2 DEF TypeOK
    <3>2. ASSUME NEW r \in Records
          PROVE  Cardinality(HandlesOf(r))' = Cardinality(HandlesOf(r))
                                              - (IF r = q THEN 1 ELSE 0)
      <4>1. HandlesOf(r) \ {hnd[c]} = HandlesOf(r)' \ {hnd[c]}
        BY <1>21, <2>2 DEF CloseDelete, HandlesOf, TypeOK
      <4>2. hnd[c] \notin HandlesOf(r)' /\ (hnd[c] \in HandlesOf(r) <=> r = q)
        BY <1>21, <2>1, <2>2, DriverHookAssumption DEF CloseDelete, HandlesOf, TypeOK
      <4> QED BY <4>1, <4>2, OneDiffers, Finite, FinitePrime DEF Bit
    <3>3. ASSUME NEW r \in Records
          PROVE  /\ Share(c, r) \in Int
                 /\ Share(c, r)' = Share(c, r) + (IF r = q THEN 1 ELSE 0)
      BY <1>0, <1>21, <2>1, <2>2, <3>1, DriverHookAssumption
         DEF CloseDelete, TypeOK, HandOK, RoleOK, Share, Own, UnhookPlaces
    <3>4. \A r \in Records : Cardinality(HandlesOf(r)) \in Int /\ rec[r].refs \in Int
      BY Finite DEF TypeOK, Record
    <3>5. UNCHANGED <<irec, table, rec>>
      BY <1>21 DEF CloseDelete
    <3> QED BY <1>0, <3>2, <3>3, <3>4, <3>5, Balance DEF Bit
  <2>3. CASE handles[hnd[c]] = Nobody
    BY <1>0, <1>21, <2>3, BalanceNone, DriverHookAssumption
       DEF CloseDelete, AfterFailure, Leave, TypeOK, Record, HandOK, RoleOK, Share, Own, UnhookPlaces
  <2> QED BY <2>2, <2>3
<1>22. CASE CloseDereference(c)
  <2>1. hand[c] \in Records
    BY <1>0, <1>22 DEF CloseDereference, TypeOK, HandOK, RoleOK
  <2>2. \A r \in Records : rec'[r].refs = rec[r].refs - (IF r = hand[c] THEN 1 ELSE 0)
    BY <1>22, <2>1, DroppedFacts DEF CloseDereference
  <2> QED BY <1>0, <1>22, <2>1, <2>2, BalanceHand, DriverHookAssumption
    DEF CloseDereference, AfterFailure, Leave, TypeOK, Record, RoleOK, HandOK, Share, Own, Bit
<1>23. CASE Dereference(c)
  <2>1. hand[c] \in Records
    BY <1>0, <1>23 DEF Dereference, TypeOK, HandOK, RoleOK
  <2>2. \A r \in Records : rec'[r].refs = rec[r].refs - (IF r = hand[c] THEN 1 ELSE 0)
    BY <1>23, <2>1, DroppedFacts DEF Dereference
  <2>3. \A r \in Records : /\ Share(c, r) = (IF r = hand[c] THEN 1 ELSE 0)
                           /\ Share(c, r)' = 0
    BY <1>0, <1>23, <2>1, DriverHookAssumption
       DEF Dereference, Leave, TypeOK, HandOK, RoleOK, Share, Own
  <2>5. table' = table
    BY <1>23 DEF Dereference
  <2>4. UNCHANGED <<irec, handles>> /\ \A r \in Records : rec[r].refs \in Int
    BY <1>23 DEF Dereference, TypeOK, Record
  <2> QED BY <1>0, <2>2, <2>5, <2>3, <2>4, BalanceHand DEF Bit
<1>24. ASSUME NEW mon \in BOOLEAN, SetMore(c, mon)
      PROVE  RefsExact'
  BY <1>0, <1>24, BalanceNone
    DEF SetMore, TypeOK, Record, Share, Own
<1>25. ASSUME NEW h \in Handles, HandleCreate(c, h)
      PROVE  RefsExact'
  <2>1. hand[c] \in Records
    BY <1>0, <1>25 DEF HandleCreate, TypeOK, HandOK, RoleOK
  <2>2. \A r \in Records : rec'[r].refs = rec[r].refs + (IF r = hand[c] THEN 1 ELSE 0)
    BY <1>25, <2>1, ReferencedFacts DEF HandleCreate
  <2>3. ASSUME NEW r \in Records
        PROVE  Cardinality(HandlesOf(r))' = Cardinality(HandlesOf(r))
                                            + (IF r = hand[c] THEN 1 ELSE 0)
    <3>1. HandlesOf(r) \ {h} = HandlesOf(r)' \ {h}
      BY <1>25 DEF HandleCreate, HandlesOf, TypeOK
    <3>2. h \notin HandlesOf(r) /\ (h \in HandlesOf(r)' <=> r = hand[c])
      BY <1>25, DriverHookAssumption DEF HandleCreate, HandlesOf, TypeOK, Fresh
    <3> QED BY <3>1, <3>2, OneDiffers, Finite, FinitePrime DEF Bit
  <2>4. \A r \in Records : Share(c, r)' = Share(c, r) /\ Share(c, r) \in Int
    BY <1>25 DEF HandleCreate, TypeOK, Share, Own
  <2>5. \A r \in Records : Cardinality(HandlesOf(r)) \in Int /\ rec[r].refs \in Int
    BY Finite DEF TypeOK, Record
  <2>6. UNCHANGED <<irec, table>>
    BY <1>25 DEF HandleCreate
  <2> QED BY <1>0, <2>2, <2>3, <2>4, <2>5, <2>6, Balance DEF Bit
<1>26. ASSUME NEW x \in Records, NEW mon \in BOOLEAN, HookCreate(c, x, mon)
      PROVE  RefsExact'
  <2>1. rec[x].refs = 0
    BY <1>26, Finite DEF HookCreate, RefsExact, LiveInv, Holds
  <2>2. \A r \in Records : rec'[r].refs = rec[r].refs + (IF r = x THEN 1 ELSE 0)
    BY <1>26, <2>1 DEF HookCreate, TypeOK, Record
  <2>3. \A r \in Records : /\ Share(c, r) = 0
                           /\ Share(c, r)' = (IF r = x THEN 1 ELSE 0)
    BY <1>0, <1>26, DriverHookAssumption
       DEF HookCreate, Start, TypeOK, HandOK, RoleOK, Share, Own
  <2>5. table' = table
    BY <1>26 DEF HookCreate
  <2>4. UNCHANGED <<irec, handles>> /\ \A r \in Records : rec[r].refs \in Int
    BY <1>26 DEF HookCreate, TypeOK, Record
  <2>6. ASSUME NEW r \in Records
        PROVE  rec'[r].refs = rec[r].refs - Bit(table = r) + Bit(table' = r)
                              - Share(c, r) + Share(c, r)'
    BY <2>2, <2>5, <2>3, <2>4 DEF Bit
  <2> QED BY <1>0, <2>4, <2>6, BalanceHand DEF Bit
<1>27. ASSUME NEW h \in Handles, NEW service \in {"unhook", "enable", "disable",
             "set"}, Translate(c, service, h)
      PROVE  RefsExact'
  BY <1>0, <1>27, BalanceNone, DriverHookAssumption
    DEF Translate, Start, TypeOK, Record, HandOK, RoleOK, Share, Own
<1>28. ASSUME NEW x \in Records, OpenById(c, x)
      PROVE  RefsExact'
  <2>2. \A r \in Records : rec'[r].refs = rec[r].refs + (IF r = x THEN 1 ELSE 0)
    BY <1>28, ReferencedFacts DEF OpenById
  <2>3. \A r \in Records : /\ Share(c, r) = 0
                           /\ Share(c, r)' = (IF r = x THEN 1 ELSE 0)
    BY <1>0, <1>28, DriverHookAssumption
       DEF OpenById, Start, TypeOK, HandOK, RoleOK, Share, Own
  <2>5. table' = table
    BY <1>28 DEF OpenById
  <2>4. UNCHANGED <<irec, handles>> /\ \A r \in Records : rec[r].refs \in Int
    BY <1>28 DEF OpenById, TypeOK, Record
  <2>6. ASSUME NEW r \in Records
        PROVE  rec'[r].refs = rec[r].refs - Bit(table = r) + Bit(table' = r)
                              - Share(c, r) + Share(c, r)'
    BY <2>2, <2>5, <2>3, <2>4 DEF Bit
  <2> QED BY <1>0, <2>4, <2>6, BalanceHand DEF Bit
<1>29. ASSUME NEW h \in Handles, Close(c, h)
      PROVE  RefsExact'
  BY <1>0, <1>29, BalanceNone, DriverHookAssumption
    DEF Close, Start, TypeOK, Record, HandOK, RoleOK, Share, Own
<1>30. CASE Cleanup(c)
  <2>1. ASSUME NEW r \in Records
        PROVE  rec'[r].refs = rec[r].refs - Cardinality(HandlesOf(r))
    <3>1. CASE HandlesOf(r) = {}
      BY <1>30, <3>1, FS_EmptySet DEF Cleanup, TypeOK, Record
    <3>2. CASE HandlesOf(r) # {} /\ rec[r].refs = Cardinality(HandlesOf(r))
      <4>1. rec'[r] = Freed
        BY <1>30, <3>2 DEF Cleanup, TypeOK, Dropped
      <4> QED BY <3>2, <4>1 DEF Freed, TypeOK, Record
    <3>3. CASE HandlesOf(r) # {} /\ rec[r].refs # Cardinality(HandlesOf(r))
      BY <1>30, <3>3 DEF Cleanup, TypeOK, Record, Dropped
    <3> QED BY <3>1, <3>2, <3>3
  <2>2. ASSUME NEW r \in Records
        PROVE  Cardinality(HandlesOf(r))' = 0
    <3>1. HandlesOf(r)' = {}
      BY <1>30, DriverHookAssumption DEF Cleanup, HandlesOf
    <3> QED BY <3>1, FS_EmptySet
  <2>3. \A r \in Records : Share(c, r)' = Share(c, r) /\ Share(c, r) \in Int
    BY <1>30 DEF Cleanup, Share, Own
  <2>4. \A r \in Records : Cardinality(HandlesOf(r)) \in Int /\ rec[r].refs \in Int
    BY Finite DEF TypeOK, Record
  <2>5. UNCHANGED <<irec, table>>
    BY <1>30 DEF Cleanup
  <2> QED BY <1>0, <2>1, <2>2, <2>3, <2>4, <2>5, Balance DEF Bit
<1> QED BY <1>1, <1>2, <1>3, <1>4, <1>5, <1>6, <1>7, <1>8, <1>9, <1>10, <1>11, <1>12,
        <1>13, <1>14, <1>15, <1>16, <1>17, <1>18, <1>19, <1>20, <1>21, <1>22, <1>23,
        <1>24, <1>25, <1>26, <1>27, <1>28, <1>29, <1>30
    DEF ClientBegin, ClientStep

LEMMA BalanceOthers ==
  ASSUME TypeOK, TypeOK', RefsExact, UNCHANGED <<client, handles>>,
         \A r \in Records :
           rec'[r].refs = rec[r].refs - Bit(table = r) + Bit(table' = r)
             - Cardinality(HandlersOf(r)) + Cardinality(HandlersOf(r))'
  PROVE  RefsExact'
<1> SUFFICES ASSUME NEW r \in Records
             PROVE  rec'[r].refs = Holds(r)'
  BY DEF RefsExact
<1>1. rec[r].refs = Holds(r)
  BY DEF RefsExact
<1>2. rec'[r].refs = rec[r].refs - Bit(table = r) + Bit(table' = r)
             - Cardinality(HandlersOf(r)) + Cardinality(HandlersOf(r))'
  OBVIOUS
<1>3. /\ Cardinality(HandlesOf(r))' = Cardinality(HandlesOf(r))
      /\ Cardinality(Holders(r, 1))' = Cardinality(Holders(r, 1))
      /\ Cardinality(Holders(r, 2))' = Cardinality(Holders(r, 2))
  BY DEF HandlesOf, Holders, Own, client
<1> QED BY <1>1, <1>2, <1>3, Finite, FinitePrime DEF Holds, Bit

\* The count of every record is what holds it.
LEMMA RefsStep ==
  ASSUME TypeOK, TypeOK', OneController, Roles, Hands, RefsExact, LiveInv, Tables,
         IrpInv, [Next]_vars
  PROVE  RefsExact'
<1> USE DEF tables, client, irps
<1>1. ASSUME UNCHANGED <<client, handles, table, irec>>,
             \A r \in Records : rec'[r].refs = rec[r].refs
      PROVE  RefsExact'
  BY <1>1 DEF RefsExact, Holds, HandlesOf, HandlersOf, Holders, Own
<1>2. CASE UNCHANGED vars
  BY <1>1, <1>2 DEF vars
<1>3. ASSUME NEW c \in Clients, ClientBegin(c) \/ ClientStep(c)
      PROVE  RefsExact'
  BY <1>3, ClientBooks
<1>4. ASSUME NEW t \in Irps, Send(t) \/ Call(t)
      PROVE  RefsExact'
  BY <1>1, <1>4 DEF Send, Call
<1>5. ASSUME NEW t \in Irps, Lookup(t)
      PROVE  RefsExact'
  <2>1. CASE table # Nobody /\ unload = "no"
    <3>1. table \in Records
      BY <2>1 DEF TypeOK
    <3>2. \A r \in Records : rec'[r].refs = rec[r].refs + (IF r = table THEN 1 ELSE 0)
      BY <1>5, <2>1, <3>1, ReferencedFacts DEF Lookup
    <3>3. ASSUME NEW r \in Records
          PROVE  Cardinality(HandlersOf(r))' = Cardinality(HandlersOf(r))
                                               + (IF r = table THEN 1 ELSE 0)
      <4>1. HandlersOf(r) \ {t} = HandlersOf(r)' \ {t}
        BY <1>5, <2>1 DEF Lookup, HandlersOf, TypeOK
      <4>2. t \notin HandlersOf(r) /\ (t \in HandlersOf(r)' <=> r = table)
        BY <1>5, <2>1, DriverHookAssumption DEF Lookup, HandlersOf, TypeOK, IrpInv, IrpOK
      <4> QED BY <4>1, <4>2, OneDiffers, Finite, FinitePrime DEF Bit
    <3>4. \A r \in Records : Cardinality(HandlersOf(r)) \in Int /\ rec[r].refs \in Int
      BY Finite DEF TypeOK, Record
    <3>5. UNCHANGED <<client, handles, table>>
      BY <1>5 DEF Lookup
    <3> QED BY <3>2, <3>3, <3>4, <3>5, BalanceOthers DEF Bit
  <2>2. CASE table = Nobody \/ unload # "no"
    BY <1>1, <1>5, <2>2 DEF Lookup
  <2> QED BY <2>1, <2>2
<1>6. ASSUME NEW t \in Irps, Return(t)
      PROVE  RefsExact'
  <2>1. irec[t] \in Records
    BY <1>6 DEF Return, IrpInv, IrpOK
  <2>2. \A r \in Records : rec'[r].refs = rec[r].refs - (IF r = irec[t] THEN 1 ELSE 0)
    BY <1>6, <2>1, DroppedFacts DEF Return
  <2>3. ASSUME NEW r \in Records
        PROVE  Cardinality(HandlersOf(r))' = Cardinality(HandlersOf(r))
                                             - (IF r = irec[t] THEN 1 ELSE 0)
    <3>1. HandlersOf(r) \ {t} = HandlersOf(r)' \ {t}
      BY <1>6 DEF Return, HandlersOf, TypeOK
    <3>2. t \notin HandlersOf(r)' /\ (t \in HandlersOf(r) <=> r = irec[t])
      BY <1>6, DriverHookAssumption DEF Return, HandlersOf, TypeOK
    <3> QED BY <3>1, <3>2, OneDiffers, Finite, FinitePrime DEF Bit
  <2>4. \A r \in Records : Cardinality(HandlersOf(r)) \in Int /\ rec[r].refs \in Int
    BY Finite DEF TypeOK, Record
  <2>5. UNCHANGED <<client, handles, table>>
    BY <1>6 DEF Return
  <2> QED BY <2>2, <2>3, <2>4, <2>5, BalanceOthers DEF Bit
<1>7. CASE UnloadBegin \/ UnloadWait
  BY <1>1, <1>7 DEF UnloadBegin, UnloadWait
<1>8. CASE UnloadRestore
  BY <1>1, <1>8 DEF UnloadRestore, TypeOK, Record
<1>9. CASE UnloadDrop
  <2>1. CASE table = Nobody
    BY <1>1, <1>9, <2>1 DEF UnloadDrop
  <2>2. CASE table # Nobody
    <3>1. table \in Records
      BY <2>2 DEF TypeOK
    <3>2. \A r \in Records : rec'[r].refs = rec[r].refs - (IF r = table THEN 1 ELSE 0)
      BY <1>9, <2>2, <3>1, DroppedFacts DEF UnloadDrop
    <3>3. \A r \in Records : Cardinality(HandlersOf(r))' = Cardinality(HandlersOf(r))
      BY <1>9 DEF UnloadDrop, HandlersOf
    <3>4. \A r \in Records : Cardinality(HandlersOf(r)) \in Int /\ rec[r].refs \in Int
      BY Finite DEF TypeOK, Record
    <3>5. UNCHANGED <<client, handles>> /\ table' = Nobody
      BY <1>9 DEF UnloadDrop
    <3> QED BY <3>2, <3>3, <3>4, <3>5, BalanceOthers, DriverHookAssumption DEF Bit
  <2> QED BY <2>1, <2>2
<1> QED BY <1>2, <1>3, <1>4, <1>5, <1>6, <1>7, <1>8, <1>9 DEF Next, IrpStep, UnloadStep

LEMMA ValidAlive ==
  ASSUME TypeOK, Hands, Roles, RefsExact, LiveInv, Tables, unload = "no"
  PROVE  \A r \in valid : rec[r].live
<1>1. CASE Controllers = {}
  BY <1>1 DEF Tables
<1>2. ASSUME NEW c \in Controllers
      PROVE  valid \subseteq {table, hand[c]} \ {Nobody}
                /\ (hand[c] \in valid => pc[c] # "translate" \/ table = hand[c])
  BY <1>2, DriverHookAssumption
     DEF Tables, TableOK, TypeOK, UnhookPlaces, Mine, TablePlaces
<1> QED BY <1>1, <1>2, Alive, DriverHookAssumption DEF TypeOK

\* A record that is dropped lives on unless that was its last reference.
LEMMA LiveDrop ==
  ASSUME TypeOK, LiveInv, RefsExact', NEW r \in Records, rec' = Dropped(r, 1)
  PROVE  LiveInv'
<1>1. \A q \in Records : rec'[q].refs >= 0
  BY FinitePrime DEF RefsExact, Holds
<1> QED BY <1>1, DroppedFacts DEF LiveInv, TypeOK, Record

LEMMA LiveRefer ==
  ASSUME TypeOK, LiveInv, NEW r \in Records, rec[r].live, rec' = Referenced(r)
  PROVE  LiveInv'
  BY ReferencedFacts DEF LiveInv, TypeOK, Record

\* What is used is what is counted.
LEMMA LiveStep ==
  ASSUME TypeOK, TypeOK', OneController, Roles, Hands, RefsExact, RefsExact', LiveInv,
         Tables, IrpInv, [Next]_vars
  PROVE  LiveInv'
<1> USE DEF tables, client, irps, Goto, Proceed, At
<1>1. ASSUME \A r \in Records : rec'[r].refs = rec[r].refs /\ rec'[r].live = rec[r].live
      PROVE  LiveInv'
  BY <1>1 DEF LiveInv
<1>2. CASE UNCHANGED rec
  BY <1>1, <1>2
<1>3. ASSUME NEW c \in Clients
      PROVE  hand[c] \in Records \/ hand[c] = Nobody
  BY <1>3 DEF TypeOK
<1>4. ASSUME NEW c \in Clients, EnableMark(c) \/ UnhookClear(c) \/ Store(c)
                                \/ DisableUnmark(c) \/ \E mon \in BOOLEAN : SetMore(c, mon)
      PROVE  LiveInv'
  BY <1>1, <1>4 DEF EnableMark, UnhookClear, Store, DisableUnmark, SetMore, TypeOK, Record
<1>5. ASSUME NEW c \in Clients, HookInsert(c)
      PROVE  LiveInv'
  <2>1. hand[c] \in Records
    BY <1>5 DEF HookInsert, TypeOK, Hands, HandOK, Roles, RoleOK
  <2> QED BY <1>2, <1>5, <2>1, Alive, LiveRefer, DriverHookAssumption DEF HookInsert
<1>6. ASSUME NEW c \in Clients, TranslateRefer(c)
      PROVE  LiveInv'
  <2>1. hand[c] \in Records /\ table = hand[c]
    BY <1>6 DEF TranslateRefer, TypeOK, Hands, HandOK, Roles, RoleOK, Tables, TableOK,
                Mine, TablePlaces
  <2> QED BY <1>6, <2>1, Alive, LiveRefer, DriverHookAssumption DEF TranslateRefer
<1>7. ASSUME NEW c \in Clients, NEW r \in Records, OpenById(c, r)
      PROVE  LiveInv'
  <2>1. rec[r].live
    BY <1>7, ValidAlive DEF OpenById, Start
  <2> QED BY <1>7, <2>1, LiveRefer DEF OpenById
<1>8. ASSUME NEW c \in Clients, NEW h \in Handles, HandleCreate(c, h)
      PROVE  LiveInv'
  <2>1. hand[c] \in Records
    BY <1>8 DEF HandleCreate, TypeOK, Hands, HandOK, Roles, RoleOK
  <2> QED BY <1>8, <2>1, Alive, LiveRefer, DriverHookAssumption DEF HandleCreate
<1>9. ASSUME NEW c \in Clients, UnhookDrop(c) \/ CloseDereference(c) \/ Dereference(c)
      PROVE  LiveInv'
  <2>1. hand[c] \in Records
    BY <1>9 DEF UnhookDrop, CloseDereference, Dereference, TypeOK, Hands, HandOK,
                Roles, RoleOK
  <2> QED BY <1>9, <2>1, LiveDrop DEF UnhookDrop, CloseDereference, Dereference
<1>10. ASSUME NEW c \in Clients, NEW r \in Records, NEW mon \in BOOLEAN,
              HookCreate(c, r, mon)
      PROVE  LiveInv'
  BY <1>10 DEF HookCreate, LiveInv, TypeOK, Record
<1>11. ASSUME NEW c \in Clients, Cleanup(c)
      PROVE  LiveInv'
  <2> SUFFICES ASSUME NEW r \in Records
               PROVE  rec'[r].live <=> rec'[r].refs > 0
    BY DEF LiveInv
  <2>1. CASE HandlesOf(r) = {}
    BY <1>11, <2>1 DEF Cleanup, LiveInv
  <2>2. CASE HandlesOf(r) # {} /\ rec[r].refs = Cardinality(HandlesOf(r))
    <3>1. rec'[r] = Freed
      BY <1>11, <2>2 DEF Cleanup, TypeOK, Dropped
    <3> QED BY <3>1 DEF Freed
  <2>3. CASE HandlesOf(r) # {} /\ rec[r].refs # Cardinality(HandlesOf(r))
    <3>1. rec'[r] = [rec[r] EXCEPT !.refs = rec[r].refs - Cardinality(HandlesOf(r))]
      BY <1>11, <2>3 DEF Cleanup, TypeOK, Dropped
    <3>2. rec[r].live /\ rec[r] \in Record
      BY <2>3, Alive, DriverHookAssumption DEF HandlesOf, TypeOK
    <3>3. rec'[r].refs >= 0
      BY FinitePrime DEF RefsExact, Holds
    <3>4. rec'[r].live = rec[r].live
           /\ rec'[r].refs = rec[r].refs - Cardinality(HandlesOf(r))
      BY <3>1, <3>2 DEF Record
    <3> QED BY <2>3, <3>2, <3>3, <3>4, Finite DEF Record
  <2> QED BY <2>1, <2>2, <2>3
<1>12. ASSUME NEW t \in Irps, Lookup(t)
      PROVE  LiveInv'
  BY <1>2, <1>12, Alive, LiveRefer, DriverHookAssumption DEF Lookup, TypeOK
<1>13. ASSUME NEW t \in Irps, Return(t)
      PROVE  LiveInv'
  BY <1>13, LiveDrop DEF Return, IrpInv, IrpOK
<1>14. CASE UnloadRestore
  BY <1>1, <1>14 DEF UnloadRestore, TypeOK, Record
<1>15. CASE UnloadDrop
  BY <1>2, <1>15, LiveDrop DEF UnloadDrop, TypeOK
<1> QED BY <1>2, <1>4, <1>5, <1>6, <1>7, <1>8, <1>9, <1>10, <1>11, <1>12, <1>13,
        <1>14, <1>15
        DEF Next, ClientBegin, ClientStep, IrpStep, UnloadStep, vars, Send, Call,
        UnloadBegin, UnloadWait, HookValidate, HookCheck, UnhookDelete, UnhookFlag,
        UnhookRestore, UnhookInvalidate, Enable, Exchange, Disable, DisablePutBack, Set,
        Output, HandleCreateFail, CloseDelete, Translate, Close

-----------------------------------------------------------------------------
(* Tables.                                                                 *)

LEMMA CleanupSettings ==
  ASSUME TypeOK, NEW c \in Clients, Cleanup(c)
  PROVE  SameSettings
<1> SUFFICES ASSUME NEW r \in Records, rec'[r].live
             PROVE  /\ rec[r].live /\ rec'[r].enabled = rec[r].enabled
                    /\ rec'[r].mon = rec[r].mon /\ rec'[r].old = rec[r].old
  BY DEF SameSettings
<1>1. CASE HandlesOf(r) = {}
  BY <1>1 DEF Cleanup
<1>2. CASE HandlesOf(r) # {} /\ rec[r].refs = Cardinality(HandlesOf(r))
  <2>1. rec'[r] = Freed
    BY <1>2 DEF Cleanup, TypeOK, Dropped
  <2> QED BY <2>1 DEF Freed
<1>3. CASE HandlesOf(r) # {} /\ rec[r].refs # Cardinality(HandlesOf(r))
  <2>1. rec'[r] = [rec[r] EXCEPT !.refs = rec[r].refs - Cardinality(HandlesOf(r))]
    BY <1>3 DEF Cleanup, TypeOK, Dropped
  <2>2. rec[r] \in Record
    BY DEF TypeOK
  <2> QED BY <2>1, <2>2 DEF Record
<1> QED BY <1>1, <1>2, <1>3

\* A client that does not hook only opens and closes.
LEMMA Bystander ==
  ASSUME TypeOK, Roles, Hands, NEW c \in Clients, c \notin Controllers,
         ClientBegin(c) \/ ClientStep(c)
  PROVE  UNCHANGED <<slot, table, valid, irps, unload>> /\ SameSettings
<1> USE DEF tables, client, irps, Goto, Proceed, At
<1>1. ASSUME UNCHANGED rec
      PROVE  SameSettings
  BY <1>1 DEF SameSettings
<1>2. RoleOK(c) /\ HandOK(c)
  BY DEF Roles, Hands
<1>3. CASE CloseDereference(c) \/ Dereference(c)
  <2>1. hand[c] \in Records
    BY <1>2, <1>3 DEF CloseDereference, Dereference, TypeOK, HandOK, RoleOK
  <2> QED BY <1>3, <2>1, DroppedFacts DEF CloseDereference, Dereference
<1>4. ASSUME NEW h \in Handles, HandleCreate(c, h)
      PROVE  UNCHANGED <<slot, table, valid, irps, unload>> /\ SameSettings
  <2>1. hand[c] \in Records
    BY <1>2, <1>4 DEF HandleCreate, TypeOK, HandOK, RoleOK
  <2> QED BY <1>4, <2>1, ReferencedFacts DEF HandleCreate
<1>5. ASSUME NEW r \in Records, OpenById(c, r)
      PROVE  UNCHANGED <<slot, table, valid, irps, unload>> /\ SameSettings
  BY <1>5, ReferencedFacts DEF OpenById
<1>6. CASE Cleanup(c)
  BY <1>6, CleanupSettings DEF Cleanup
<1>7. CASE HandleCreateFail(c) \/ Output(c) \/ CloseDelete(c)
  BY <1>1, <1>7 DEF HandleCreateFail, Output, CloseDelete
<1>8. ASSUME NEW h \in Handles, Close(c, h)
      PROVE  UNCHANGED <<slot, table, valid, irps, unload>> /\ SameSettings
  BY <1>1, <1>8 DEF Close
<1>9. ~(HookInsert(c) \/ HookValidate(c) \/ HookCheck(c) \/ UnhookDelete(c) \/
        UnhookFlag(c) \/ UnhookRestore(c) \/ UnhookClear(c) \/ UnhookInvalidate(c) \/
        UnhookDrop(c) \/ Enable(c) \/ EnableMark(c) \/ Exchange(c) \/ Store(c) \/
        Disable(c) \/ DisableUnmark(c) \/ DisablePutBack(c) \/ Set(c) \/
        TranslateRefer(c))
  BY <1>2
     DEF HookInsert, HookValidate, HookCheck, UnhookDelete, UnhookFlag, UnhookRestore,
         UnhookClear, UnhookInvalidate, UnhookDrop, Enable, EnableMark, Exchange,
         Store, Disable, DisableUnmark, DisablePutBack, Set, TranslateRefer, RoleOK,
         UnhookPlaces
<1>10. ~\E mon \in BOOLEAN : SetMore(c, mon)
  BY <1>2 DEF SetMore, RoleOK
<1>11. /\ ~\E r \in Records, mon \in BOOLEAN : HookCreate(c, r, mon)
       /\ ~\E h \in Handles, service \in {"unhook", "enable", "disable", "set"} :
             Translate(c, service, h)
  BY DEF HookCreate, Translate
<1> QED BY <1>3, <1>4, <1>5, <1>6, <1>7, <1>8, <1>9, <1>10, <1>11
    DEF ClientBegin, ClientStep

\* While a client is busy the driver is not unloaded.
LEMMA BusyClient ==
  ASSUME Roles, UnloadInv, NEW c \in Clients, ClientBegin(c) \/ ClientStep(c)
  PROVE  unload = "no" /\ unload' = "no"
<1> USE DEF At, UnloadInv
<1>1. CASE HookInsert(c)
  BY <1>1 DEF HookInsert
<1>2. CASE HookValidate(c)
  BY <1>2 DEF HookValidate
<1>3. CASE HookCheck(c)
  BY <1>3 DEF HookCheck
<1>4. CASE UnhookDelete(c)
  BY <1>4 DEF UnhookDelete
<1>5. CASE UnhookFlag(c)
  BY <1>5 DEF UnhookFlag
<1>6. CASE UnhookRestore(c)
  BY <1>6 DEF UnhookRestore
<1>7. CASE UnhookClear(c)
  BY <1>7 DEF UnhookClear
<1>8. CASE UnhookInvalidate(c)
  BY <1>8 DEF UnhookInvalidate
<1>9. CASE UnhookDrop(c)
  BY <1>9 DEF UnhookDrop
<1>10. CASE Enable(c)
  BY <1>10 DEF Enable
<1>11. CASE EnableMark(c)
  BY <1>11 DEF EnableMark
<1>12. CASE Exchange(c)
  BY <1>12 DEF Exchange
<1>13. CASE Store(c)
  BY <1>13 DEF Store
<1>14. CASE Disable(c)
  BY <1>14 DEF Disable
<1>15. CASE DisableUnmark(c)
  BY <1>15 DEF DisableUnmark
<1>16. CASE DisablePutBack(c)
  BY <1>16 DEF DisablePutBack
<1>17. CASE Set(c)
  BY <1>17 DEF Set
<1>18. CASE TranslateRefer(c)
  BY <1>18 DEF TranslateRefer
<1>19. CASE Output(c)
  BY <1>19 DEF Output
<1>20. CASE HandleCreateFail(c)
  BY <1>20 DEF HandleCreateFail
<1>21. CASE CloseDelete(c)
  BY <1>21 DEF CloseDelete
<1>22. CASE CloseDereference(c)
  BY <1>22 DEF CloseDereference
<1>23. CASE Dereference(c)
  BY <1>23 DEF Dereference
<1>24. ASSUME NEW mon \in BOOLEAN, SetMore(c, mon)
      PROVE  unload = "no" /\ unload' = "no"
  BY <1>24 DEF SetMore
<1>25. ASSUME NEW h \in Handles, HandleCreate(c, h)
      PROVE  unload = "no" /\ unload' = "no"
  BY <1>25 DEF HandleCreate
<1>26. ASSUME NEW r \in Records, NEW mon \in BOOLEAN, HookCreate(c, r, mon)
      PROVE  unload = "no" /\ unload' = "no"
  BY <1>26 DEF HookCreate, Start
<1>27. ASSUME NEW h \in Handles, NEW service \in {"unhook", "enable", "disable",
             "set"}, Translate(c, service, h)
      PROVE  unload = "no" /\ unload' = "no"
  BY <1>27 DEF Translate, Start
<1>28. ASSUME NEW r \in Records, OpenById(c, r)
      PROVE  unload = "no" /\ unload' = "no"
  BY <1>28 DEF OpenById, Start
<1>29. ASSUME NEW h \in Handles, Close(c, h)
      PROVE  unload = "no" /\ unload' = "no"
  BY <1>29 DEF Close, Start
<1>30. CASE Cleanup(c)
  BY <1>30 DEF Cleanup
<1> QED BY <1>1, <1>2, <1>3, <1>4, <1>5, <1>6, <1>7, <1>8, <1>9, <1>10, <1>11, <1>12,
        <1>13, <1>14, <1>15, <1>16, <1>17, <1>18, <1>19, <1>20, <1>21, <1>22, <1>23,
        <1>24, <1>25, <1>26, <1>27, <1>28, <1>29, <1>30
    DEF ClientBegin, ClientStep

LEMMA ControllerTables ==
  ASSUME TypeOK, TypeOK', OneController, Roles, Hands, UnloadInv, NEW c \in Controllers,
         TableOK(c), ClientBegin(c) \/ ClientStep(c)
  PROVE  TableOK(c)'
<1> USE DEF Goto, Proceed, At, tables, client, irps, UnhookPlaces, Mine, TablePlaces
<1> c \in Clients
  BY DriverHookAssumption
<1>0. RoleOK(c) /\ HandOK(c) /\ unload = "no" /\ unload' = "no"
  BY BusyClient DEF Roles, Hands
<1>1. CASE HookInsert(c)
  BY <1>0, <1>1, DriverHookAssumption
     DEF HookInsert, TypeOK, RoleOK, HandOK, TableOK
<1>2. CASE HookValidate(c)
  BY <1>0, <1>2, DriverHookAssumption
     DEF HookValidate, TypeOK, RoleOK, HandOK, TableOK
<1>3. CASE HookCheck(c)
  BY <1>0, <1>3, DriverHookAssumption
     DEF HookCheck, TypeOK, RoleOK, HandOK, TableOK
<1>4. CASE UnhookDelete(c)
  BY <1>0, <1>4, DriverHookAssumption
     DEF UnhookDelete, TypeOK, RoleOK, HandOK, TableOK
<1>5. CASE UnhookFlag(c)
  BY <1>0, <1>5, DriverHookAssumption
     DEF UnhookFlag, TypeOK, RoleOK, HandOK, TableOK
<1>6. CASE UnhookRestore(c)
  BY <1>0, <1>6, DriverHookAssumption
     DEF UnhookRestore, TypeOK, RoleOK, HandOK, TableOK
<1>7. CASE UnhookClear(c)
  BY <1>0, <1>7, DriverHookAssumption
     DEF UnhookClear, TypeOK, RoleOK, HandOK, TableOK
<1>8. CASE UnhookInvalidate(c)
  BY <1>0, <1>8, DriverHookAssumption
     DEF UnhookInvalidate, TypeOK, RoleOK, HandOK, TableOK
<1>9. CASE UnhookDrop(c)
  BY <1>0, <1>9, DriverHookAssumption
     DEF UnhookDrop, TypeOK, RoleOK, HandOK, TableOK
<1>10. CASE Enable(c)
  BY <1>0, <1>10, DriverHookAssumption
     DEF Enable, TypeOK, RoleOK, HandOK, TableOK
<1>11. CASE EnableMark(c)
  BY <1>0, <1>11, DriverHookAssumption
     DEF EnableMark, TypeOK, RoleOK, HandOK, TableOK
<1>12. CASE Exchange(c)
  BY <1>0, <1>12, DriverHookAssumption
     DEF Exchange, AfterHooking, TypeOK, RoleOK, HandOK, TableOK
<1>13. CASE Store(c)
  BY <1>0, <1>13, DriverHookAssumption
     DEF Store, AfterHooking, TypeOK, RoleOK, HandOK, TableOK
<1>14. CASE Disable(c)
  BY <1>0, <1>14, DriverHookAssumption
     DEF Disable, TypeOK, RoleOK, HandOK, TableOK
<1>15. CASE DisableUnmark(c)
  BY <1>0, <1>15, DriverHookAssumption
     DEF DisableUnmark, TypeOK, RoleOK, HandOK, TableOK
<1>16. CASE DisablePutBack(c)
  BY <1>0, <1>16, DriverHookAssumption
     DEF DisablePutBack, TypeOK, RoleOK, HandOK, TableOK
<1>17. CASE Set(c)
  BY <1>0, <1>17, DriverHookAssumption
     DEF Set, TypeOK, RoleOK, HandOK, TableOK
<1>18. CASE TranslateRefer(c)
  BY <1>0, <1>18, DriverHookAssumption
     DEF TranslateRefer, TypeOK, RoleOK, HandOK, TableOK
<1>19. CASE Output(c)
  BY <1>0, <1>19, DriverHookAssumption
     DEF Output, TypeOK, RoleOK, HandOK, TableOK
<1>20. CASE HandleCreateFail(c)
  BY <1>0, <1>20, DriverHookAssumption
     DEF HandleCreateFail, AfterFailure, TypeOK, RoleOK, HandOK, TableOK
<1>21. CASE CloseDelete(c)
  BY <1>0, <1>21, DriverHookAssumption
     DEF CloseDelete, AfterFailure, Leave, TypeOK, RoleOK, HandOK, TableOK
<1>22. CASE CloseDereference(c)
  BY <1>0, <1>22, DriverHookAssumption
     DEF CloseDereference, AfterFailure, Leave, TypeOK, RoleOK, HandOK, TableOK
<1>23. CASE Dereference(c)
  BY <1>0, <1>23, DriverHookAssumption
     DEF Dereference, Leave, TypeOK, RoleOK, HandOK, TableOK
<1>24. ASSUME NEW mon \in BOOLEAN, SetMore(c, mon)
      PROVE  TableOK(c)'
  BY <1>0, <1>24, DriverHookAssumption
     DEF SetMore, TypeOK, RoleOK, HandOK, TableOK
<1>25. ASSUME NEW h \in Handles, HandleCreate(c, h)
      PROVE  TableOK(c)'
  BY <1>0, <1>25, DriverHookAssumption
     DEF HandleCreate, TypeOK, RoleOK, HandOK, TableOK
<1>26. ASSUME NEW r \in Records, NEW mon \in BOOLEAN, HookCreate(c, r, mon)
      PROVE  TableOK(c)'
  BY <1>0, <1>26, DriverHookAssumption
     DEF HookCreate, Start, TypeOK, RoleOK, HandOK, TableOK
<1>27. ASSUME NEW h \in Handles, NEW service \in {"unhook", "enable", "disable",
             "set"}, Translate(c, service, h)
      PROVE  TableOK(c)'
  BY <1>0, <1>27, DriverHookAssumption
     DEF Translate, Start, TypeOK, RoleOK, HandOK, TableOK, OneController
<1>28. ASSUME NEW r \in Records, OpenById(c, r)
      PROVE  TableOK(c)'
  BY <1>0, <1>28, DriverHookAssumption
     DEF OpenById, Start, TypeOK, RoleOK, HandOK, TableOK
<1>29. ASSUME NEW h \in Handles, Close(c, h)
      PROVE  TableOK(c)'
  BY <1>0, <1>29, DriverHookAssumption
     DEF Close, Start, TypeOK, RoleOK, HandOK, TableOK
<1>30. CASE Cleanup(c)
  BY <1>0, <1>30, DriverHookAssumption
     DEF Cleanup, TypeOK, RoleOK, HandOK, TableOK
<1> QED BY <1>1, <1>2, <1>3, <1>4, <1>5, <1>6, <1>7, <1>8, <1>9, <1>10, <1>11, <1>12,
        <1>13, <1>14, <1>15, <1>16, <1>17, <1>18, <1>19, <1>20, <1>21, <1>22, <1>23,
        <1>24, <1>25, <1>26, <1>27, <1>28, <1>29, <1>30
    DEF ClientBegin, ClientStep

\* The tables follow the one controller.
LEMMA TablesStep ==
  ASSUME TypeOK, TypeOK', OneController, Roles, Hands, Tables, UnloadInv, [Next]_vars
  PROVE  Tables'
<1> USE DEF tables, client, irps
<1>1. ASSUME UNCHANGED <<client, table, valid, unload>>
      PROVE  Tables'
  BY <1>1 DEF Tables, TableOK, Mine
<1>2. CASE UNCHANGED vars
  BY <1>1, <1>2 DEF vars
<1>3. ASSUME NEW t \in Irps, Send(t) \/ IrpStep(t)
      PROVE  Tables'
  BY <1>1, <1>3 DEF Send, IrpStep, Lookup, Call, Return
<1>4. CASE UnloadBegin \/ UnloadStep
  <2>1. \A c \in Clients : pc'[c] = "idle" /\ op'[c] = "none"
    BY <1>4 DEF UnloadBegin, UnloadStep, UnloadRestore, UnloadDrop, UnloadWait,
                UnloadInv, Roles, RoleOK
  <2>2. valid' = {} /\ unload' # "no" /\ table' \in {table, Nobody}
    BY <1>4 DEF UnloadBegin, UnloadStep, UnloadRestore, UnloadDrop, UnloadWait, UnloadInv
  <2> QED BY <2>1, <2>2, DriverHookAssumption
      DEF Tables, TableOK, Mine, TablePlaces, UnhookPlaces
<1>5. ASSUME NEW c \in Clients, c \notin Controllers, ClientBegin(c) \/ ClientStep(c)
      PROVE  Tables'
  <2>1. UNCHANGED <<table, valid, unload>> /\ Alone(c)
    BY <1>5, Bystander, ActsAlone
  <2> QED BY <1>5, <2>1, DriverHookAssumption DEF Tables, TableOK, Mine, Alone
<1>6. ASSUME NEW c \in Controllers, ClientBegin(c) \/ ClientStep(c)
      PROVE  Tables'
  <2>1. TableOK(c)'
    BY <1>6, ControllerTables DEF Tables
  <2> QED BY <2>1 DEF Tables, OneController
<1> QED BY <1>2, <1>3, <1>4, <1>5, <1>6 DEF Next

-----------------------------------------------------------------------------
(* The driver's entries.                                                   *)

\* A step that leaves the settings of the records in use alone leaves the entries
\* matching them.
LEMMA SettledKept ==
  ASSUME TypeOK, Settled, SameSettings, UNCHANGED <<slot, table>>,
         TypeOK', RefsExact', LiveInv',
         \A c \in Controllers : pc'[c] \notin Changing => pc[c] \notin Changing
  PROVE  Settled'
<1>1. table # Nobody => table \in Records /\ rec'[table].live
  <2>1. ASSUME table # Nobody
        PROVE  Holds(table)' > 0
    BY <2>1, FinitePrime DEF Holds
  <2> QED BY <2>1 DEF RefsExact, LiveInv, TypeOK
<1> QED BY <1>1 DEF Settled, Hooked, SameSettings

LEMMA HandLive ==
  ASSUME TypeOK', Roles', Hands', RefsExact', LiveInv', NEW c \in Clients,
         pc'[c] \in {"insert", "validate", "check", "mark", "setmore", "putback",
                     "invalidate", "drop", "exchange", "store", "restore", "clear",
                     "unmark", "flag"}
  PROVE  hand'[c] \in Records /\ rec'[hand'[c]].live
<1>1. hand'[c] \in Records
  BY DEF TypeOK, Hands, HandOK
<1>2. ASSUME NEW r \in Records, hand'[c] = r
      PROVE  rec'[r].live
  <2>1. c \in Holders(r, 1)'
    BY <1>2 DEF Holders, Own, UnhookPlaces
  <2>2. Cardinality(Holders(r, 1)') > 0
    BY <2>1, FinitePrime, FS_EmptySet
  <2>3. Holds(r)' > 0
    BY <2>2, FinitePrime DEF Holds
  <2> QED BY <2>3 DEF RefsExact, LiveInv
<1> QED BY <1>1, <1>2

LEMMA SlotsKept ==
  ASSUME TypeOK, Slots, SameSettings, UNCHANGED <<slot, table>>,
         TypeOK', Roles', Hands', RefsExact', LiveInv',
         \A c \in Controllers : UNCHANGED <<pc[c], hand[c], kept[c]>>
  PROVE  Slots'
<1>1. Settled'
  BY SettledKept DEF Slots
<1>2. ASSUME NEW c \in Controllers
      PROVE  SlotOK(c)'
  <2>1. SlotOK(c) /\ UNCHANGED <<pc[c], hand[c], kept[c]>>
    BY DEF Slots
  <2>2. CASE pc[c] \in {"insert", "validate", "check", "mark", "setmore", "putback",
                        "invalidate", "drop", "exchange", "store", "restore", "clear",
                        "unmark", "flag"}
    <3>1. hand[c] \in Records /\ rec'[hand[c]].live
      BY <2>1, <2>2, HandLive, DriverHookAssumption
    <3> QED BY <2>1, <3>1 DEF SlotOK, Hooked, SameSettings
  <2>3. CASE pc[c] \notin {"insert", "validate", "check", "mark", "setmore", "putback",
                        "invalidate", "drop", "exchange", "store", "restore", "clear",
                        "unmark", "flag"}
    BY <2>1, <2>3 DEF SlotOK
  <2> QED BY <2>2, <2>3
<1> QED BY <1>1, <1>2 DEF Slots

LEMMA ControllerSlots ==
  ASSUME TypeOK, TypeOK', OneController, Roles, Roles', Hands, Hands', RefsExact,
         RefsExact', LiveInv, LiveInv', Tables, Slots, UnloadInv,
         NEW c \in Controllers, ClientBegin(c) \/ ClientStep(c)
  PROVE  SlotOK(c)' /\ Settled'
<1> USE DEF Goto, Proceed, At, tables, client, irps, Changing, Exposing, Hooked, Original
<1> c \in Clients
  BY DriverHookAssumption
<1>0. RoleOK(c) /\ HandOK(c) /\ SlotOK(c) /\ TableOK(c) /\ Settled
  BY DEF Roles, Hands, Slots, Tables
<1>a. hand[c] \in Records \cup {Nobody} /\ \A d \in Controllers : d = c
  BY DEF TypeOK, OneController
<1>b. Alone(c) /\ unload = "no"
  BY ActsAlone, BusyClient
<1>c. UNCHANGED rec => SameSettings
  BY DEF SameSettings
<1>1. CASE HookInsert(c)
  <2>1. hand[c] \in Records
    BY <1>0, <1>a, <1>1 DEF HookInsert, HandOK
  <2>2. SameSettings
    BY <1>c, <1>1, <2>1, ReferencedFacts DEF HookInsert
  <2>3. table' # Nobody => table' \in Records /\ rec'[table'].live
    BY <1>0, <1>1, <2>1, Alive, ReferencedFacts, DriverHookAssumption DEF HookInsert, TypeOK
  <2>4. rec[hand[c]].live
    BY <2>1, <1>1, Alive, DriverHookAssumption DEF HookInsert
  <2>5. rec'[hand[c]].live
    BY <2>1, <2>4, <1>1, ReferencedFacts DEF HookInsert
  <2> QED BY <1>0, <1>a, <1>1, <2>1, <2>2, <2>3, <2>5, DriverHookAssumption
      DEF HookInsert, TypeOK, SlotOK, Settled, SameSettings
<1>2. CASE HookValidate(c)
  BY <1>0, <1>a, <1>b, <1>2, DriverHookAssumption
     DEF HookValidate, TypeOK, Record, RoleOK, HandOK, TableOK, Mine, TablePlaces, UnhookPlaces, SlotOK, Settled
<1>3. CASE HookCheck(c)
  BY <1>0, <1>a, <1>b, <1>3, DriverHookAssumption
     DEF HookCheck, TypeOK, Record, RoleOK, HandOK, TableOK, Mine, TablePlaces, UnhookPlaces, SlotOK, Settled
<1>4. CASE UnhookDelete(c)
  BY <1>0, <1>a, <1>b, <1>4, DriverHookAssumption
     DEF UnhookDelete, TypeOK, Record, RoleOK, HandOK, TableOK, Mine, TablePlaces, UnhookPlaces, SlotOK, Settled
<1>5. CASE UnhookFlag(c)
  BY <1>0, <1>a, <1>b, <1>5, DriverHookAssumption
     DEF UnhookFlag, TypeOK, Record, RoleOK, HandOK, TableOK, Mine, TablePlaces, UnhookPlaces, SlotOK, Settled
<1>6. CASE UnhookRestore(c)
  BY <1>0, <1>a, <1>b, <1>6, DriverHookAssumption
     DEF UnhookRestore, TypeOK, Record, RoleOK, HandOK, TableOK, Mine, TablePlaces, UnhookPlaces, SlotOK, Settled
<1>7. CASE UnhookClear(c)
  BY <1>0, <1>a, <1>b, <1>7, DriverHookAssumption
     DEF UnhookClear, TypeOK, Record, RoleOK, HandOK, TableOK, Mine, TablePlaces, UnhookPlaces, SlotOK, Settled
<1>8. CASE UnhookInvalidate(c)
  BY <1>0, <1>a, <1>b, <1>8, DriverHookAssumption
     DEF UnhookInvalidate, TypeOK, Record, RoleOK, HandOK, TableOK, Mine, TablePlaces, UnhookPlaces, SlotOK, Settled
<1>9. CASE UnhookDrop(c)
  <2>1. table = Nobody /\ pc'[c] = "deref" /\ UNCHANGED <<slot, table>>
    BY <1>0, <1>9 DEF UnhookDrop, TableOK, TypeOK
  <2> QED BY <1>0, <1>a, <1>9, <2>1 DEF UnhookDrop, SlotOK, Settled
<1>10. CASE Enable(c)
  BY <1>0, <1>a, <1>b, <1>10, DriverHookAssumption
     DEF Enable, TypeOK, Record, RoleOK, HandOK, TableOK, Mine, TablePlaces, UnhookPlaces, SlotOK, Settled
<1>11. CASE EnableMark(c)
  BY <1>0, <1>a, <1>b, <1>11, DriverHookAssumption
     DEF EnableMark, TypeOK, Record, RoleOK, HandOK, TableOK, Mine, TablePlaces, UnhookPlaces, SlotOK, Settled
<1>12. CASE Exchange(c)
  BY <1>0, <1>a, <1>b, <1>12, DriverHookAssumption
     DEF Exchange, AfterHooking, TypeOK, Record, RoleOK, HandOK, TableOK, Mine, TablePlaces, UnhookPlaces, SlotOK, Settled
<1>13. CASE Store(c)
  BY <1>0, <1>a, <1>b, <1>13, DriverHookAssumption
     DEF Store, AfterHooking, TypeOK, Record, RoleOK, HandOK, TableOK, Mine, TablePlaces, UnhookPlaces, SlotOK, Settled
<1>14. CASE Disable(c)
  BY <1>0, <1>a, <1>b, <1>14, DriverHookAssumption
     DEF Disable, TypeOK, Record, RoleOK, HandOK, TableOK, Mine, TablePlaces, UnhookPlaces, SlotOK, Settled
<1>15. CASE DisableUnmark(c)
  BY <1>0, <1>a, <1>b, <1>15, DriverHookAssumption
     DEF DisableUnmark, TypeOK, Record, RoleOK, HandOK, TableOK, Mine, TablePlaces, UnhookPlaces, SlotOK, Settled
<1>16. CASE DisablePutBack(c)
  BY <1>0, <1>a, <1>b, <1>16, DriverHookAssumption
     DEF DisablePutBack, TypeOK, Record, RoleOK, HandOK, TableOK, Mine, TablePlaces, UnhookPlaces, SlotOK, Settled
<1>17. CASE Set(c)
  BY <1>0, <1>a, <1>b, <1>17, DriverHookAssumption
     DEF Set, TypeOK, Record, RoleOK, HandOK, TableOK, Mine, TablePlaces, UnhookPlaces, SlotOK, Settled
<1>18. CASE TranslateRefer(c)
  <2>1. SameSettings
    <3>1. hand[c] \in Records
      BY <1>0, <1>a, <1>18 DEF TranslateRefer, HandOK, RoleOK
    <3> QED BY <1>18, <3>1, ReferencedFacts DEF TranslateRefer
  <2>2. pc[c] \notin Changing /\ UNCHANGED <<slot, table>>
    BY <1>0, <1>18 DEF TranslateRefer
  <2>3. SlotOK(c)'
    BY <1>0, <1>18 DEF TranslateRefer, SlotOK, RoleOK, TypeOK
  <2> QED BY <1>0, <1>a, <2>1, <2>2, <2>3, SettledKept
<1>19. CASE Output(c)
  <2>1. SameSettings
    BY <1>c, <1>19 DEF Output
  <2>2. pc[c] \notin Changing /\ UNCHANGED <<slot, table>>
    BY <1>0, <1>19 DEF Output
  <2>3. SlotOK(c)'
    BY <1>0, <1>19 DEF Output, SlotOK, RoleOK, TypeOK
  <2> QED BY <1>0, <1>a, <2>1, <2>2, <2>3, SettledKept
<1>20. CASE HandleCreateFail(c)
  <2>1. SameSettings
    BY <1>c, <1>20 DEF HandleCreateFail
  <2>2. pc[c] \notin Changing /\ UNCHANGED <<slot, table>>
    BY <1>0, <1>20 DEF HandleCreateFail, AfterFailure
  <2>3. SlotOK(c)'
    BY <1>0, <1>20 DEF HandleCreateFail, AfterFailure, SlotOK, RoleOK, TypeOK
  <2> QED BY <1>0, <1>a, <2>1, <2>2, <2>3, SettledKept
<1>21. CASE CloseDelete(c)
  <2>1. SameSettings
    BY <1>c, <1>21 DEF CloseDelete
  <2>2. pc[c] \notin Changing /\ UNCHANGED <<slot, table>>
    BY <1>0, <1>21 DEF CloseDelete, AfterFailure, Leave
  <2>3. SlotOK(c)'
    BY <1>0, <1>21 DEF CloseDelete, AfterFailure, Leave, SlotOK, RoleOK, TypeOK
  <2> QED BY <1>0, <1>a, <2>1, <2>2, <2>3, SettledKept
<1>22. CASE CloseDereference(c)
  <2>1. SameSettings
    <3>1. hand[c] \in Records
      BY <1>0, <1>a, <1>22 DEF CloseDereference, HandOK, RoleOK
    <3> QED BY <1>22, <3>1, DroppedFacts DEF CloseDereference
  <2>2. pc[c] \notin Changing /\ UNCHANGED <<slot, table>>
    BY <1>0, <1>22 DEF CloseDereference, AfterFailure, Leave
  <2>3. SlotOK(c)'
    BY <1>0, <1>22 DEF CloseDereference, AfterFailure, Leave, SlotOK, RoleOK, TypeOK
  <2> QED BY <1>0, <1>a, <2>1, <2>2, <2>3, SettledKept
<1>23. CASE Dereference(c)
  <2>1. SameSettings
    <3>1. hand[c] \in Records
      BY <1>0, <1>a, <1>23 DEF Dereference, HandOK, RoleOK
    <3> QED BY <1>23, <3>1, DroppedFacts DEF Dereference
  <2>2. pc[c] \notin Changing /\ UNCHANGED <<slot, table>>
    BY <1>0, <1>23 DEF Dereference, Leave
  <2>3. SlotOK(c)'
    BY <1>0, <1>23 DEF Dereference, Leave, SlotOK, RoleOK, TypeOK
  <2> QED BY <1>0, <1>a, <2>1, <2>2, <2>3, SettledKept
<1>24. ASSUME NEW mon \in BOOLEAN, SetMore(c, mon)
      PROVE  SlotOK(c)' /\ Settled'
  BY <1>0, <1>a, <1>b, <1>24, DriverHookAssumption
     DEF SetMore, TypeOK, Record, RoleOK, HandOK, TableOK, Mine, TablePlaces, UnhookPlaces, SlotOK, Settled
<1>25. ASSUME NEW h \in Handles, HandleCreate(c, h)
      PROVE  SlotOK(c)' /\ Settled'
  <2>1. SameSettings
    <3>1. hand[c] \in Records
      BY <1>0, <1>a, <1>25 DEF HandleCreate, HandOK, RoleOK
    <3> QED BY <1>25, <3>1, ReferencedFacts DEF HandleCreate
  <2>2. pc[c] \notin Changing /\ UNCHANGED <<slot, table>>
    BY <1>0, <1>25 DEF HandleCreate
  <2>3. SlotOK(c)'
    BY <1>0, <1>25 DEF HandleCreate, SlotOK, RoleOK, TypeOK
  <2> QED BY <1>0, <1>a, <2>1, <2>2, <2>3, SettledKept
<1>26. ASSUME NEW r \in Records, NEW mon \in BOOLEAN, HookCreate(c, r, mon)
      PROVE  SlotOK(c)' /\ Settled'
  <2>1. table # Nobody => table # r /\ table \in Records
    BY <1>26, Alive DEF HookCreate, TypeOK
  <2> QED BY <1>0, <1>a, <1>26, <2>1 DEF HookCreate, Start, TypeOK, SlotOK, Settled
<1>27. ASSUME NEW h \in Handles, NEW service \in {"unhook", "enable", "disable",
             "set"}, Translate(c, service, h)
      PROVE  SlotOK(c)' /\ Settled'
  <2>1. SameSettings
    BY <1>c, <1>27 DEF Translate
  <2>2. pc[c] \notin Changing /\ UNCHANGED <<slot, table>>
    BY <1>0, <1>27 DEF Translate, Start
  <2>3. SlotOK(c)'
    BY <1>0, <1>27 DEF Translate, Start, SlotOK, RoleOK, TypeOK
  <2> QED BY <1>0, <1>a, <2>1, <2>2, <2>3, SettledKept
<1>28. ASSUME NEW r \in Records, OpenById(c, r)
      PROVE  SlotOK(c)' /\ Settled'
  <2>1. SameSettings
    BY <1>28, ReferencedFacts DEF OpenById
  <2>2. pc[c] \notin Changing /\ UNCHANGED <<slot, table>>
    BY <1>0, <1>28 DEF OpenById, Start
  <2>3. SlotOK(c)'
    BY <1>0, <1>28 DEF OpenById, Start, SlotOK, RoleOK, TypeOK
  <2> QED BY <1>0, <1>a, <2>1, <2>2, <2>3, SettledKept
<1>29. ASSUME NEW h \in Handles, Close(c, h)
      PROVE  SlotOK(c)' /\ Settled'
  <2>1. SameSettings
    BY <1>c, <1>29 DEF Close
  <2>2. pc[c] \notin Changing /\ UNCHANGED <<slot, table>>
    BY <1>0, <1>29 DEF Close, Start
  <2>3. SlotOK(c)'
    BY <1>0, <1>29 DEF Close, Start, SlotOK, RoleOK, TypeOK
  <2> QED BY <1>0, <1>a, <2>1, <2>2, <2>3, SettledKept
<1>30. CASE Cleanup(c)
  <2>1. SameSettings
    BY <1>30, CleanupSettings
  <2>2. pc[c] \notin Changing /\ UNCHANGED <<slot, table>>
    BY <1>0, <1>30 DEF Cleanup
  <2>3. SlotOK(c)'
    BY <1>0, <1>30 DEF Cleanup, SlotOK, RoleOK, TypeOK
  <2> QED BY <1>0, <1>a, <2>1, <2>2, <2>3, SettledKept
<1> QED BY <1>1, <1>2, <1>3, <1>4, <1>5, <1>6, <1>7, <1>8, <1>9, <1>10, <1>11, <1>12,
        <1>13, <1>14, <1>15, <1>16, <1>17, <1>18, <1>19, <1>20, <1>21, <1>22, <1>23,
        <1>24, <1>25, <1>26, <1>27, <1>28, <1>29, <1>30
    DEF ClientBegin, ClientStep

\* The driver's entries follow its record.
LEMMA SlotsStep ==
  ASSUME TypeOK, TypeOK', OneController, Roles, Roles', Hands, Hands', RefsExact,
         RefsExact', LiveInv, LiveInv', Tables, Slots, IrpInv, UnloadInv, [Next]_vars
  PROVE  Slots'
<1> USE DEF tables, client, irps
<1>1. UNCHANGED rec => SameSettings
  BY DEF SameSettings
<1>2. CASE UNCHANGED vars
  BY <1>1, <1>2, SlotsKept DEF vars
<1>3. ASSUME NEW t \in Irps, Send(t) \/ IrpStep(t)
      PROVE  Slots'
  <2>1. SameSettings
    BY <1>1, <1>3, ReferencedFacts, DroppedFacts
       DEF Send, IrpStep, Lookup, Call, Return, IrpInv, IrpOK, TypeOK
  <2>2. UNCHANGED <<slot, table, client>>
    BY <1>3 DEF Send, IrpStep, Lookup, Call, Return
  <2> QED BY <2>1, <2>2, SlotsKept
<1>4. CASE UnloadBegin \/ UnloadWait
  BY <1>1, <1>4, SlotsKept DEF UnloadBegin, UnloadWait
<1>5. ASSUME UNCHANGED client, unload # "no", Settled'
      PROVE  Slots'
  <2>1. \A c \in Controllers : pc'[c] = "idle"
    BY <1>5, DriverHookAssumption DEF UnloadInv
  <2> QED BY <1>5, <2>1 DEF Slots, SlotOK
<1>6. ASSUME unload # "no"
      PROVE  IF table = Nobody THEN slot = "driver" ELSE Hooked(table, rec[table].enabled)
  BY <1>6, DriverHookAssumption DEF UnloadInv, Slots, Settled, Changing, Exposing
<1>7. CASE UnloadRestore
  <2>1. Settled'
    BY <1>6, <1>7 DEF UnloadRestore, Original, Settled, Hooked, TypeOK, Record
  <2> QED BY <1>5, <1>7, <2>1 DEF UnloadRestore
<1>8. CASE UnloadDrop
  <2>1. Settled'
    BY <1>6, <1>8 DEF UnloadDrop, UnloadInv, Settled, Hooked
  <2> QED BY <1>5, <1>8, <2>1 DEF UnloadDrop
<1>9. ASSUME NEW c \in Clients, c \notin Controllers, ClientBegin(c) \/ ClientStep(c)
      PROVE  Slots'
  <2>1. UNCHANGED <<slot, table>> /\ SameSettings /\ Alone(c)
    BY <1>9, Bystander, ActsAlone
  <2> QED BY <1>9, <2>1, SlotsKept, DriverHookAssumption DEF Alone
<1>10. ASSUME NEW c \in Controllers, ClientBegin(c) \/ ClientStep(c)
      PROVE  Slots'
  <2>1. SlotOK(c)' /\ Settled'
    BY <1>10, ControllerSlots
  <2> QED BY <2>1 DEF Slots, OneController
<1> QED BY <1>2, <1>3, <1>4, <1>7, <1>8, <1>9, <1>10 DEF Next, UnloadStep

-----------------------------------------------------------------------------
(* The IRPs and the unloading.                                             *)

\* What a handler holds stays as it is while the settings do.
LEMMA IrpsKept ==
  ASSUME TypeOK, TypeOK', RefsExact', LiveInv', IrpInv,
         NEW T \in SUBSET Irps, \A t \in T : UNCHANGED <<irp[t], irec[t], crossed[t]>>,
         SameSettings, table' = table, unload' = unload \/ unload # "no"
  PROVE  \A t \in T : IrpOK(t)'
<1> SUFFICES ASSUME NEW t \in T
             PROVE  IrpOK(t)'
  OBVIOUS
<1>1. IrpOK(t) /\ t \in Irps /\ UNCHANGED <<irp[t], irec[t], crossed[t]>>
  BY DEF IrpInv
<1>2. ASSUME NEW r \in Records, table = r \/ irec[t] = r
      PROVE  rec'[r].live
  <2>1. Holds(r)' > 0
    <3>1. CASE table = r
      BY <3>1, FinitePrime DEF Holds
    <3>2. CASE irec[t] = r
      <4>1. t \in HandlersOf(r)'
        BY <1>1, <3>2 DEF HandlersOf
      <4> QED BY <4>1, FinitePrime, FS_EmptySet DEF Holds
    <3> QED BY <1>2, <3>1, <3>2
  <2> QED BY <2>1 DEF RefsExact, LiveInv
<1>3. table # Nobody => table \in Records
  BY DEF TypeOK
<1> QED BY <1>1, <1>2, <1>3 DEF IrpOK, SameSettings

LEMMA ControllerIrps ==
  ASSUME TypeOK, TypeOK', OneController, Roles, Hands, RefsExact, LiveInv, RefsExact',
         LiveInv', Tables, Slots, IrpInv, UnloadInv,
         NEW c \in Controllers, ClientBegin(c) \/ ClientStep(c)
  PROVE  IrpInv'
<1> USE DEF Goto, Proceed, At, tables, client, irps
<1> c \in Clients
  BY DriverHookAssumption
<1>0. RoleOK(c) /\ HandOK(c) /\ SlotOK(c) /\ TableOK(c)
        /\ unload = "no" /\ unload' = "no"
  BY BusyClient DEF Roles, Hands, Slots, Tables
<1>1. ASSUME SameSettings, UNCHANGED <<table, irps>>
      PROVE  IrpInv'
  BY <1>0, <1>1, IrpsKept DEF IrpInv
<1>2. UNCHANGED rec => SameSettings
  BY DEF SameSettings
<1>3. ASSUME rec' \in [Records -> Record], UNCHANGED <<table, irps>>,
             \A r \in Records : rec[r].live => rec'[r].old \in {rec[r].old, "driver"}
      PROVE  IrpInv'
  <2> SUFFICES ASSUME NEW t \in Irps
               PROVE  IrpOK(t)'
    BY DEF IrpInv
  <2>1. IrpOK(t)
    BY DEF IrpInv
  <2>2. table # Nobody => table \in Records /\ rec[table].live
    BY Alive DEF TypeOK
  <2>3. irec[t] # Nobody => irec[t] \in Records /\ rec[irec[t]].live
    BY Alive DEF TypeOK
  <2> QED BY <1>0, <1>3, <2>1, <2>2, <2>3, DriverHookAssumption DEF IrpOK
<1>4. ASSUME EnableMark(c) \/ UnhookClear(c) \/ Store(c) \/ DisableUnmark(c)
             \/ (\E mon \in BOOLEAN : SetMore(c, mon))
             \/ (\E r \in Records, mon \in BOOLEAN : HookCreate(c, r, mon))
      PROVE  IrpInv'
  <2>1. \A r \in Records : rec[r].live => rec'[r].old \in {rec[r].old, "driver"}
    BY <1>0, <1>4 DEF EnableMark, UnhookClear, Store, DisableUnmark, SetMore, HookCreate,
                      TypeOK, Record, SlotOK
  <2>2. UNCHANGED <<table, irps>>
    BY <1>4 DEF EnableMark, UnhookClear, Store, DisableUnmark, SetMore, HookCreate
  <2>3. rec' \in [Records -> Record]
    BY DEF TypeOK
  <2> QED BY <1>3, <2>1, <2>2, <2>3
<1>5. CASE UnhookDelete(c)
  <2>1. table # Nobody
    BY <1>0, <1>5 DEF UnhookDelete, RoleOK, HandOK, TableOK, Mine, TablePlaces
  <2> SUFFICES ASSUME NEW t \in Irps
               PROVE  IrpOK(t)'
    BY DEF IrpInv
  <2>2. IrpOK(t) /\ UNCHANGED <<irp, irec, rec>>
    BY <1>5 DEF UnhookDelete, IrpInv
  <2>3. irp[t] \in {"lookup", "call"} => crossed'[t]
    BY <1>5, <2>1 DEF UnhookDelete, Cross
  <2>4. crossed[t] => crossed'[t]
    BY <1>5, <2>1 DEF UnhookDelete, Cross
  <2> QED BY <2>2, <2>3, <2>4 DEF IrpOK
<1>6. CASE HookInsert(c)
  <2>1. hand[c] \in Records
    BY <1>0, <1>6 DEF HookInsert, HandOK, TypeOK
  <2>2. CASE table = Nobody
    <3> SUFFICES ASSUME NEW t \in Irps
                 PROVE  IrpOK(t)'
      BY DEF IrpInv
    <3>1. IrpOK(t) /\ UNCHANGED irps
      BY <1>6 DEF HookInsert, IrpInv
    <3>2. SameSettings /\ \A r \in Records : rec'[r].live = rec[r].live
      BY <1>6, <2>1, <2>2, ReferencedFacts DEF HookInsert
    <3>3. irec[t] # Nobody => irec[t] \in Records /\ rec[irec[t]].live
      BY Alive DEF TypeOK
    <3> QED BY <2>2, <3>1, <3>2, <3>3, DriverHookAssumption DEF IrpOK, SameSettings
  <2>3. CASE table # Nobody
    BY <1>1, <1>2, <1>6, <2>3 DEF HookInsert
  <2> QED BY <2>2, <2>3
<1>7. CASE UnhookDrop(c) \/ CloseDereference(c) \/ Dereference(c)
  <2>1. hand[c] \in Records
    BY <1>0, <1>7 DEF UnhookDrop, CloseDereference, Dereference, HandOK, RoleOK, TypeOK
  <2> QED BY <1>1, <1>7, <2>1, DroppedFacts DEF UnhookDrop, CloseDereference, Dereference
<1>8. ASSUME TranslateRefer(c) \/ \E h \in Handles : HandleCreate(c, h)
      PROVE  IrpInv'
  <2>1. hand[c] \in Records
    BY <1>0, <1>8 DEF TranslateRefer, HandleCreate, HandOK, RoleOK, TypeOK
  <2> QED BY <1>1, <1>8, <2>1, ReferencedFacts DEF TranslateRefer, HandleCreate
<1>9. ASSUME NEW r \in Records, OpenById(c, r)
      PROVE  IrpInv'
  BY <1>1, <1>9, ReferencedFacts DEF OpenById
<1>10. CASE Cleanup(c)
  BY <1>1, <1>10, CleanupSettings DEF Cleanup
<1>11. ASSUME HookValidate(c) \/ HookCheck(c) \/ UnhookFlag(c) \/ UnhookRestore(c) \/
              UnhookInvalidate(c) \/ Enable(c) \/ Exchange(c) \/ Disable(c) \/
              DisablePutBack(c) \/ Set(c) \/ Output(c) \/ HandleCreateFail(c) \/
              CloseDelete(c) \/ (\E h \in Handles : Close(c, h)) \/ (\E h \in Handles,
              service \in {"unhook", "enable", "disable", "set"} : Translate(c,
              service, h))
       PROVE  IrpInv'
  BY <1>1, <1>2, <1>11 DEF HookValidate, HookCheck, UnhookFlag, UnhookRestore,
        UnhookInvalidate, Enable, Exchange, Disable, DisablePutBack, Set, Output,
        HandleCreateFail, CloseDelete, Translate, Close
<1> QED BY <1>4, <1>5, <1>6, <1>7, <1>8, <1>9, <1>10, <1>11 DEF ClientBegin, ClientStep

\* Where an IRP is, and what the record it depends on has kept.
LEMMA IrpsStep ==
  ASSUME TypeOK, TypeOK', OneController, Roles, Hands, RefsExact, RefsExact', LiveInv,
         LiveInv', Tables, Slots, IrpInv, UnloadInv, [Next]_vars
  PROVE  IrpInv'
<1> USE DEF tables, client, irps
<1>1. UNCHANGED rec => SameSettings
  BY DEF SameSettings
<1>2. CASE UNCHANGED vars
  BY <1>1, <1>2, IrpsKept DEF vars, IrpInv
<1>3. ASSUME NEW c \in Clients, c \notin Controllers, ClientBegin(c) \/ ClientStep(c)
      PROVE  IrpInv'
  BY <1>3, Bystander, IrpsKept DEF IrpInv
<1>4. ASSUME NEW c \in Controllers, ClientBegin(c) \/ ClientStep(c)
      PROVE  IrpInv'
  BY <1>4, ControllerIrps
<1>5. ASSUME NEW t \in Irps, IrpOK(t)', SameSettings, UNCHANGED <<table, unload>>,
             \A u \in Irps \ {t} : UNCHANGED <<irp[u], irec[u], crossed[u]>>
      PROVE  IrpInv'
  <2>1. \A u \in Irps \ {t} : IrpOK(u)'
    BY <1>5, IrpsKept
  <2> QED BY <1>5, <2>1 DEF IrpInv
<1>6. ASSUME NEW t \in Irps, Send(t)
      PROVE  IrpInv'
  <2>1. slot = "hook" /\ irec'[t] = Nobody /\ irp'[t] = "lookup"
    BY <1>6 DEF Send, TypeOK, IrpInv, IrpOK
  <2>2. ASSUME ~crossed'[t]
        PROVE  unload = "no" /\ table # Nobody /\ rec[table].old = "driver"
    <3>1. unload = "no" /\ \A c \in Clients : pc[c] \notin Exposing
      BY <1>6, <2>2 DEF Send, TypeOK
    <3>2. ASSUME NEW c \in Controllers, pc[c] \in Changing
          PROVE  table # Nobody /\ rec[table].old = "driver"
      <4>1. SlotOK(c) /\ TableOK(c) /\ HandOK(c) /\ c \in Clients
        BY DriverHookAssumption DEF Slots, Tables, Hands
      <4>2. pc[c] = "putback"
        BY <2>1, <3>1, <3>2, <4>1 DEF Changing, SlotOK
      <4> QED BY <2>1, <4>1, <4>2
          DEF SlotOK, Hooked, TableOK, Mine, TablePlaces, HandOK
    <3>3. CASE \A c \in Controllers : pc[c] \notin Changing
      BY <2>1, <3>1, <3>3 DEF Slots, Settled, Hooked
    <3> QED BY <3>1, <3>2, <3>3
  <2>3. IrpOK(t)'
    BY <1>6, <2>1, <2>2 DEF Send, IrpOK
  <2> QED BY <1>1, <1>5, <1>6, <2>3 DEF Send, TypeOK
<1>7. ASSUME NEW t \in Irps, Lookup(t)
      PROVE  IrpInv'
  <2>1. IrpOK(t)
    BY DEF IrpInv
  <2>2. CASE table # Nobody /\ unload = "no"
    <3>1. table \in Records
      BY <2>2 DEF TypeOK
    <3>2. SameSettings /\ rec'[table].live
      BY <1>7, <2>2, <3>1, ReferencedFacts, Alive DEF Lookup
    <3>3. IrpOK(t)'
      BY <1>7, <2>1, <2>2, <3>1, <3>2 DEF Lookup, IrpOK, SameSettings, TypeOK
    <3> QED BY <1>5, <1>7, <2>2, <3>2, <3>3 DEF Lookup, TypeOK
  <2>3. CASE table = Nobody \/ unload # "no"
    <3>1. IrpOK(t)'
      BY <1>7, <2>1, <2>3 DEF Lookup, IrpOK, TypeOK
    <3> QED BY <1>1, <1>5, <1>7, <2>3, <3>1 DEF Lookup, TypeOK
  <2> QED BY <2>2, <2>3
<1>8. ASSUME NEW t \in Irps, Call(t)
      PROVE  IrpInv'
  <2>1. IrpOK(t) /\ irec[t] \in Records /\ rec[irec[t]].old \in {"driver", "null"}
    BY <1>8 DEF Call, IrpInv, IrpOK, TypeOK, Record
  <2>2. IrpOK(t)'
    BY <1>8, <2>1 DEF Call, IrpOK, TypeOK
  <2> QED BY <1>1, <1>5, <1>8, <2>2 DEF Call, TypeOK
<1>9. ASSUME NEW t \in Irps, Return(t)
      PROVE  IrpInv'
  <2>1. irec[t] \in Records
    BY <1>9 DEF Return, IrpInv, IrpOK
  <2>2. SameSettings
    BY <1>9, <2>1, DroppedFacts DEF Return
  <2>3. IrpOK(t)'
    BY <1>9 DEF Return, IrpOK, TypeOK
  <2> QED BY <1>5, <1>9, <2>2, <2>3 DEF Return, TypeOK
<1>10. CASE UnloadBegin
  <2> SUFFICES ASSUME NEW t \in Irps
               PROVE  IrpOK(t)'
    BY DEF IrpInv
  <2>1. IrpOK(t) /\ UNCHANGED <<irp, irec, rec>>
    BY <1>10 DEF UnloadBegin, IrpInv
  <2>2. (crossed[t] => crossed'[t]) /\ (irp[t] \in {"lookup", "call"} => crossed'[t])
    BY <1>10 DEF UnloadBegin, Cross
  <2> QED BY <2>1, <2>2 DEF IrpOK
<1>11. CASE UnloadRestore
  <2>1. \A r \in Records : rec'[r].old = rec[r].old
    BY <1>11 DEF UnloadRestore, TypeOK, Record
  <2>2. UNCHANGED <<irp, irec, crossed, table>> /\ unload # "no"
    BY <1>11 DEF UnloadRestore
  <2> QED BY <2>1, <2>2 DEF IrpInv, IrpOK
<1>12. CASE UnloadDrop
  <2>1. SameSettings
    BY <1>1, <1>12, DroppedFacts DEF UnloadDrop, TypeOK
  <2> SUFFICES ASSUME NEW t \in Irps
               PROVE  IrpOK(t)'
    BY DEF IrpInv
  <2>2. IrpOK(t) /\ UNCHANGED <<irp, irec, crossed>> /\ unload # "no"
    BY <1>12 DEF UnloadDrop, IrpInv
  <2>3. ASSUME NEW r \in Records, irec[t] = r
        PROVE  rec'[r].live
    <3>1. t \in HandlersOf(r)'
      BY <2>2, <2>3 DEF HandlersOf
    <3>2. Holds(r)' > 0
      BY <3>1, FinitePrime, FS_EmptySet DEF Holds
    <3> QED BY <3>2 DEF RefsExact, LiveInv
  <2> QED BY <2>1, <2>2, <2>3 DEF IrpOK, SameSettings
<1>13. CASE UnloadWait
  BY <1>1, <1>13, IrpsKept DEF UnloadWait, IrpInv
<1> QED BY <1>2, <1>3, <1>4, <1>6, <1>7, <1>8, <1>9, <1>10, <1>11, <1>12, <1>13
    DEF Next, IrpStep, UnloadStep

\* The unloading starts when nobody uses the driver and ends with no record left.
LEMMA UnloadsStep ==
  ASSUME TypeOK, TypeOK', RefsExact, RefsExact', LiveInv, LiveInv', Roles, Hands,
         IrpInv, UnloadInv, [Next]_vars
  PROVE  UnloadInv'
<1> USE DEF tables, client, irps
<1>1. CASE UNCHANGED vars
  BY <1>1 DEF vars, UnloadInv
<1>2. ASSUME NEW c \in Clients, ClientBegin(c) \/ ClientStep(c)
      PROVE  UnloadInv'
  BY <1>2, BusyClient DEF UnloadInv
<1>3. ASSUME UNCHANGED <<unload, valid, client, handles, table>>, SameSettings
      PROVE  UnloadInv'
  <2>1. ASSUME table # Nobody
        PROVE  table \in Records /\ rec'[table].live
    <3>1. Holds(table)' > 0
      BY <1>3, <2>1, FinitePrime DEF Holds
    <3> QED BY <1>3, <2>1, <3>1 DEF RefsExact, LiveInv, TypeOK
  <2> QED BY <1>3, <2>1 DEF UnloadInv, SameSettings
<1>4. ASSUME NEW t \in Irps, Send(t) \/ Call(t)
      PROVE  UnloadInv'
  BY <1>3, <1>4 DEF Send, Call, SameSettings
<1>5. ASSUME NEW t \in Irps, Lookup(t)
      PROVE  UnloadInv'
  BY <1>3, <1>5, ReferencedFacts DEF Lookup, SameSettings, TypeOK
<1>6. ASSUME NEW t \in Irps, Return(t)
      PROVE  UnloadInv'
  BY <1>3, <1>6, DroppedFacts DEF Return, IrpInv, IrpOK
<1>7. CASE UnloadBegin
  BY <1>7 DEF UnloadBegin, UnloadInv
<1>8. CASE UnloadRestore
  BY <1>8 DEF UnloadRestore, UnloadInv, TypeOK, Record
<1>9. CASE UnloadDrop
  BY <1>9 DEF UnloadDrop, UnloadInv
<1>10. CASE UnloadWait
  BY <1>10 DEF UnloadWait, UnloadInv
<1> QED BY <1>1, <1>2, <1>4, <1>5, <1>6, <1>7, <1>8, <1>9, <1>10
    DEF Next, IrpStep, UnloadStep

-----------------------------------------------------------------------------
(* The invariant and what follows from it.                                 *)

LEMMA InitInv == Init => Inv
<1> SUFFICES ASSUME Init
             PROVE  Inv
  OBVIOUS
<1> USE DriverHookAssumption DEF Init
<1>1. TypeOK
  <2>1. Freed \in Record
    BY DEF Freed, Record
  <2> QED BY <2>1 DEF TypeOK, Places, Services
<1>2. Roles /\ Hands
  BY DEF Roles, RoleOK, Hands, HandOK, UnhookPlaces
<1>3. RefsExact
  <2> SUFFICES ASSUME NEW r \in Records
               PROVE  rec[r].refs = Holds(r)
    BY DEF RefsExact
  <2>1. HandlesOf(r) = {} /\ HandlersOf(r) = {} /\ Holders(r, 1) = {}
           /\ Holders(r, 2) = {}
    BY DEF HandlesOf, HandlersOf, Holders
  <2>2. Cardinality({}) = 0
    BY FS_EmptySet
  <2>3. rec[r].refs = 0
    BY DEF Freed
  <2>4. table # r
    OBVIOUS
  <2> QED BY <2>1, <2>2, <2>3, <2>4 DEF Holds
<1>4. LiveInv
  BY DEF LiveInv, Freed
<1>5. Tables
  BY DEF Tables, TableOK, Mine, TablePlaces, UnhookPlaces
<1>6. Slots
  BY DEF Slots, SlotOK, Settled
<1>7. IrpInv
  BY DEF IrpInv, IrpOK
<1>8. UnloadInv
  BY DEF UnloadInv
<1> QED BY <1>1, <1>2, <1>3, <1>4, <1>5, <1>6, <1>7, <1>8 DEF Inv

\* While one client hooks and unhooks, the tables, the counts, the entries, the IRPs
\* and the unloading stay consistent, for any number of records, handles, clients
\* and IRPs (hook.c, handle-table.c, hook-handlers.c).
THEOREM Invariance ==
  ASSUME OneController
  PROVE  Spec => []Inv
<1>1. Init => Inv
  BY InitInv
<1>2. Inv /\ [Next]_vars => Inv'
  <2> SUFFICES ASSUME Inv, [Next]_vars
               PROVE  Inv'
    OBVIOUS
  <2> USE DEF Inv
  <2>1. TypeOK'
    BY TypeStep
  <2>2. Roles' /\ Hands'
    BY <2>1, RolesStep
  <2>3. RefsExact'
    BY <2>1, RefsStep
  <2>4. LiveInv'
    BY <2>1, <2>3, LiveStep
  <2>5. Tables'
    BY <2>1, TablesStep
  <2>6. Slots'
    BY <2>1, <2>2, <2>3, <2>4, SlotsStep
  <2>7. IrpInv'
    BY <2>1, <2>3, <2>4, IrpsStep
  <2>8. UnloadInv'
    BY <2>1, <2>3, <2>4, UnloadsStep
  <2> QED BY <2>1, <2>2, <2>3, <2>4, <2>5, <2>6, <2>7, <2>8
<1> QED BY <1>1, <1>2, PTL DEF Spec

\* The count of a record is the number of its holders: DriverHookRecordReference and
\* DriverHookRecordDereference balance on every path of the services (hook.c,
\* um-services.c, handle-table.c), so no record leaks.
THEOREM ReferencesBalance ==
  ASSUME OneController
  PROVE  Spec => []RefsExact
<1>1. Inv => RefsExact
  BY DEF Inv
<1> QED BY <1>1, Invariance, PTL

\* Nothing refers to a record after its memory was freed (hook.c, _DriverHookRecordFree).
THEOREM RecordsLive ==
  ASSUME OneController
  PROVE  Spec => []RecordsOutliveUse
<1>1. Inv => RecordsOutliveUse
  <2> SUFFICES ASSUME Inv
               PROVE  RecordsOutliveUse
    OBVIOUS
  <2> USE DEF Inv
  <2>1. \A r \in valid : rec[r].live
    <3>1. unload # "no" => valid = {}
      BY DEF UnloadInv
    <3> QED BY <3>1, ValidAlive
  <2>2. ASSUME NEW c \in Clients, pc[c] = "translate"
        PROVE  table = hand[c]
    BY <2>2 DEF Roles, RoleOK, Tables, TableOK, Mine, TablePlaces
  <2>3. \A c \in Clients : hand[c] = Nobody \/ rec[hand[c]].live
    BY <2>2, Alive
  <2>4. /\ table = Nobody \/ rec[table].live
        /\ \A h \in Handles : handles[h] = Nobody \/ rec[handles[h]].live
        /\ \A t \in Irps : irec[t] = Nobody \/ rec[irec[t]].live
    BY Alive
  <2> QED BY <2>1, <2>3, <2>4 DEF RecordsOutliveUse
<1> QED BY <1>1, Invariance, PTL

\* The validation table of UMOpenObjectById holds the hooked record and no other,
\* except between the two insertions and the two deletions of hook.c.
THEOREM ValidTable ==
  ASSUME OneController
  PROVE  Spec => []ValidIsHooked
<1>1. Inv => ValidIsHooked
  <2> SUFFICES ASSUME Inv, unload = "no", NEW r \in Records
               PROVE  \/ r \in valid <=> table = r
                      \/ \E c \in Clients :
                           hand[c] = r /\ pc[c] \in UnhookPlaces \cup {"validate"}
    BY DEF ValidIsHooked
  <2> USE DEF Inv
  <2>1. CASE Controllers = {}
    BY <2>1, DriverHookAssumption DEF Tables
  <2>2. ASSUME NEW c \in Controllers
        PROVE  \/ r \in valid <=> table = r
               \/ hand[c] = r /\ pc[c] \in UnhookPlaces \cup {"validate"}
    BY <2>2, DriverHookAssumption DEF Tables, TableOK, Mine, TablePlaces, UnhookPlaces
  <2> QED BY <2>1, <2>2, DriverHookAssumption
<1> QED BY <1>1, Invariance, PTL

\* UnhookDriverObject deletes the record it was called with and never reaches its
\* ASSERT(FALSE) (hook.c:609).
THEOREM UnhookFinds ==
  ASSUME OneController
  PROVE  Spec => []UnhookFindsItsRecord
<1>1. Inv => UnhookFindsItsRecord
  <2> SUFFICES ASSUME Inv, NEW c \in Clients, pc[c] = "delete"
               PROVE  table = hand[c]
    BY DEF UnhookFindsItsRecord
  <2>1. c \in Controllers
    BY DEF Inv, Roles, RoleOK
  <2> QED BY <2>1 DEF Inv, Tables, TableOK, Mine, TablePlaces
<1> QED BY <1>1, Invariance, PTL

\* Between the services the driver's entries are hooked exactly when its record says
\* so, and then the original entries are kept (hook.c, _HookDriverObject).
THEOREM EntriesMatch ==
  ASSUME OneController
  PROVE  Spec => []SlotMatches
<1>1. Inv => SlotMatches
  BY DriverHookAssumption DEF Inv, SlotMatches, Slots, Settled, Hooked
<1> QED BY <1>1, Invariance, PTL

\* An IRP that no unhook and no enabling overlaps reaches the target driver, and the
\* handler never calls itself (hook-handlers.c, HookHandlerIRPDisptach).
THEOREM IrpsArrive ==
  ASSUME OneController
  PROVE  Spec => []UndisturbedIrpsArrive
<1>1. Inv => UndisturbedIrpsArrive
  BY DEF Inv, UndisturbedIrpsArrive, IrpInv, IrpOK
<1> QED BY <1>1, Invariance, PTL

\* After HookModuleFinit the driver's entries are its own and no record is left.
THEOREM UnloadClean ==
  ASSUME OneController
  PROVE  Spec => []UnloadLeavesNothing
<1>1. Inv => UnloadLeavesNothing
  <2> SUFFICES ASSUME Inv, unload = "done"
               PROVE  slot = "driver" /\ \A r \in Records : ~rec[r].live
    BY DEF UnloadLeavesNothing
  <2>1. table = Nobody /\ \A c \in Clients : pc[c] = "idle"
    BY DEF Inv, UnloadInv
  <2>2. slot = "driver"
    BY <2>1, DriverHookAssumption DEF Inv, Slots, Settled, Changing, Exposing
  <2> QED BY <2>2 DEF Inv, UnloadInv
<1> QED BY <1>1, Invariance, PTL
=============================================================================
