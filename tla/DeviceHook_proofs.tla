------------------------- MODULE DeviceHook_proofs --------------------------
(***************************************************************************)
(* The device records: their reference counts and those of the driver      *)
(* records are exact, and the lists, the validation table and the handles  *)
(* agree with them, for any number of records, handles and actors.         *)
(***************************************************************************)
EXTENDS DeviceHook, FiniteSetTheorems, TLAPS

Places ==
  {"idle", "insert", "proxy", "make", "back", "find", "revert", "invalidate",
   "handle", "clear", "device", "catch", "report", "output", "out", "close",
   "translate to delete", "translate to set", "set", "fill", "leave"}

Device == [refs : Int, owner : DriverRecords \cup {Nobody},
           reason : {"none", "hooked", "user"}, proxy : BOOLEAN,
           by : Actors \cup {Nobody}, crossed : BOOLEAN]

Driver == [refs : Int, ext : BOOLEAN, late : BOOLEAN]

Job == [driver : DriverRecords \cup {Nobody}, new : Records \cup {Nobody},
        got : Records \cup {Nobody}, found : Records \cup {Nobody},
        hnd : Handles \cup {Nobody}, added : BOOLEAN, size : Nat]

TypeOK ==
  /\ drv \in DriverRecords \cup {Nobody}
  /\ drec \in [DriverRecords -> Driver]
  /\ sel \in [DriverRecords -> Records \cup {Nobody}]
  /\ dev \in [Records -> Device]
  /\ valid \subseteq Records
  /\ handles \in [Handles -> Records \cup {Nobody}]
  /\ at \in [Actors -> Places]
  /\ job \in [Actors -> Job]

-----------------------------------------------------------------------------
(* What an actor at a place holds.                                         *)

\* In the middle of adding a device, of which AddDevice has made a record.
New == {"insert", "proxy", "make", "back"}

\* With the reference that AddDevice gave out, or the one that the handle has.
Service == {"handle", "output", "out", "find", "revert", "invalidate"}

HandsOK(a) ==
  /\ at[a] = "idle" => job[a] = NoJob
  /\ at[a] \in {"clear", "device", "catch"} \cup New
       => job[a].driver # Nobody /\ ~job[a].added
  /\ at[a] \in {"clear", "device", "fill"} => job[a].got = Nobody
  /\ at[a] \in {"clear", "device", "catch", "fill", "set"} \cup Translating
       => job[a].new = Nobody
  /\ at[a] \in New => job[a].new # Nobody /\ a \notin Openers
  /\ at[a] \in {"insert", "back"} => job[a].got = Nobody
  /\ at[a] \in {"set"} \cup Translating => job[a].got # Nobody
  /\ at[a] = "fill" => job[a].driver = Nobody
  /\ at[a] \in {"report"} \cup Service => Target(a) # Nobody
  /\ at[a] \in {"report", "out"} => job[a].added
  /\ at[a] \in {"handle", "output"} => (job[a].added <=> a \notin Openers)
  /\ at[a] \in {"find", "revert", "invalidate"} => job[a].added \/ job[a].hnd # Nobody
  /\ at[a] \in {"output", "close"} \cup Translating => job[a].hnd # Nobody
  /\ at[a] \in {"close", "leave", "fill", "set"} \cup Translating => ~job[a].added
  /\ at[a] \in {"revert", "invalidate"} <=> job[a].found # Nobody

Hands == \A a \in Actors : HandsOK(a)

\* A record that has an owner has references, or is being freed by somebody.
Life(r) ==
  IF dev[r].owner = Nobody THEN dev[r].refs = 0 /\ dev[r].by = Nobody
                           ELSE dev[r].refs = 0 <=> dev[r].by # Nobody

Lives == \A r \in Records : Life(r)

-----------------------------------------------------------------------------
(* Adding and deleting.                                                    *)

\* A record that is not in the list yet is in one actor's hands.
FreshOK(a) ==
  at[a] = "insert" =>
    LET r == job[a].new IN
    /\ dev[r].owner = job[a].driver /\ dev[r].reason = "user"
    /\ \A d \in DriverRecords : sel[d] # r
    /\ \A b \in Actors : job[b].found # r /\ (b # a => job[b].new # r)
    /\ ~Adding(r)

Fresh == \A a \in Actors : FreshOK(a)

Busy(a, r) == (at[a] \in {"proxy", "make"} /\ Target(a) = r) \/ job[a].found = r
TakingBack(r) == \E a \in Actors : at[a] = "back" /\ Target(a) = r

\* Only one actor adds or deletes a record that is not crossed.
OneBusy ==
  \A r \in Records : ~dev[r].crossed =>
    \A a, b \in Actors : Busy(a, r) /\ Busy(b, r) => a = b

\* Valid if and only if it is the user's.
Steady(r) == r \in valid <=> dev[r].reason = "user"

\* What the one that is busy with a record knows of it.
BusyOK(a) ==
  /\ at[a] \in {"proxy", "make"} /\ job[a].got = Nobody /\ ~dev[job[a].new].crossed
       => dev[job[a].new].reason = "user"
  /\ at[a] = "invalidate" /\ ~dev[job[a].found].crossed
       => dev[job[a].found].reason = "hooked"

Works == \A a \in Actors : BusyOK(a)

\* A new record that is not valid yet, or a deleted one that still is.
Midway(a, r) ==
  \/ at[a] \in {"proxy", "make"} /\ job[a].got = Nobody /\ job[a].new = r
  \/ at[a] = "invalidate" /\ job[a].found = r

\* A listed record is steady, but for what the one busy with it does.
ListedOK(d) ==
  sel[d] # Nobody =>
    LET r == sel[d] IN
    /\ dev[r].owner = d
    /\ ~dev[r].crossed /\ ~TakingBack(r)
         => Steady(r) \/ \E a \in Actors : Midway(a, r)

Lists == \A d \in DriverRecords : ListedOK(d)

\* A valid record is not freed yet.
Valid == \A r \in valid : dev[r].owner # Nobody

\* The list of a driver that was unhooked is about to be emptied, or somebody
\* was late.
LateOK(d) ==
  sel[d] # Nobody /\ drv # d =>
    drec[d].late \/ \E a \in Actors : at[a] = "clear" /\ job[a].driver = d

Lates == \A d \in DriverRecords : LateOK(d)

Sound ==
  /\ Hands /\ Lives
  /\ DeviceRefsExact /\ DriverRefsExact
  /\ Fresh /\ OneBusy /\ Works /\ Lists /\ Valid /\ Lates

Inv == TypeOK /\ (undef = "no" => Sound)

-----------------------------------------------------------------------------
(* What steps do, field by field.                                          *)

Bit(b) == IF b THEN 1 ELSE 0

\* Only actor a moves.
Alone(a) == \A b \in Actors \ {a} : at'[b] = at[b] /\ job'[b] = job[b]

\* Where actor a is after the step, and what it holds then.
Now(a, place, driver, new, got, found, hnd, added) ==
  /\ at'[a] = place
  /\ job'[a].driver = driver /\ job'[a].new = new /\ job'[a].got = got
  /\ job'[a].found = found /\ job'[a].hnd = hnd /\ job'[a].added = added

\* Nothing of a device record changes but its references and its freeing.
SameOwners == \A r \in Records : dev'[r].owner = dev[r].owner
SameReasons == \A r \in Records : dev'[r].reason = dev[r].reason
SameCrossed == \A r \in Records : dev'[r].crossed = dev[r].crossed
SameDevices == SameOwners /\ SameReasons /\ SameCrossed

\* Device record r has n references more than before, the others as many.
Counted(r, n) ==
  \A q \in Records : dev'[q].refs = dev[q].refs + (IF q = r THEN n ELSE 0)

DriverCounted(d, n) ==
  \A e \in DriverRecords : drec'[e].refs = drec[e].refs + (IF e = d THEN n ELSE 0)

LEMMA DroppedFacts ==
  ASSUME DeviceAssumption, TypeOK, NEW r \in Records, NEW a \in Actors, dev' = Dropped(r, a)
  PROVE  /\ dev' \in [Records -> Device] /\ Counted(r, -1) /\ SameDevices
         /\ \A q \in Records :
              dev'[q].by = IF q = r /\ dev[q].refs = 1 THEN a ELSE dev[q].by
<1>1. PICK x \in Actors \cup {Nobody} : x = IF dev[r].refs = 1 THEN a ELSE dev[r].by
  BY DEF TypeOK, Device
<1>2. dev' = [dev EXCEPT ![r].refs = dev[r].refs - 1, ![r].by = x]
  BY <1>1 DEF Dropped
<1>3. dev' \in [Records -> Device]
  <2>1. dev[r] \in Device /\ dev[r].refs - 1 \in Int
    BY DEF TypeOK, Device
  <2>2. [dev[r] EXCEPT !.refs = dev[r].refs - 1, !.by = x] \in Device
    BY <1>1, <2>1 DEF Device
  <2>3. dev' = [dev EXCEPT ![r] = [dev[r] EXCEPT !.refs = dev[r].refs - 1, !.by = x]]
    BY <1>2
  <2> QED BY <2>2, <2>3 DEF TypeOK
<1>4. Counted(r, -1)
  <2>1. dev'[r].refs = dev[r].refs - 1 /\ \A q \in Records \ {r} : dev'[q].refs = dev[q].refs
    BY <1>2 DEF TypeOK, Device
  <2>2. \A q \in Records : dev[q].refs \in Int
    BY DEF TypeOK, Device
  <2> QED BY <2>1, <2>2 DEF Counted
<1>5. SameDevices
  BY <1>2 DEF TypeOK, Device, SameDevices, SameOwners, SameReasons, SameCrossed
<1>6. \A q \in Records : dev'[q].by = IF q = r THEN x ELSE dev[q].by
  BY <1>2 DEF TypeOK, Device
<1> QED BY <1>1, <1>3, <1>4, <1>5, <1>6

LEMMA ReferencedFacts ==
  ASSUME TypeOK, NEW r \in Records, dev' = Referenced(r)
  PROVE  /\ dev' \in [Records -> Device] /\ Counted(r, 1) /\ SameDevices
         /\ \A q \in Records : dev'[q].by = dev[q].by
  BY DEF Referenced, TypeOK, Device, Counted, SameDevices, SameOwners, SameReasons, SameCrossed

LEMMA CrossFacts ==
  ASSUME TypeOK, NEW r \in Records, NEW other \in BOOLEAN, dev' = Cross(Referenced(r), r, other)
  PROVE  /\ dev' \in [Records -> Device] /\ Counted(r, 1) /\ SameOwners /\ SameReasons
         /\ \A q \in Records : dev'[q].by = dev[q].by
         /\ \A q \in Records \ {r} : dev'[q].crossed = dev[q].crossed
         /\ ~dev'[r].crossed => ~other /\ ~dev[r].crossed
<1>1. CASE other
  <2>1. dev' = [dev EXCEPT ![r].refs = @ + 1, ![r].crossed = TRUE]
    BY <1>1 DEF Cross, Referenced, TypeOK, Device
  <2>2. dev'[r].crossed
    BY <2>1 DEF TypeOK, Device
  <2>3. dev' \in [Records -> Device] /\ Counted(r, 1) /\ SameOwners /\ SameReasons
    <3>0. dev[r] \in Device /\ dev[r].refs + 1 \in Int
      BY DEF TypeOK, Device
    <3>1. [dev[r] EXCEPT !.refs = dev[r].refs + 1, !.crossed = TRUE] \in Device
      BY <3>0 DEF Device
    <3>2. dev' = [dev EXCEPT ![r] = [dev[r] EXCEPT !.refs = dev[r].refs + 1, !.crossed = TRUE]]
      BY <2>1
    <3>3. dev' \in [Records -> Device]
      BY <3>1, <3>2 DEF TypeOK
    <3> QED BY <2>1, <3>3 DEF TypeOK, Device, Counted, SameOwners, SameReasons
  <2>4. /\ \A q \in Records : dev'[q].by = dev[q].by
        /\ \A q \in Records \ {r} : dev'[q].crossed = dev[q].crossed
    BY <2>1 DEF TypeOK, Device
  <2> QED BY <2>2, <2>3, <2>4
<1>2. CASE ~other
  <2>1. dev' = Referenced(r)
    BY <1>2 DEF Cross
  <2> QED BY <1>2, <2>1, ReferencedFacts DEF SameDevices, SameCrossed
<1> QED BY <1>1, <1>2

LEMMA DriverRefsFacts ==
  ASSUME TypeOK, NEW d \in DriverRecords, NEW n \in Int, drec' = DriverRefs(d, n)
  PROVE  /\ drec' \in [DriverRecords -> Driver] /\ DriverCounted(d, n)
         /\ \A e \in DriverRecords : drec'[e].late = drec[e].late /\ drec'[e].ext = drec[e].ext
  BY DEF DriverRefs, TypeOK, Driver, DriverCounted

\* A place and one field.
LEMMA GotoFacts ==
  ASSUME TypeOK, NEW a \in Actors, NEW l \in Places, Goto(a, l)
  PROVE  at' \in [Actors -> Places] /\ at'[a] = l /\ \A b \in Actors \ {a} : at'[b] = at[b]
  BY DEF Goto, TypeOK

LEMMA LeaveFacts ==
  ASSUME TypeOK, NEW a \in Actors, Leave(a)
  PROVE  /\ at' \in [Actors -> Places] /\ job' \in [Actors -> Job] /\ Alone(a)
         /\ Now(a, "idle", Nobody, Nobody, Nobody, Nobody, Nobody, FALSE) /\ job'[a] = NoJob
<1>1. NoJob \in Job
  BY DEF NoJob, Job
<1> QED BY <1>1 DEF Leave, Goto, TypeOK, Alone, Now, NoJob, Places

-----------------------------------------------------------------------------
(* Counting.                                                               *)

\* Two sets that differ in at most one element.
LEMMA OneDiffers ==
  ASSUME NEW S, NEW T, NEW x, IsFiniteSet(S), IsFiniteSet(T), S \ {x} = T \ {x}
  PROVE  /\ Cardinality(S) \in Nat /\ Cardinality(T) \in Nat
         /\ Cardinality(T) = Cardinality(S) - Bit(x \in S) + Bit(x \in T)
<1>1. ASSUME NEW U, IsFiniteSet(U)
      PROVE  Cardinality(U) \in Nat /\ Cardinality(U \ {x}) = Cardinality(U) - Bit(x \in U)
  <2>1. Cardinality(U) \in Nat
    BY <1>1, FS_CardinalityType
  <2>2. CASE x \in U
    BY <1>1, <2>1, <2>2, FS_RemoveElement DEF Bit
  <2>3. CASE x \notin U
    <3>1. U \ {x} = U
      BY <2>3
    <3>2. Cardinality(U \ {x}) = Cardinality(U)
      BY <3>1, Zenon
    <3> QED BY <2>1, <2>3, <3>2 DEF Bit
  <2> QED BY <2>1, <2>2, <2>3 DEF Bit
<1>2. Cardinality(S \ {x}) = Cardinality(T \ {x})
  OBVIOUS
<1> QED BY <1>1, <1>2 DEF Bit

\* The sets that are counted are finite, before and after a step.
LEMMA Finite ==
  ASSUME DeviceAssumption, NEW r
  PROVE  /\ IsFiniteSet(ListsWith(r)) /\ IsFiniteSet(HandlesOf(r))
         /\ IsFiniteSet(Creators(r)) /\ IsFiniteSet(Getters(r))
         /\ IsFiniteSet(Finders(r)) /\ IsFiniteSet(Adders(r))
         /\ IsFiniteSet(DevicesOf(r)) /\ IsFiniteSet(UsersOf(r))
<1>1. /\ ListsWith(r) \subseteq DriverRecords /\ HandlesOf(r) \subseteq Handles
      /\ Creators(r) \subseteq Actors /\ Getters(r) \subseteq Actors
      /\ Finders(r) \subseteq Actors /\ Adders(r) \subseteq Actors
      /\ DevicesOf(r) \subseteq Records /\ UsersOf(r) \subseteq Actors
  BY DEF ListsWith, HandlesOf, Creators, Getters, Finders, Adders, DevicesOf, UsersOf
<1> QED BY <1>1, FS_Subset DEF DeviceAssumption

LEMMA FinitePrime ==
  ASSUME DeviceAssumption, NEW r
  PROVE  /\ IsFiniteSet(ListsWith(r)') /\ IsFiniteSet(HandlesOf(r)')
         /\ IsFiniteSet(Creators(r)') /\ IsFiniteSet(Getters(r)')
         /\ IsFiniteSet(Finders(r)') /\ IsFiniteSet(Adders(r)')
         /\ IsFiniteSet(DevicesOf(r)') /\ IsFiniteSet(UsersOf(r)')
<1>1. /\ ListsWith(r)' \subseteq DriverRecords /\ HandlesOf(r)' \subseteq Handles
      /\ Creators(r)' \subseteq Actors /\ Getters(r)' \subseteq Actors
      /\ Finders(r)' \subseteq Actors /\ Adders(r)' \subseteq Actors
      /\ DevicesOf(r)' \subseteq Records /\ UsersOf(r)' \subseteq Actors
  BY DEF ListsWith, HandlesOf, Creators, Getters, Finders, Adders, DevicesOf, UsersOf
<1> QED BY <1>1, FS_Subset DEF DeviceAssumption

LEMMA Naturals ==
  ASSUME DeviceAssumption, NEW r
  PROVE  /\ Cardinality(ListsWith(r)) \in Nat /\ Cardinality(HandlesOf(r)) \in Nat
         /\ Cardinality(Creators(r)) \in Nat /\ Cardinality(Getters(r)) \in Nat
         /\ Cardinality(Finders(r)) \in Nat /\ Cardinality(Adders(r)) \in Nat
         /\ Cardinality(DevicesOf(r)) \in Nat /\ Cardinality(UsersOf(r)) \in Nat
  BY Finite, FS_CardinalityType

\* What actor a holds of device record r.
Share(a, r) ==
  Bit(job[a].new = r) + Bit(job[a].got = r /\ at[a] \notin Translating)
    + Bit(job[a].found = r) + Bit(job[a].added /\ Target(a) = r)

LEMMA Shares ==
  ASSUME DeviceAssumption, NEW a \in Actors, Alone(a), NEW r
  PROVE  LET held == Cardinality(Creators(r)) + Cardinality(Getters(r))
                     + Cardinality(Finders(r)) + Cardinality(Adders(r))
         IN held' = held - Share(a, r) + Share(a, r)'
<1>1. Cardinality(Creators(r))' = Cardinality(Creators(r))
        - Bit(job[a].new = r) + Bit(job'[a].new = r)
  <2>1. Creators(r) \ {a} = Creators(r)' \ {a}
    BY DEF Creators, Alone
  <2>2. (a \in Creators(r) <=> job[a].new = r) /\ (a \in Creators(r)' <=> job'[a].new = r)
    BY DEF Creators
  <2> QED BY <2>1, <2>2, OneDiffers, Finite, FinitePrime DEF Bit
<1>2. Cardinality(Getters(r))' = Cardinality(Getters(r))
        - Bit(job[a].got = r /\ at[a] \notin Translating)
        + Bit(job'[a].got = r /\ at'[a] \notin Translating)
  <2>1. Getters(r) \ {a} = Getters(r)' \ {a}
    BY DEF Getters, Alone
  <2>2. /\ a \in Getters(r) <=> job[a].got = r /\ at[a] \notin Translating
        /\ a \in Getters(r)' <=> job'[a].got = r /\ at'[a] \notin Translating
    BY DEF Getters
  <2> QED BY <2>1, <2>2, OneDiffers, Finite, FinitePrime DEF Bit
<1>3. Cardinality(Finders(r))' = Cardinality(Finders(r))
        - Bit(job[a].found = r) + Bit(job'[a].found = r)
  <2>1. Finders(r) \ {a} = Finders(r)' \ {a}
    BY DEF Finders, Alone
  <2>2. (a \in Finders(r) <=> job[a].found = r) /\ (a \in Finders(r)' <=> job'[a].found = r)
    BY DEF Finders
  <2> QED BY <2>1, <2>2, OneDiffers, Finite, FinitePrime DEF Bit
<1>4. Cardinality(Adders(r))' = Cardinality(Adders(r))
        - Bit(job[a].added /\ Target(a) = r) + Bit(job'[a].added /\ Target(a)' = r)
  <2>1. Adders(r) \ {a} = Adders(r)' \ {a}
    BY DEF Adders, Alone, Target
  <2>2. /\ a \in Adders(r) <=> job[a].added /\ Target(a) = r
        /\ a \in Adders(r)' <=> job'[a].added /\ Target(a)' = r
    BY DEF Adders
  <2> QED BY <2>1, <2>2, OneDiffers, Finite, FinitePrime DEF Bit
<1>5. /\ Cardinality(Creators(r)) \in Nat /\ Cardinality(Getters(r)) \in Nat
      /\ Cardinality(Finders(r)) \in Nat /\ Cardinality(Adders(r)) \in Nat
  BY Naturals
<1> HIDE DEF Creators, Getters, Finders, Adders
<1> QED BY <1>1, <1>2, <1>3, <1>4, <1>5 DEF Share, Bit

\* A step keeps the books if what it adds to the count of a device record is
\* what the lists, the handles and the actor then hold more of it.
LEMMA Balance ==
  ASSUME DeviceAssumption, TypeOK, DeviceRefsExact, NEW a \in Actors, Alone(a),
         \A r \in Records :
           dev'[r].refs = dev[r].refs
             - Cardinality(ListsWith(r)) + Cardinality(ListsWith(r))'
             - Cardinality(HandlesOf(r)) + Cardinality(HandlesOf(r))'
             - Share(a, r) + Share(a, r)'
  PROVE  DeviceRefsExact'
<1> SUFFICES ASSUME NEW r \in Records
             PROVE  dev'[r].refs = References(r)'
  BY DEF DeviceRefsExact
<1> DEFINE held == Cardinality(Creators(r)) + Cardinality(Getters(r))
                   + Cardinality(Finders(r)) + Cardinality(Adders(r))
<1>1. held' = held - Share(a, r) + Share(a, r)'
  BY Shares
<1>2. References(r) = Cardinality(ListsWith(r)) + Cardinality(HandlesOf(r)) + held
  BY Naturals DEF References
<1>3. References(r)' = Cardinality(ListsWith(r))' + Cardinality(HandlesOf(r))' + held'
  <2>1. /\ Cardinality(ListsWith(r)') \in Nat /\ Cardinality(HandlesOf(r)') \in Nat
        /\ Cardinality(Creators(r)') \in Nat /\ Cardinality(Getters(r)') \in Nat
        /\ Cardinality(Finders(r)') \in Nat /\ Cardinality(Adders(r)') \in Nat
    BY FinitePrime, FS_CardinalityType
  <2> QED BY <2>1 DEF References
<1>4. dev[r].refs = References(r)
  BY DEF DeviceRefsExact
<1>5. held \in Int /\ held' \in Int /\ Share(a, r) \in Int /\ Share(a, r)' \in Int
  <2>1. held \in Int
    BY Naturals
  <2>2. Share(a, r) \in Int /\ Share(a, r)' \in Int
    BY DEF Share, Bit
  <2> QED BY <1>1, <2>1, <2>2
<1>6. /\ Cardinality(ListsWith(r)) \in Int /\ Cardinality(HandlesOf(r)) \in Int
      /\ Cardinality(ListsWith(r))' \in Int /\ Cardinality(HandlesOf(r))' \in Int
  BY Naturals, FinitePrime, FS_CardinalityType
<1>7. dev'[r].refs = dev[r].refs
             - Cardinality(ListsWith(r)) + Cardinality(ListsWith(r))'
             - Cardinality(HandlesOf(r)) + Cardinality(HandlesOf(r))'
             - Share(a, r) + Share(a, r)'
  OBVIOUS
<1> HIDE DEF held
<1> QED BY <1>1, <1>2, <1>3, <1>4, <1>5, <1>6, <1>7

\* The same when the lists and the handles stay as they are, when one list
\* changes, and when one handle does.
LEMMA BalanceHands ==
  ASSUME DeviceAssumption, TypeOK, DeviceRefsExact, NEW a \in Actors, Alone(a),
         UNCHANGED <<sel, handles>>,
         \A r \in Records : dev'[r].refs = dev[r].refs - Share(a, r) + Share(a, r)'
  PROVE  DeviceRefsExact'
<1>1. ASSUME NEW r \in Records
      PROVE  dev'[r].refs = dev[r].refs
               - Cardinality(ListsWith(r)) + Cardinality(ListsWith(r))'
               - Cardinality(HandlesOf(r)) + Cardinality(HandlesOf(r))'
               - Share(a, r) + Share(a, r)'
  <2>1. /\ Cardinality(ListsWith(r))' = Cardinality(ListsWith(r))
        /\ Cardinality(HandlesOf(r))' = Cardinality(HandlesOf(r))
    BY DEF ListsWith, HandlesOf
  <2>2. dev[r].refs \in Int /\ Share(a, r) \in Int /\ Share(a, r)' \in Int
    BY DEF TypeOK, Device, Share, Bit
  <2> QED BY <2>1, <2>2, Naturals
<1> QED BY <1>1, Balance

LEMMA BalanceList ==
  ASSUME DeviceAssumption, TypeOK, DeviceRefsExact, NEW a \in Actors, Alone(a),
         NEW d \in DriverRecords, \A e \in DriverRecords \ {d} : sel'[e] = sel[e],
         handles' = handles,
         \A r \in Records : dev'[r].refs = dev[r].refs - Bit(sel[d] = r) + Bit(sel'[d] = r)
                                             - Share(a, r) + Share(a, r)'
  PROVE  DeviceRefsExact'
<1>1. ASSUME NEW r \in Records
      PROVE  dev'[r].refs = dev[r].refs
               - Cardinality(ListsWith(r)) + Cardinality(ListsWith(r))'
               - Cardinality(HandlesOf(r)) + Cardinality(HandlesOf(r))'
               - Share(a, r) + Share(a, r)'
  <2>1. Cardinality(HandlesOf(r))' = Cardinality(HandlesOf(r))
    BY DEF HandlesOf
  <2>2. Cardinality(ListsWith(r))' = Cardinality(ListsWith(r)) - Bit(sel[d] = r) + Bit(sel'[d] = r)
    <3>1. ListsWith(r) \ {d} = ListsWith(r)' \ {d}
      BY DEF ListsWith, TypeOK
    <3>2. (d \in ListsWith(r) <=> sel[d] = r) /\ (d \in ListsWith(r)' <=> sel'[d] = r)
      BY DEF ListsWith, TypeOK
    <3> QED BY <3>1, <3>2, OneDiffers, Finite, FinitePrime DEF Bit
  <2>3. dev[r].refs \in Int /\ Share(a, r) \in Int /\ Share(a, r)' \in Int
    BY DEF TypeOK, Device, Share, Bit
  <2>4. dev'[r].refs = dev[r].refs - Bit(sel[d] = r) + Bit(sel'[d] = r) - Share(a, r) + Share(a, r)'
    OBVIOUS
  <2>5. Bit(sel[d] = r) \in Int /\ Bit(sel'[d] = r) \in Int
    BY DEF Bit
  <2> QED BY <2>1, <2>2, <2>3, <2>4, <2>5, Naturals
<1> QED BY <1>1, Balance

LEMMA BalanceHandle ==
  ASSUME DeviceAssumption, TypeOK, DeviceRefsExact, NEW a \in Actors, Alone(a),
         NEW h \in Handles, \A g \in Handles \ {h} : handles'[g] = handles[g], sel' = sel,
         \A r \in Records : dev'[r].refs = dev[r].refs - Bit(handles[h] = r) + Bit(handles'[h] = r)
                                             - Share(a, r) + Share(a, r)'
  PROVE  DeviceRefsExact'
<1>1. ASSUME NEW r \in Records
      PROVE  dev'[r].refs = dev[r].refs
               - Cardinality(ListsWith(r)) + Cardinality(ListsWith(r))'
               - Cardinality(HandlesOf(r)) + Cardinality(HandlesOf(r))'
               - Share(a, r) + Share(a, r)'
  <2>1. Cardinality(ListsWith(r))' = Cardinality(ListsWith(r))
    BY DEF ListsWith
  <2>2. Cardinality(HandlesOf(r))' = Cardinality(HandlesOf(r)) - Bit(handles[h] = r) + Bit(handles'[h] = r)
    <3>1. HandlesOf(r) \ {h} = HandlesOf(r)' \ {h}
      BY DEF HandlesOf, TypeOK
    <3>2. (h \in HandlesOf(r) <=> handles[h] = r) /\ (h \in HandlesOf(r)' <=> handles'[h] = r)
      BY DEF HandlesOf, TypeOK
    <3> QED BY <3>1, <3>2, OneDiffers, Finite, FinitePrime DEF Bit
  <2>3. dev[r].refs \in Int /\ Share(a, r) \in Int /\ Share(a, r)' \in Int
    BY DEF TypeOK, Device, Share, Bit
  <2>4. dev'[r].refs = dev[r].refs - Bit(handles[h] = r) + Bit(handles'[h] = r) - Share(a, r) + Share(a, r)'
    OBVIOUS
  <2>5. Bit(handles[h] = r) \in Int /\ Bit(handles'[h] = r) \in Int
    BY DEF Bit
  <2> QED BY <2>1, <2>2, <2>3, <2>4, <2>5, Naturals
<1> QED BY <1>1, Balance

\* The books of the driver records.
LEMMA DriverBalance ==
  ASSUME DeviceAssumption, TypeOK, DriverRefsExact, NEW a \in Actors, Alone(a),
         \A d \in DriverRecords :
           drec'[d].refs = drec[d].refs - Bit(drv = d) + Bit(drv' = d)
             - Cardinality(DevicesOf(d)) + Cardinality(DevicesOf(d))'
             - Bit(job[a].driver = d) + Bit(job'[a].driver = d)
  PROVE  DriverRefsExact'
<1> SUFFICES ASSUME NEW d \in DriverRecords
             PROVE  drec'[d].refs = Bit(drv' = d) + Cardinality(DevicesOf(d))'
                                      + Cardinality(UsersOf(d))'
  BY DEF DriverRefsExact, Bit
<1>1. Cardinality(UsersOf(d))' = Cardinality(UsersOf(d))
        - Bit(job[a].driver = d) + Bit(job'[a].driver = d)
  <2>1. UsersOf(d) \ {a} = UsersOf(d)' \ {a}
    BY DEF UsersOf, Alone
  <2>2. (a \in UsersOf(d) <=> job[a].driver = d) /\ (a \in UsersOf(d)' <=> job'[a].driver = d)
    BY DEF UsersOf
  <2> QED BY <2>1, <2>2, OneDiffers, Finite, FinitePrime DEF Bit
<1>2. drec[d].refs = Bit(drv = d) + Cardinality(DevicesOf(d)) + Cardinality(UsersOf(d))
  BY DEF DriverRefsExact, Bit
<1>3. /\ Cardinality(DevicesOf(d)) \in Int /\ Cardinality(UsersOf(d)) \in Int
      /\ Cardinality(DevicesOf(d))' \in Int
  BY Naturals, FinitePrime, FS_CardinalityType
<1>4. /\ Bit(drv = d) \in Int /\ Bit(drv' = d) \in Int
      /\ Bit(job[a].driver = d) \in Int /\ Bit(job'[a].driver = d) \in Int
      /\ drec[d].refs \in Int
  BY DEF Bit, TypeOK, Driver
<1>5. drec'[d].refs = drec[d].refs - Bit(drv = d) + Bit(drv' = d)
             - Cardinality(DevicesOf(d)) + Cardinality(DevicesOf(d))'
             - Bit(job[a].driver = d) + Bit(job'[a].driver = d)
  OBVIOUS
<1> HIDE DEF UsersOf, DevicesOf
<1> QED BY <1>1, <1>2, <1>3, <1>4, <1>5 DEF Bit

\* The same when the devices keep their owners, and when one gets another.
LEMMA DriverBalanceHands ==
  ASSUME DeviceAssumption, TypeOK, DriverRefsExact, NEW a \in Actors, Alone(a), SameOwners,
         \A d \in DriverRecords :
           drec'[d].refs = drec[d].refs - Bit(drv = d) + Bit(drv' = d)
             - Bit(job[a].driver = d) + Bit(job'[a].driver = d)
  PROVE  DriverRefsExact'
<1>1. ASSUME NEW d \in DriverRecords
      PROVE  drec'[d].refs = drec[d].refs - Bit(drv = d) + Bit(drv' = d)
               - Cardinality(DevicesOf(d)) + Cardinality(DevicesOf(d))'
               - Bit(job[a].driver = d) + Bit(job'[a].driver = d)
  <2>1. Cardinality(DevicesOf(d))' = Cardinality(DevicesOf(d))
    <3>1. DevicesOf(d)' = DevicesOf(d)
      BY DEF DevicesOf, SameOwners
    <3> QED BY <3>1
  <2>2. drec[d].refs \in Int
    BY DEF TypeOK, Driver
  <2> QED BY <2>1, <2>2, Naturals DEF Bit
<1> QED BY <1>1, DriverBalance

LEMMA DriverBalanceOwner ==
  ASSUME DeviceAssumption, TypeOK, DriverRefsExact, NEW a \in Actors, Alone(a),
         NEW r \in Records, \A q \in Records \ {r} : dev'[q].owner = dev[q].owner,
         \A d \in DriverRecords :
           drec'[d].refs = drec[d].refs - Bit(drv = d) + Bit(drv' = d)
             - Bit(dev[r].owner = d) + Bit(dev'[r].owner = d)
             - Bit(job[a].driver = d) + Bit(job'[a].driver = d)
  PROVE  DriverRefsExact'
<1>1. ASSUME NEW d \in DriverRecords
      PROVE  drec'[d].refs = drec[d].refs - Bit(drv = d) + Bit(drv' = d)
               - Cardinality(DevicesOf(d)) + Cardinality(DevicesOf(d))'
               - Bit(job[a].driver = d) + Bit(job'[a].driver = d)
  <2>1. Cardinality(DevicesOf(d))' = Cardinality(DevicesOf(d))
          - Bit(dev[r].owner = d) + Bit(dev'[r].owner = d)
    <3>1. DevicesOf(d) \ {r} = DevicesOf(d)' \ {r}
      BY DEF DevicesOf
    <3>2. (r \in DevicesOf(d) <=> dev[r].owner = d) /\ (r \in DevicesOf(d)' <=> dev'[r].owner = d)
      BY DEF DevicesOf
    <3> QED BY <3>1, <3>2, OneDiffers, Finite, FinitePrime DEF Bit
  <2>2. drec[d].refs \in Int
    BY DEF TypeOK, Driver
  <2>3. drec'[d].refs = drec[d].refs - Bit(drv = d) + Bit(drv' = d)
             - Bit(dev[r].owner = d) + Bit(dev'[r].owner = d)
             - Bit(job[a].driver = d) + Bit(job'[a].driver = d)
    OBVIOUS
  <2>4. Cardinality(DevicesOf(d)) \in Int
    BY Naturals
  <2> QED BY <2>1, <2>2, <2>3, <2>4 DEF Bit
<1> QED BY <1>1, DriverBalance

\* What is held is counted.
LEMMA Held ==
  ASSUME DeviceAssumption, TypeOK, DeviceRefsExact, Lives
  PROVE  /\ \A r \in Records : dev[r].refs >= 0
         /\ \A r \in Records :
              \/ ListsWith(r) # {} \/ HandlesOf(r) # {} \/ Creators(r) # {}
              \/ Getters(r) # {} \/ Finders(r) # {} \/ Adders(r) # {}
              => dev[r].refs > 0 /\ dev[r].owner # Nobody /\ dev[r].by = Nobody
<1> SUFFICES ASSUME NEW r \in Records
             PROVE  /\ dev[r].refs >= 0
                    /\ \/ ListsWith(r) # {} \/ HandlesOf(r) # {} \/ Creators(r) # {}
                       \/ Getters(r) # {} \/ Finders(r) # {} \/ Adders(r) # {}
                       => dev[r].refs > 0 /\ dev[r].owner # Nobody /\ dev[r].by = Nobody
  OBVIOUS
<1>1. dev[r].refs = References(r)
  BY DEF DeviceRefsExact
<1>2. References(r) >= 0
  BY Naturals DEF References
<1>3. \A S : IsFiniteSet(S) /\ S # {} => Cardinality(S) # 0
  BY FS_EmptySet
<1>4. (\/ ListsWith(r) # {} \/ HandlesOf(r) # {} \/ Creators(r) # {}
       \/ Getters(r) # {} \/ Finders(r) # {} \/ Adders(r) # {})
        => References(r) > 0
  <2>1. /\ ListsWith(r) # {} => Cardinality(ListsWith(r)) # 0
        /\ HandlesOf(r) # {} => Cardinality(HandlesOf(r)) # 0
        /\ Creators(r) # {} => Cardinality(Creators(r)) # 0
        /\ Getters(r) # {} => Cardinality(Getters(r)) # 0
        /\ Finders(r) # {} => Cardinality(Finders(r)) # 0
        /\ Adders(r) # {} => Cardinality(Adders(r)) # 0
    BY <1>3, Finite, Zenon
  <2>2. /\ Cardinality(ListsWith(r)) \in Nat /\ Cardinality(HandlesOf(r)) \in Nat
        /\ Cardinality(Creators(r)) \in Nat /\ Cardinality(Getters(r)) \in Nat
        /\ Cardinality(Finders(r)) \in Nat /\ Cardinality(Adders(r)) \in Nat
    BY Naturals
  <2> QED BY <2>1, <2>2 DEF References
<1>5. Life(r)
  BY DEF Lives
<1> QED BY <1>1, <1>2, <1>4, <1>5 DEF Life

\* A record whose count is positive, that is.
Live(r) == dev[r].refs > 0 /\ dev[r].owner # Nobody /\ dev[r].by = Nobody

LEMMA Alive ==
  ASSUME DeviceAssumption, TypeOK, DeviceRefsExact, Lives
  PROVE  /\ \A d \in DriverRecords : sel[d] # Nobody => Live(sel[d])
         /\ \A h \in Handles : handles[h] # Nobody => Live(handles[h])
         /\ \A a \in Actors :
              /\ job[a].new # Nobody => Live(job[a].new)
              /\ job[a].got # Nobody /\ at[a] \notin Translating => Live(job[a].got)
              /\ job[a].found # Nobody => Live(job[a].found)
<1>1. \A d \in DriverRecords : sel[d] # Nobody => Live(sel[d])
  BY Held DEF ListsWith, TypeOK, Live
<1>2. \A h \in Handles : handles[h] # Nobody => Live(handles[h])
  BY Held DEF HandlesOf, TypeOK, Live
<1>3. ASSUME NEW a \in Actors
      PROVE  /\ job[a].new # Nobody => Live(job[a].new)
             /\ job[a].got # Nobody /\ at[a] \notin Translating => Live(job[a].got)
             /\ job[a].found # Nobody => Live(job[a].found)
  <2>1. job[a].new # Nobody => job[a].new \in Records /\ a \in Creators(job[a].new)
    BY DEF TypeOK, Job, Creators
  <2>2. job[a].got # Nobody /\ at[a] \notin Translating
          => job[a].got \in Records /\ a \in Getters(job[a].got)
    BY DEF TypeOK, Job, Getters
  <2>3. job[a].found # Nobody => job[a].found \in Records /\ a \in Finders(job[a].found)
    BY DEF TypeOK, Job, Finders
  <2> QED BY <2>1, <2>2, <2>3, Held DEF Live
<1> QED BY <1>1, <1>2, <1>3

\* A record without references is in nobody's hands.
LEMMA Loose ==
  ASSUME DeviceAssumption, TypeOK, DeviceRefsExact, Lives, NEW r \in Records, ~(dev[r].refs > 0)
  PROVE  /\ \A d \in DriverRecords : sel[d] # r
         /\ \A h \in Handles : handles[h] # r
         /\ \A a \in Actors : /\ job[a].new # r /\ job[a].found # r
                              /\ at[a] \notin Translating => job[a].got # r
  BY Alive DEF Live, DeviceAssumption

\* What an actor adds or drops, it holds.
LEMMA TargetLive ==
  ASSUME DeviceAssumption, TypeOK, DeviceRefsExact, Lives, NEW a \in Actors,
         Target(a) # Nobody, at[a] \notin Translating
  PROVE  Target(a) \in Records /\ Live(Target(a))
  BY Alive DEF Target, TypeOK, Job

-----------------------------------------------------------------------------
(* The place and the hands of the one actor that moves.                    *)

LEMMA SameAlone ==
  ASSUME NEW a \in Actors, UNCHANGED <<at, job>>
  PROVE  /\ Alone(a)
         /\ Now(a, at[a], job[a].driver, job[a].new, job[a].got, job[a].found,
                job[a].hnd, job[a].added)
  BY DEF Alone, Now

LEMMA GotoAlone ==
  ASSUME TypeOK, NEW a \in Actors, NEW l \in Places, Goto(a, l), job' = job
  PROVE  /\ at' \in [Actors -> Places] /\ Alone(a)
         /\ Now(a, l, job[a].driver, job[a].new, job[a].got, job[a].found,
                job[a].hnd, job[a].added)
  BY GotoFacts DEF Alone, Now

LEMMA DriverAlone ==
  ASSUME TypeOK, NEW a \in Actors, NEW l \in Places, NEW d \in DriverRecords \cup {Nobody},
         Goto(a, l), Hold(a, "driver", d)
  PROVE  /\ at' \in [Actors -> Places] /\ job' \in [Actors -> Job] /\ Alone(a)
         /\ Now(a, l, d, job[a].new, job[a].got, job[a].found, job[a].hnd, job[a].added)
<1>1. job' = [job EXCEPT ![a]["driver"] = d]
  BY DEF Hold
<1>2. [job[a] EXCEPT !["driver"] = d] \in Job
  BY DEF TypeOK, Job
<1>3. /\ job' \in [Actors -> Job] /\ \A b \in Actors \ {a} : job'[b] = job[b]
      /\ job'[a] = [job[a] EXCEPT !["driver"] = d] /\ job[a] \in Job
  BY <1>1, <1>2 DEF TypeOK
<1>4. /\ job'[a].driver = d /\ job'[a].new = job[a].new
      /\ job'[a].got = job[a].got /\ job'[a].found = job[a].found
      /\ job'[a].hnd = job[a].hnd /\ job'[a].added = job[a].added
  BY <1>3 DEF Job
<1> QED BY <1>3, <1>4, GotoFacts DEF Alone, Now

LEMMA NewAlone ==
  ASSUME TypeOK, NEW a \in Actors, at[a] \in Places, at' = at, Hold(a, "new", Nobody)
  PROVE  /\ job' \in [Actors -> Job] /\ Alone(a)
         /\ Now(a, at[a], job[a].driver, Nobody, job[a].got, job[a].found, job[a].hnd,
                job[a].added)
<1>1. job' = [job EXCEPT ![a]["new"] = Nobody]
  BY DEF Hold
<1> QED BY <1>1 DEF Alone, Now, TypeOK, Job

LEMMA GotAlone ==
  ASSUME TypeOK, NEW a \in Actors, NEW l \in Places, NEW r \in Records \cup {Nobody},
         Goto(a, l) \/ (at' = at /\ l = at[a]), Hold(a, "got", r)
  PROVE  /\ at' \in [Actors -> Places] /\ job' \in [Actors -> Job] /\ Alone(a)
         /\ Now(a, l, job[a].driver, job[a].new, r, job[a].found, job[a].hnd, job[a].added)
<1>1. job' = [job EXCEPT ![a]["got"] = r]
  BY DEF Hold
<1>2. at' \in [Actors -> Places] /\ at'[a] = l /\ \A b \in Actors \ {a} : at'[b] = at[b]
  BY GotoFacts DEF TypeOK
<1> QED BY <1>1, <1>2 DEF Alone, Now, TypeOK, Job

LEMMA FoundAlone ==
  ASSUME TypeOK, NEW a \in Actors, NEW l \in Places, NEW r \in Records \cup {Nobody},
         Goto(a, l), Hold(a, "found", r)
  PROVE  /\ at' \in [Actors -> Places] /\ job' \in [Actors -> Job] /\ Alone(a)
         /\ Now(a, l, job[a].driver, job[a].new, job[a].got, r, job[a].hnd, job[a].added)
<1>1. job' = [job EXCEPT ![a]["found"] = r]
  BY DEF Hold
<1>2. [job[a] EXCEPT !["found"] = r] \in Job
  BY DEF TypeOK, Job
<1>3. /\ job' \in [Actors -> Job] /\ \A b \in Actors \ {a} : job'[b] = job[b]
      /\ job'[a] = [job[a] EXCEPT !["found"] = r] /\ job[a] \in Job
  BY <1>1, <1>2 DEF TypeOK
<1>4. /\ job'[a].driver = job[a].driver /\ job'[a].new = job[a].new
      /\ job'[a].got = job[a].got /\ job'[a].found = r
      /\ job'[a].hnd = job[a].hnd /\ job'[a].added = job[a].added
  BY <1>3 DEF Job
<1> QED BY <1>3, <1>4, GotoFacts DEF Alone, Now

LEMMA HandleAlone ==
  ASSUME TypeOK, NEW a \in Actors, NEW l \in Places, NEW h \in Handles,
         Goto(a, l), Hold(a, "hnd", h)
  PROVE  /\ at' \in [Actors -> Places] /\ job' \in [Actors -> Job] /\ Alone(a)
         /\ Now(a, l, job[a].driver, job[a].new, job[a].got, job[a].found, h, job[a].added)
<1>1. job' = [job EXCEPT ![a]["hnd"] = h]
  BY DEF Hold
<1>2. [job[a] EXCEPT !["hnd"] = h] \in Job
  BY DEF TypeOK, Job
<1>3. /\ job' \in [Actors -> Job] /\ \A b \in Actors \ {a} : job'[b] = job[b]
      /\ job'[a] = [job[a] EXCEPT !["hnd"] = h] /\ job[a] \in Job
  BY <1>1, <1>2 DEF TypeOK
<1>4. /\ job'[a].driver = job[a].driver /\ job'[a].new = job[a].new
      /\ job'[a].got = job[a].got /\ job'[a].found = job[a].found
      /\ job'[a].hnd = h /\ job'[a].added = job[a].added
  BY <1>3 DEF Job
<1> QED BY <1>3, <1>4, GotoFacts DEF Alone, Now

LEMMA AddedAlone ==
  ASSUME TypeOK, NEW a \in Actors, NEW l \in Places, NEW b \in BOOLEAN,
         Goto(a, l), Hold(a, "added", b)
  PROVE  /\ at' \in [Actors -> Places] /\ job' \in [Actors -> Job] /\ Alone(a)
         /\ Now(a, l, job[a].driver, job[a].new, job[a].got, job[a].found, job[a].hnd, b)
<1>1. job' = [job EXCEPT ![a]["added"] = b]
  BY DEF Hold
<1>2. job' \in [Actors -> Job] /\ \A c \in Actors \ {a} : job'[c] = job[c]
  BY <1>1 DEF TypeOK, Job
<1>3. job'[a] = [job[a] EXCEPT !["added"] = b] /\ job[a] \in Job
  BY <1>1 DEF TypeOK
<1>4. /\ job'[a].driver = job[a].driver /\ job'[a].new = job[a].new /\ job'[a].got = job[a].got
      /\ job'[a].found = job[a].found /\ job'[a].hnd = job[a].hnd /\ job'[a].added = b
  BY <1>3 DEF Job
<1> QED BY <1>2, <1>4, GotoFacts DEF Alone, Now

LEMMA SizeAlone ==
  ASSUME TypeOK, NEW a \in Actors, NEW l \in Places, NEW n \in Nat,
         Goto(a, l), Hold(a, "size", n)
  PROVE  /\ at' \in [Actors -> Places] /\ job' \in [Actors -> Job] /\ Alone(a)
         /\ Now(a, l, job[a].driver, job[a].new, job[a].got, job[a].found, job[a].hnd,
                job[a].added)
<1>1. job' = [job EXCEPT ![a]["size"] = n]
  BY DEF Hold
<1>0. [job[a] EXCEPT !["size"] = n] \in Job
  BY DEF TypeOK, Job
<1>2. job' \in [Actors -> Job] /\ \A b \in Actors \ {a} : job'[b] = job[b]
  BY <1>0, <1>1 DEF TypeOK
<1>3. job'[a] = [job[a] EXCEPT !["size"] = n] /\ job[a] \in Job
  BY <1>1 DEF TypeOK
<1>4. /\ job'[a].driver = job[a].driver /\ job'[a].new = job[a].new /\ job'[a].got = job[a].got
      /\ job'[a].found = job[a].found /\ job'[a].hnd = job[a].hnd
      /\ job'[a].added = job[a].added
  BY <1>3 DEF Job
<1> QED BY <1>2, <1>4, GotoFacts DEF Alone, Now

-----------------------------------------------------------------------------
(* What a step has to respect for each part of the invariant to survive.   *)

\* The parts but for the counts and what the moving actor holds.
Rest == Fresh /\ OneBusy /\ Works /\ Lists /\ Valid /\ Lates

LEMMA HandsKept ==
  ASSUME Hands, NEW a \in Actors, Alone(a), HandsOK(a)'
  PROVE  Hands'
<1> SUFFICES ASSUME NEW b \in Actors PROVE HandsOK(b)'
  BY DEF Hands
<1>1. CASE b = a
  BY <1>1
<1>2. CASE b # a
  <2>1. at'[b] = at[b] /\ job'[b] = job[b]
    BY <1>2 DEF Alone
  <2>2. HandsOK(b)
    BY DEF Hands
  <2> QED BY <2>1, <2>2 DEF HandsOK, Target
<1> QED BY <1>1, <1>2

LEMMA LivesKept ==
  ASSUME Lives, UNCHANGED dev
  PROVE  Lives'
  BY DEF Lives, Life

LEMMA LivesDropped ==
  ASSUME DeviceAssumption, TypeOK, Lives, NEW r \in Records, NEW a \in Actors, Live(r),
         dev' = Dropped(r, a)
  PROVE  Lives'
<1> SUFFICES ASSUME NEW q \in Records PROVE Life(q)'
  BY DEF Lives
<1>1. /\ dev'[q].refs = dev[q].refs + (IF q = r THEN -1 ELSE 0)
      /\ dev'[q].owner = dev[q].owner
      /\ dev'[q].by = IF q = r /\ dev[q].refs = 1 THEN a ELSE dev[q].by
  BY DroppedFacts DEF Counted, SameDevices, SameOwners
<1>2. Life(q) /\ dev[q].refs \in Int /\ a # Nobody
  BY DEF Lives, TypeOK, Device, DeviceAssumption
<1> QED BY <1>1, <1>2 DEF Life, Live

LEMMA LivesReferenced ==
  ASSUME TypeOK, Lives, NEW r \in Records, Live(r), Counted(r, 1), SameOwners,
         \A q \in Records : dev'[q].by = dev[q].by
  PROVE  Lives'
<1> SUFFICES ASSUME NEW q \in Records PROVE Life(q)'
  BY DEF Lives
<1>1. /\ dev'[q].refs = dev[q].refs + (IF q = r THEN 1 ELSE 0)
      /\ dev'[q].owner = dev[q].owner /\ dev'[q].by = dev[q].by
  BY DEF Counted, SameOwners
<1>2. Life(q) /\ dev[q].refs \in Int
  BY DEF Lives, TypeOK, Device
<1> QED BY <1>1, <1>2 DEF Life, Live

\* A record that somebody is adding has nothing to do with anybody else.
LEMMA FreshKept ==
  ASSUME DeviceAssumption, TypeOK, DeviceRefsExact, Hands, Lives, Fresh, NEW a \in Actors,
         Alone(a),
         \A q \in Records : Live(q) /\ job[a].new # q /\ job[a].found # q /\ ~Adding(q)
           => dev'[q].owner = dev[q].owner /\ dev'[q].reason = dev[q].reason,
         \A d \in DriverRecords : \/ sel'[d] \in {sel[d], Nobody, job[a].new}
                                  \/ ~Live(sel'[d]),
         job'[a].new \in {job[a].new, Nobody} \/ ~Live(job'[a].new),
         \/ job'[a].found \in {job[a].found, Nobody}
         \/ \E d \in DriverRecords : sel[d] = job'[a].found,
         at'[a] \in {"proxy", "make"} =>
           \/ Target(a)' = job[a].new \/ Adding(Target(a)')
           \/ \E d \in DriverRecords : sel[d] = Target(a)',
         FreshOK(a)'
  PROVE  Fresh'
<1> SUFFICES ASSUME NEW b \in Actors PROVE FreshOK(b)'
  BY DEF Fresh
<1>1. CASE b = a
  BY <1>1
<1>2. CASE b # a /\ at[b] # "insert"
  BY <1>2 DEF FreshOK, Alone
<1>3. CASE b # a /\ at[b] = "insert"
  <2>0. PICK r : r = job[b].new
    OBVIOUS
  <2>1. at'[b] = at[b] /\ job'[b] = job[b]
    BY <1>3 DEF Alone
  <2>2. /\ dev[r].owner = job[b].driver /\ dev[r].reason = "user"
        /\ \A d \in DriverRecords : sel[d] # r
        /\ \A c \in Actors : job[c].found # r /\ (c # b => job[c].new # r)
        /\ ~Adding(r)
    BY <1>3, <2>0 DEF Fresh, FreshOK
  <2>3. r # Nobody /\ r \in Records /\ Live(r)
    BY <1>3, <2>0, Alive DEF TypeOK, Job, Hands, HandsOK, New
  <2>4. job[a].new # r /\ job[a].found # r /\ ~Adding(r)
    BY <1>3, <2>2
  <2>5. dev'[r].owner = dev[r].owner /\ dev'[r].reason = dev[r].reason
    BY <2>3, <2>4
  <2>6. \A d \in DriverRecords : sel'[d] # r
    BY <2>2, <2>3, <2>4
  <2>7. job'[a].found # r /\ job'[a].new # r
    BY <2>2, <2>3, <2>4
  <2>8. \A c \in Actors : job'[c].found # r /\ (c # b => job'[c].new # r)
    BY <2>2, <2>7 DEF Alone
  <2>9. ~(at'[a] \in {"proxy", "make"} /\ Target(a)' = r)
    BY <2>2, <2>4
  <2>10. ~Adding(r)'
    <3>1. \A c \in Actors \ {a} : Target(c)' = Target(c)
      BY DEF Target, Alone
    <3> QED BY <2>9, <2>2, <3>1 DEF Adding, Alone
  <2> QED BY <2>0, <2>1, <2>2, <2>5, <2>6, <2>8, <2>10 DEF FreshOK
<1> QED BY <1>1, <1>2, <1>3

\* What is busy with a record holds it.
LEMMA BusyLive ==
  ASSUME DeviceAssumption, TypeOK, DeviceRefsExact, Hands, Lives, NEW a \in Actors,
         NEW r \in Records, Busy(a, r) \/ (at[a] = "back" /\ Target(a) = r)
  PROVE  Live(r)
<1>1. r # Nobody
  BY DEF DeviceAssumption
<1>2. at[a] \in {"proxy", "make", "back"} => at[a] \notin Translating
  BY DEF Translating
<1> QED BY <1>1, <1>2, Alive, TargetLive DEF Busy

LEMMA OneBusyKept ==
  ASSUME DeviceAssumption, TypeOK, DeviceRefsExact, Hands, Lives, OneBusy, NEW a \in Actors,
         Alone(a),
         \A q \in Records : Live(q) => dev'[q].crossed = dev[q].crossed \/ dev'[q].crossed,
         \A q \in Records : Busy(a, q)' =>
           Busy(a, q) \/ dev'[q].crossed \/ \A b \in Actors \ {a} : ~Busy(b, q)
  PROVE  OneBusy'
<1>1. \A q : \A b \in Actors \ {a} : Busy(b, q)' <=> Busy(b, q)
  BY DEF Busy, Alone, Target
<1>2. ASSUME NEW q \in Records, ~dev'[q].crossed, NEW b \in Actors, NEW c \in Actors,
             Busy(b, q)', Busy(c, q)', b # c, c # a
      PROVE  FALSE
  <2>1. Busy(c, q)
    BY <1>1, <1>2
  <2>2. Busy(b, q)
    BY <1>1, <1>2, <2>1
  <2>3. Live(q)
    BY <2>1, BusyLive
  <2>4. ~dev[q].crossed
    BY <1>2, <2>3
  <2> QED BY <1>2, <2>1, <2>2, <2>4 DEF OneBusy
<1> QED BY <1>2 DEF OneBusy

LEMMA WorksKept ==
  ASSUME DeviceAssumption, TypeOK, DeviceRefsExact, Hands, Lives, OneBusy, Works,
         NEW a \in Actors, Alone(a),
         \A q \in Records : Live(q) => dev'[q].crossed = dev[q].crossed \/ dev'[q].crossed,
         \A q \in Records : Live(q) => dev'[q].reason = dev[q].reason \/ Busy(a, q),
         BusyOK(a)'
  PROVE  Works'
<1> SUFFICES ASSUME NEW b \in Actors, b # a PROVE BusyOK(b)'
  BY DEF Works
<1>1. at'[b] = at[b] /\ job'[b] = job[b]
  BY DEF Alone
<1>2. ASSUME NEW q \in Records, Busy(b, q), ~dev'[q].crossed
      PROVE  dev'[q].reason = dev[q].reason /\ ~dev[q].crossed
  <2>1. Live(q)
    BY <1>2, BusyLive
  <2>2. ~dev[q].crossed
    BY <1>2, <2>1
  <2>3. ~Busy(a, q)
    BY <1>2, <2>2 DEF OneBusy
  <2> QED BY <2>1, <2>2, <2>3
<1>3. BusyOK(b)
  BY DEF Works
<1>4. /\ at[b] \in {"proxy", "make"} /\ job[b].got = Nobody
           => job[b].new \in Records /\ Busy(b, job[b].new)
      /\ at[b] = "invalidate" => job[b].found \in Records /\ Busy(b, job[b].found)
  BY DEF TypeOK, Job, Hands, HandsOK, New, Busy, Target
<1> QED BY <1>1, <1>2, <1>3, <1>4 DEF BusyOK

LEMMA ListsKept ==
  ASSUME DeviceAssumption, TypeOK, DeviceRefsExact, Lives, Lists, NEW a \in Actors, Alone(a),
         \A q \in Records : Live(q) =>
           /\ dev'[q].owner = dev[q].owner
           /\ dev'[q].crossed = dev[q].crossed \/ dev'[q].crossed,
         \A q \in Records :
           at[a] = "back" /\ Target(a) = q =>
             \/ at'[a] = "back" /\ Target(a)' = q
             \/ \A d \in DriverRecords : sel'[d] # q,
         \A q \in Records : Live(q) /\ ~dev'[q].crossed /\ ~TakingBack(q)' =>
           /\ Steady(q) => Steady(q)' \/ Midway(a, q)'
           /\ Midway(a, q) => Steady(q)' \/ Midway(a, q)',
         \A d \in DriverRecords : sel'[d] \in {sel[d], Nobody} \/ ListedOK(d)'
  PROVE  Lists'
<1> SUFFICES ASSUME NEW d \in DriverRecords, sel'[d] = sel[d], sel[d] # Nobody
             PROVE  ListedOK(d)'
  BY DEF Lists, ListedOK
<1> DEFINE r == sel[d]
<1>1. r \in Records /\ Live(r)
  BY Alive DEF TypeOK
<1>2. ListedOK(d)
  BY DEF Lists
<1>3. dev'[r].owner = d
  BY <1>1, <1>2 DEF ListedOK
<1>4. ASSUME ~dev'[r].crossed, ~TakingBack(r)'
      PROVE  Steady(r)' \/ \E b \in Actors : Midway(b, r)'
  <2>1. ~dev[r].crossed
    BY <1>1, <1>4
  <2>2. \A b \in Actors \ {a} : ~(at[b] = "back" /\ Target(b) = r)
    BY <1>4 DEF TakingBack, Alone, Target
  <2>3. ~(at[a] = "back" /\ Target(a) = r)
    BY <1>1, <1>4 DEF TakingBack
  <2>4. Steady(r) \/ \E b \in Actors : Midway(b, r)
    BY <1>2, <2>1, <2>2, <2>3 DEF ListedOK, TakingBack
  <2>5. \A b \in Actors \ {a} : Midway(b, r) => Midway(b, r)'
    BY DEF Midway, Alone
  <2> QED BY <1>1, <1>4, <2>4, <2>5
<1> QED BY <1>3, <1>4 DEF ListedOK

LEMMA LatesKept ==
  ASSUME Lates, NEW a \in Actors, Alone(a), drv' = drv,
         at[a] = "clear" => at'[a] = "clear" /\ job'[a].driver = job[a].driver,
         \A d \in DriverRecords :
           sel'[d] \in {sel[d], Nobody} /\ drec'[d].late = drec[d].late
  PROVE  Lates'
<1> SUFFICES ASSUME NEW d \in DriverRecords PROVE LateOK(d)'
  BY DEF Lates
<1>1. LateOK(d)
  BY DEF Lates
<1>2. \A b \in Actors : at[b] = "clear" /\ job[b].driver = d
                          => at'[b] = "clear" /\ job'[b].driver = d
  BY DEF Alone
<1> QED BY <1>1, <1>2 DEF LateOK

\* Most steps touch neither a list nor what the records are for, and do not
\* belong to an adding or a deletion.
Plain(a) ==
  /\ Alone(a)
  /\ at[a] \notin New \cup {"revert", "invalidate"}
  /\ at'[a] \notin New \cup {"revert", "invalidate"}
  /\ job'[a].new \in {job[a].new, Nobody}
  /\ job[a].found = Nobody /\ job'[a].found = Nobody
  /\ valid' = valid

LEMMA RestKept ==
  ASSUME DeviceAssumption, TypeOK, Sound, NEW a \in Actors, Plain(a), SameDevices,
         \A d \in DriverRecords : sel'[d] \in {sel[d], Nobody}
  PROVE  Fresh' /\ OneBusy' /\ Works' /\ Lists' /\ Valid'
<1> USE DEF Sound
<1>1. Alone(a)
  BY DEF Plain
<1>2. /\ \A q \in Records : /\ dev'[q].owner = dev[q].owner /\ dev'[q].reason = dev[q].reason
                            /\ dev'[q].crossed = dev[q].crossed
      /\ valid' = valid
  BY DEF SameDevices, SameOwners, SameReasons, SameCrossed, Plain
<1>3. at'[a] \notin {"insert", "proxy", "make", "back", "invalidate"} /\ at[a] # "back"
  BY DEF Plain, New
<1>4. job'[a].found = Nobody /\ job'[a].new \in {job[a].new, Nobody}
  BY DEF Plain
<1>5. Fresh'
  <2>1. FreshOK(a)'
    BY <1>3 DEF FreshOK
  <2>2. at'[a] \notin {"proxy", "make"}
    BY <1>3
  <2> QED BY <1>1, <1>2, <1>4, <2>1, <2>2, FreshKept
<1>6. OneBusy'
  <2>1. \A q \in Records : ~Busy(a, q)'
    BY <1>3, <1>4 DEF Busy, DeviceAssumption
  <2> QED BY <1>1, <1>2, <2>1, OneBusyKept
<1>7. Works'
  <2>1. BusyOK(a)'
    BY <1>3 DEF BusyOK
  <2> QED BY <1>1, <1>2, <2>1, WorksKept
<1>8. Lists'
  <2>1. \A q \in Records : (Steady(q) => Steady(q)') /\ ~Midway(a, q)
    <3>1. at[a] \notin {"proxy", "make", "invalidate"}
      BY DEF Plain, New
    <3> QED BY <1>2, <3>1 DEF Steady, Midway
  <2> QED BY <1>1, <1>2, <1>3, <2>1, ListsKept
<1>9. Valid'
  BY <1>2 DEF Valid, TypeOK
<1> QED BY <1>5, <1>6, <1>7, <1>8, <1>9

\* The driver records' counts, when nothing of them or of their users changes.
LEMMA DriversKept ==
  ASSUME DeviceAssumption, TypeOK, DriverRefsExact, NEW a \in Actors, Alone(a), SameOwners,
         UNCHANGED <<drv, drec>>, job'[a].driver = job[a].driver
  PROVE  DriverRefsExact'
<1>1. ASSUME NEW d \in DriverRecords
      PROVE  drec'[d].refs = drec[d].refs - Bit(drv = d) + Bit(drv' = d)
                               - Bit(job[a].driver = d) + Bit(job'[a].driver = d)
  <2>1. drec[d].refs \in Int /\ drec'[d].refs = drec[d].refs
    BY DEF TypeOK, Driver
  <2>2. (drv' = d <=> drv = d) /\ (job'[a].driver = d <=> job[a].driver = d)
    OBVIOUS
  <2> QED BY <2>1, <2>2 DEF Bit
<1> QED BY <1>1, DriverBalanceHands

LEMMA SoundFrom ==
  ASSUME Hands', Lives', DeviceRefsExact', DriverRefsExact',
         Fresh', OneBusy', Works', Lists', Valid', Lates'
  PROVE  Sound'
  BY DEF Sound

-----------------------------------------------------------------------------
(* The plain steps.                                                        *)

LEMMA PlainSafe ==
  ASSUME DeviceAssumption, TypeOK, Sound, NEW a \in Actors, Plain(a), SameDevices,
         at[a] # "clear", UNCHANGED <<drv, drec, sel>>, job'[a].driver = job[a].driver,
         HandsOK(a)', Lives', DeviceRefsExact'
  PROVE  Sound'
<1> USE DEF Sound
<1>1. Alone(a) /\ SameOwners /\ \A d \in DriverRecords : sel'[d] = sel[d]
  BY DEF Plain, SameDevices
<1>2. Hands'
  BY <1>1, HandsKept
<1>3. DriverRefsExact'
  BY <1>1, DriversKept
<1>4. Fresh' /\ OneBusy' /\ Works' /\ Lists' /\ Valid'
  BY RestKept
<1>5. Lates'
  BY <1>1, LatesKept
<1> QED BY <1>2, <1>3, <1>4, <1>5, SoundFrom

\* The references stay as they are.
LEMMA StillSafe ==
  ASSUME DeviceAssumption, TypeOK, Sound, NEW a \in Actors, Plain(a),
         at[a] # "clear", UNCHANGED <<drv, drec, sel, dev, handles>>,
         job'[a].driver = job[a].driver, HandsOK(a)',
         \A r \in Records : Share(a, r)' = Share(a, r)
  PROVE  Sound'
<1> USE DEF Sound
<1>1. SameDevices
  BY DEF SameDevices, SameOwners, SameReasons, SameCrossed
<1>2. Lives'
  BY LivesKept
<1>3. ASSUME NEW r \in Records
      PROVE  dev'[r].refs = dev[r].refs - Share(a, r) + Share(a, r)'
  <2>1. dev[r].refs \in Int /\ Share(a, r) \in Int
    BY DEF TypeOK, Device, Share, Bit
  <2>2. Share(a, r)' = Share(a, r)
    OBVIOUS
  <2> QED BY <2>1, <2>2
<1>4. DeviceRefsExact'
  BY <1>3, BalanceHands DEF Plain
<1> QED BY <1>1, <1>2, <1>4, PlainSafe

\* The actor drops a record, or takes one.
LEMMA DropSafe ==
  ASSUME DeviceAssumption, TypeOK, Sound, NEW a \in Actors, Plain(a),
         at[a] # "clear", UNCHANGED <<drv, drec, sel, handles>>,
         job'[a].driver = job[a].driver, HandsOK(a)',
         NEW r \in Records, Live(r), dev' = Dropped(r, a),
         \A q \in Records : Share(a, q)' = Share(a, q) - Bit(q = r)
  PROVE  Sound' /\ dev' \in [Records -> Device]
<1> USE DEF Sound
<1>1. dev' \in [Records -> Device] /\ Counted(r, -1) /\ SameDevices
  BY DroppedFacts
<1>2. Lives'
  BY LivesDropped
<1>3. ASSUME NEW q \in Records
      PROVE  dev'[q].refs = dev[q].refs - Share(a, q) + Share(a, q)'
  <2>1. dev[q].refs \in Int /\ Share(a, q) \in Int
    BY DEF TypeOK, Device, Share, Bit
  <2>2. dev'[q].refs = dev[q].refs + (IF q = r THEN -1 ELSE 0)
    BY <1>1 DEF Counted
  <2>3. Share(a, q)' = Share(a, q) - (IF q = r THEN 1 ELSE 0)
    BY DEF Bit
  <2> QED BY <2>1, <2>2, <2>3
<1>4. DeviceRefsExact'
  BY <1>3, BalanceHands DEF Plain
<1> QED BY <1>1, <1>2, <1>4, PlainSafe

LEMMA TakeSafe ==
  ASSUME DeviceAssumption, TypeOK, Sound, NEW a \in Actors, Plain(a),
         at[a] # "clear", UNCHANGED <<drv, drec, sel, handles>>,
         job'[a].driver = job[a].driver, HandsOK(a)',
         NEW r \in Records, Live(r), dev' = Referenced(r),
         \A q \in Records : Share(a, q)' = Share(a, q) + Bit(q = r)
  PROVE  Sound' /\ dev' \in [Records -> Device]
<1> USE DEF Sound
<1>1. /\ dev' \in [Records -> Device] /\ Counted(r, 1) /\ SameDevices
      /\ \A q \in Records : dev'[q].by = dev[q].by
  BY ReferencedFacts
<1>2. Lives'
  BY <1>1, LivesReferenced DEF SameDevices
<1>3. ASSUME NEW q \in Records
      PROVE  dev'[q].refs = dev[q].refs - Share(a, q) + Share(a, q)'
  <2>1. dev[q].refs \in Int /\ Share(a, q) \in Int
    BY DEF TypeOK, Device, Share, Bit
  <2>2. dev'[q].refs = dev[q].refs + (IF q = r THEN 1 ELSE 0)
    BY <1>1 DEF Counted
  <2>3. Share(a, q)' = Share(a, q) + (IF q = r THEN 1 ELSE 0)
    BY DEF Bit
  <2> QED BY <2>1, <2>2, <2>3
<1>4. DeviceRefsExact'
  BY <1>3, BalanceHands DEF Plain
<1> QED BY <1>1, <1>2, <1>4, PlainSafe

\* A handle is closed.
LEMMA CloseSafe ==
  ASSUME DeviceAssumption, TypeOK, Sound, NEW a \in Actors, Plain(a),
         at[a] # "clear", UNCHANGED <<drv, drec, sel>>,
         job'[a].driver = job[a].driver, HandsOK(a)',
         NEW h \in Handles, handles' = [handles EXCEPT ![h] = Nobody],
         dev' = IF handles[h] = Nobody THEN dev ELSE Dropped(handles[h], a),
         \A q \in Records : Share(a, q)' = Share(a, q)
  PROVE  Sound' /\ dev' \in [Records -> Device]
<1> USE DEF Sound
<1> DEFINE r == handles[h]
<1>1. /\ dev' \in [Records -> Device] /\ Lives' /\ SameDevices
      /\ \A q \in Records : dev'[q].refs = dev[q].refs + (IF q = r THEN -1 ELSE 0)
  <2>1. CASE r = Nobody
    <3>1. dev' = dev /\ \A q \in Records : q # r /\ dev[q].refs \in Int
      BY <2>1 DEF DeviceAssumption, TypeOK, Device
    <3> QED BY <3>1, LivesKept DEF SameDevices, SameOwners, SameReasons, SameCrossed, TypeOK
  <2>2. CASE r # Nobody
    <3>1. r \in Records /\ Live(r) /\ dev' = Dropped(r, a)
      BY <2>2, Alive DEF TypeOK
    <3> QED BY <3>1, DroppedFacts, LivesDropped DEF Counted
  <2> QED BY <2>1, <2>2
<1>2. ASSUME NEW q \in Records
      PROVE  dev'[q].refs = dev[q].refs - Bit(handles[h] = q) + Bit(handles'[h] = q)
                              - Share(a, q) + Share(a, q)'
  <2>1. dev[q].refs \in Int /\ Share(a, q) \in Int /\ q # Nobody /\ handles'[h] = Nobody
    BY DEF TypeOK, Device, Share, Bit, DeviceAssumption
  <2>2. dev'[q].refs = dev[q].refs + (IF q = r THEN -1 ELSE 0)
    BY <1>1
  <2>3. Share(a, q)' = Share(a, q)
    OBVIOUS
  <2> QED BY <2>1, <2>2, <2>3 DEF Bit
<1>3. DeviceRefsExact'
  <2>1. \A g \in Handles \ {h} : handles'[g] = handles[g]
    BY DEF TypeOK
  <2> QED BY <1>2, <2>1, BalanceHandle DEF Plain
<1> QED BY <1>1, <1>3, PlainSafe

LEMMA DropNewSafe ==
  ASSUME DeviceAssumption, TypeOK, Sound, NEW a \in Actors, DropNew(a)
  PROVE  TypeOK' /\ Sound'
<1> DEFINE r == job[a].new
<1>1. at[a] = "leave" /\ r \in Records /\ Live(r) /\ HandsOK(a)
  BY Alive DEF DropNew, At, TypeOK, Job, Sound, Hands
<1>2. /\ job' \in [Actors -> Job] /\ Alone(a)
      /\ Now(a, at[a], job[a].driver, Nobody, job[a].got, job[a].found, job[a].hnd,
             job[a].added)
  BY NewAlone DEF DropNew, TypeOK
<1>3. HandsOK(a)' /\ Plain(a)
  BY <1>1, <1>2 DEF HandsOK, Now, New, Service, Translating, Target, Plain, DropNew
<1>4. \A q \in Records : Share(a, q)' = Share(a, q) - Bit(q = r)
  <2>1. ~job[a].added /\ ~job'[a].added /\ \A q \in Records : q # Nobody
    BY <1>1, <1>2 DEF DeviceAssumption, HandsOK, Now
  <2> QED BY <1>1, <1>2, <2>1 DEF Share, Bit, Now, Translating
<1>5. Sound' /\ dev' \in [Records -> Device]
  BY <1>1, <1>2, <1>3, <1>4, DropSafe DEF DropNew, Now
<1>6. TypeOK'
  BY <1>2, <1>5 DEF DropNew, TypeOK
<1> QED BY <1>5, <1>6

LEMMA DropGotSafe ==
  ASSUME DeviceAssumption, TypeOK, Sound, NEW a \in Actors, DropGot(a)
  PROVE  TypeOK' /\ Sound'
<1> DEFINE r == job[a].got
<1>1. /\ at[a] = "leave" /\ r \in Records /\ Live(r) /\ HandsOK(a)
      /\ dev' = Dropped(r, a)
  BY Alive DEF DropGot, At, TypeOK, Job, Sound, Hands, Translating
<1>2. /\ job' \in [Actors -> Job] /\ Alone(a)
      /\ Now(a, at[a], job[a].driver, job[a].new, Nobody, job[a].found, job[a].hnd,
             job[a].added)
  BY GotAlone DEF DropGot, TypeOK
<1>3. HandsOK(a)' /\ Plain(a)
  BY <1>1, <1>2 DEF HandsOK, Now, New, Service, Translating, Target, Plain, DropGot
<1>4. \A q \in Records : Share(a, q)' = Share(a, q) - Bit(q = r)
  <2>1. ~job[a].added /\ ~job'[a].added /\ \A q \in Records : q # Nobody
    BY <1>1, <1>2 DEF DeviceAssumption, HandsOK, Now
  <2> QED BY <1>1, <1>2, <2>1 DEF Share, Bit, Now, Translating
<1>5. Sound' /\ dev' \in [Records -> Device]
  BY <1>1, <1>2, <1>3, <1>4, DropSafe DEF DropGot, Now
<1>6. TypeOK'
  BY <1>2, <1>5 DEF DropGot, TypeOK
<1> QED BY <1>5, <1>6

\* The reference that AddDevice gave out.
LEMMA DropAddedSafe ==
  ASSUME DeviceAssumption, TypeOK, Sound, NEW a \in Actors, Report(a) \/ Out(a)
  PROVE  TypeOK' /\ Sound'
<1> DEFINE r == Target(a)
<1>1. at[a] \in {"report", "out"} /\ HandsOK(a)
  BY DEF Report, Out, At, Sound, Hands
<1>2. at[a] \notin Translating /\ r # Nobody /\ job[a].added
  BY <1>1 DEF HandsOK, Service, Translating
<1>3. r \in Records /\ Live(r)
  BY <1>2, TargetLive DEF Sound
<1>4. /\ Hold(a, "added", FALSE) /\ Goto(a, "leave") /\ dev' = Dropped(r, a)
      /\ UNCHANGED <<drv, drec, sel, valid, handles>>
  BY DEF Report, Out
<1>5. /\ at' \in [Actors -> Places] /\ job' \in [Actors -> Job] /\ Alone(a)
      /\ Now(a, "leave", job[a].driver, job[a].new, job[a].got, job[a].found, job[a].hnd, FALSE)
  BY <1>4, AddedAlone DEF Places
<1>6. HandsOK(a)' /\ Plain(a)
  BY <1>1, <1>4, <1>5 DEF HandsOK, Now, New, Service, Translating, Target, Plain
<1>7. \A q \in Records : Share(a, q)' = Share(a, q) - Bit(q = r)
  <2>1. job[a].added /\ ~job'[a].added /\ at'[a] \notin Translating
    BY <1>2, <1>5 DEF Now, Translating
  <2>2. job'[a].new = job[a].new /\ job'[a].got = job[a].got /\ job'[a].found = job[a].found
    BY <1>5 DEF Now
  <2> QED BY <1>2, <2>1, <2>2 DEF Share, Bit
<1>8. Sound' /\ dev' \in [Records -> Device]
  BY <1>1, <1>3, <1>4, <1>5, <1>6, <1>7, DropSafe DEF Now
<1>9. TypeOK'
  BY <1>4, <1>5, <1>8 DEF TypeOK
<1> QED BY <1>8, <1>9

\* Steps that only go on to the next place.
LEMMA GoOnSafe ==
  ASSUME DeviceAssumption, TypeOK, Sound, NEW a \in Actors, NEW l \in Places, Goto(a, l),
         UNCHANGED <<drv, drec, sel, dev, valid, handles, job>>,
         at[a] \notin New \cup Translating \cup {"revert", "invalidate", "clear"},
         l \notin New \cup Translating \cup {"revert", "invalidate"},
         HandsOK(a)'
  PROVE  TypeOK' /\ Sound'
<1>1. /\ at' \in [Actors -> Places] /\ Alone(a)
      /\ Now(a, l, job[a].driver, job[a].new, job[a].got, job[a].found, job[a].hnd,
             job[a].added)
  BY GotoAlone
<1>2. job[a].found = Nobody
  BY DEF Sound, Hands, HandsOK
<1>3. Plain(a)
  BY <1>1, <1>2 DEF Plain, Now
<1>4. \A q \in Records : Share(a, q)' = Share(a, q)
  <2>1. Target(a)' = Target(a)
    BY DEF Target
  <2> QED BY <1>1, <2>1 DEF Share, Bit, Now
<1>5. Sound'
  BY <1>1, <1>3, <1>4, StillSafe DEF Now
<1>6. TypeOK'
  BY <1>1 DEF TypeOK
<1> QED BY <1>5, <1>6

LEMMA HandleCreateFailSafe ==
  ASSUME DeviceAssumption, TypeOK, Sound, NEW a \in Actors, HandleCreateFail(a)
  PROVE  TypeOK' /\ Sound'
<1>1. at[a] = "handle" /\ HandsOK(a)
  BY DEF HandleCreateFail, At, Sound, Hands
<1>2. PICK l \in {"leave", "find"} : l = IF a \in Openers THEN "leave" ELSE "find"
  OBVIOUS
<1>3. at'[a] = l /\ job'[a] = job[a]
  BY <1>2 DEF HandleCreateFail, Goto, TypeOK
<1>4. HandsOK(a)'
  BY <1>1, <1>2, <1>3 DEF HandsOK, New, Service, Translating, Target
<1> QED BY <1>1, <1>2, <1>4, GoOnSafe DEF HandleCreateFail, New, Translating, Places

LEMMA CallSafe ==
  ASSUME DeviceAssumption, TypeOK, Sound, NEW a \in Actors, Call(a) \/ Set(a)
  PROVE  TypeOK' /\ Sound'
<1>1. /\ at[a] \in {"catch", "set"} /\ HandsOK(a) /\ Goto(a, "leave")
      /\ UNCHANGED <<drv, drec, sel, dev, valid, handles, job>>
  BY DEF Call, Set, At, Sound, Hands
<1>2. at'[a] = "leave" /\ job'[a] = job[a]
  BY <1>1 DEF Goto, TypeOK
<1>3. HandsOK(a)'
  BY <1>1, <1>2 DEF HandsOK, New, Service, Translating, Target
<1> QED BY <1>1, <1>3, GoOnSafe DEF New, Translating, Places

LEMMA OutputSafe ==
  ASSUME DeviceAssumption, TypeOK, Sound, NEW a \in Actors, Output(a)
  PROVE  TypeOK' /\ Sound'
<1>1. at[a] = "output" /\ HandsOK(a) /\ job[a].hnd \in Handles
  BY DEF Output, At, Sound, Hands, HandsOK, TypeOK, Job
<1>2. CASE (Goto(a, IF a \in Openers THEN "leave" ELSE "out") /\ UNCHANGED <<dev, handles>>)
  <2>1. PICK l \in {"leave", "out"} : l = IF a \in Openers THEN "leave" ELSE "out"
    OBVIOUS
  <2>2. at'[a] = l /\ job'[a] = job[a]
    BY <1>2, <2>1 DEF Output, Goto, TypeOK
  <2>3. HandsOK(a)'
    BY <1>1, <2>1, <2>2 DEF HandsOK, New, Service, Translating, Target
  <2> QED BY <1>1, <1>2, <2>1, <2>3, GoOnSafe DEF Output, New, Translating, Places
<1>3. CASE ~(Goto(a, IF a \in Openers THEN "leave" ELSE "out") /\ UNCHANGED <<dev, handles>>)
  <2>1. PICK l \in {"leave", "find"} : l = IF a \in Openers THEN "leave" ELSE "find"
    OBVIOUS
  <2>2. /\ handles' = [handles EXCEPT ![job[a].hnd] = Nobody]
        /\ dev' = IF handles[job[a].hnd] = Nobody THEN dev ELSE Dropped(handles[job[a].hnd], a)
        /\ Goto(a, l) /\ UNCHANGED <<drv, drec, sel, valid, job>>
    BY <1>3, <2>1 DEF Output
  <2>3. /\ at' \in [Actors -> Places] /\ Alone(a)
        /\ Now(a, l, job[a].driver, job[a].new, job[a].got, job[a].found, job[a].hnd,
               job[a].added)
    BY <2>1, <2>2, GotoAlone DEF Places
  <2>4. HandsOK(a)' /\ Plain(a)
    BY <1>1, <2>1, <2>2, <2>3 DEF HandsOK, Now, New, Service, Translating, Target, Plain
  <2>5. \A q \in Records : Share(a, q)' = Share(a, q)
    <3>1. Target(a)' = Target(a) /\ at'[a] \notin Translating /\ at[a] \notin Translating
      BY <1>1, <2>1, <2>2, <2>3 DEF Target, Now, Translating
    <3> QED BY <2>2, <3>1 DEF Share, Bit
  <2>6. Sound' /\ dev' \in [Records -> Device]
    BY <1>1, <2>2, <2>3, <2>4, <2>5, CloseSafe
  <2>7. TypeOK'
    BY <2>2, <2>3, <2>6 DEF TypeOK
  <2> QED BY <2>6, <2>7
<1> QED BY <1>2, <1>3

LEMMA CloseStepSafe ==
  ASSUME DeviceAssumption, TypeOK, Sound, NEW a \in Actors, Close(a)
  PROVE  TypeOK' /\ Sound'
<1>1. at[a] = "close" /\ HandsOK(a) /\ job[a].hnd \in Handles
  BY DEF Close, At, Sound, Hands, HandsOK, TypeOK, Job
<1>2. /\ at' \in [Actors -> Places] /\ Alone(a)
      /\ Now(a, "leave", job[a].driver, job[a].new, job[a].got, job[a].found, job[a].hnd,
             job[a].added)
  BY GotoAlone DEF Close, Places
<1>3. HandsOK(a)' /\ Plain(a)
  BY <1>1, <1>2 DEF HandsOK, Now, New, Service, Translating, Target, Plain, Close
<1>4. \A q \in Records : Share(a, q)' = Share(a, q)
  <2>1. Target(a)' = Target(a) /\ at'[a] \notin Translating /\ at[a] \notin Translating
    BY <1>1, <1>2 DEF Target, Now, Translating
  <2> QED BY <2>1 DEF Share, Bit, Close
<1>5. Sound' /\ dev' \in [Records -> Device]
  BY <1>1, <1>2, <1>3, <1>4, CloseSafe DEF Close
<1>6. TypeOK'
  BY <1>2, <1>5 DEF TypeOK, Close
<1> QED BY <1>5, <1>6

LEMMA CloseHandleSafe ==
  ASSUME DeviceAssumption, TypeOK, Sound, NEW a \in Actors, NEW h \in Handles,
         CloseHandle(a, h)
  PROVE  TypeOK' /\ Sound'
<1>1. at[a] = "idle" /\ HandsOK(a)
  BY DEF CloseHandle, At, Sound, Hands
<1>2. /\ Alone(a)
      /\ Now(a, at[a], job[a].driver, job[a].new, job[a].got, job[a].found, job[a].hnd,
             job[a].added)
  BY SameAlone DEF CloseHandle
<1>3. HandsOK(a)'
  BY <1>1 DEF HandsOK, Target, CloseHandle
<1>4. Plain(a)
  BY <1>1, <1>2 DEF HandsOK, Now, New, Plain, CloseHandle
<1>5. \A q \in Records : Share(a, q)' = Share(a, q)
  <2>1. Target(a)' = Target(a)
    BY DEF Target, CloseHandle
  <2> QED BY <2>1 DEF Share, Bit, CloseHandle
<1>6. Sound' /\ dev' \in [Records -> Device]
  BY <1>1, <1>3, <1>4, <1>5, CloseSafe DEF CloseHandle
<1>7. TypeOK'
  BY <1>6 DEF TypeOK, CloseHandle
<1> QED BY <1>6, <1>7

\* A handle is translated: the record is not referenced yet.
LEMMA TranslateSafe ==
  ASSUME DeviceAssumption, TypeOK, Sound, NEW a \in Actors, NEW h \in Handles,
         NEW l \in Translating, Translate(a, h, l)
  PROVE  TypeOK' /\ Sound'
<1>1. at[a] = "idle" /\ HandsOK(a) /\ job[a] = NoJob
  BY DEF Translate, At, Sound, Hands, HandsOK
<1>2. l \in Places /\ l \in {"translate to delete", "translate to set"}
  BY DEF Translating, Places
<1>3. job' = [job EXCEPT ![a] = [job[a] EXCEPT !.got = handles[h], !.hnd = h]]
  BY DEF Translate, TypeOK
<1>4. [job[a] EXCEPT !.got = handles[h], !.hnd = h] \in Job
  <2>1. job[a] \in Job /\ handles[h] \in Records
    BY DEF Translate, TypeOK
  <2> QED BY <2>1 DEF Job
<1>5. job'[a] = [NoJob EXCEPT !.got = handles[h], !.hnd = h]
  BY <1>1, <1>3 DEF TypeOK
<1>6. /\ at' \in [Actors -> Places] /\ job' \in [Actors -> Job] /\ Alone(a)
      /\ Now(a, l, Nobody, Nobody, handles[h], Nobody, h, FALSE)
  <2>1. /\ at' \in [Actors -> Places] /\ at'[a] = l
        /\ \A b \in Actors \ {a} : at'[b] = at[b] /\ job'[b] = job[b]
    BY <1>2, <1>3, GotoFacts DEF Translate, TypeOK
  <2>2. job' \in [Actors -> Job]
    BY <1>3, <1>4 DEF TypeOK
  <2> QED BY <1>5, <2>1, <2>2 DEF Alone, Now, NoJob
<1>7. handles[h] # Nobody /\ h # Nobody
  BY DEF Translate, DeviceAssumption
<1>8. HandsOK(a)' /\ Plain(a)
  BY <1>1, <1>2, <1>6, <1>7
    DEF HandsOK, Now, New, Service, Translating, Target, Plain, NoJob, Translate
<1>9. \A q \in Records : Share(a, q)' = Share(a, q)
  <2>1. \A q \in Records : q # Nobody
    BY DEF DeviceAssumption
  <2> QED BY <1>1, <1>6, <2>1 DEF Share, Bit, Now, NoJob
<1>10. Sound'
  <2>1. job'[a].driver = job[a].driver
    BY <1>1, <1>6 DEF Now, NoJob
  <2> QED BY <1>1, <1>8, <1>9, <2>1, StillSafe DEF Translate
<1>11. TypeOK'
  BY <1>6 DEF TypeOK, Translate
<1> QED BY <1>10, <1>11

LEMMA StillLive ==
  ASSUME DeviceAssumption, TypeOK, Sound, NEW r \in Records, dev[r].refs # 0
  PROVE  Live(r)
<1>1. dev[r].refs >= 0 /\ dev[r].refs \in Int
  BY Held DEF Sound, TypeOK, Device
<1>2. Life(r)
  BY DEF Sound, Lives
<1>3. dev[r].owner # Nobody /\ dev[r].by = Nobody
  BY <1>2 DEF Life
<1> QED BY <1>1, <1>3 DEF Live

LEMMA ShareTaken ==
  ASSUME NEW a, NEW r, at[a] \in Translating, at'[a] \notin Translating,
         ~job[a].added, ~job'[a].added, job'[a].new = job[a].new,
         job[a].got = r, job'[a].got = r, job'[a].found = job[a].found
  PROVE  \A q \in Records : Share(a, q)' = Share(a, q) + Bit(q = r)
  BY DEF Share, Bit

\* It is referenced now, unless it was freed meanwhile.
LEMMA ReferSafe ==
  ASSUME DeviceAssumption, TypeOK, Sound, NEW a \in Actors,
         Refer(a, "translate to delete", "find") \/ Refer(a, "translate to set", "set")
  PROVE  TypeOK' /\ (undef' = "no" => Sound')
<1>1. at[a] \in Translating /\ HandsOK(a)
  BY DEF Refer, At, Sound, Hands, Translating
<1>2. PICK r \in Records : r = job[a].got
  BY <1>1 DEF HandsOK, TypeOK, Job
<1>3. CASE dev[r].refs = 0
  BY <1>2, <1>3 DEF Refer, TypeOK
<1>4. CASE dev[r].refs # 0
  <2>1. PICK l \in {"find", "set"} : /\ Goto(a, l) /\ dev' = Referenced(r)
                                     /\ UNCHANGED <<drv, drec, sel, valid, handles, job>>
    BY <1>2, <1>4 DEF Refer
  <2>2. Live(r)
    BY <1>4, StillLive
  <2>3. /\ at' \in [Actors -> Places] /\ Alone(a)
        /\ Now(a, l, job[a].driver, job[a].new, job[a].got, job[a].found, job[a].hnd,
               job[a].added)
    BY <2>1, GotoAlone DEF Places
  <2>4. HandsOK(a)' /\ Plain(a)
    BY <1>1, <2>1, <2>3 DEF HandsOK, Now, New, Service, Translating, Target, Plain
  <2>5. \A q \in Records : Share(a, q)' = Share(a, q) + Bit(q = r)
    <3>1. ~job[a].added /\ ~job'[a].added /\ at'[a] \notin Translating
      BY <1>1, <2>1, <2>3 DEF HandsOK, Now, Translating
    <3>2. /\ job'[a].new = job[a].new /\ job'[a].got = r /\ job[a].got = r
          /\ job'[a].found = job[a].found
      BY <1>2, <2>3 DEF Now
    <3> QED BY <1>1, <3>1, <3>2, ShareTaken
  <2>6. Sound' /\ dev' \in [Records -> Device]
    BY <1>1, <2>1, <2>2, <2>3, <2>4, <2>5, TakeSafe DEF Translating
  <2>7. TypeOK'
    BY <2>1, <2>3, <2>6 DEF TypeOK
  <2> QED BY <2>6, <2>7
<1> QED BY <1>3, <1>4

LEMMA OpenSafe ==
  ASSUME DeviceAssumption, TypeOK, Sound, NEW a \in Actors, NEW r \in Records, Open(a, r)
  PROVE  TypeOK' /\ (undef' = "no" => Sound')
<1>1. at[a] = "idle" /\ HandsOK(a) /\ job[a] = NoJob /\ a \in Openers
  BY DEF Open, At, Sound, Hands, HandsOK
<1>2. CASE dev[r].refs = 0
  BY <1>2 DEF Open, TypeOK
<1>3. CASE dev[r].refs # 0
  <2>1. /\ dev' = Referenced(r) /\ Hold(a, "got", r) /\ Goto(a, "handle")
        /\ UNCHANGED <<drv, drec, sel, valid, handles>>
    BY <1>3 DEF Open
  <2>2. Live(r)
    BY <1>3, StillLive
  <2>3. /\ at' \in [Actors -> Places] /\ job' \in [Actors -> Job] /\ Alone(a)
        /\ Now(a, "handle", job[a].driver, job[a].new, r, job[a].found, job[a].hnd,
               job[a].added)
    BY <2>1, GotAlone DEF Places
  <2>4. /\ job[a].driver = Nobody /\ job[a].new = Nobody /\ job[a].got = Nobody
        /\ job[a].found = Nobody /\ ~job[a].added /\ r # Nobody
    BY <1>1 DEF NoJob, DeviceAssumption
  <2>5. HandsOK(a)' /\ Plain(a)
    BY <1>1, <2>1, <2>3, <2>4 DEF HandsOK, Now, New, Service, Translating, Target, Plain
  <2>6. \A q \in Records : Share(a, q)' = Share(a, q) + Bit(q = r)
    <3>1. at[a] \notin Translating /\ at'[a] \notin Translating /\ ~job'[a].added
          /\ job'[a].new = Nobody /\ job'[a].got = r /\ job'[a].found = Nobody
      BY <1>1, <2>3, <2>4 DEF Now, Translating
    <3>2. \A q \in Records : q # Nobody
      BY DEF DeviceAssumption
    <3> QED BY <2>4, <3>1, <3>2 DEF Share, Bit
  <2>7. Sound' /\ dev' \in [Records -> Device]
    BY <1>1, <2>1, <2>2, <2>3, <2>5, <2>6, TakeSafe DEF Now
  <2>8. TypeOK'
    BY <2>1, <2>3, <2>7 DEF TypeOK
  <2> QED BY <2>7, <2>8
<1> QED BY <1>2, <1>3

\* A handle is made: it takes a reference of its own.
LEMMA HandleCreateSafe ==
  ASSUME DeviceAssumption, TypeOK, Sound, NEW a \in Actors, NEW h \in Handles,
         HandleCreate(a, h)
  PROVE  TypeOK' /\ Sound'
<1> DEFINE r == Target(a)
<1>1. at[a] = "handle" /\ HandsOK(a)
  BY DEF HandleCreate, At, Sound, Hands
<1>2. r \in Records /\ Live(r)
  BY <1>1, TargetLive DEF HandsOK, Service, Translating, Sound
<1>3. /\ dev' \in [Records -> Device] /\ Counted(r, 1) /\ SameDevices
      /\ \A q \in Records : dev'[q].by = dev[q].by
  BY <1>2, ReferencedFacts DEF HandleCreate
<1>4. /\ at' \in [Actors -> Places] /\ job' \in [Actors -> Job] /\ Alone(a)
      /\ Now(a, "output", job[a].driver, job[a].new, job[a].got, job[a].found, h,
             job[a].added)
  BY HandleAlone DEF HandleCreate, Places
<1>5. HandsOK(a)' /\ Plain(a)
  <2>1. h # Nobody
    BY DEF DeviceAssumption
  <2> QED BY <1>1, <1>4, <2>1
        DEF HandsOK, Now, New, Service, Translating, Target, Plain, HandleCreate
<1>6. Lives'
  BY <1>2, <1>3, LivesReferenced DEF Sound, SameDevices
<1>7. DeviceRefsExact'
  <2>1. ASSUME NEW q \in Records
        PROVE  dev'[q].refs = dev[q].refs - Bit(handles[h] = q) + Bit(handles'[h] = q)
                                - Share(a, q) + Share(a, q)'
    <3>1. dev[q].refs \in Int /\ Share(a, q) \in Int /\ q # Nobody
      BY DEF TypeOK, Device, Share, Bit, DeviceAssumption
    <3>2. dev'[q].refs = dev[q].refs + (IF q = r THEN 1 ELSE 0)
      BY <1>3 DEF Counted
    <3>3. handles[h] = Nobody /\ handles'[h] = r
      BY DEF HandleCreate, TypeOK
    <3>4. Share(a, q)' = Share(a, q)
      <4>1. Target(a)' = Target(a) /\ at[a] \notin Translating /\ at'[a] \notin Translating
        BY <1>1, <1>4 DEF Target, Now, Translating
      <4> QED BY <1>4, <4>1 DEF Share, Bit, Now
    <3> QED BY <3>1, <3>2, <3>3, <3>4 DEF Bit
  <2>2. \A g \in Handles \ {h} : handles'[g] = handles[g]
    BY DEF TypeOK, HandleCreate
  <2> QED BY <1>4, <2>1, <2>2, BalanceHandle DEF HandleCreate, Sound
<1>8. Sound'
  BY <1>1, <1>3, <1>4, <1>5, <1>6, <1>7, PlainSafe DEF HandleCreate, Now
<1>9. TypeOK'
  <2>1. handles' \in [Handles -> Records \cup {Nobody}]
    BY <1>2 DEF HandleCreate, TypeOK
  <2> QED BY <1>3, <1>4, <2>1 DEF TypeOK, HandleCreate
<1> QED BY <1>8, <1>9

\* The two passes of the enumeration.
LEMMA MeasureSafe ==
  ASSUME DeviceAssumption, TypeOK, Sound, NEW a \in Actors, Measure(a)
  PROVE  TypeOK' /\ Sound'
<1>1. at[a] = "idle" /\ HandsOK(a) /\ job[a] = NoJob
  BY DEF Measure, At, Sound, Hands, HandsOK
<1>2. Listed \in Nat
  BY DEF Listed
<1>3. /\ at' \in [Actors -> Places] /\ job' \in [Actors -> Job] /\ Alone(a)
      /\ Now(a, "fill", job[a].driver, job[a].new, job[a].got, job[a].found, job[a].hnd,
             job[a].added)
  BY <1>2, SizeAlone DEF Measure, Places
<1>4. HandsOK(a)' /\ Plain(a)
  BY <1>1, <1>3
    DEF HandsOK, Now, New, Service, Translating, Target, Plain, Measure, NoJob
<1>5. \A q \in Records : Share(a, q)' = Share(a, q)
  <2>1. Target(a)' = Target(a) /\ at[a] \notin Translating /\ at'[a] \notin Translating
    BY <1>1, <1>3 DEF Target, Now, Translating
  <2> QED BY <1>3, <2>1 DEF Share, Bit, Now
<1>6. Sound'
  BY <1>1, <1>3, <1>4, <1>5, StillSafe DEF Measure, Now
<1>7. TypeOK'
  BY <1>3 DEF TypeOK, Measure
<1> QED BY <1>6, <1>7

LEMMA FillSafe ==
  ASSUME DeviceAssumption, TypeOK, Sound, NEW a \in Actors, Fill(a)
  PROVE  TypeOK' /\ (undef' = "no" => Sound')
<1>1. at[a] = "fill" /\ HandsOK(a)
  BY DEF Fill, At, Sound, Hands
<1>2. CASE Listed > job[a].size
  BY <1>2 DEF Fill, TypeOK
<1>3. CASE ~(Listed > job[a].size)
  <2>1. Leave(a) /\ UNCHANGED <<drv, drec, sel, dev, valid, handles>>
    BY <1>3 DEF Fill
  <2>2. /\ at' \in [Actors -> Places] /\ job' \in [Actors -> Job] /\ Alone(a)
        /\ Now(a, "idle", Nobody, Nobody, Nobody, Nobody, Nobody, FALSE) /\ job'[a] = NoJob
    BY <2>1, LeaveFacts
  <2>3. /\ job[a].driver = Nobody /\ job[a].new = Nobody /\ job[a].got = Nobody
        /\ job[a].found = Nobody /\ ~job[a].added
    BY <1>1 DEF HandsOK
  <2>4. HandsOK(a)' /\ Plain(a)
    BY <1>1, <2>1, <2>2, <2>3
      DEF HandsOK, Now, New, Service, Translating, Target, Plain
  <2>5. \A q \in Records : Share(a, q)' = Share(a, q)
    <3>1. \A q \in Records : q # Nobody
      BY DEF DeviceAssumption
    <3> QED BY <2>2, <2>3, <3>1 DEF Share, Bit, Now
  <2>6. Sound'
    BY <1>1, <2>1, <2>2, <2>3, <2>4, <2>5, StillSafe DEF Now
  <2>7. TypeOK'
    BY <2>1, <2>2 DEF TypeOK
  <2> QED BY <2>6, <2>7
<1> QED BY <1>2, <1>3

-----------------------------------------------------------------------------
(* The steps of the driver record and the unhook.                          *)

\* What a step on the driver records has to keep, when no device record
\* changes.
LEMMA DriverStepSafe ==
  ASSUME DeviceAssumption, TypeOK, Sound, NEW a \in Actors, Plain(a),
         UNCHANGED <<sel, dev, handles>>, HandsOK(a)',
         \A r \in Records : Share(a, r)' = Share(a, r), DriverRefsExact', Lates'
  PROVE  Sound'
<1> USE DEF Sound
<1>1. SameDevices /\ Alone(a)
  BY DEF SameDevices, SameOwners, SameReasons, SameCrossed, Plain
<1>2. Hands'
  BY <1>1, HandsKept
<1>3. Lives'
  BY LivesKept
<1>4. DeviceRefsExact'
  <2>1. ASSUME NEW r \in Records
        PROVE  dev'[r].refs = dev[r].refs - Share(a, r) + Share(a, r)'
    <3>1. dev[r].refs \in Int /\ Share(a, r) \in Int
      BY DEF TypeOK, Device, Share, Bit
    <3>2. Share(a, r)' = Share(a, r)
      OBVIOUS
    <3> QED BY <3>1, <3>2
  <2> QED BY <1>1, <2>1, BalanceHands
<1>5. Fresh' /\ OneBusy' /\ Works' /\ Lists' /\ Valid'
  BY <1>1, RestKept
<1> QED BY <1>2, <1>3, <1>4, <1>5, SoundFrom

LEMMA DropDriverSafe ==
  ASSUME DeviceAssumption, TypeOK, Sound, NEW a \in Actors, DropDriver(a)
  PROVE  TypeOK' /\ Sound'
<1>1. /\ at[a] = "leave" /\ HandsOK(a) /\ Leave(a)
      /\ job[a].new = Nobody /\ job[a].got = Nobody
  BY DEF DropDriver, At, Sound, Hands
<1>2. /\ at' \in [Actors -> Places] /\ job' \in [Actors -> Job] /\ Alone(a)
      /\ Now(a, "idle", Nobody, Nobody, Nobody, Nobody, Nobody, FALSE) /\ job'[a] = NoJob
  BY <1>1, LeaveFacts
<1>3. ~job[a].added /\ job[a].found = Nobody
  BY <1>1 DEF HandsOK
<1>4. HandsOK(a)' /\ Plain(a)
  BY <1>1, <1>2, <1>3
    DEF HandsOK, Now, New, Service, Translating, Target, Plain, DropDriver
<1>5. \A q \in Records : Share(a, q)' = Share(a, q)
  <2>1. \A q \in Records : q # Nobody
    BY DEF DeviceAssumption
  <2> QED BY <1>1, <1>2, <1>3, <2>1 DEF Share, Bit, Now
<1>6. /\ drec' \in [DriverRecords -> Driver]
      /\ \A d \in DriverRecords : /\ drec'[d].late = drec[d].late
                                  /\ drec'[d].refs = drec[d].refs
                                       + (IF job[a].driver = d THEN -1 ELSE 0)
  <2>1. CASE job[a].driver = Nobody
    <3>1. drec' = drec /\ \A d \in DriverRecords : job[a].driver # d /\ drec[d].refs \in Int
      BY <2>1 DEF DropDriver, DeviceAssumption, TypeOK, Driver
    <3> QED BY <3>1 DEF TypeOK
  <2>2. CASE job[a].driver # Nobody
    <3>1. job[a].driver \in DriverRecords /\ drec' = DriverRefs(job[a].driver, -1)
      BY <2>2 DEF DropDriver, TypeOK, Job
    <3> QED BY <3>1, DriverRefsFacts DEF DriverCounted
  <2> QED BY <2>1, <2>2
<1>7. DriverRefsExact'
  <2>1. ASSUME NEW d \in DriverRecords
        PROVE  drec'[d].refs = drec[d].refs - Bit(drv = d) + Bit(drv' = d)
                                 - Bit(job[a].driver = d) + Bit(job'[a].driver = d)
    <3>1. drec[d].refs \in Int /\ drv' = drv /\ job'[a].driver # d
      BY <1>2 DEF TypeOK, Driver, DropDriver, Now, DeviceAssumption
    <3>2. drec'[d].refs = drec[d].refs + (IF job[a].driver = d THEN -1 ELSE 0)
      BY <1>6
    <3> QED BY <3>1, <3>2 DEF Bit
  <2>2. SameOwners
    BY DEF SameOwners, DropDriver
  <2> QED BY <1>2, <2>1, <2>2, DriverBalanceHands DEF Sound
<1>8. Lates'
  BY <1>1, <1>2, <1>6, LatesKept DEF DropDriver, Sound
<1>9. Sound'
  BY <1>4, <1>5, <1>7, <1>8, DriverStepSafe DEF DropDriver
<1>10. TypeOK'
  BY <1>2, <1>6 DEF TypeOK, DropDriver
<1> QED BY <1>9, <1>10

LEMMA ArriveSafe ==
  ASSUME DeviceAssumption, TypeOK, Sound, NEW a \in Actors, Arrive(a)
  PROVE  TypeOK' /\ Sound'
<1>1. /\ at[a] = "idle" /\ HandsOK(a) /\ job[a] = NoJob
      /\ drv \in DriverRecords /\ drv # Nobody
  BY DEF Arrive, At, Sound, Hands, HandsOK, TypeOK
<1>2. /\ at' \in [Actors -> Places] /\ job' \in [Actors -> Job] /\ Alone(a)
      /\ Now(a, "device", drv, job[a].new, job[a].got, job[a].found, job[a].hnd, job[a].added)
  BY <1>1, DriverAlone DEF Arrive, Places
<1>3. HandsOK(a)' /\ Plain(a)
  BY <1>1, <1>2
    DEF HandsOK, Now, New, Service, Translating, Target, Plain, Arrive, NoJob
<1>4. \A q \in Records : Share(a, q)' = Share(a, q)
  <2>1. Target(a)' = Target(a) /\ at[a] \notin Translating /\ at'[a] \notin Translating
    BY <1>1, <1>2 DEF Target, Now, Translating
  <2> QED BY <1>2, <2>1 DEF Share, Bit, Now
<1>5. /\ drec' \in [DriverRecords -> Driver] /\ DriverCounted(drv, 1)
      /\ \A d \in DriverRecords : drec'[d].late = drec[d].late
  BY <1>1, DriverRefsFacts DEF Arrive
<1>6. DriverRefsExact'
  <2>1. ASSUME NEW d \in DriverRecords
        PROVE  drec'[d].refs = drec[d].refs - Bit(drv = d) + Bit(drv' = d)
                                 - Bit(job[a].driver = d) + Bit(job'[a].driver = d)
    <3>1. /\ drec[d].refs \in Int /\ drv' = drv /\ job[a].driver # d /\ job'[a].driver = drv
      BY <1>1, <1>2 DEF TypeOK, Driver, Arrive, Now, DeviceAssumption, NoJob
    <3>2. drec'[d].refs = drec[d].refs + (IF d = drv THEN 1 ELSE 0)
      BY <1>5 DEF DriverCounted
    <3> QED BY <3>1, <3>2 DEF Bit
  <2>2. SameOwners
    BY DEF SameOwners, Arrive
  <2> QED BY <1>2, <2>1, <2>2, DriverBalanceHands DEF Sound
<1>7. Lates'
  BY <1>1, <1>2, <1>5, LatesKept DEF Arrive, Sound
<1>8. Sound'
  BY <1>3, <1>4, <1>6, <1>7, DriverStepSafe DEF Arrive
<1>9. TypeOK'
  BY <1>2, <1>5 DEF TypeOK, Arrive
<1> QED BY <1>8, <1>9

\* The driver leaves the table: the reference of the table is the actor's.
LEMMA UnhookDeleteSafe ==
  ASSUME DeviceAssumption, TypeOK, Sound, NEW a \in Actors, UnhookDelete(a)
  PROVE  TypeOK' /\ Sound'
<1>1. /\ at[a] = "idle" /\ HandsOK(a) /\ job[a] = NoJob
      /\ drv \in DriverRecords /\ drv # Nobody
  BY DEF UnhookDelete, At, Sound, Hands, HandsOK, TypeOK
<1>2. /\ at' \in [Actors -> Places] /\ job' \in [Actors -> Job] /\ Alone(a)
      /\ Now(a, "clear", drv, job[a].new, job[a].got, job[a].found, job[a].hnd, job[a].added)
  BY <1>1, DriverAlone DEF UnhookDelete, Places
<1>3. HandsOK(a)' /\ Plain(a)
  BY <1>1, <1>2
    DEF HandsOK, Now, New, Service, Translating, Target, Plain, UnhookDelete, NoJob
<1>4. \A q \in Records : Share(a, q)' = Share(a, q)
  <2>1. Target(a)' = Target(a) /\ at[a] \notin Translating /\ at'[a] \notin Translating
    BY <1>1, <1>2 DEF Target, Now, Translating
  <2> QED BY <1>2, <2>1 DEF Share, Bit, Now
<1>5. DriverRefsExact'
  <2>1. ASSUME NEW d \in DriverRecords
        PROVE  drec'[d].refs = drec[d].refs - Bit(drv = d) + Bit(drv' = d)
                                 - Bit(job[a].driver = d) + Bit(job'[a].driver = d)
    <3>1. /\ drec[d].refs \in Int /\ drec'[d].refs = drec[d].refs
          /\ drv' # d /\ job[a].driver # d /\ job'[a].driver = drv
      BY <1>1, <1>2 DEF TypeOK, Driver, UnhookDelete, Now, DeviceAssumption, NoJob
    <3> QED BY <3>1 DEF Bit
  <2>2. SameOwners
    BY DEF SameOwners, UnhookDelete
  <2> QED BY <1>2, <2>1, <2>2, DriverBalanceHands DEF Sound
<1>6. Lates'
  <2> SUFFICES ASSUME NEW d \in DriverRecords, sel[d] # Nobody
               PROVE  drec[d].late \/ \E b \in Actors : at'[b] = "clear" /\ job'[b].driver = d
    BY DEF Lates, LateOK, UnhookDelete
  <2>1. CASE d = drv
    BY <1>2, <2>1 DEF Now
  <2>2. CASE d # drv
    <3>1. drec[d].late \/ \E b \in Actors : at[b] = "clear" /\ job[b].driver = d
      BY <2>2 DEF Sound, Lates, LateOK
    <3> QED BY <1>1, <1>2, <3>1 DEF Alone
  <2> QED BY <2>1, <2>2
<1>7. Sound'
  BY <1>3, <1>4, <1>5, <1>6, DriverStepSafe DEF UnhookDelete
<1>8. TypeOK'
  BY <1>2 DEF TypeOK, UnhookDelete
<1> QED BY <1>7, <1>8

\* A handler takes the record that the list has for its device.
LEMMA GetDeviceSafe ==
  ASSUME DeviceAssumption, TypeOK, Sound, NEW a \in Actors, GetDevice(a)
  PROVE  TypeOK' /\ Sound'
<1>1. /\ at[a] = "device" /\ HandsOK(a) /\ job[a].driver \in DriverRecords
      /\ job[a].new = Nobody /\ job[a].got = Nobody /\ job[a].found = Nobody /\ ~job[a].added
  BY DEF GetDevice, At, Sound, Hands, HandsOK, TypeOK, Job
<1>2. PICK r \in Records \cup {Nobody} : r = sel[job[a].driver]
  BY <1>1 DEF TypeOK
<1>3. /\ Hold(a, "got", r) /\ Goto(a, "catch")
      /\ dev' = IF r = Nobody THEN dev ELSE Referenced(r)
      /\ UNCHANGED <<drv, drec, sel, valid, handles>>
  BY <1>2 DEF GetDevice
<1>4. /\ at' \in [Actors -> Places] /\ job' \in [Actors -> Job] /\ Alone(a)
      /\ Now(a, "catch", job[a].driver, job[a].new, r, job[a].found, job[a].hnd, job[a].added)
  BY <1>3, GotAlone DEF Places
<1>5. HandsOK(a)' /\ Plain(a)
  BY <1>1, <1>3, <1>4 DEF HandsOK, Now, New, Service, Translating, Target, Plain
<1>6. \A q \in Records : Share(a, q)' = Share(a, q) + Bit(q = r)
  <2>1. /\ at[a] \notin Translating /\ at'[a] \notin Translating /\ ~job'[a].added
        /\ job'[a].new = Nobody /\ job'[a].got = r /\ job'[a].found = Nobody
    BY <1>1, <1>4 DEF Now, Translating
  <2>2. \A q \in Records : q # Nobody
    BY DEF DeviceAssumption
  <2> QED BY <1>1, <2>1, <2>2 DEF Share, Bit
<1>7. Sound' /\ dev' \in [Records -> Device]
  <2>1. CASE r = Nobody
    <3>1. \A q \in Records : Share(a, q)' = Share(a, q)
      <4>1. \A q \in Records : q # r /\ Share(a, q) \in Int
        BY <2>1 DEF DeviceAssumption, Share, Bit
      <4> QED BY <1>6, <4>1 DEF Bit
    <3>2. Sound'
      BY <1>1, <1>3, <1>4, <1>5, <2>1, <3>1, StillSafe DEF Now
    <3> QED BY <1>3, <2>1, <3>2 DEF TypeOK
  <2>2. CASE r # Nobody
    <3>1. r \in Records /\ Live(r)
      BY <1>1, <1>2, <2>2, Alive DEF Sound
    <3> QED BY <1>1, <1>3, <1>4, <1>5, <1>6, <2>2, <3>1, TakeSafe DEF Now
  <2> QED BY <2>1, <2>2
<1>8. TypeOK'
  BY <1>3, <1>4, <1>7 DEF TypeOK
<1> QED BY <1>7, <1>8

\* The list of the unhooked driver is emptied.
LEMMA UnhookClearSafe ==
  ASSUME DeviceAssumption, TypeOK, Sound, NEW a \in Actors, UnhookClear(a)
  PROVE  TypeOK' /\ Sound'
<1> USE DEF Sound
<1>1. /\ at[a] = "clear" /\ HandsOK(a)
      /\ job[a].new = Nobody /\ job[a].got = Nobody /\ job[a].found = Nobody /\ ~job[a].added
  BY DEF UnhookClear, At, Hands, HandsOK
<1>2. PICK d \in DriverRecords : d = job[a].driver
  BY <1>1 DEF HandsOK, TypeOK, Job
<1>3. /\ sel' = [sel EXCEPT ![d] = Nobody]
      /\ dev' = IF sel[d] = Nobody THEN dev ELSE Dropped(sel[d], a)
      /\ Goto(a, "leave") /\ UNCHANGED <<drv, drec, valid, handles, job>>
  BY <1>2 DEF UnhookClear
<1>4. /\ at' \in [Actors -> Places] /\ Alone(a)
      /\ Now(a, "leave", job[a].driver, job[a].new, job[a].got, job[a].found, job[a].hnd,
             job[a].added)
  BY <1>3, GotoAlone DEF Places
<1>5. HandsOK(a)' /\ Plain(a)
  BY <1>1, <1>3, <1>4 DEF HandsOK, Now, New, Service, Translating, Target, Plain
<1>6. Hands'
  BY <1>4, <1>5, HandsKept
<1>7. /\ dev' \in [Records -> Device] /\ Lives' /\ SameDevices
      /\ \A q \in Records : dev'[q].refs = dev[q].refs + (IF q = sel[d] THEN -1 ELSE 0)
  <2>1. CASE sel[d] = Nobody
    <3>1. dev' = dev /\ \A q \in Records : q # sel[d] /\ dev[q].refs \in Int
      BY <1>3, <2>1 DEF DeviceAssumption, TypeOK, Device
    <3> QED BY <3>1, LivesKept DEF SameDevices, SameOwners, SameReasons, SameCrossed, TypeOK
  <2>2. CASE sel[d] # Nobody
    <3>1. sel[d] \in Records /\ Live(sel[d]) /\ dev' = Dropped(sel[d], a)
      BY <1>3, <2>2, Alive DEF TypeOK
    <3> QED BY <3>1, DroppedFacts, LivesDropped DEF Counted
  <2> QED BY <2>1, <2>2
<1>8. DeviceRefsExact'
  <2>1. ASSUME NEW q \in Records
        PROVE  dev'[q].refs = dev[q].refs - Bit(sel[d] = q) + Bit(sel'[d] = q)
                                - Share(a, q) + Share(a, q)'
    <3>1. dev[q].refs \in Int /\ Share(a, q) \in Int /\ q # Nobody /\ sel'[d] = Nobody
      BY <1>3 DEF TypeOK, Device, Share, Bit, DeviceAssumption
    <3>2. dev'[q].refs = dev[q].refs + (IF q = sel[d] THEN -1 ELSE 0)
      BY <1>7
    <3>3. Share(a, q)' = Share(a, q)
      BY <1>1, <1>4, <3>1 DEF Share, Bit, Now
    <3> QED BY <3>1, <3>2, <3>3 DEF Bit
  <2>2. \A e \in DriverRecords \ {d} : sel'[e] = sel[e]
    BY <1>3 DEF TypeOK
  <2> QED BY <1>3, <1>4, <2>1, <2>2, BalanceList
<1>9. DriverRefsExact'
  BY <1>3, <1>4, <1>7, DriversKept DEF SameDevices
<1>10. \A e \in DriverRecords : sel'[e] = IF e = d THEN Nobody ELSE sel[e]
  BY <1>3 DEF TypeOK
<1>11. Fresh' /\ OneBusy' /\ Works' /\ Lists' /\ Valid'
  BY <1>5, <1>7, <1>10, RestKept
<1>12. Lates'
  <2> SUFFICES ASSUME NEW e \in DriverRecords, e # d, sel[e] # Nobody, drv # e
               PROVE  drec[e].late \/ \E b \in Actors : at'[b] = "clear" /\ job'[b].driver = e
    BY <1>3, <1>10 DEF Lates, LateOK
  <2>1. drec[e].late \/ \E b \in Actors : at[b] = "clear" /\ job[b].driver = e
    BY DEF Lates, LateOK
  <2> QED BY <1>2, <1>4, <2>1 DEF Alone
<1>13. TypeOK'
  BY <1>3, <1>4, <1>7 DEF TypeOK
<1> QED BY <1>6, <1>7, <1>8, <1>9, <1>11, <1>12, <1>13, SoundFrom

-----------------------------------------------------------------------------
(* The freeing of a record, and the making of one.                         *)

\* Nobody moves, and only a record that nobody holds changes.
LEMMA Unmoved ==
  ASSUME DeviceAssumption, TypeOK, Sound, NEW a \in Actors, UNCHANGED <<at, job>>,
         \A q \in Records : Live(q) => dev'[q] = dev[q] /\ (q \in valid' <=> q \in valid),
         \A d \in DriverRecords : sel'[d] = sel[d] \/ (~Live(sel'[d]) /\ ListedOK(d)')
  PROVE  Hands' /\ Fresh' /\ OneBusy' /\ Works' /\ Lists'
<1> USE DEF Sound
<1>1. Alone(a) /\ at'[a] = at[a] /\ job'[a] = job[a]
  BY SameAlone
<1>2. Hands'
  BY DEF Hands, HandsOK, Target
<1>3. Fresh'
  <2>1. FreshOK(a)'
    <3> SUFFICES ASSUME at[a] = "insert"
                 PROVE  FreshOK(a)'
      BY DEF FreshOK
    <3>1. FreshOK(a) /\ Live(job[a].new) /\ job[a].new \in Records
      <4>1. job[a].new # Nobody
        BY DEF Hands, HandsOK, New
      <4> QED BY <4>1, Alive DEF Fresh, TypeOK, Job
    <3>2. dev'[job[a].new] = dev[job[a].new]
      BY <3>1
    <3>3. \A d \in DriverRecords : sel'[d] # job[a].new
      BY <3>1 DEF FreshOK
    <3> QED BY <3>1, <3>2, <3>3 DEF FreshOK, Adding, Target
  <2>2. at'[a] \in {"proxy", "make"} => Adding(Target(a)')
    BY DEF Adding, Target
  <2> QED BY <1>1, <2>1, <2>2, FreshKept
<1>4. OneBusy'
  <2>1. \A q \in Records : Busy(a, q)' => Busy(a, q)
    BY DEF Busy, Target
  <2> QED BY <1>1, <2>1, OneBusyKept
<1>5. Works'
  <2>1. BusyOK(a)'
    <3>1. BusyOK(a)
      BY DEF Works
    <3>2. /\ at[a] \in {"proxy", "make"} => dev'[job[a].new] = dev[job[a].new]
          /\ at[a] = "invalidate" => dev'[job[a].found] = dev[job[a].found]
      <4>1. /\ at[a] \in {"proxy", "make"} => job[a].new # Nobody
            /\ at[a] = "invalidate" => job[a].found # Nobody
        BY DEF Hands, HandsOK, New
      <4> QED BY <4>1, Alive DEF TypeOK, Job
    <3> QED BY <1>1, <3>1, <3>2 DEF BusyOK
  <2> QED BY <1>1, <2>1, WorksKept
<1>6. Lists'
  <2>1. ASSUME NEW q \in Records, Live(q)
        PROVE  (Steady(q) => Steady(q)') /\ (Midway(a, q) => Midway(a, q)')
    BY <2>1 DEF Steady, Midway
  <2>2. \A q \in Records : at[a] = "back" /\ Target(a) = q => at'[a] = "back" /\ Target(a)' = q
    BY DEF Target
  <2> QED BY <1>1, <2>1, <2>2, ListsKept
<1> QED BY <1>2, <1>3, <1>4, <1>5, <1>6

LEMMA FreeSafe ==
  ASSUME DeviceAssumption, TypeOK, Sound, NEW a \in Actors, Free(a)
  PROVE  TypeOK' /\ Sound'
<1> USE DEF Sound
<1>1. PICK r \in Records : /\ dev[r].by = a /\ valid' = valid \ {r}
                           /\ drec' = DriverRefs(dev[r].owner, -1)
                           /\ dev' = [dev EXCEPT ![r] = Freed]
  BY DEF Free, Freeing
<1>2. UNCHANGED <<drv, sel, handles, at, job, undef>>
  BY DEF Free
<1>3. ~Live(r) /\ dev[r].refs = 0 /\ dev[r].owner \in DriverRecords
  <2>1. Life(r) /\ a # Nobody
    BY DEF Lives, DeviceAssumption
  <2> QED BY <1>1, <2>1 DEF Life, Live, TypeOK, Device
<1>4. PICK d \in DriverRecords : d = dev[r].owner
  BY <1>3
<1>5. /\ Alone(a)
      /\ Now(a, at[a], job[a].driver, job[a].new, job[a].got, job[a].found, job[a].hnd,
             job[a].added)
  BY <1>2, SameAlone
<1>6. dev'[r] = Freed /\ \A q \in Records \ {r} : dev'[q] = dev[q]
  BY <1>1 DEF TypeOK
<1>7. \A q \in Records : Live(q) => dev'[q] = dev[q]
  BY <1>3, <1>6
<1>8. TypeOK'
  <2>1. Freed \in Device
    BY DEF Freed, Device
  <2>2. drec' \in [DriverRecords -> Driver]
    BY <1>1, <1>3, DriverRefsFacts
  <2> QED BY <1>1, <1>2, <2>1, <2>2 DEF TypeOK
<1>9. Lives'
  BY <1>6 DEF Lives, Life, Freed
<1>10. DeviceRefsExact'
  <2>1. ASSUME NEW q \in Records
        PROVE  dev'[q].refs = dev[q].refs - Share(a, q) + Share(a, q)'
    <3>1. dev[q].refs \in Int /\ dev'[q].refs = dev[q].refs /\ Share(a, q) \in Int
      BY <1>3, <1>6 DEF TypeOK, Device, Freed, Share, Bit
    <3>2. Share(a, q)' = Share(a, q)
      BY <1>2 DEF Share, Target
    <3> QED BY <3>1, <3>2
  <2> QED BY <1>2, <1>5, <2>1, BalanceHands
<1>11. DriverRefsExact'
  <2>1. ASSUME NEW e \in DriverRecords
        PROVE  drec'[e].refs = drec[e].refs - Bit(drv = e) + Bit(drv' = e)
                 - Bit(dev[r].owner = e) + Bit(dev'[r].owner = e)
                 - Bit(job[a].driver = e) + Bit(job'[a].driver = e)
    <3>1. drec'[e].refs = drec[e].refs + (IF e = d THEN -1 ELSE 0)
      BY <1>1, <1>4, DriverRefsFacts DEF DriverCounted
    <3>2. drec[e].refs \in Int /\ dev'[r].owner # e /\ drv' = drv /\ job' = job
      BY <1>2, <1>6 DEF TypeOK, Driver, Freed, DeviceAssumption
    <3> QED BY <1>4, <3>1, <3>2 DEF Bit
  <2>2. \A q \in Records \ {r} : dev'[q].owner = dev[q].owner
    BY <1>6
  <2> QED BY <1>5, <2>1, <2>2, DriverBalanceOwner
<1>12. Hands' /\ Fresh' /\ OneBusy' /\ Works' /\ Lists'
  <2>1. \A q \in Records : Live(q) => (q \in valid' <=> q \in valid)
    BY <1>1, <1>3
  <2> QED BY <1>2, <1>7, <2>1, Unmoved
<1>13. Valid'
  BY <1>1, <1>6 DEF Valid, TypeOK
<1>14. Lates'
  <2>1. \A e \in DriverRecords : drec'[e].late = drec[e].late
    BY <1>1, <1>3, DriverRefsFacts
  <2> QED BY <1>2, <1>5, <2>1, LatesKept
<1> QED BY <1>8, <1>9, <1>10, <1>11, <1>12, <1>13, <1>14, SoundFrom

LEMMA MadeFacts ==
  ASSUME TypeOK, NEW r \in Records, NEW d \in DriverRecords, NEW reason \in {"hooked", "user"},
         dev' = [dev EXCEPT ![r] = Made(d, reason)]
  PROVE  /\ dev' \in [Records -> Device]
         /\ dev'[r].refs = 1 /\ dev'[r].owner = d /\ dev'[r].reason = reason
         /\ dev'[r].by = Nobody
         /\ \A q \in Records \ {r} : dev'[q] = dev[q]
<1>1. Made(d, reason) \in Device
  BY DEF Made, Device
<1> QED BY <1>1 DEF TypeOK, Made

\* A driver that is hooked again: its record is a new one, or a freed one.
LEMMA HookSafe ==
  ASSUME DeviceAssumption, TypeOK, Sound, NEW a \in Actors, NEW d \in DriverRecords,
         NEW ext \in BOOLEAN, Hook(a, d, ext)
  PROVE  TypeOK' /\ Sound'
<1> USE DEF Sound
<1>1. /\ drv = Nobody /\ drec[d].refs = 0 /\ drv' = d
      /\ UNCHANGED <<valid, handles, at, job, undef>>
  BY DEF Hook
<1>2. /\ Alone(a)
      /\ Now(a, at[a], job[a].driver, job[a].new, job[a].got, job[a].found, job[a].hnd,
             job[a].added)
  BY <1>1, SameAlone
<1>3. \A q \in Records : dev[q].owner # d
  <2>1. drec[d].refs = (IF drv = d THEN 1 ELSE 0)
                         + Cardinality(DevicesOf(d)) + Cardinality(UsersOf(d))
    BY DEF DriverRefsExact
  <2>2. Cardinality(DevicesOf(d)) = 0
    BY <1>1, <2>1, Naturals DEF DeviceAssumption
  <2>3. DevicesOf(d) = {}
    BY <2>2, Finite, FS_EmptySet
  <2> QED BY <2>3 DEF DevicesOf
<1>4. sel[d] = Nobody
  BY <1>3 DEF Lists, ListedOK, TypeOK
<1>5. \A e \in DriverRecords : drv # e /\ (drv' = e <=> e = d)
  BY <1>1 DEF DeviceAssumption
<1>6. ASSUME \A e \in DriverRecords \ {d} : drec'[e] = drec[e] /\ sel'[e] = sel[e]
      PROVE  Lates'
  <2> SUFFICES ASSUME NEW e \in DriverRecords, e # d, sel[e] # Nobody
               PROVE  drec[e].late \/ \E b \in Actors : at[b] = "clear" /\ job[b].driver = e
    BY <1>1, <1>6 DEF Lates, LateOK
  <2> QED BY <1>5 DEF Lates, LateOK
<1>7. CASE /\ drec' = [drec EXCEPT ![d] = [refs |-> 1, ext |-> ext, late |-> FALSE]]
           /\ UNCHANGED <<dev, sel>>
  <2>1. /\ drec' \in [DriverRecords -> Driver] /\ drec'[d].refs = 1
        /\ \A e \in DriverRecords \ {d} : drec'[e] = drec[e]
    <3>1. [refs |-> 1, ext |-> ext, late |-> FALSE] \in Driver
      BY DEF Driver
    <3> QED BY <1>7, <3>1 DEF TypeOK
  <2>2. TypeOK'
    BY <1>1, <1>7, <2>1 DEF TypeOK
  <2>3. Lives'
    BY <1>7, LivesKept
  <2>4. DeviceRefsExact'
    <3>1. ASSUME NEW q \in Records
          PROVE  dev'[q].refs = dev[q].refs - Share(a, q) + Share(a, q)'
      <4>1. dev[q].refs \in Int /\ Share(a, q) \in Int
        BY DEF TypeOK, Device, Share, Bit
      <4>2. Share(a, q)' = Share(a, q) /\ dev' = dev
        BY <1>1, <1>7 DEF Share, Target
      <4> QED BY <4>1, <4>2
    <3> QED BY <1>1, <1>2, <1>7, <3>1, BalanceHands
  <2>5. DriverRefsExact'
    <3>1. ASSUME NEW e \in DriverRecords
          PROVE  drec'[e].refs = drec[e].refs - Bit(drv = e) + Bit(drv' = e)
                                   - Bit(job[a].driver = e) + Bit(job'[a].driver = e)
      <4>1. drec[e].refs \in Int /\ drv # e /\ (drv' = e <=> e = d) /\ job' = job
        BY <1>1, <1>5 DEF TypeOK, Driver
      <4>2. drec'[e].refs = IF e = d THEN 1 ELSE drec[e].refs
        BY <2>1
      <4> QED BY <1>1, <4>1, <4>2 DEF Bit
    <3>2. SameOwners
      BY <1>7 DEF SameOwners
    <3> QED BY <1>2, <3>1, <3>2, DriverBalanceHands
  <2>6. Hands' /\ Fresh' /\ OneBusy' /\ Works' /\ Lists'
    BY <1>1, <1>7, Unmoved
  <2>7. Valid'
    BY <1>1, <1>7 DEF Valid
  <2>8. Lates'
    BY <1>6, <1>7, <2>1
  <2> QED BY <2>2, <2>3, <2>4, <2>5, <2>6, <2>7, <2>8, SoundFrom
<1>8. CASE ~ (/\ drec' = [drec EXCEPT ![d] = [refs |-> 1, ext |-> ext, late |-> FALSE]]
              /\ UNCHANGED <<dev, sel>>)
  <2>1. PICK r \in Records :
          /\ dev[r] = Freed
          /\ drec' = [drec EXCEPT ![d] = [refs |-> 2, ext |-> ext, late |-> FALSE]]
          /\ dev' = [dev EXCEPT ![r] = Made(d, "hooked")]
          /\ sel' = [sel EXCEPT ![d] = r]
    BY <1>8 DEF Hook
  <2>2. /\ drec' \in [DriverRecords -> Driver] /\ drec'[d].refs = 2
        /\ \A e \in DriverRecords \ {d} : drec'[e] = drec[e]
    <3>1. [refs |-> 2, ext |-> ext, late |-> FALSE] \in Driver
      BY DEF Driver
    <3> QED BY <2>1, <3>1 DEF TypeOK
  <2>3. /\ dev' \in [Records -> Device]
        /\ dev'[r].refs = 1 /\ dev'[r].owner = d /\ dev'[r].reason = "hooked"
        /\ dev'[r].by = Nobody
        /\ \A q \in Records \ {r} : dev'[q] = dev[q]
    BY <2>1, MadeFacts
  <2>4. ~Live(r) /\ dev[r].refs = 0 /\ dev[r].owner = Nobody /\ r # Nobody
    BY <2>1 DEF Live, Freed, DeviceAssumption
  <2>5. /\ sel' \in [DriverRecords -> Records \cup {Nobody}] /\ sel'[d] = r
        /\ \A e \in DriverRecords \ {d} : sel'[e] = sel[e]
    BY <2>1 DEF TypeOK
  <2>6. TypeOK'
    BY <1>1, <2>2, <2>3, <2>5 DEF TypeOK
  <2>7. Lives'
    <3>1. d # Nobody
      BY DEF DeviceAssumption
    <3> QED BY <2>3, <3>1 DEF Lives, Life
  <2>8. DeviceRefsExact'
    <3>1. ASSUME NEW q \in Records
          PROVE  dev'[q].refs = dev[q].refs - Bit(sel[d] = q) + Bit(sel'[d] = q)
                                  - Share(a, q) + Share(a, q)'
      <4>1. dev[q].refs \in Int /\ Share(a, q) \in Int /\ q # Nobody
        BY DEF TypeOK, Device, Share, Bit, DeviceAssumption
      <4>2. Share(a, q)' = Share(a, q)
        BY <1>1 DEF Share, Target
      <4>3. dev'[q].refs = IF q = r THEN 1 ELSE dev[q].refs
        BY <2>3
      <4> QED BY <1>4, <2>4, <2>5, <4>1, <4>2, <4>3 DEF Bit
    <3> QED BY <1>1, <1>2, <2>5, <3>1, BalanceList
  <2>9. DriverRefsExact'
    <3>1. ASSUME NEW e \in DriverRecords
          PROVE  drec'[e].refs = drec[e].refs - Bit(drv = e) + Bit(drv' = e)
                   - Bit(dev[r].owner = e) + Bit(dev'[r].owner = e)
                   - Bit(job[a].driver = e) + Bit(job'[a].driver = e)
      <4>1. /\ drec[e].refs \in Int /\ drv # e /\ (drv' = e <=> e = d) /\ job' = job
            /\ dev[r].owner # e /\ (dev'[r].owner = e <=> e = d)
        BY <1>1, <1>5, <2>3, <2>4 DEF TypeOK, Driver, DeviceAssumption
      <4>2. drec'[e].refs = IF e = d THEN 2 ELSE drec[e].refs
        BY <2>2
      <4> QED BY <1>1, <4>1, <4>2 DEF Bit
    <3>2. \A q \in Records \ {r} : dev'[q].owner = dev[q].owner
      BY <2>3
    <3> QED BY <1>2, <3>1, <3>2, DriverBalanceOwner
  <2>10. Hands' /\ Fresh' /\ OneBusy' /\ Works' /\ Lists'
    <3>1. ListedOK(d)'
      <4>1. r \notin valid' /\ dev'[r].reason # "user"
        BY <1>1, <2>3, <2>4 DEF Valid
      <4> QED BY <2>3, <2>5, <4>1 DEF ListedOK, Steady
    <3>2. \A q \in Records : Live(q) => dev'[q] = dev[q]
      BY <2>3, <2>4
    <3> QED BY <1>1, <2>4, <2>5, <3>1, <3>2, Unmoved
  <2>11. Valid'
    BY <1>1, <2>3, <2>4 DEF Valid, TypeOK
  <2>12. Lates'
    BY <1>6, <2>2, <2>5
  <2> QED BY <2>6, <2>7, <2>8, <2>9, <2>10, <2>11, <2>12, SoundFrom
<1> QED BY <1>7, <1>8

\* AddDevice makes a record that only the actor knows.
LEMMA CreateSafe ==
  ASSUME DeviceAssumption, TypeOK, Sound, NEW a \in Actors, NEW r \in Records, Create(a, r)
  PROVE  TypeOK' /\ Sound'
<1> USE DEF Sound
<1>1. /\ at[a] \in {"idle", "catch"} /\ HandsOK(a)
      /\ job[a].new = Nobody /\ job[a].got = Nobody /\ job[a].found = Nobody /\ ~job[a].added
      /\ a \notin Openers
  <2>1. /\ \/ a \in Controllers /\ at[a] = "idle"
           \/ a \in Handlers /\ at[a] = "catch" /\ job[a].got = Nobody
        /\ HandsOK(a)
    BY DEF Create, At, Hands
  <2>2. a \notin Openers
    BY <2>1 DEF DeviceAssumption
  <2>3. CASE at[a] = "idle"
    BY <2>1, <2>2, <2>3 DEF HandsOK, NoJob
  <2>4. CASE at[a] # "idle"
    BY <2>1, <2>2, <2>4 DEF HandsOK
  <2> QED BY <2>3, <2>4
<1>2. PICK d \in DriverRecords : d = IF a \in Handlers THEN job[a].driver ELSE drv
  <2>1. CASE a \in Handlers
    <3>1. at[a] = "catch" /\ job[a].driver # Nobody
      BY <2>1, <1>1 DEF Create, At, HandsOK, DeviceAssumption
    <3> QED BY <2>1, <3>1 DEF TypeOK, Job
  <2>2. CASE a \notin Handlers
    BY <2>2 DEF Create, TypeOK
  <2> QED BY <2>1, <2>2
<1>3. PICK n \in {1, 2} : n = IF a \in Handlers THEN 1 ELSE 2
  OBVIOUS
<1>4. /\ dev[r] = Freed
      /\ drec' = DriverRefs(d, n)
      /\ dev' = [dev EXCEPT ![r] = Made(d, "user")]
      /\ job' = [job EXCEPT ![a] = [job[a] EXCEPT !.driver = d, !.new = r]]
      /\ Goto(a, "insert")
      /\ UNCHANGED <<drv, sel, valid, handles, undef>>
  <2>1. /\ dev[r] = Freed
        /\ drec' = DriverRefs(d, n)
        /\ dev' = [dev EXCEPT ![r] = Made(d, "user")]
        /\ job' = [job EXCEPT ![a].driver = d, ![a].new = r]
        /\ Goto(a, "insert")
        /\ UNCHANGED <<drv, sel, valid, handles, undef>>
    BY <1>2, <1>3 DEF Create
  <2>2. job' = [job EXCEPT ![a] = [job[a] EXCEPT !.driver = d, !.new = r]]
    BY <2>1 DEF TypeOK
  <2> QED BY <2>1, <2>2
<1>5. /\ dev' \in [Records -> Device]
      /\ dev'[r].refs = 1 /\ dev'[r].owner = d /\ dev'[r].reason = "user"
      /\ dev'[r].by = Nobody
      /\ \A q \in Records \ {r} : dev'[q] = dev[q]
  BY <1>4, MadeFacts
<1>6. ~Live(r) /\ dev[r].refs = 0 /\ dev[r].owner = Nobody /\ r # Nobody /\ d # Nobody
  BY <1>4 DEF Live, Freed, DeviceAssumption
<1>7. \A q \in Records : Live(q) => dev'[q] = dev[q]
  BY <1>5, <1>6
<1>8. /\ at' \in [Actors -> Places] /\ job' \in [Actors -> Job] /\ Alone(a)
      /\ Now(a, "insert", d, r, job[a].got, job[a].found, job[a].hnd, job[a].added)
  <2>1. [job[a] EXCEPT !.driver = d, !.new = r] \in Job
    <3>1. job[a] \in Job
      BY DEF TypeOK
    <3> QED BY <3>1 DEF Job
  <2>2. job' \in [Actors -> Job] /\ job'[a] = [job[a] EXCEPT !.driver = d, !.new = r]
        /\ \A b \in Actors \ {a} : job'[b] = job[b]
    BY <1>4, <2>1 DEF TypeOK
  <2>3. job[a] \in Job
    BY DEF TypeOK
  <2>4. /\ job'[a].driver = d /\ job'[a].new = r /\ job'[a].got = job[a].got
        /\ job'[a].found = job[a].found /\ job'[a].hnd = job[a].hnd
        /\ job'[a].added = job[a].added
    BY <2>2, <2>3 DEF Job
  <2> QED BY <1>4, <2>2, <2>4, GotoFacts DEF Alone, Now, Places
<1>9. /\ drec' \in [DriverRecords -> Driver] /\ DriverCounted(d, n)
      /\ \A e \in DriverRecords : drec'[e].late = drec[e].late
  BY <1>4, DriverRefsFacts
<1>10. TypeOK'
  BY <1>4, <1>5, <1>8, <1>9 DEF TypeOK
<1>11. HandsOK(a)'
  BY <1>1, <1>6, <1>8 DEF HandsOK, Now, New, Service, Translating, Target
<1>12. Hands'
  BY <1>8, <1>11, HandsKept
<1>13. Lives'
  BY <1>5, <1>6 DEF Lives, Life
<1>14. DeviceRefsExact'
  <2>1. ASSUME NEW q \in Records
        PROVE  dev'[q].refs = dev[q].refs - Share(a, q) + Share(a, q)'
    <3>1. dev[q].refs \in Int /\ q # Nobody
      BY DEF TypeOK, Device, DeviceAssumption
    <3>2. dev'[q].refs = IF q = r THEN 1 ELSE dev[q].refs
      BY <1>5
    <3>3. Share(a, q) = 0
      BY <1>1, <3>1 DEF Share, Bit
    <3>4. Share(a, q)' = IF q = r THEN 1 ELSE 0
      BY <1>1, <1>8, <3>1 DEF Share, Bit, Now
    <3> QED BY <1>6, <3>1, <3>2, <3>3, <3>4
  <2> QED BY <1>4, <1>8, <2>1, BalanceHands
<1>15. DriverRefsExact'
  <2>1. ASSUME NEW e \in DriverRecords
        PROVE  drec'[e].refs = drec[e].refs - Bit(drv = e) + Bit(drv' = e)
                 - Bit(dev[r].owner = e) + Bit(dev'[r].owner = e)
                 - Bit(job[a].driver = e) + Bit(job'[a].driver = e)
    <3>1. /\ drec[e].refs \in Int /\ drv' = drv /\ dev[r].owner # e
          /\ dev'[r].owner = d /\ job'[a].driver = d
      BY <1>4, <1>5, <1>6, <1>8 DEF TypeOK, Driver, DeviceAssumption, Now
    <3>2. drec'[e].refs = drec[e].refs + (IF e = d THEN n ELSE 0)
      BY <1>9 DEF DriverCounted
    <3>3. job[a].driver = e <=> e = d /\ n = 1
      <4>1. CASE a \in Handlers
        BY <1>2, <1>3, <4>1
      <4>2. CASE a \notin Handlers
        <5>1. job[a].driver = Nobody
          BY <1>1, <4>2 DEF Create, At, HandsOK, NoJob
        <5> QED BY <1>3, <4>2, <5>1 DEF DeviceAssumption
      <4> QED BY <4>1, <4>2
    <3> QED BY <3>1, <3>2, <3>3 DEF Bit
  <2>2. \A q \in Records \ {r} : dev'[q].owner = dev[q].owner
    BY <1>5
  <2> QED BY <1>8, <2>1, <2>2, DriverBalanceOwner
<1>16. Fresh'
  <2>1. FreshOK(a)'
    <3>1. /\ \A e \in DriverRecords : sel[e] # r
          /\ \A b \in Actors : job[b].new # r /\ job[b].found # r
      BY <1>6, Alive
    <3>2. \A b \in Actors : job'[b].found # r /\ (b # a => job'[b].new # r)
      BY <1>1, <1>6, <1>8, <3>1 DEF Alone, Now
    <3>3. ~Adding(r)'
      <4> SUFFICES ASSUME NEW b \in Actors, at'[b] \in {"proxy", "make"}, Target(b)' = r
                   PROVE  FALSE
        BY DEF Adding
      <4>1. b # a /\ at[b] \in {"proxy", "make"} /\ Target(b) = r
        BY <1>8 DEF Alone, Now, Target
      <4> QED BY <1>6, <4>1, BusyLive DEF Busy
    <3> QED BY <1>4, <1>5, <1>8, <3>1, <3>2, <3>3 DEF FreshOK, Now
  <2>2. at'[a] \notin {"proxy", "make"} /\ job'[a].new = r /\ job'[a].found = job[a].found
    BY <1>8 DEF Now
  <2> QED BY <1>4, <1>6, <1>7, <1>8, <2>1, <2>2, FreshKept
<1>17. OneBusy'
  <2>1. \A q \in Records : ~Busy(a, q)'
    BY <1>1, <1>8 DEF Busy, Now, DeviceAssumption
  <2> QED BY <1>7, <1>8, <2>1, OneBusyKept
<1>18. Works'
  <2>1. BusyOK(a)'
    BY <1>8 DEF BusyOK, Now
  <2> QED BY <1>7, <1>8, <2>1, WorksKept
<1>19. Lists'
  <2>1. at[a] \notin {"back", "proxy", "make", "invalidate"}
    BY <1>1
  <2>2. \A q \in Records : Live(q) => (Steady(q) => Steady(q)') /\ ~Midway(a, q)
    BY <1>4, <1>7, <2>1 DEF Steady, Midway
  <2> QED BY <1>4, <1>7, <1>8, <2>1, <2>2, ListsKept
<1>20. Valid'
  BY <1>4, <1>5, <1>6 DEF Valid, TypeOK
<1>21. Lates'
  BY <1>1, <1>4, <1>8, <1>9, LatesKept
<1> QED BY <1>10, <1>12, <1>13, <1>14, <1>15, <1>16, <1>17, <1>18, <1>19, <1>20, <1>21, SoundFrom

-----------------------------------------------------------------------------
(* The adding of a device.                                                 *)

\* A record is crossed when another adding or deletion of it is under way.
LEMMA CrossedKept ==
  ASSUME TypeOK, NEW r \in Records, dev' = Cross(Referenced(r), r, Deleting(r) \/ Adding(r))
  PROVE  /\ dev' \in [Records -> Device] /\ Counted(r, 1) /\ SameOwners /\ SameReasons
         /\ \A q \in Records : dev'[q].by = dev[q].by
         /\ \A q \in Records : dev'[q].crossed = dev[q].crossed \/ dev'[q].crossed
         /\ dev'[r].crossed \/ \A b \in Actors : ~Busy(b, r)
<1>1. PICK other \in BOOLEAN : other = (Deleting(r) \/ Adding(r))
  OBVIOUS
<1>2. dev' = Cross(Referenced(r), r, other)
  BY <1>1
<1>3. /\ dev' \in [Records -> Device] /\ Counted(r, 1) /\ SameOwners /\ SameReasons
      /\ \A q \in Records : dev'[q].by = dev[q].by
      /\ \A q \in Records \ {r} : dev'[q].crossed = dev[q].crossed
      /\ ~dev'[r].crossed => ~other /\ ~dev[r].crossed
  BY <1>2, CrossFacts
<1>4. dev[r].crossed \in BOOLEAN /\ dev'[r].crossed \in BOOLEAN
  BY <1>3 DEF TypeOK, Device
<1>5. ~other => \A b \in Actors : ~Busy(b, r)
  BY <1>1 DEF Deleting, Adding, Busy
<1> QED BY <1>3, <1>4, <1>5

LEMMA InsertSafe ==
  ASSUME DeviceAssumption, TypeOK, Sound, NEW a \in Actors, Insert(a)
  PROVE  TypeOK' /\ Sound'
<1> USE DEF Sound
<1>1. /\ at[a] = "insert" /\ HandsOK(a) /\ FreshOK(a)
      /\ job[a].got = Nobody /\ job[a].found = Nobody /\ ~job[a].added
  BY DEF Insert, At, Hands, HandsOK, Fresh, New
<1>2. PICK d \in DriverRecords : d = job[a].driver
  BY <1>1 DEF HandsOK, New, TypeOK, Job
<1>3. PICK r \in Records : r = job[a].new
  BY <1>1 DEF HandsOK, New, TypeOK, Job
<1>4. Live(r)
  BY <1>3, Alive DEF DeviceAssumption
<1>5. UNCHANGED <<drv, valid, handles, undef>>
  BY DEF Insert
<1>6. \A q \in Records : ~Midway(a, q)
  BY <1>1 DEF Midway
<1>7. CASE sel[d] = Nobody
  <2>1. /\ sel' = [sel EXCEPT ![d] = r]
        /\ dev' = Referenced(r)
        /\ drec' = IF drv = d THEN drec ELSE [drec EXCEPT ![d].late = TRUE]
        /\ Goto(a, "proxy") /\ job' = job
    BY <1>2, <1>3, <1>7 DEF Insert
  <2>2. /\ at' \in [Actors -> Places] /\ Alone(a)
        /\ Now(a, "proxy", job[a].driver, job[a].new, job[a].got, job[a].found, job[a].hnd,
               job[a].added)
    BY <2>1, GotoAlone DEF Places
  <2>3. /\ dev' \in [Records -> Device] /\ Counted(r, 1) /\ SameDevices
        /\ \A q \in Records : dev'[q].by = dev[q].by
    BY <2>1, ReferencedFacts
  <2>4. \A q \in Records : /\ dev'[q].owner = dev[q].owner /\ dev'[q].reason = dev[q].reason
                           /\ dev'[q].crossed = dev[q].crossed
    BY <2>3 DEF SameDevices, SameOwners, SameReasons, SameCrossed
  <2>5. /\ drec' \in [DriverRecords -> Driver]
        /\ \A e \in DriverRecords :
             drec'[e].refs = drec[e].refs /\ (e # d => drec'[e].late = drec[e].late)
        /\ drv = d \/ drec'[d].late
    BY <2>1 DEF TypeOK, Driver
  <2>6. /\ sel' \in [DriverRecords -> Records \cup {Nobody}] /\ sel'[d] = r
        /\ \A e \in DriverRecords \ {d} : sel'[e] = sel[e]
    BY <2>1 DEF TypeOK
  <2>7. TypeOK'
    BY <1>5, <2>1, <2>2, <2>3, <2>5, <2>6 DEF TypeOK
  <2>8. Hands'
    <3>1. HandsOK(a)'
      BY <1>1, <2>2 DEF HandsOK, Now, New, Service, Translating, Target
    <3> QED BY <2>2, <3>1, HandsKept
  <2>9. Lives'
    BY <1>4, <2>3, LivesReferenced DEF SameDevices
  <2>10. DeviceRefsExact'
    <3>1. ASSUME NEW q \in Records
          PROVE  dev'[q].refs = dev[q].refs - Bit(sel[d] = q) + Bit(sel'[d] = q)
                                  - Share(a, q) + Share(a, q)'
      <4>1. dev[q].refs \in Int /\ Share(a, q) \in Int /\ q # Nobody
        BY DEF TypeOK, Device, Share, Bit, DeviceAssumption
      <4>2. dev'[q].refs = dev[q].refs + (IF q = r THEN 1 ELSE 0)
        BY <2>3 DEF Counted
      <4>3. Share(a, q)' = Share(a, q)
        BY <1>1, <2>2, <4>1 DEF Share, Bit, Now
      <4> QED BY <1>7, <2>6, <4>1, <4>2, <4>3 DEF Bit
    <3> QED BY <1>5, <2>2, <2>6, <3>1, BalanceList
  <2>11. DriverRefsExact'
    <3>1. ASSUME NEW e \in DriverRecords
          PROVE  drec'[e].refs = drec[e].refs - Bit(drv = e) + Bit(drv' = e)
                                   - Bit(job[a].driver = e) + Bit(job'[a].driver = e)
      <4>1. drec[e].refs \in Int /\ drv' = drv /\ job' = job /\ drec'[e].refs = drec[e].refs
        BY <1>5, <2>1, <2>5 DEF TypeOK, Driver
      <4> QED BY <4>1 DEF Bit
    <3> QED BY <2>2, <2>3, <3>1, DriverBalanceHands DEF SameDevices
  <2>12. Target(a)' = r /\ Target(a) = r
    BY <1>1, <1>3, <2>2 DEF Target, Now
  <2>13. Fresh'
    <3>1. FreshOK(a)'
      BY <2>2 DEF FreshOK, Now
    <3> QED BY <1>3, <2>1, <2>2, <2>4, <2>6, <2>12, <3>1, FreshKept DEF Now
  <2>14. OneBusy'
    <3>1. ASSUME NEW q \in Records, Busy(a, q)'
          PROVE  \A b \in Actors \ {a} : ~Busy(b, q)
      <4>1. q = r
        BY <1>1, <2>2, <2>12, <3>1 DEF Busy, Now, DeviceAssumption
      <4> QED BY <1>1, <1>3, <4>1 DEF FreshOK, Busy, Adding
    <3> QED BY <2>2, <2>4, <3>1, OneBusyKept
  <2>15. Works'
    <3>1. BusyOK(a)'
      BY <1>1, <1>3, <2>2, <2>4 DEF BusyOK, FreshOK, Now
    <3> QED BY <2>2, <2>4, <3>1, WorksKept
  <2>16. Lists'
    <3>1. ListedOK(d)'
      <4>1. Midway(a, r)'
        BY <1>1, <1>3, <2>2 DEF Midway, Now
      <4>2. dev'[r].owner = d
        BY <1>1, <1>2, <1>3, <2>4 DEF FreshOK
      <4> QED BY <2>6, <4>1, <4>2 DEF ListedOK
    <3>2. \A q \in Records : Steady(q) => Steady(q)'
      BY <1>5, <2>4 DEF Steady
    <3> QED BY <1>1, <1>6, <2>2, <2>4, <2>6, <3>1, <3>2, ListsKept
  <2>17. Valid'
    BY <1>5, <2>4 DEF Valid, TypeOK
  <2>18. Lates'
    <3> SUFFICES ASSUME NEW e \in DriverRecords, e # d, sel[e] # Nobody, drv # e
                 PROVE  drec[e].late \/ \E b \in Actors : at'[b] = "clear" /\ job'[b].driver = e
      BY <1>5, <2>5, <2>6 DEF Lates, LateOK
    <3>1. drec[e].late \/ \E b \in Actors : at[b] = "clear" /\ job[b].driver = e
      BY DEF Lates, LateOK
    <3> QED BY <1>1, <2>2, <3>1 DEF Alone
  <2> QED BY <2>7, <2>8, <2>9, <2>10, <2>11, <2>13, <2>14, <2>15, <2>16, <2>17, <2>18, SoundFrom
<1>8. CASE sel[d] # Nobody
  <2>1. PICK s \in Records : s = sel[d]
    BY <1>8 DEF TypeOK
  <2>2. PICK l \in {"proxy", "leave"} : l = IF dev[s].reason = "hooked" THEN "proxy" ELSE "leave"
    OBVIOUS
  <2>3. /\ dev' = Cross(Referenced(s), s, Deleting(s) \/ Adding(s))
        /\ Hold(a, "got", s) /\ Goto(a, l)
        /\ UNCHANGED <<sel, drec>>
    BY <1>2, <1>8, <2>1, <2>2 DEF Insert
  <2>4. /\ at' \in [Actors -> Places] /\ job' \in [Actors -> Job] /\ Alone(a)
        /\ Now(a, l, job[a].driver, job[a].new, s, job[a].found, job[a].hnd, job[a].added)
    BY <2>2, <2>3, GotAlone DEF Places
  <2>5. /\ dev' \in [Records -> Device] /\ Counted(s, 1) /\ SameOwners /\ SameReasons
        /\ \A q \in Records : dev'[q].by = dev[q].by
        /\ \A q \in Records : dev'[q].crossed = dev[q].crossed \/ dev'[q].crossed
        /\ dev'[s].crossed \/ \A b \in Actors : ~Busy(b, s)
    BY <2>3, CrossedKept
  <2>6. \A q \in Records : dev'[q].owner = dev[q].owner /\ dev'[q].reason = dev[q].reason
    BY <2>5 DEF SameOwners, SameReasons
  <2>7. s # Nobody /\ Live(s)
    BY <2>1, Alive DEF DeviceAssumption
  <2>8. TypeOK'
    BY <1>5, <2>3, <2>4, <2>5 DEF TypeOK
  <2>9. Hands'
    <3>1. HandsOK(a)'
      BY <1>1, <2>2, <2>4, <2>7 DEF HandsOK, Now, New, Service, Translating, Target
    <3> QED BY <2>4, <3>1, HandsKept
  <2>10. Lives'
    BY <2>5, <2>7, LivesReferenced
  <2>11. DeviceRefsExact'
    <3>1. ASSUME NEW q \in Records
          PROVE  dev'[q].refs = dev[q].refs - Share(a, q) + Share(a, q)'
      <4>1. dev[q].refs \in Int /\ q # Nobody
        BY DEF TypeOK, Device, DeviceAssumption
      <4>2. dev'[q].refs = dev[q].refs + (IF q = s THEN 1 ELSE 0)
        BY <2>5 DEF Counted
      <4>3. Share(a, q) = Bit(job[a].new = q)
        BY <1>1, <4>1 DEF Share, Bit
      <4>4. Share(a, q)' = Bit(job[a].new = q) + (IF q = s THEN 1 ELSE 0)
        BY <1>1, <2>2, <2>4, <4>1 DEF Share, Bit, Now, Translating
      <4> QED BY <4>1, <4>2, <4>3, <4>4 DEF Bit
    <3> QED BY <1>5, <2>3, <2>4, <3>1, BalanceHands
  <2>12. DriverRefsExact'
    BY <1>5, <2>3, <2>4, <2>5, DriversKept DEF Now
  <2>13. l = "proxy" => Target(a)' = s
    BY <2>4, <2>7 DEF Target, Now
  <2>14. Fresh'
    <3>1. FreshOK(a)'
      BY <2>2, <2>4 DEF FreshOK, Now
    <3>2. at'[a] \in {"proxy", "make"} => Target(a)' = sel[d]
      BY <2>1, <2>4, <2>13 DEF Now
    <3> QED BY <2>3, <2>4, <2>6, <3>1, <3>2, FreshKept DEF Now
  <2>15. OneBusy'
    <3>1. ASSUME NEW q \in Records, Busy(a, q)'
          PROVE  dev'[q].crossed \/ \A b \in Actors \ {a} : ~Busy(b, q)
      <4>1. q = s
        BY <1>1, <2>2, <2>4, <2>13, <3>1 DEF Busy, Now, DeviceAssumption
      <4> QED BY <2>5, <4>1
    <3> QED BY <2>4, <2>5, <3>1, OneBusyKept
  <2>16. Works'
    <3>1. BusyOK(a)'
      BY <2>2, <2>4, <2>7 DEF BusyOK, Now
    <3> QED BY <2>4, <2>5, <2>6, <3>1, WorksKept
  <2>17. Lists'
    <3>1. \A q \in Records : Steady(q) => Steady(q)'
      BY <1>5, <2>6 DEF Steady
    <3> QED BY <1>1, <1>6, <2>3, <2>4, <2>5, <2>6, <3>1, ListsKept
  <2>18. Valid'
    BY <1>5, <2>6 DEF Valid, TypeOK
  <2>19. Lates'
    BY <1>1, <1>5, <2>3, <2>4, LatesKept
  <2> QED BY <2>8, <2>9, <2>10, <2>11, <2>12, <2>14, <2>15, <2>16, <2>17, <2>18, <2>19, SoundFrom
<1> QED BY <1>7, <1>8

LEMMA ProxySafe ==
  ASSUME DeviceAssumption, TypeOK, Sound, NEW a \in Actors, Proxy(a)
  PROVE  TypeOK' /\ Sound'
<1> USE DEF Sound
<1>1. /\ at[a] = "proxy" /\ HandsOK(a) /\ BusyOK(a)
      /\ job[a].new # Nobody /\ job[a].found = Nobody /\ ~job[a].added
  BY DEF Proxy, At, Hands, HandsOK, Works, New
<1>2. PICK l \in {"make", "back", "leave"} :
        /\ Goto(a, l)
        /\ l = "back" => job[a].got = Nobody
        /\ l = "leave" => job[a].got # Nobody
        /\ dev' = dev \/ dev' = [dev EXCEPT ![Target(a)].proxy = TRUE]
  BY DEF Proxy
<1>3. UNCHANGED <<drv, drec, sel, valid, handles, job, undef>>
  BY DEF Proxy
<1>4. Target(a) \in Records
  BY <1>1 DEF Target, TypeOK, Job
<1>5. /\ dev' \in [Records -> Device]
      /\ \A q \in Records : /\ dev'[q].refs = dev[q].refs /\ dev'[q].owner = dev[q].owner
                            /\ dev'[q].reason = dev[q].reason /\ dev'[q].by = dev[q].by
                            /\ dev'[q].crossed = dev[q].crossed
  <2>1. CASE dev' = dev
    BY <2>1 DEF TypeOK
  <2>2. CASE dev' = [dev EXCEPT ![Target(a)].proxy = TRUE]
    <3>1. PICK r \in Records : r = Target(a)
      BY <1>4
    <3>2. dev' = [dev EXCEPT ![r].proxy = TRUE]
      BY <2>2, <3>1
    <3> QED BY <3>2 DEF TypeOK, Device
  <2> QED BY <1>2, <2>1, <2>2
<1>6. /\ at' \in [Actors -> Places] /\ Alone(a)
      /\ Now(a, l, job[a].driver, job[a].new, job[a].got, job[a].found, job[a].hnd,
             job[a].added)
  BY <1>2, <1>3, GotoAlone DEF Places
<1>7. TypeOK'
  BY <1>3, <1>5, <1>6 DEF TypeOK
<1>8. Hands'
  <2>1. HandsOK(a)'
    BY <1>1, <1>2, <1>6 DEF HandsOK, Now, New, Service, Translating, Target
  <2> QED BY <1>6, <2>1, HandsKept
<1>9. Lives'
  BY <1>5 DEF Lives, Life
<1>10. DeviceRefsExact'
  <2>1. ASSUME NEW q \in Records
        PROVE  dev'[q].refs = dev[q].refs - Share(a, q) + Share(a, q)'
    <3>1. dev[q].refs \in Int /\ Share(a, q) \in Int
      BY DEF TypeOK, Device, Share, Bit
    <3>2. Share(a, q)' = Share(a, q)
      <4>1. Target(a)' = Target(a) /\ at[a] \notin Translating /\ at'[a] \notin Translating
        BY <1>1, <1>2, <1>6 DEF Target, Now, Translating
      <4> QED BY <1>6, <4>1 DEF Share, Bit, Now
    <3> QED BY <1>5, <3>1, <3>2
  <2> QED BY <1>3, <1>6, <2>1, BalanceHands
<1>11. DriverRefsExact'
  <2>1. SameOwners
    BY <1>5 DEF SameOwners
  <2> QED BY <1>3, <1>6, <2>1, DriversKept
<1>12. Target(a)' = Target(a)
  BY <1>3 DEF Target
<1>13. Fresh'
  <2>1. FreshOK(a)'
    BY <1>2, <1>6 DEF FreshOK, Now
  <2>2. Adding(Target(a)')
    BY <1>1, <1>12 DEF Adding
  <2> QED BY <1>3, <1>5, <1>6, <2>1, <2>2, FreshKept
<1>14. OneBusy'
  <2>1. \A q \in Records : Busy(a, q)' => Busy(a, q)
    BY <1>1, <1>3, <1>12 DEF Busy
  <2> QED BY <1>5, <1>6, <2>1, OneBusyKept
<1>15. Works'
  <2>1. BusyOK(a)'
    <3>1. job[a].new \in Records
      BY <1>1 DEF TypeOK, Job
    <3> QED BY <1>1, <1>2, <1>3, <1>5, <1>6, <3>1 DEF BusyOK, Now
  <2> QED BY <1>5, <1>6, <2>1, WorksKept
<1>16. Lists'
  <2>1. \A q \in Records : Steady(q) => Steady(q)'
    BY <1>3, <1>5 DEF Steady
  <2>2. ASSUME NEW q \in Records, Midway(a, q), ~TakingBack(q)'
        PROVE  Midway(a, q)'
    <3>1. job[a].got = Nobody /\ job[a].new = q
      BY <1>1, <2>2 DEF Midway
    <3>2. l # "back"
      BY <1>3, <1>6, <2>2, <3>1 DEF TakingBack, Now, Target
    <3>3. l = "make"
      BY <1>2, <3>1, <3>2
    <3> QED BY <1>6, <3>1, <3>3 DEF Midway, Now
  <2> QED BY <1>1, <1>3, <1>5, <1>6, <2>1, <2>2, ListsKept
<1>17. Valid'
  BY <1>3, <1>5 DEF Valid, TypeOK
<1>18. Lates'
  BY <1>1, <1>3, <1>6, LatesKept
<1> QED BY <1>7, <1>8, <1>9, <1>10, <1>11, <1>13, <1>14, <1>15, <1>16, <1>17, <1>18, SoundFrom

\* A record whose proxy failed leaves the list.
LEMMA TakeBackSafe ==
  ASSUME DeviceAssumption, TypeOK, Sound, NEW a \in Actors, TakeBack(a)
  PROVE  TypeOK' /\ (undef' = "no" => Sound')
<1> USE DEF Sound
<1>1. /\ at[a] = "back" /\ HandsOK(a)
      /\ job[a].got = Nobody /\ job[a].found = Nobody /\ ~job[a].added
  BY DEF TakeBack, At, Hands, HandsOK, New
<1>2. PICK d \in DriverRecords : d = job[a].driver
  BY <1>1 DEF HandsOK, New, TypeOK, Job
<1>3. PICK r \in Records : r = job[a].new
  BY <1>1 DEF HandsOK, New, TypeOK, Job
<1>4. CASE sel[d] # r
  BY <1>2, <1>3, <1>4 DEF TakeBack, TypeOK
<1>5. CASE sel[d] = r
  <2>1. /\ sel' = [sel EXCEPT ![d] = Nobody] /\ dev' = Dropped(r, a) /\ Goto(a, "leave")
        /\ UNCHANGED <<drv, drec, valid, handles, job>>
    BY <1>2, <1>3, <1>5 DEF TakeBack
  <2>2. Live(r) /\ r # Nobody /\ Target(a) = r
    BY <1>1, <1>3, Alive DEF DeviceAssumption, Target
  <2>3. /\ at' \in [Actors -> Places] /\ Alone(a)
        /\ Now(a, "leave", job[a].driver, job[a].new, job[a].got, job[a].found, job[a].hnd,
               job[a].added)
    BY <2>1, GotoAlone DEF Places
  <2>4. dev' \in [Records -> Device] /\ Counted(r, -1) /\ SameDevices
    BY <2>1, DroppedFacts
  <2>5. \A q \in Records : /\ dev'[q].owner = dev[q].owner /\ dev'[q].reason = dev[q].reason
                           /\ dev'[q].crossed = dev[q].crossed
    BY <2>4 DEF SameDevices, SameOwners, SameReasons, SameCrossed
  <2>6. /\ sel' \in [DriverRecords -> Records \cup {Nobody}] /\ sel'[d] = Nobody
        /\ \A e \in DriverRecords \ {d} : sel'[e] = sel[e]
    BY <2>1 DEF TypeOK
  <2>7. TypeOK'
    BY <2>1, <2>3, <2>4, <2>6 DEF TypeOK
  <2>8. Hands'
    <3>1. HandsOK(a)'
      BY <1>1, <2>3 DEF HandsOK, Now, New, Service, Translating, Target
    <3> QED BY <2>3, <3>1, HandsKept
  <2>9. Lives'
    BY <2>1, <2>2, LivesDropped
  <2>10. DeviceRefsExact'
    <3>1. ASSUME NEW q \in Records
          PROVE  dev'[q].refs = dev[q].refs - Bit(sel[d] = q) + Bit(sel'[d] = q)
                                  - Share(a, q) + Share(a, q)'
      <4>1. dev[q].refs \in Int /\ Share(a, q) \in Int /\ q # Nobody
        BY DEF TypeOK, Device, Share, Bit, DeviceAssumption
      <4>2. dev'[q].refs = dev[q].refs + (IF q = r THEN -1 ELSE 0)
        BY <2>4 DEF Counted
      <4>3. Share(a, q)' = Share(a, q)
        BY <1>1, <2>3, <4>1 DEF Share, Bit, Now
      <4> QED BY <1>5, <2>6, <4>1, <4>2, <4>3 DEF Bit
    <3> QED BY <2>1, <2>3, <2>6, <3>1, BalanceList
  <2>11. DriverRefsExact'
    BY <2>1, <2>3, <2>4, DriversKept DEF SameDevices
  <2>12. \A e \in DriverRecords : sel'[e] \in {sel[e], Nobody} /\ sel'[e] # r
    <3>1. \A e \in DriverRecords : sel[e] = r => dev[r].owner = e
      BY <2>2 DEF Lists, ListedOK
    <3> QED BY <1>5, <2>2, <2>6, <3>1
  <2>13. Fresh'
    <3>1. FreshOK(a)'
      BY <2>3 DEF FreshOK, Now
    <3> QED BY <2>1, <2>3, <2>5, <2>12, <3>1, FreshKept DEF Now
  <2>14. OneBusy'
    <3>1. \A q \in Records : ~Busy(a, q)'
      BY <1>1, <2>3 DEF Busy, Now, DeviceAssumption
    <3> QED BY <2>3, <2>5, <3>1, OneBusyKept
  <2>15. Works'
    <3>1. BusyOK(a)'
      BY <2>3 DEF BusyOK, Now
    <3> QED BY <2>3, <2>5, <3>1, WorksKept
  <2>16. Lists'
    <3>1. \A q \in Records : (Steady(q) => Steady(q)') /\ ~Midway(a, q)
      BY <1>1, <2>1, <2>5 DEF Steady, Midway
    <3> QED BY <2>2, <2>3, <2>5, <2>12, <3>1, ListsKept
  <2>17. Valid'
    BY <2>1, <2>5 DEF Valid, TypeOK
  <2>18. Lates'
    BY <1>1, <2>1, <2>3, <2>12, LatesKept
  <2> QED BY <2>7, <2>8, <2>9, <2>10, <2>11, <2>13, <2>14, <2>15, <2>16, <2>17, <2>18, SoundFrom
<1> QED BY <1>4, <1>5

\* The record becomes valid.
LEMMA MakeSafe ==
  ASSUME DeviceAssumption, TypeOK, Sound, NEW a \in Actors, Make(a)
  PROVE  TypeOK' /\ (undef' = "no" => Sound')
<1> USE DEF Sound
<1>1. /\ at[a] = "make" /\ HandsOK(a) /\ BusyOK(a) /\ a \notin Openers
      /\ job[a].new # Nobody /\ job[a].found = Nobody /\ ~job[a].added
  BY DEF Make, At, Hands, HandsOK, Works, New
<1>2. PICK r \in Records : r = Target(a)
  BY <1>1 DEF Target, TypeOK, Job
<1>3. CASE r \in valid
  BY <1>2, <1>3 DEF Make, TypeOK
<1>4. CASE r \notin valid
  <2>1. PICK l \in {"report", "handle"} : l = IF a \in Handlers THEN "report" ELSE "handle"
    OBVIOUS
  <2>2. /\ valid' = valid \cup {r}
        /\ dev' = IF job[a].got = Nobody THEN Referenced(r)
                  ELSE [Referenced(r) EXCEPT ![r].reason = "user"]
        /\ Hold(a, "added", TRUE) /\ Goto(a, l)
        /\ UNCHANGED <<drv, drec, sel, handles>>
    BY <1>2, <1>4, <2>1 DEF Make
  <2>3. Live(r) /\ r # Nobody /\ Busy(a, r)
    <3>1. Busy(a, r)
      BY <1>1, <1>2 DEF Busy
    <3> QED BY <3>1, BusyLive DEF DeviceAssumption
  <2>4. /\ at' \in [Actors -> Places] /\ job' \in [Actors -> Job] /\ Alone(a)
        /\ Now(a, l, job[a].driver, job[a].new, job[a].got, job[a].found, job[a].hnd, TRUE)
    BY <2>1, <2>2, AddedAlone DEF Places
  <2>5. /\ dev' \in [Records -> Device] /\ Counted(r, 1)
        /\ \A q \in Records : /\ dev'[q].owner = dev[q].owner /\ dev'[q].by = dev[q].by
                              /\ dev'[q].crossed = dev[q].crossed
                              /\ q # r => dev'[q].reason = dev[q].reason
        /\ job[a].got # Nobody => dev'[r].reason = "user"
        /\ job[a].got = Nobody => dev'[r].reason = dev[r].reason
    <3>1. CASE job[a].got = Nobody
      BY <2>2, <3>1, ReferencedFacts DEF SameDevices, SameOwners, SameReasons, SameCrossed
    <3>2. CASE job[a].got # Nobody
      <4>1. dev[r] \in Device /\ dev[r].refs + 1 \in Int
        BY DEF TypeOK, Device
      <4>2. [dev[r] EXCEPT !.refs = dev[r].refs + 1, !.reason = "user"] \in Device
        BY <4>1 DEF Device
      <4>3. dev' = [dev EXCEPT ![r] = [dev[r] EXCEPT !.refs = dev[r].refs + 1, !.reason = "user"]]
        BY <2>2, <3>2 DEF Referenced, TypeOK
      <4>4. dev' \in [Records -> Device] /\ \A q \in Records \ {r} : dev'[q] = dev[q]
        BY <4>2, <4>3 DEF TypeOK
      <4>5. /\ dev'[r].refs = dev[r].refs + 1 /\ dev'[r].owner = dev[r].owner
            /\ dev'[r].by = dev[r].by /\ dev'[r].crossed = dev[r].crossed
            /\ dev'[r].reason = "user"
        BY <4>1, <4>3 DEF TypeOK, Device
      <4>6. \A q \in Records : dev[q].refs \in Int
        BY DEF TypeOK, Device
      <4> QED BY <3>2, <4>4, <4>5, <4>6 DEF Counted
    <3> QED BY <3>1, <3>2
  <2>6. TypeOK'
    BY <2>2, <2>4, <2>5 DEF TypeOK
  <2>7. Target(a)' = Target(a)
    BY <2>4 DEF Target, Now
  <2>8. Hands'
    <3>1. HandsOK(a)'
      BY <1>1, <1>2, <2>1, <2>3, <2>4, <2>7 DEF HandsOK, Now, New, Service, Translating
    <3> QED BY <2>4, <3>1, HandsKept
  <2>9. Lives'
    BY <2>3, <2>5, LivesReferenced DEF SameOwners
  <2>10. DeviceRefsExact'
    <3>1. ASSUME NEW q \in Records
          PROVE  dev'[q].refs = dev[q].refs - Share(a, q) + Share(a, q)'
      <4>1. dev[q].refs \in Int /\ Share(a, q) \in Int
        BY DEF TypeOK, Device, Share, Bit
      <4>2. dev'[q].refs = dev[q].refs + (IF q = r THEN 1 ELSE 0)
        BY <2>5 DEF Counted
      <4>3. Share(a, q)' = Share(a, q) + (IF q = r THEN 1 ELSE 0)
        <5>1. at[a] \notin Translating /\ at'[a] \notin Translating /\ job'[a].added
          BY <1>1, <2>1, <2>4 DEF Now, Translating
        <5>2. /\ job'[a].new = job[a].new /\ job'[a].got = job[a].got
              /\ job'[a].found = job[a].found
          BY <2>4 DEF Now
        <5> QED BY <1>1, <1>2, <2>7, <5>1, <5>2 DEF Share, Bit
      <4> QED BY <4>1, <4>2, <4>3
    <3> QED BY <2>2, <2>4, <3>1, BalanceHands
  <2>11. DriverRefsExact'
    <3>1. SameOwners
      BY <2>5 DEF SameOwners
    <3> QED BY <2>2, <2>4, <3>1, DriversKept DEF Now
  <2>12. Fresh'
    <3>1. FreshOK(a)' /\ at'[a] \notin {"proxy", "make"}
      BY <2>1, <2>4 DEF FreshOK, Now
    <3>2. Adding(r)
      BY <1>1, <1>2 DEF Adding
    <3>3. \A q \in Records : ~Adding(q) =>
            dev'[q].owner = dev[q].owner /\ dev'[q].reason = dev[q].reason
      BY <2>5, <3>2
    <3> QED BY <2>2, <2>4, <3>1, <3>3, FreshKept DEF Now
  <2>13. OneBusy'
    <3>1. \A q \in Records : ~Busy(a, q)'
      BY <1>1, <2>1, <2>4 DEF Busy, Now, DeviceAssumption
    <3> QED BY <2>4, <2>5, <3>1, OneBusyKept
  <2>14. Works'
    <3>1. BusyOK(a)'
      BY <2>1, <2>4 DEF BusyOK, Now
    <3>2. \A q \in Records : dev'[q].reason = dev[q].reason \/ Busy(a, q)
      BY <2>3, <2>5
    <3> QED BY <2>4, <2>5, <3>1, <3>2, WorksKept
  <2>15. Lists'
    <3>1. ASSUME NEW q \in Records, ~dev'[q].crossed
          PROVE  /\ Steady(q) => Steady(q)'
                 /\ Midway(a, q) => Steady(q)'
      <4>1. CASE q = r
        <5>1. dev'[r].reason = "user"
          BY <1>1, <1>2, <2>5, <3>1, <4>1 DEF BusyOK, Target
        <5> QED BY <2>2, <4>1, <5>1 DEF Steady
      <4>2. CASE q # r
        BY <1>1, <1>2, <2>2, <2>5, <4>2 DEF Steady, Midway, Target
      <4> QED BY <4>1, <4>2
    <3> QED BY <1>1, <2>2, <2>4, <2>5, <3>1, ListsKept
  <2>16. Valid'
    BY <2>2, <2>3, <2>5 DEF Valid, TypeOK, Live
  <2>17. Lates'
    BY <1>1, <2>2, <2>4, LatesKept
  <2> QED BY <2>6, <2>8, <2>9, <2>10, <2>11, <2>12, <2>13, <2>14, <2>15, <2>16, <2>17, SoundFrom
<1> QED BY <1>3, <1>4

-----------------------------------------------------------------------------
(* The deletion of a device.                                               *)

LEMMA FindSafe ==
  ASSUME DeviceAssumption, TypeOK, Sound, NEW a \in Actors, Find(a)
  PROVE  TypeOK' /\ Sound'
<1> USE DEF Sound
<1>1. at[a] = "find" /\ HandsOK(a) /\ job[a].found = Nobody
  BY DEF Find, At, Hands, HandsOK
<1>2. Target(a) \in Records /\ Live(Target(a))
  BY <1>1, TargetLive DEF HandsOK, Service, Translating
<1>3. PICK d \in DriverRecords : d = dev[Target(a)].owner
  BY <1>2 DEF TypeOK, Device, Live
<1>4. CASE sel[d] = Nobody \/ dev[sel[d]].reason # "user"
  <2>1. PICK l \in {"out", "leave"} : l = AfterDelete(a, FALSE)
    BY DEF AfterDelete
  <2>2. Goto(a, l) /\ UNCHANGED <<drv, drec, sel, dev, valid, handles, job>>
    BY <1>3, <1>4, <2>1 DEF Find
  <2>3. at'[a] = l /\ job'[a] = job[a]
    BY <2>2 DEF Goto, TypeOK
  <2>4. HandsOK(a)'
    BY <1>1, <2>1, <2>3 DEF HandsOK, New, Service, Translating, Target, AfterDelete
  <2> QED BY <1>1, <2>1, <2>2, <2>4, GoOnSafe DEF New, Translating, Places
<1>5. CASE ~(sel[d] = Nobody \/ dev[sel[d]].reason # "user")
  <2>1. PICK r \in Records : r = sel[d]
    BY <1>5 DEF TypeOK
  <2>2. /\ dev' = Cross(Referenced(r), r, Deleting(r) \/ Adding(r))
        /\ Hold(a, "found", r) /\ Goto(a, "revert")
        /\ UNCHANGED <<drv, drec, sel, valid, handles>>
    BY <1>3, <1>5, <2>1 DEF Find
  <2>3. /\ at' \in [Actors -> Places] /\ job' \in [Actors -> Job] /\ Alone(a)
        /\ Now(a, "revert", job[a].driver, job[a].new, job[a].got, r, job[a].hnd, job[a].added)
    BY <2>2, FoundAlone DEF Places
  <2>4. /\ dev' \in [Records -> Device] /\ Counted(r, 1) /\ SameOwners /\ SameReasons
        /\ \A q \in Records : dev'[q].by = dev[q].by
        /\ \A q \in Records : dev'[q].crossed = dev[q].crossed \/ dev'[q].crossed
        /\ dev'[r].crossed \/ \A b \in Actors : ~Busy(b, r)
    BY <2>2, CrossedKept
  <2>5. \A q \in Records : dev'[q].owner = dev[q].owner /\ dev'[q].reason = dev[q].reason
    BY <2>4 DEF SameOwners, SameReasons
  <2>6. r # Nobody /\ Live(r)
    BY <2>1, Alive DEF DeviceAssumption
  <2>7. TypeOK'
    BY <2>2, <2>3, <2>4 DEF TypeOK
  <2>8. Hands'
    <3>1. HandsOK(a)'
      BY <1>1, <2>3, <2>6 DEF HandsOK, Now, New, Service, Translating, Target
    <3> QED BY <2>3, <3>1, HandsKept
  <2>9. Lives'
    BY <2>4, <2>6, LivesReferenced
  <2>10. DeviceRefsExact'
    <3>1. ASSUME NEW q \in Records
          PROVE  dev'[q].refs = dev[q].refs - Share(a, q) + Share(a, q)'
      <4>1. dev[q].refs \in Int /\ Share(a, q) \in Int /\ q # Nobody
        BY DEF TypeOK, Device, Share, Bit, DeviceAssumption
      <4>2. dev'[q].refs = dev[q].refs + (IF q = r THEN 1 ELSE 0)
        BY <2>4 DEF Counted
      <4>3. Share(a, q)' = Share(a, q) + (IF q = r THEN 1 ELSE 0)
        <5>1. /\ at[a] \notin Translating /\ at'[a] \notin Translating
              /\ Target(a)' = Target(a)
          BY <1>1, <2>3 DEF Now, Translating, Target
        <5>2. /\ job'[a].new = job[a].new /\ job'[a].got = job[a].got
              /\ job'[a].found = r /\ job'[a].added = job[a].added
          BY <2>3 DEF Now
        <5> QED BY <1>1, <4>1, <5>1, <5>2 DEF Share, Bit
      <4> QED BY <4>1, <4>2, <4>3
    <3> QED BY <2>2, <2>3, <3>1, BalanceHands
  <2>11. DriverRefsExact'
    BY <2>2, <2>3, <2>4, DriversKept DEF Now
  <2>12. Fresh'
    <3>1. FreshOK(a)' /\ at'[a] \notin {"proxy", "make"}
      BY <2>3 DEF FreshOK, Now
    <3> QED BY <2>1, <2>2, <2>3, <2>5, <3>1, FreshKept DEF Now
  <2>13. OneBusy'
    <3>1. ASSUME NEW q \in Records, Busy(a, q)'
          PROVE  dev'[q].crossed \/ \A b \in Actors \ {a} : ~Busy(b, q)
      <4>1. q = r
        BY <2>3, <3>1 DEF Busy, Now
      <4> QED BY <2>4, <4>1
    <3> QED BY <2>3, <2>4, <3>1, OneBusyKept
  <2>14. Works'
    <3>1. BusyOK(a)'
      BY <2>3 DEF BusyOK, Now
    <3> QED BY <2>3, <2>4, <2>5, <3>1, WorksKept
  <2>15. Lists'
    <3>1. \A q \in Records : (Steady(q) => Steady(q)') /\ ~Midway(a, q)
      BY <1>1, <2>2, <2>5 DEF Steady, Midway
    <3> QED BY <1>1, <2>2, <2>3, <2>4, <2>5, <3>1, ListsKept
  <2>16. Valid'
    BY <2>2, <2>5 DEF Valid, TypeOK
  <2>17. Lates'
    BY <1>1, <2>2, <2>3, LatesKept
  <2> QED BY <2>7, <2>8, <2>9, <2>10, <2>11, <2>12, <2>13, <2>14, <2>15, <2>16, <2>17, SoundFrom
<1> QED BY <1>4, <1>5

\* What the record is for is taken back before it stops being valid.
LEMMA RevertSafe ==
  ASSUME DeviceAssumption, TypeOK, Sound, NEW a \in Actors, Revert(a)
  PROVE  TypeOK' /\ Sound'
<1> USE DEF Sound
<1>1. at[a] = "revert" /\ HandsOK(a) /\ job[a].found # Nobody
  BY DEF Revert, At, Hands, HandsOK
<1>2. PICK r \in Records : r = job[a].found
  BY <1>1 DEF TypeOK, Job
<1>3. /\ dev' = [dev EXCEPT ![r].proxy = FALSE, ![r].reason = "hooked"]
      /\ Goto(a, "invalidate")
      /\ UNCHANGED <<drv, drec, sel, valid, handles, job>>
  BY <1>2 DEF Revert
<1>4. Busy(a, r)
  BY <1>2 DEF Busy
<1>5. /\ dev' \in [Records -> Device]
      /\ dev'[r].reason = "hooked"
      /\ \A q \in Records : /\ dev'[q].refs = dev[q].refs /\ dev'[q].owner = dev[q].owner
                            /\ dev'[q].by = dev[q].by /\ dev'[q].crossed = dev[q].crossed
                            /\ q # r => dev'[q].reason = dev[q].reason
  <2>1. dev[r] \in Device
    BY DEF TypeOK
  <2>2. [dev[r] EXCEPT !.proxy = FALSE, !.reason = "hooked"] \in Device
    BY <2>1 DEF Device
  <2>3. dev' = [dev EXCEPT ![r] = [dev[r] EXCEPT !.proxy = FALSE, !.reason = "hooked"]]
    BY <1>3
  <2>4. dev' \in [Records -> Device] /\ \A q \in Records \ {r} : dev'[q] = dev[q]
    BY <2>2, <2>3 DEF TypeOK
  <2>5. /\ dev'[r].refs = dev[r].refs /\ dev'[r].owner = dev[r].owner
        /\ dev'[r].by = dev[r].by /\ dev'[r].crossed = dev[r].crossed
        /\ dev'[r].reason = "hooked"
    BY <2>1, <2>3 DEF TypeOK, Device
  <2> QED BY <2>4, <2>5
<1>6. /\ at' \in [Actors -> Places] /\ Alone(a)
      /\ Now(a, "invalidate", job[a].driver, job[a].new, job[a].got, job[a].found, job[a].hnd,
             job[a].added)
  BY <1>3, GotoAlone DEF Places
<1>7. TypeOK'
  BY <1>3, <1>5, <1>6 DEF TypeOK
<1>8. Hands'
  <2>1. HandsOK(a)'
    BY <1>1, <1>6 DEF HandsOK, Now, New, Service, Translating, Target
  <2> QED BY <1>6, <2>1, HandsKept
<1>9. Lives'
  BY <1>5 DEF Lives, Life
<1>10. DeviceRefsExact'
  <2>1. ASSUME NEW q \in Records
        PROVE  dev'[q].refs = dev[q].refs - Share(a, q) + Share(a, q)'
    <3>1. dev[q].refs \in Int /\ Share(a, q) \in Int
      BY DEF TypeOK, Device, Share, Bit
    <3>2. Share(a, q)' = Share(a, q)
      <4>1. Target(a)' = Target(a) /\ at[a] \notin Translating /\ at'[a] \notin Translating
        BY <1>1, <1>6 DEF Target, Now, Translating
      <4> QED BY <1>6, <4>1 DEF Share, Bit, Now
    <3> QED BY <1>5, <3>1, <3>2
  <2> QED BY <1>3, <1>6, <2>1, BalanceHands
<1>11. DriverRefsExact'
  <2>1. SameOwners
    BY <1>5 DEF SameOwners
  <2> QED BY <1>3, <1>6, <2>1, DriversKept
<1>12. Fresh'
  <2>1. FreshOK(a)' /\ at'[a] \notin {"proxy", "make"}
    BY <1>6 DEF FreshOK, Now
  <2> QED BY <1>2, <1>3, <1>5, <1>6, <2>1, FreshKept
<1>13. OneBusy'
  <2>1. \A q \in Records : Busy(a, q)' => Busy(a, q)
    BY <1>3, <1>6 DEF Busy, Now
  <2> QED BY <1>5, <1>6, <2>1, OneBusyKept
<1>14. Works'
  <2>1. BusyOK(a)'
    BY <1>2, <1>3, <1>5, <1>6 DEF BusyOK, Now
  <2>2. \A q \in Records : dev'[q].reason = dev[q].reason \/ Busy(a, q)
    BY <1>4, <1>5
  <2> QED BY <1>5, <1>6, <2>1, <2>2, WorksKept
<1>15. Lists'
  <2>1. ASSUME NEW q \in Records
        PROVE  /\ Steady(q) => Steady(q)' \/ Midway(a, q)'
               /\ ~Midway(a, q)
    <3>1. ~Midway(a, q)
      BY <1>1 DEF Midway
    <3>2. CASE q = r
      BY <1>2, <1>6, <3>1, <3>2 DEF Midway, Now
    <3>3. CASE q # r
      BY <1>3, <1>5, <3>1, <3>3 DEF Steady
    <3> QED BY <3>2, <3>3
  <2> QED BY <1>1, <1>3, <1>5, <1>6, <2>1, ListsKept
<1>16. Valid'
  BY <1>3, <1>5 DEF Valid, TypeOK
<1>17. Lates'
  BY <1>1, <1>3, <1>6, LatesKept
<1> QED BY <1>7, <1>8, <1>9, <1>10, <1>11, <1>12, <1>13, <1>14, <1>15, <1>16, <1>17, SoundFrom

LEMMA InvalidateSafe ==
  ASSUME DeviceAssumption, TypeOK, Sound, NEW a \in Actors, Invalidate(a)
  PROVE  TypeOK' /\ Sound'
<1> USE DEF Sound
<1>1. at[a] = "invalidate" /\ HandsOK(a) /\ BusyOK(a) /\ job[a].found # Nobody
  BY DEF Invalidate, At, Hands, HandsOK, Works
<1>2. PICK r \in Records : r = job[a].found
  BY <1>1 DEF TypeOK, Job
<1>3. PICK l \in {"out", "close"} : l = IF job[a].added THEN "out" ELSE "close"
  OBVIOUS
<1>4. /\ valid' = valid \ {r} /\ dev' = Dropped(r, a)
      /\ Hold(a, "found", Nobody) /\ Goto(a, l)
      /\ UNCHANGED <<drv, drec, sel, handles>>
  BY <1>2, <1>3 DEF Invalidate, AfterDelete
<1>5. Live(r)
  BY <1>1, <1>2, Alive
<1>6. dev' \in [Records -> Device] /\ Counted(r, -1) /\ SameDevices
  BY <1>4, DroppedFacts
<1>7. \A q \in Records : /\ dev'[q].owner = dev[q].owner /\ dev'[q].reason = dev[q].reason
                         /\ dev'[q].crossed = dev[q].crossed
  BY <1>6 DEF SameDevices, SameOwners, SameReasons, SameCrossed
<1>8. /\ at' \in [Actors -> Places] /\ job' \in [Actors -> Job] /\ Alone(a)
      /\ Now(a, l, job[a].driver, job[a].new, job[a].got, Nobody, job[a].hnd, job[a].added)
  BY <1>3, <1>4, FoundAlone DEF Places
<1>9. TypeOK'
  BY <1>4, <1>6, <1>8 DEF TypeOK
<1>10. Hands'
  <2>1. HandsOK(a)'
    BY <1>1, <1>3, <1>8 DEF HandsOK, Now, New, Service, Translating, Target
  <2> QED BY <1>8, <2>1, HandsKept
<1>11. Lives'
  BY <1>4, <1>5, LivesDropped
<1>12. DeviceRefsExact'
  <2>1. ASSUME NEW q \in Records
        PROVE  dev'[q].refs = dev[q].refs - Share(a, q) + Share(a, q)'
    <3>1. dev[q].refs \in Int /\ Share(a, q) \in Int /\ q # Nobody
      BY DEF TypeOK, Device, Share, Bit, DeviceAssumption
    <3>2. dev'[q].refs = dev[q].refs + (IF q = r THEN -1 ELSE 0)
      BY <1>6 DEF Counted
    <3>3. Share(a, q)' = Share(a, q) - (IF q = r THEN 1 ELSE 0)
      <4>1. /\ at[a] \notin Translating /\ at'[a] \notin Translating
            /\ Target(a)' = Target(a)
        BY <1>1, <1>3, <1>8 DEF Now, Translating, Target
      <4>2. /\ job'[a].new = job[a].new /\ job'[a].got = job[a].got
            /\ job'[a].found = Nobody /\ job'[a].added = job[a].added
        BY <1>8 DEF Now
      <4> QED BY <1>2, <3>1, <4>1, <4>2 DEF Share, Bit
    <3> QED BY <3>1, <3>2, <3>3
  <2> QED BY <1>4, <1>8, <2>1, BalanceHands
<1>13. DriverRefsExact'
  BY <1>4, <1>6, <1>8, DriversKept DEF SameDevices, Now
<1>14. Fresh'
  <2>1. FreshOK(a)' /\ at'[a] \notin {"proxy", "make"}
    BY <1>3, <1>8 DEF FreshOK, Now
  <2> QED BY <1>4, <1>7, <1>8, <2>1, FreshKept DEF Now
<1>15. OneBusy'
  <2>1. \A q \in Records : ~Busy(a, q)'
    BY <1>3, <1>8 DEF Busy, Now, DeviceAssumption
  <2> QED BY <1>7, <1>8, <2>1, OneBusyKept
<1>16. Works'
  <2>1. BusyOK(a)'
    BY <1>3, <1>8 DEF BusyOK, Now
  <2> QED BY <1>7, <1>8, <2>1, WorksKept
<1>17. Lists'
  <2>1. ASSUME NEW q \in Records, ~dev'[q].crossed
        PROVE  /\ Steady(q) => Steady(q)'
               /\ Midway(a, q) => Steady(q)'
    <3>1. CASE q = r
      <4>1. dev'[r].reason = "hooked"
        BY <1>1, <1>2, <1>7, <2>1, <3>1 DEF BusyOK
      <4> QED BY <1>4, <3>1, <4>1 DEF Steady
    <3>2. CASE q # r
      BY <1>1, <1>2, <1>4, <1>7, <3>2 DEF Steady, Midway
    <3> QED BY <3>1, <3>2
  <2> QED BY <1>1, <1>4, <1>7, <1>8, <2>1, ListsKept
<1>18. Valid'
  BY <1>4, <1>7 DEF Valid, TypeOK
<1>19. Lates'
  BY <1>1, <1>4, <1>8, LatesKept
<1> QED BY <1>9, <1>10, <1>11, <1>12, <1>13, <1>14, <1>15, <1>16, <1>17, <1>18, <1>19, SoundFrom

-----------------------------------------------------------------------------
(* The invariant is inductive and implies the property.                    *)

LEMMA InitInv ==
  ASSUME DeviceAssumption, Init
  PROVE  Inv
<1>1. TypeOK
  <2>1. Freed \in Device /\ NoJob \in Job
    BY DEF Freed, Device, NoJob, Job
  <2>2. drec \in [DriverRecords -> Driver]
    BY DEF Init, Driver
  <2> QED BY <2>1, <2>2 DEF Init, TypeOK, Places
<1>2. \A a \in Actors : at[a] = "idle" /\ job[a] = NoJob
  BY DEF Init
<1>3. Hands
  <2> SUFFICES ASSUME NEW a \in Actors PROVE HandsOK(a)
    BY DEF Hands
  <2>1. /\ job[a].driver = Nobody /\ job[a].new = Nobody /\ job[a].got = Nobody
        /\ job[a].found = Nobody /\ job[a].hnd = Nobody /\ ~job[a].added
    BY <1>2 DEF NoJob
  <2>2. at[a] = "idle" /\ job[a] = NoJob
    BY <1>2
  <2> QED BY <2>1, <2>2 DEF HandsOK, New, Service, Translating
<1>4. Lives
  BY DEF Init, Lives, Life, Freed
<1>5. DeviceRefsExact
  <2> SUFFICES ASSUME NEW r \in Records PROVE dev[r].refs = References(r)
    BY DEF DeviceRefsExact
  <2>1. r # Nobody
    BY DEF DeviceAssumption
  <2>2. /\ ListsWith(r) = {} /\ HandlesOf(r) = {} /\ Creators(r) = {} /\ Getters(r) = {}
        /\ Finders(r) = {} /\ Adders(r) = {}
    BY <1>2, <2>1 DEF Init, ListsWith, HandlesOf, Creators, Getters, Finders, Adders, NoJob
  <2>3. Cardinality({}) = 0
    BY FS_EmptySet
  <2>4. dev[r].refs = 0
    BY DEF Init, Freed
  <2> QED BY <2>2, <2>3, <2>4 DEF References
<1>6. DriverRefsExact
  <2> SUFFICES ASSUME NEW d \in DriverRecords
               PROVE  drec[d].refs = (IF drv = d THEN 1 ELSE 0)
                                       + Cardinality(DevicesOf(d)) + Cardinality(UsersOf(d))
    BY DEF DriverRefsExact
  <2>1. d # Nobody
    BY DEF DeviceAssumption
  <2>2. DevicesOf(d) = {} /\ UsersOf(d) = {}
    BY <1>2, <2>1 DEF Init, DevicesOf, UsersOf, Freed, NoJob
  <2>3. Cardinality({}) = 0
    BY FS_EmptySet
  <2>4. drec[d].refs = 0 /\ drv # d
    BY <2>1 DEF Init
  <2> QED BY <2>2, <2>3, <2>4
<1>7. Fresh /\ OneBusy /\ Works
  BY <1>2 DEF Fresh, FreshOK, OneBusy, Busy, Works, BusyOK, NoJob, DeviceAssumption
<1>8. Lists /\ Valid /\ Lates
  BY DEF Init, Lists, ListedOK, Valid, Lates, LateOK
<1> QED BY <1>1, <1>3, <1>4, <1>5, <1>6, <1>7, <1>8 DEF Inv, Sound

\* Every step of a defined behaviour, by the actor that takes it.
LEMMA ControllerSafe ==
  ASSUME DeviceAssumption, TypeOK, Sound, LockedStep
  PROVE  TypeOK' /\ Sound'
<1>1. ASSUME NEW c \in Controllers, NEW d \in DriverRecords, NEW x \in BOOLEAN, Hook(c, d, x)
      PROVE  TypeOK' /\ Sound'
  BY <1>1, HookSafe DEF Actors
<1>2. ASSUME NEW c \in Controllers, UnhookDelete(c)
      PROVE  TypeOK' /\ Sound'
  BY <1>2, UnhookDeleteSafe DEF Actors
<1>3. ASSUME NEW c \in Controllers, NEW r \in Records, Create(c, r)
      PROVE  TypeOK' /\ Sound'
  BY <1>3, CreateSafe DEF Actors
<1>4. ASSUME NEW a \in Handlers, Arrive(a)
      PROVE  TypeOK' /\ Sound'
  BY <1>4, ArriveSafe DEF Actors
<1> QED BY <1>1, <1>2, <1>3, <1>4 DEF LockedStep

LEMMA ActorSafe ==
  ASSUME DeviceAssumption, TypeOK, Sound, FreeStep
  PROVE  TypeOK' /\ (undef' = "no" => Sound')
<1>1. ASSUME NEW a \in Actors,
             \/ Free(a) \/ DropNew(a) \/ DropGot(a) \/ DropDriver(a) \/ UnhookClear(a)
             \/ Insert(a) \/ Proxy(a) \/ TakeBack(a) \/ Make(a) \/ Report(a)
             \/ HandleCreateFail(a) \/ Output(a) \/ Out(a)
             \/ Find(a) \/ Revert(a) \/ Invalidate(a) \/ Close(a)
             \/ Set(a) \/ Fill(a) \/ GetDevice(a) \/ Call(a)
      PROVE  TypeOK' /\ (undef' = "no" => Sound')
  BY <1>1, FreeSafe, DropNewSafe, DropGotSafe, DropDriverSafe, UnhookClearSafe,
     InsertSafe, ProxySafe, TakeBackSafe, MakeSafe, DropAddedSafe, HandleCreateFailSafe,
     OutputSafe, FindSafe, RevertSafe, InvalidateSafe, CloseStepSafe, CallSafe, FillSafe,
     GetDeviceSafe
<1>2. ASSUME NEW a \in Actors, NEW h \in Handles,
             HandleCreate(a, h) \/ DeleteDevice(a, h) \/ CloseHandle(a, h) \/ SetInfo(a, h)
      PROVE  TypeOK' /\ (undef' = "no" => Sound')
  <2>1. "translate to delete" \in Translating /\ "translate to set" \in Translating
    BY DEF Translating
  <2> QED BY <1>2, <2>1, HandleCreateSafe, CloseHandleSafe, TranslateSafe, ReferSafe
          DEF DeleteDevice, SetInfo
<1>3. ASSUME NEW a \in Handlers, NEW r \in Records, Create(a, r)
      PROVE  TypeOK' /\ Sound'
  BY <1>3, CreateSafe DEF Actors
<1>4. ASSUME NEW c \in Openers, Measure(c)
      PROVE  TypeOK' /\ Sound'
  BY <1>4, MeasureSafe DEF Actors
<1>5. ASSUME NEW c \in Openers, NEW r \in Records, Open(c, r)
      PROVE  TypeOK' /\ (undef' = "no" => Sound')
  BY <1>5, OpenSafe DEF Actors
<1> QED BY <1>1, <1>2, <1>3, <1>4, <1>5 DEF FreeStep

\* Nothing happens once the behaviour is undefined.
LEMMA Defined ==
  ASSUME Next, undef # "no"
  PROVE  UNCHANGED vars
<1>1. ~LockedStep
  BY DEF LockedStep, At, Hook, UnhookDelete, Create, Arrive
<1>2. ASSUME NEW a \in Actors
      PROVE  ~ \/ Free(a) \/ DropNew(a) \/ DropGot(a) \/ DropDriver(a) \/ UnhookClear(a)
               \/ Insert(a) \/ Proxy(a) \/ TakeBack(a) \/ Make(a) \/ Report(a)
               \/ HandleCreateFail(a) \/ Output(a) \/ Out(a)
               \/ Find(a) \/ Revert(a) \/ Invalidate(a) \/ Close(a)
               \/ Set(a) \/ Fill(a) \/ GetDevice(a) \/ Call(a)
  <2>1. ~(Free(a) \/ DropNew(a) \/ DropGot(a) \/ DropDriver(a) \/ UnhookClear(a))
    BY DEF Free, DropNew, DropGot, DropDriver, UnhookClear, At
  <2>2. ~(Insert(a) \/ Proxy(a) \/ TakeBack(a) \/ Make(a) \/ Report(a))
    BY DEF Insert, Proxy, TakeBack, Make, Report, At
  <2>3. ~(HandleCreateFail(a) \/ Output(a) \/ Out(a) \/ Find(a) \/ Revert(a))
    BY DEF HandleCreateFail, Output, Out, Find, Revert, At
  <2>4. ~(Invalidate(a) \/ Close(a) \/ Set(a) \/ Fill(a) \/ GetDevice(a) \/ Call(a))
    BY DEF Invalidate, Close, Set, Fill, GetDevice, Call, At
  <2> QED BY <2>1, <2>2, <2>3, <2>4
<1>3. \A a, x : ~(HandleCreate(a, x) \/ DeleteDevice(a, x) \/ CloseHandle(a, x)
                  \/ SetInfo(a, x) \/ Create(a, x) \/ Open(a, x) \/ Measure(a))
  <2> SUFFICES ASSUME NEW a, NEW x
               PROVE  ~(HandleCreate(a, x) \/ DeleteDevice(a, x) \/ CloseHandle(a, x)
                        \/ SetInfo(a, x) \/ Create(a, x) \/ Open(a, x) \/ Measure(a))
    OBVIOUS
  <2>1. ~(HandleCreate(a, x) \/ CloseHandle(a, x) \/ Open(a, x) \/ Measure(a))
    BY DEF HandleCreate, CloseHandle, Open, Measure, At
  <2>2. ~Create(a, x)
    BY DEF Create, At
  <2>3. ~(DeleteDevice(a, x) \/ SetInfo(a, x))
    BY DEF DeleteDevice, SetInfo, Translate, Refer, At
  <2> QED BY <2>1, <2>2, <2>3
<1>4. ~FreeStep
  BY <1>2, <1>3 DEF FreeStep
<1> QED BY <1>1, <1>4 DEF Next, Undefined

LEMMA StepInv ==
  ASSUME DeviceAssumption, Inv, [Next]_vars
  PROVE  Inv'
<1>1. CASE UNCHANGED vars
  <2>1. TypeOK'
    BY <1>1 DEF Inv, TypeOK, vars
  <2>2. Sound => Sound'
    <3> SUFFICES ASSUME Sound PROVE Sound'
      OBVIOUS
    <3>1. Hands' /\ Lives' /\ DeviceRefsExact' /\ DriverRefsExact'
      BY <1>1 DEF Sound, vars, Hands, HandsOK, Target, Lives, Life, DeviceRefsExact, References,
           ListsWith, HandlesOf, Creators, Getters, Finders, Adders, DriverRefsExact,
           DevicesOf, UsersOf
    <3>2. Fresh' /\ OneBusy' /\ Works' /\ Lists' /\ Valid' /\ Lates'
      BY <1>1 DEF Sound, vars, Fresh, FreshOK, Adding, Target, OneBusy, Busy, Works, BusyOK,
           Lists, ListedOK, TakingBack, Steady, Midway, Valid, Lates, LateOK
    <3> QED BY <3>1, <3>2, SoundFrom
  <2> QED BY <1>1, <2>1, <2>2 DEF Inv, vars
<1>2. CASE Next /\ undef # "no"
  BY <1>1, <1>2, Defined
<1>3. CASE Next /\ undef = "no"
  <2>1. TypeOK /\ Sound
    BY <1>3 DEF Inv
  <2>2. LockedStep \/ FreeStep
    BY <1>3 DEF Next, Undefined
  <2> QED BY <2>1, <2>2, ControllerSafe, ActorSafe DEF Inv
<1> QED BY <1>1, <1>2, <1>3

LEMMA InvListsAgree ==
  ASSUME DeviceAssumption, TypeOK, Sound
  PROVE  ListsAgree
<1>1. ASSUME NEW d \in DriverRecords, sel[d] # Nobody
      PROVE  /\ dev[sel[d]].owner = d
             /\ ~dev[sel[d]].crossed /\ ~Adding(sel[d]) /\ ~Deleting(sel[d])
                  /\ ~(\E a \in Actors : at[a] = "back" /\ Target(a) = sel[d])
                => (sel[d] \in valid <=> dev[sel[d]].reason = "user")
  <2>1. ListedOK(d)
    BY DEF Sound, Lists
  <2>2. ASSUME NEW a \in Actors, Midway(a, sel[d])
        PROVE  Adding(sel[d]) \/ Deleting(sel[d])
    BY <2>2 DEF Midway, Adding, Deleting, Target
  <2> QED BY <1>1, <2>1, <2>2 DEF ListedOK, TakingBack, Steady
<1>2. \A r \in valid : dev[r].owner # Nobody
  BY DEF Sound, Valid
<1> QED BY <1>1, <1>2 DEF ListsAgree

LEMMA InvNothingLeft ==
  ASSUME DeviceAssumption, TypeOK, Sound
  PROVE  NothingLeft
<1> SUFFICES ASSUME drv = Nobody, \A a \in Actors : at[a] = "idle" /\ Freeing(a) = {},
                    NEW r \in Records, dev[r].owner # Nobody
             PROVE  (\E h \in Handles : handles[h] = r) \/ drec[dev[r].owner].late
  BY DEF NothingLeft
<1>1. r # Nobody /\ \A a \in Actors : job[a] = NoJob
  BY DEF DeviceAssumption, Sound, Hands, HandsOK
<1>2. Creators(r) = {} /\ Getters(r) = {} /\ Finders(r) = {} /\ Adders(r) = {}
  BY <1>1 DEF Creators, Getters, Finders, Adders, NoJob
<1>3. References(r) # 0
  <2>1. dev[r].by = Nobody
    BY DEF Freeing, TypeOK, Device
  <2>2. Life(r) /\ dev[r].refs = References(r)
    BY DEF Sound, Lives, DeviceRefsExact
  <2> QED BY <2>1, <2>2 DEF Life
<1>4. ListsWith(r) # {} \/ HandlesOf(r) # {}
  <2>1. Cardinality({}) = 0
    BY FS_EmptySet
  <2> QED BY <1>2, <1>3, <2>1 DEF References
<1>5. ASSUME NEW d \in DriverRecords, sel[d] = r
      PROVE  drec[dev[r].owner].late
  <2>1. ListedOK(d) /\ LateOK(d) /\ drv # d
    BY DEF Sound, Lists, Lates, DeviceAssumption
  <2> QED BY <1>1, <1>5, <2>1 DEF ListedOK, LateOK
<1> QED BY <1>4, <1>5 DEF ListsWith, HandlesOf

LEMMA InvSound ==
  ASSUME DeviceAssumption, Inv
  PROVE  DeviceRecordsSound
  BY InvListsAgree, InvNothingLeft DEF Inv, Sound, DeviceRecordsSound

\* Whatever clients, handlers and the unhooking do to the device records, at
\* any number of them: as long as the behaviour is defined the reference counts
\* of device and driver records (hook.c:518, 510) are exact, no record is freed
\* while it is held, a listed record that nobody changes is valid if and only
\* if it is the user's (136, 149), and an unhooked driver whose handles are
\* closed leaves no record behind unless a handler was late.
THEOREM DevicesSound == Spec => []DeviceRecordsSound
<1> USE DeviceHookAssumption
<1>1. Init => Inv
  BY InitInv
<1>2. Inv /\ [Next]_vars => Inv'
  BY StepInv
<1>3. Inv => DeviceRecordsSound
  BY InvSound
<1> QED BY <1>1, <1>2, <1>3, PTL DEF Spec
=============================================================================
