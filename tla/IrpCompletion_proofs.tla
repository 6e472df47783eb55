------------------------ MODULE IrpCompletion_proofs ------------------------
(***************************************************************************)
(* What is proved about IrpCompletion, for any set of IRPs and whatever    *)
(* records and contexts can be made.  Three facts make up the inductive    *)
(* invariant: IrpOK relates where the two threads of one IRP are to the    *)
(* context they share, QueueOK the records to the queue, and RundownOK     *)
(* the rundown lock to the contexts whose completion routine is to come.   *)
(***************************************************************************)
EXTENDS IrpCompletion, FiniteSetTheorems, SequenceTheorems, TLAPS

\* The references to the context of an IRP whose request record was made, when
\* its handler is at h and its completion routine at c.
Counted(h, c) ==
  (IF h \in {"call", "inside", "release"} THEN 1 ELSE 0)
  + (IF c \in {"none", "record", "release"} THEN 1 ELSE 0)

\* What holds of one IRP in any case: its handler h, its completion routine c,
\* its records q and a, its context x and the context's count n.
AnyIrpOK(h, c, q, a, x, n) ==
  /\ h = "idle" => q = "none"
  /\ h \in {"idle", "hook"} => x = "none"
  /\ x = "none" => c = "none" /\ h \notin {"refer", "release"}
  /\ c # "none" => h \notin {"idle", "hook", "refer", "call"}
  /\ h \in {"release", "last", "done", "faulted"} => q # "live"
  /\ q = "queued" => h \in {"release", "last", "done", "faulted"}
  /\ c \in {"none", "record"} => a = "none"
  /\ c = "insert" => x = "freed" /\ a = "live"
  /\ h = "last" => x = "live" /\ n <= 0

\* What holds if its request record was made.
MadeIrpOK(h, c, q, a, x, n) ==
  /\ x # "none" => n = Counted(h, c)
  /\ x = "freed" => n = 0
  /\ x = "live" /\ n = 0 => h \in {"last", "faulted"}
  /\ a = "live" /\ c \in {"leave", "done"} => x = "live"
  /\ c = "insert" => q = "queued"
  /\ c # "faulted"
  /\ h = "faulted" => a = "none" /\ c \in {"leave", "done"}

IrpOK(i) ==
  /\ AnyIrpOK(handler[i], completion[i], request[i], answer[i], context[i], refs[i])
  /\ request[i] # "none" =>
       MadeIrpOK(handler[i], completion[i], request[i], answer[i], context[i], refs[i])

\* The records that were inserted, and only those, are in the queue.
QueueOK(i) ==
  /\ Reported("irp", i) <=> request[i] = "queued"
  /\ Reported("completion", i) <=> answer[i] = "queued"

\* Contexts whose completion routine has not come and gone.
Hooked == {i \in Irps : context[i] # "none" /\ completion[i] # "done"}

RundownOK ==
  /\ rundown = Cardinality(Hooked) + (IF unload = "no" THEN 2 ELSE 0)
  /\ unload = "done" => Hooked = {}

Inv ==
  /\ TypeOK
  /\ \A i \in Irps : IrpOK(i)
  /\ \A i \in Irps : QueueOK(i)
  /\ RundownOK

-----------------------------------------------------------------------------
(* One IRP: the actions of its two threads keep IrpOK, for it and for the  *)
(* others.                                                                 *)

\* The variables of IRP i that IrpOK looks at, unchanged.
Same(i) ==
  /\ handler'[i] = handler[i] /\ completion'[i] = completion[i]
  /\ request'[i] = request[i] /\ answer'[i] = answer[i]
  /\ context'[i] = context[i] /\ refs'[i] = refs[i]

\* A step of one IRP's handler leaves the other IRPs alone.
LEMMA HandlerOthers ==
  ASSUME TypeOK, NEW i \in Irps, HandlerBegin(i) \/ HandlerStep(i),
         NEW j \in Irps, j # i
  PROVE  Same(j)
  BY DEF TypeOK, Same, At, HandlerBegin, HandlerStep, HandlerHook,
         HandlerHookRefused, HandlerRefer, HandlerCall, HandlerReport,
         HandlerRelease, HandlerLast, HandlerFault

\* So does a step of its completion routine.
LEMMA CompletionOthers ==
  ASSUME TypeOK, NEW i \in Irps, CompletionBegin(i) \/ CompletionStep(i),
         NEW j \in Irps, j # i
  PROVE  Same(j)
  BY DEF TypeOK, Same, At, CompletionBegin, CompletionStep, CompletionRecord,
         CompletionRelease, CompletionInsert, CompletionLeave, CompletionFault

\* What is left alone stays as it should be.
LEMMA SameIrpOK ==
  ASSUME NEW i \in Irps, IrpOK(i), Same(i)
  PROVE  IrpOK(i)'
  BY DEF Same, IrpOK, AnyIrpOK, MadeIrpOK, Counted

\* Every step of the handler keeps IrpOK.
LEMMA HandlerIrpOK ==
  ASSUME TypeOK, NEW i \in Irps, IrpOK(i), HandlerBegin(i) \/ HandlerStep(i)
  PROVE  IrpOK(i)'
<1> USE DEF TypeOK, At, IrpOK, AnyIrpOK, MadeIrpOK, Counted
<1>1. CASE HandlerBegin(i)
  BY <1>1 DEF HandlerBegin
<1>2. CASE HandlerHook(i)
  BY <1>2 DEF HandlerHook
<1>3. CASE HandlerHookRefused(i)
  BY <1>3 DEF HandlerHookRefused
<1>4. CASE HandlerRefer(i)
  BY <1>4 DEF HandlerRefer
<1>5. CASE HandlerCall(i)
  BY <1>5 DEF HandlerCall
<1>6. CASE HandlerReport(i)
  BY <1>6 DEF HandlerReport
<1>7. CASE HandlerRelease(i)
  BY <1>7 DEF HandlerRelease
<1>8. CASE HandlerLast(i)
  BY <1>8 DEF HandlerLast
<1>9. CASE HandlerFault(i)
  BY <1>9 DEF HandlerFault
<1> QED BY <1>1, <1>2, <1>3, <1>4, <1>5, <1>6, <1>7, <1>8, <1>9 DEF HandlerStep

\* Every step of the completion routine keeps IrpOK.
LEMMA CompletionIrpOK ==
  ASSUME TypeOK, NEW i \in Irps, IrpOK(i), CompletionBegin(i) \/ CompletionStep(i)
  PROVE  IrpOK(i)'
<1> USE DEF TypeOK, At, IrpOK, AnyIrpOK, MadeIrpOK, Counted
<1>1. CASE CompletionBegin(i)
  BY <1>1 DEF CompletionBegin
<1>2. CASE CompletionRecord(i)
  BY <1>2 DEF CompletionRecord
<1>3. CASE CompletionRelease(i)
  BY <1>3 DEF CompletionRelease
<1>4. CASE CompletionInsert(i)
  BY <1>4 DEF CompletionInsert
<1>5. CASE CompletionLeave(i)
  BY <1>5 DEF CompletionLeave
<1>6. CASE CompletionFault(i)
  BY <1>6 DEF CompletionFault
<1> QED BY <1>1, <1>2, <1>3, <1>4, <1>5, <1>6 DEF CompletionStep

-----------------------------------------------------------------------------
(* The queue.                                                              *)

Records == [kind : {"irp", "completion"}, irp : Irps]

\* A sequence with one more element at its end.
LEMMA AppendFacts ==
  ASSUME NEW T, NEW s \in Seq(T), NEW e \in T
  PROVE  /\ Append(s, e) \in Seq(T)
         /\ Len(s) \in Nat /\ Len(Append(s, e)) = Len(s) + 1
         /\ \A k \in 1..Len(s) : Append(s, e)[k] = s[k]
         /\ Append(s, e)[Len(s) + 1] = e
         /\ ToSet(Append(s, e)) = ToSet(s) \cup {e}
  BY AppendProperties, LenProperties DEF ToSet

\* Inserting a record reports it, and nothing else.
LEMMA InsertReports ==
  ASSUME TypeOK, NEW k \in {"irp", "completion"}, NEW i \in Irps, Insert(k, i),
         NEW kind \in {"irp", "completion"}, NEW j \in Irps
  PROVE  Reported(kind, j)' <=> Reported(kind, j) \/ (kind = k /\ j = i)
<1>1. Record(k, i) \in Records /\ queue \in Seq(Records)
  BY DEF Record, Records, TypeOK
<1>2. ToSet(queue') = ToSet(queue) \cup {Record(k, i)}
  BY <1>1, AppendFacts DEF Insert
<1>3. Record(kind, j) = Record(k, i) <=> kind = k /\ j = i
  BY DEF Record
<1> QED BY <1>2, <1>3 DEF Reported

\* The steps that insert, and what they insert.
Inserts(i) ==
  \/ HandlerReport(i) /\ request[i] = "live"
  \/ HandlerLast(i)
  \/ CompletionInsert(i)

\* What they leave alone.
Quiet ==
  /\ queue' = queue
  /\ \A i \in Irps : /\ request'[i] = "queued" <=> request[i] = "queued"
                     /\ answer'[i] = "queued" <=> answer[i] = "queued"

\* The other steps of an IRP leave the queue alone.
LEMMA QuietStep ==
  ASSUME TypeOK, \A i \in Irps : IrpOK(i), NEW i \in Irps, ~Inserts(i),
         \/ HandlerBegin(i) \/ HandlerStep(i)
         \/ CompletionBegin(i) \/ CompletionStep(i)
  PROVE  Quiet
<1> USE DEF TypeOK, At, IrpOK, AnyIrpOK, Inserts, Quiet
<1>1. CASE HandlerBegin(i)
  BY <1>1 DEF HandlerBegin
<1>2. CASE HandlerStep(i)
  BY <1>2 DEF HandlerStep, HandlerHook, HandlerHookRefused, HandlerRefer,
     HandlerCall, HandlerReport, HandlerRelease, HandlerFault
<1>3. CASE CompletionBegin(i)
  BY <1>3 DEF CompletionBegin
<1>4. CASE CompletionStep(i)
  BY <1>4 DEF CompletionStep, CompletionRecord, CompletionRelease,
     CompletionLeave, CompletionFault
<1> QED BY <1>1, <1>2, <1>3, <1>4

\* An inserting step inserts a record that was not in the queue yet, and that
\* the IRP's state then says is.
Puts(i) ==
  \/ /\ Insert("irp", i) /\ ~Reported("irp", i) /\ request[i] = "live"
     /\ request' = [request EXCEPT ![i] = "queued"] /\ UNCHANGED answer
  \/ /\ Insert("completion", i) /\ ~Reported("completion", i)
     /\ answer' = [answer EXCEPT ![i] = "queued"] /\ UNCHANGED request
     /\ request[i] = "none" \/ Reported("irp", i)

\* Each of the three inserting steps puts a new record.
LEMMA PuttingStep ==
  ASSUME TypeOK, NEW i \in Irps, IrpOK(i), QueueOK(i), Inserts(i)
  PROVE  Puts(i)
<1> USE DEF TypeOK, IrpOK, AnyIrpOK, MadeIrpOK, QueueOK, Puts
<1>1. CASE HandlerReport(i) /\ request[i] = "live"
  BY <1>1 DEF HandlerReport
<1>2. CASE HandlerLast(i)
  BY <1>2 DEF HandlerLast
<1>3. CASE CompletionInsert(i)
  BY <1>3 DEF CompletionInsert
<1> QED BY <1>1, <1>2, <1>3 DEF Inserts

\* Putting a record keeps the queue and the IRPs' states together.
LEMMA PutQueueOK ==
  ASSUME TypeOK, \A j \in Irps : QueueOK(j), NEW i \in Irps, Puts(i)
  PROVE  \A j \in Irps : QueueOK(j)'
<1> SUFFICES ASSUME NEW j \in Irps PROVE QueueOK(j)'
  OBVIOUS
<1>1. CASE Insert("irp", i) /\ request' = [request EXCEPT ![i] = "queued"]
           /\ UNCHANGED answer
  <2>1. /\ Reported("irp", j)' <=> Reported("irp", j) \/ j = i
        /\ Reported("completion", j)' <=> Reported("completion", j)
    BY <1>1, InsertReports
  <2> QED BY <1>1, <2>1 DEF QueueOK, TypeOK
<1>2. CASE Insert("completion", i) /\ answer' = [answer EXCEPT ![i] = "queued"]
           /\ UNCHANGED request
  <2>1. /\ Reported("completion", j)' <=> Reported("completion", j) \/ j = i
        /\ Reported("irp", j)' <=> Reported("irp", j)
    BY <1>2, InsertReports
  <2> QED BY <1>2, <2>1 DEF QueueOK, TypeOK
<1> QED BY <1>1, <1>2 DEF Puts

\* So does leaving both alone.
LEMMA QuietQueueOK ==
  ASSUME \A j \in Irps : QueueOK(j), Quiet
  PROVE  \A j \in Irps : QueueOK(j)'
<1> SUFFICES ASSUME NEW j \in Irps PROVE QueueOK(j)'
  OBVIOUS
<1>1. /\ Reported("irp", j)' <=> Reported("irp", j)
      /\ Reported("completion", j)' <=> Reported("completion", j)
  BY DEF Quiet, Reported, Record, ToSet
<1>2. /\ request'[j] = "queued" <=> request[j] = "queued"
      /\ answer'[j] = "queued" <=> answer[j] = "queued"
  BY DEF Quiet
<1> QED BY <1>1, <1>2 DEF QueueOK

-----------------------------------------------------------------------------
(* The rundown lock.                                                       *)

\* Sets of IRPs can be counted.
LEMMA IrpsFinite ==
  ASSUME NEW S \in SUBSET Irps
  PROVE  IsFiniteSet(S) /\ Cardinality(S) \in Nat
  BY CompletionAssumption, FS_Subset, FS_CardinalityType

\* The hooked IRPs can be counted.
LEMMA HookedFinite == IsFiniteSet(Hooked) /\ Cardinality(Hooked) \in Nat
  BY IrpsFinite DEF Hooked

\* A context whose completion routine is to come takes the lock.
LEMMA HookRundown ==
  ASSUME TypeOK, RundownOK, NEW i \in Irps, IrpOK(i), HandlerHook(i)
  PROVE  RundownOK'
<1> USE DEF TypeOK, At, IrpOK, AnyIrpOK, HandlerHook
<1>1. CASE context'[i] = "live"
  <2>1. rundown' = rundown + 1 /\ unload' = unload /\ unload = "no"
    BY <1>1
  <2>2. Hooked' = Hooked \cup {i} /\ i \notin Hooked
    BY <1>1 DEF Hooked
  <2>3. Cardinality(Hooked') = Cardinality(Hooked) + 1
    BY <2>2, HookedFinite, FS_AddElement
  <2> QED BY <2>1, <2>3, HookedFinite DEF RundownOK
<1>2. CASE context'[i] # "live"
  <2>1. rundown' = rundown /\ unload' = unload
    BY <1>2
  <2>2. Hooked' = Hooked
    BY <1>2 DEF Hooked
  <2> QED BY <2>1, <2>2 DEF RundownOK
<1> QED BY <1>1, <1>2

\* The end of a completion routine gives the lock back.
LEMMA LeaveRundown ==
  ASSUME TypeOK, RundownOK, NEW i \in Irps, IrpOK(i), CompletionLeave(i)
  PROVE  RundownOK'
<1> USE DEF TypeOK, At, IrpOK, AnyIrpOK, CompletionLeave
<1>1. rundown' = rundown - 1 /\ unload' = unload
  OBVIOUS
<1>2. Hooked' = Hooked \ {i} /\ i \in Hooked
  BY DEF Hooked
<1>3. Cardinality(Hooked') = Cardinality(Hooked) - 1
  BY <1>2, HookedFinite, FS_RemoveElement
<1> QED BY <1>1, <1>2, <1>3, HookedFinite DEF RundownOK

\* The hooked IRPs stay the same when no context comes and no routine ends.
LEMMA SameHooked ==
  ASSUME \A j \in Irps : /\ context'[j] # "none" <=> context[j] # "none"
                         /\ completion'[j] # "done" <=> completion[j] # "done"
  PROVE  Hooked' = Hooked
<1> SUFFICES ASSUME NEW j PROVE j \in Hooked' <=> j \in Hooked
  OBVIOUS
<1> QED BY DEF Hooked

\* No other step of an IRP touches the lock or the hooked IRPs.
LEMMA OtherRundown ==
  ASSUME TypeOK, RundownOK, NEW i \in Irps, IrpOK(i),
         ~HandlerHook(i), ~CompletionLeave(i),
         \/ HandlerBegin(i) \/ HandlerStep(i)
         \/ CompletionBegin(i) \/ CompletionStep(i)
  PROVE  RundownOK'
<1>1. /\ rundown' = rundown /\ unload' = unload
      /\ \A j \in Irps : /\ context'[j] # "none" <=> context[j] # "none"
                         /\ completion'[j] # "done" <=> completion[j] # "done"
  <2> USE DEF TypeOK, At, IrpOK, AnyIrpOK
  <2>1. CASE HandlerBegin(i)
    BY <2>1 DEF HandlerBegin
  <2>2. CASE HandlerStep(i)
    BY <2>2 DEF HandlerStep, HandlerHookRefused, HandlerRefer, HandlerCall,
       HandlerReport, HandlerRelease, HandlerLast, HandlerFault
  <2>3. CASE CompletionBegin(i)
    BY <2>3 DEF CompletionBegin
  <2>4. CASE CompletionStep(i)
    BY <2>4 DEF CompletionStep, CompletionRecord, CompletionRelease,
       CompletionInsert, CompletionFault
  <2> QED BY <2>1, <2>2, <2>3, <2>4
<1>2. Hooked' = Hooked
  BY <1>1, SameHooked
<1> QED BY <1>1, <1>2 DEF RundownOK

\* The unloading gives back its own references and ends only without hooked IRPs.
LEMMA UnloadRundown ==
  ASSUME TypeOK, RundownOK, UnloadBegin \/ UnloadEnd
  PROVE  RundownOK'
<1>1. Hooked' = Hooked
  BY DEF Hooked, UnloadBegin, UnloadEnd
<1>2. CASE UnloadBegin
  BY <1>1, <1>2, HookedFinite DEF UnloadBegin, RundownOK, TypeOK
<1>3. CASE UnloadEnd
  <2>1. Cardinality(Hooked) = 0
    BY <1>3, HookedFinite DEF UnloadEnd, RundownOK, TypeOK
  <2>2. Hooked = {}
    BY <2>1, HookedFinite, FS_EmptySet
  <2> QED BY <1>1, <1>3, <2>2 DEF UnloadEnd, RundownOK
<1> QED BY <1>2, <1>3

-----------------------------------------------------------------------------
(* Types.                                                                  *)

\* Every step keeps the types.
LEMMA TypeStep ==
  ASSUME TypeOK, [Next]_vars, RundownOK'
  PROVE  TypeOK'
<1>1. rundown' \in Nat
  <2>1. Cardinality(Hooked') \in Nat
    BY IrpsFinite DEF Hooked
  <2> QED BY <2>1 DEF RundownOK
<1>2. \A k \in {"irp", "completion"}, i \in Irps :
        Append(queue, Record(k, i)) \in Seq(Records)
  <2>1. \A k \in {"irp", "completion"}, i \in Irps : Record(k, i) \in Records
    BY DEF Record, Records
  <2> QED BY <2>1, AppendFacts DEF TypeOK, Records
<1> USE DEF TypeOK, At, Insert, Records
<1>3. ASSUME NEW i \in Irps, HandlerBegin(i) PROVE TypeOK'
  BY <1>1, <1>3 DEF HandlerBegin
<1>4. ASSUME NEW i \in Irps, HandlerStep(i) PROVE TypeOK'
  <2>1. CASE HandlerHook(i)
    <3> DEFINE Made == /\ context' = [context EXCEPT ![i] = "live"]
                       /\ refs' = [refs EXCEPT ![i] = 1]
                       /\ handler' = [handler EXCEPT ![i] = "refer"]
               MadeNot == /\ handler' = [handler EXCEPT ![i] = "call"]
                          /\ context' = context /\ refs' = refs
    <3>1. Made \/ MadeNot
      BY <2>1 DEF HandlerHook
    <3>2. UNCHANGED <<completion, request, answer, unload, queue>>
      BY <2>1 DEF HandlerHook
    <3>3. CASE Made
      BY <1>1, <3>2, <3>3
    <3>4. CASE MadeNot
      BY <1>1, <3>2, <3>4
    <3> QED BY <3>1, <3>3, <3>4
  <2>2. CASE HandlerHookRefused(i)
    BY <1>1, <2>2 DEF HandlerHookRefused
  <2>3. CASE HandlerRefer(i)
    BY <1>1, <2>3 DEF HandlerRefer
  <2>4. CASE HandlerCall(i)
    BY <1>1, <2>4 DEF HandlerCall
  <2>5. CASE HandlerReport(i)
    BY <1>1, <1>2, <2>5 DEF HandlerReport
  <2>6. CASE HandlerRelease(i)
    BY <1>1, <2>6 DEF HandlerRelease
  <2>7. CASE HandlerLast(i)
    BY <1>1, <1>2, <2>7 DEF HandlerLast
  <2>8. CASE HandlerFault(i)
    BY <1>1, <2>8 DEF HandlerFault
  <2> QED BY <1>4, <2>1, <2>2, <2>3, <2>4, <2>5, <2>6, <2>7, <2>8 DEF HandlerStep
<1>5. ASSUME NEW i \in Irps, CompletionBegin(i) PROVE TypeOK'
  BY <1>1, <1>5 DEF CompletionBegin
<1>6. ASSUME NEW i \in Irps, CompletionStep(i) PROVE TypeOK'
  <2>1. CASE CompletionRecord(i)
    BY <1>1, <2>1 DEF CompletionRecord
  <2>2. CASE CompletionRelease(i)
    BY <1>1, <2>2 DEF CompletionRelease
  <2>3. CASE CompletionInsert(i)
    BY <1>1, <1>2, <2>3 DEF CompletionInsert
  <2>4. CASE CompletionLeave(i) \/ CompletionFault(i)
    BY <1>1, <2>4 DEF CompletionLeave, CompletionFault
  <2> QED BY <1>6, <2>1, <2>2, <2>3, <2>4 DEF CompletionStep
<1>7. CASE UnloadBegin \/ UnloadEnd
  BY <1>1, <1>7 DEF UnloadBegin, UnloadEnd
<1>8. CASE UNCHANGED vars
  BY <1>8 DEF vars
<1> QED BY <1>3, <1>4, <1>5, <1>6, <1>7, <1>8 DEF Next

-----------------------------------------------------------------------------
(* The invariant.                                                          *)

\* The invariant holds initially.
LEMMA InvInit ==
  ASSUME Init
  PROVE  Inv
<1>1. TypeOK
  BY DEF Init, TypeOK
<1>2. \A i \in Irps : IrpOK(i)
  BY DEF Init, IrpOK, AnyIrpOK
<1>3. \A i \in Irps : QueueOK(i)
  BY DEF Init, QueueOK, Reported, ToSet
<1>4. RundownOK
  <2>1. Hooked = {}
    BY DEF Init, Hooked
  <2> QED BY <2>1, FS_EmptySet DEF Init, RundownOK
<1> QED BY <1>1, <1>2, <1>3, <1>4 DEF Inv

IrpStep(i) ==
  HandlerBegin(i) \/ HandlerStep(i) \/ CompletionBegin(i) \/ CompletionStep(i)

\* Every step of an IRP keeps it.
LEMMA InvIrpStep ==
  ASSUME Inv, NEW i \in Irps, IrpStep(i)
  PROVE  Inv'
<1> USE DEF Inv, IrpStep
<1>1. \A j \in Irps : IrpOK(j)'
  <2>1. IrpOK(i)'
    BY HandlerIrpOK, CompletionIrpOK
  <2>2. ASSUME NEW j \in Irps, j # i PROVE IrpOK(j)'
    BY <2>2, HandlerOthers, CompletionOthers, SameIrpOK
  <2> QED BY <2>1, <2>2
<1>2. \A j \in Irps : QueueOK(j)'
  <2>1. CASE Inserts(i)
    BY <2>1, PuttingStep, PutQueueOK
  <2>2. CASE ~Inserts(i)
    BY <2>2, QuietStep, QuietQueueOK
  <2> QED BY <2>1, <2>2
<1>3. RundownOK'
  BY HookRundown, LeaveRundown, OtherRundown
<1>4. TypeOK'
  BY <1>3, TypeStep DEF Next
<1> QED BY <1>1, <1>2, <1>3, <1>4

\* Every step keeps it.
LEMMA InvStep ==
  ASSUME Inv, [Next]_vars
  PROVE  Inv'
<1> USE DEF Inv
<1>1. ASSUME NEW i \in Irps, IrpStep(i) PROVE Inv'
  BY <1>1, InvIrpStep
<1>2. CASE UnloadBegin \/ UnloadEnd
  <2>1. RundownOK'
    BY <1>2, UnloadRundown
  <2>2. TypeOK'
    BY <1>2, <2>1, TypeStep DEF Next
  <2>3. Quiet /\ \A i \in Irps : Same(i)
    BY <1>2 DEF Quiet, Same, UnloadBegin, UnloadEnd
  <2> QED BY <2>1, <2>2, <2>3, SameIrpOK, QuietQueueOK
<1>3. CASE UNCHANGED vars
  <2>1. Quiet /\ \A i \in Irps : Same(i)
    BY <1>3 DEF Quiet, Same, vars
  <2>2. RundownOK'
    BY <1>3 DEF vars, RundownOK, Hooked
  <2> QED BY <2>1, <2>2, TypeStep, SameIrpOK, QuietQueueOK
<1> QED BY <1>1, <1>2, <1>3 DEF Next, IrpStep

\* The three facts about the two threads, the queue and the rundown lock hold in
\* every state, for any IRPs.
THEOREM CompletionInv == Spec => []Inv
<1>1. Init => Inv
  BY InvInit
<1>2. Inv /\ [Next]_vars => Inv'
  BY InvStep
<1> QED BY <1>1, <1>2, PTL DEF Spec

-----------------------------------------------------------------------------
(* What follows from it.                                                   *)

\* The variables keep their types; the count of the rundown lock is never
\* negative.
THEOREM CompletionTypeOK == Spec => []TypeOK
<1>1. Inv => TypeOK
  BY DEF Inv
<1> QED BY <1>1, CompletionInv, PTL

\* The module is not finalised while a completion routine of its own is to come
\* or at work, however many IRPs are under way.
THEOREM CompletionUnloadWaits == Spec => []UnloadWaits
<1>1. Inv => UnloadWaits
  BY DEF Inv, RundownOK, Hooked, UnloadWaits
<1> QED BY <1>1, CompletionInv, PTL

\* When both records of an IRP are made, nobody uses its context after it was
\* freed, whichever of the two threads comes last.
THEOREM CompletionContext == Spec => []ContextOutlivesUse
<1>1. Inv => ContextOutlivesUse
  BY DEF Inv, TypeOK, IrpOK, AnyIrpOK, MadeIrpOK, ContextOutlivesUse, BothMade, Faulted
<1> QED BY <1>1, CompletionInv, PTL

\* When both records are made and both threads are through, the records have
\* been inserted and the context is gone, in whichever order they came.
THEOREM CompletionNothingLeft == Spec => []NothingLeft
<1>1. ASSUME Inv
      PROVE  NothingLeft
  <2> SUFFICES ASSUME NEW i \in Irps
               PROVE  /\ BothMade(i)
                      /\ handler[i] = "done" /\ (completion[i] = "done" \/ context[i] = "none")
                      => request[i] # "live" /\ answer[i] # "live" /\ context[i] # "live"
    BY DEF NothingLeft
  <2>1. TypeOK /\ IrpOK(i)
    BY <1>1 DEF Inv
  <2> QED BY <2>1 DEF TypeOK, IrpOK, AnyIrpOK, MadeIrpOK, Counted, BothMade
<1> QED BY <1>1, CompletionInv, PTL

\* A record that is inserted was not in the queue yet.
LEMMA OnceStep ==
  ASSUME Inv, ReportedOnce, [Next]_vars
  PROVE  ReportedOnce'
<1> USE DEF Inv
<1>1. CASE queue' = queue
  BY <1>1 DEF ReportedOnce
<1>2. ASSUME NEW k \in {"irp", "completion"}, NEW i \in Irps,
             Insert(k, i), ~Reported(k, i)
      PROVE  ReportedOnce'
  <2>1. queue \in Seq(Records) /\ Record(k, i) \in Records
    BY DEF TypeOK, Records, Record
  <2>2. \A m \in 1..Len(queue) : queue[m] # Record(k, i)
    BY <1>2, <2>1, LenProperties DEF Reported, ToSet
  <2> QED BY <1>2, <2>1, <2>2, AppendFacts DEF Insert, ReportedOnce
<1>3. ASSUME NEW i \in Irps, IrpStep(i) PROVE ReportedOnce'
  <2>1. CASE Inserts(i)
    BY <1>2, <2>1, PuttingStep DEF Puts
  <2>2. CASE ~Inserts(i)
    BY <1>1, <1>3, <2>2, QuietStep DEF IrpStep, Quiet
  <2> QED BY <2>1, <2>2
<1>4. CASE UnloadBegin \/ UnloadEnd \/ UNCHANGED vars
  BY <1>1, <1>4 DEF UnloadBegin, UnloadEnd, vars
<1> QED BY <1>3, <1>4 DEF Next, IrpStep

\* No record is inserted twice, whether the handler or the completion routine
\* is left with the completion record, and even after a fault.
THEOREM CompletionReportedOnce == Spec => []ReportedOnce
<1>1. Init => ReportedOnce
  BY DEF Init, ReportedOnce
<1>2. Inv /\ ReportedOnce /\ [Next]_vars => ReportedOnce'
  BY OnceStep
<1> QED BY <1>1, <1>2, CompletionInv, PTL DEF Spec
\* Appending a record keeps the order if the record may come now.
LEMMA OrderInsert ==
  ASSUME TypeOK, CompletionAfterRequest,
         NEW kind \in {"irp", "completion"}, NEW i \in Irps, Insert(kind, i),
         \A j \in Irps : request'[j] = "none" <=> request[j] = "none",
         kind = "completion" => request[i] = "none" \/ Reported("irp", i)
  PROVE  CompletionAfterRequest'
<1>1. queue \in Seq(Records) /\ Record(kind, i) \in Records
  BY DEF TypeOK, Records, Record
<1>2. /\ queue' = Append(queue, Record(kind, i))
      /\ Len(queue) \in Nat /\ Len(queue') = Len(queue) + 1
      /\ \A k \in 1..Len(queue) : queue'[k] = queue[k] /\ queue[k] \in Records
      /\ queue'[Len(queue) + 1] = Record(kind, i)
  BY <1>1, AppendFacts, ElementOfSeq DEF Insert
<1> SUFFICES ASSUME NEW k \in 1..Len(queue'), queue'[k].kind = "completion"
             PROVE  \/ request'[queue'[k].irp] = "none"
                    \/ \E j \in 1..(k - 1) : queue'[j] = Record("irp", queue'[k].irp)
  BY DEF CompletionAfterRequest, Record
<1>3. CASE k \in 1..Len(queue)
  <2>1. queue'[k] = queue[k] /\ queue[k].irp \in Irps
    BY <1>2, <1>3 DEF Records
  <2>2. CASE request[queue[k].irp] = "none"
    BY <2>1, <2>2
  <2>3. CASE request[queue[k].irp] # "none"
    <3>1. PICK j \in 1..(k - 1) : queue[j] = Record("irp", queue[k].irp)
      BY <1>3, <2>1, <2>3 DEF CompletionAfterRequest
    <3>2. j \in 1..Len(queue) /\ queue'[j] = queue[j]
      BY <1>2, <1>3
    <3> QED BY <2>1, <3>1, <3>2
  <2> QED BY <2>2, <2>3
<1>4. CASE k = Len(queue) + 1
  <2>1. queue'[k].irp = i /\ kind = "completion"
    BY <1>2, <1>4 DEF Record
  <2>2. CASE request[i] = "none"
    BY <2>1, <2>2
  <2>3. CASE Reported("irp", i)
    <3>1. PICK j \in 1..Len(queue) : queue[j] = Record("irp", i)
      BY <2>3, <1>1, LenProperties DEF Reported, ToSet
    <3> QED BY <1>2, <1>4, <2>1, <3>1
  <2> QED BY <2>1, <2>2, <2>3
<1> QED BY <1>2, <1>3, <1>4

\* A step that inserts nothing keeps it: a record is only asked for when nothing
\* of its IRP is in the queue.
LEMMA OrderQuiet ==
  ASSUME Inv, CompletionAfterRequest, queue' = queue,
         \A j \in Irps : request'[j] # request[j] /\ request[j] = "none"
                            => handler[j] = "idle"
  PROVE  CompletionAfterRequest'
<1>1. ASSUME NEW k \in 1..Len(queue), queue[k].kind = "completion",
             request[queue[k].irp] = "none"
      PROVE  request'[queue[k].irp] = "none"
  <2> DEFINE i == queue[k].irp
  <2>1. queue \in Seq(Records)
    BY DEF Inv, TypeOK, Records
  <2>2. queue[k] \in Records
    BY <2>1, ElementOfSeq
  <2>3. i \in Irps /\ queue[k] = Record("completion", i)
    BY <1>1, <2>2 DEF Records, Record
  <2>4. Reported("completion", i)
    BY <2>1, <2>3, LenProperties DEF Reported, ToSet
  <2>5. answer[i] = "queued" /\ IrpOK(i)
    BY <2>3, <2>4 DEF Inv, QueueOK
  <2>6. handler[i] # "idle"
    BY <2>3, <2>5 DEF Inv, TypeOK, IrpOK, AnyIrpOK
  <2> QED BY <1>1, <2>3, <2>6
<1> QED BY <1>1 DEF CompletionAfterRequest, Record

\* Every step keeps the order of the queue.
LEMMA OrderStep ==
  ASSUME Inv, CompletionAfterRequest, [Next]_vars
  PROVE  CompletionAfterRequest'
<1> USE DEF Inv
<1>1. ASSUME NEW i \in Irps, IrpStep(i), Inserts(i) PROVE CompletionAfterRequest'
  <2>1. Puts(i)
    BY <1>1, PuttingStep
  <2>2. \A j \in Irps : request'[j] = "none" <=> request[j] = "none"
    BY <2>1 DEF Puts, TypeOK
  <2> QED BY <2>1, <2>2, OrderInsert DEF Puts
<1>2. ASSUME NEW i \in Irps, IrpStep(i), ~Inserts(i) PROVE CompletionAfterRequest'
  <2>1. Quiet
    BY <1>2, QuietStep DEF IrpStep
  <2>2. ASSUME NEW j \in Irps, request'[j] # request[j], request[j] = "none"
        PROVE  handler[j] = "idle"
    <3>1. CASE HandlerBegin(i)
      BY <2>2, <3>1 DEF HandlerBegin, TypeOK
    <3>2. CASE ~HandlerBegin(i)
      <4>1. request' = request
        BY <1>2, <3>2 DEF IrpStep, Inserts, HandlerStep, HandlerHook,
           HandlerHookRefused, HandlerRefer, HandlerCall, HandlerReport,
           HandlerRelease, HandlerFault, CompletionBegin, CompletionStep,
           CompletionRecord, CompletionRelease, CompletionLeave, CompletionFault
      <4> QED BY <2>2, <4>1
    <3> QED BY <3>1, <3>2
  <2> QED BY <2>1, <2>2, OrderQuiet DEF Quiet
<1>3. CASE UnloadBegin \/ UnloadEnd \/ UNCHANGED vars
  BY <1>3, OrderQuiet DEF UnloadBegin, UnloadEnd, vars
<1> QED BY <1>1, <1>2, <1>3 DEF Next, IrpStep

\* A reader of the queue learns of an IRP before it learns of its completion,
\* although the completion routine may run first and on another processor.
THEOREM CompletionOrder == Spec => []CompletionAfterRequest
<1>1. Init => CompletionAfterRequest
  BY DEF Init, CompletionAfterRequest
<1>2. Inv /\ CompletionAfterRequest /\ [Next]_vars => CompletionAfterRequest'
  BY OrderStep
<1> QED BY <1>1, <1>2, CompletionInv, PTL DEF Spec
=============================================================================
