--------------------------- MODULE BootLog_proofs ---------------------------
(***************************************************************************)
(* The boot log keeps every record in one place, for any number of         *)
(* clients, and its callback, its records and its file survive the race of *)
(* inserting threads with the one thread that disables it.                 *)
(***************************************************************************)
EXTENDS BootLog, FiniteSetTheorems, SequenceTheorems, TLAPS

InsertLabels ==
  {"idle", "refer", "invoke", "append", "dereference", "signal", "faulted"}

StopLabels ==
  {"idle", "check", "unregister", "unlink", "await", "free", "stop", "join", "purge"}

SaverLabels == {"top", "open", "loop", "cache", "take", "write", "ended"}

Flags ==
  /\ connected \in BOOLEAN /\ enabled \in BOOLEAN /\ linked \in BOOLEAN
  /\ event \in BOOLEAN /\ headed \in BOOLEAN /\ final \in BOOLEAN
  /\ unloaded \in BOOLEAN /\ resurrected \in BOOLEAN

TypeOK ==
  /\ Flags
  /\ refs \in Int
  /\ callback \in {"live", "freed"}
  /\ np \in Seq(Requests) /\ paged \in Seq(Requests)
  /\ batch \in Seq(Requests) /\ file \in Seq(Requests)
  /\ mem \in [Requests -> {"unused", "live", "saved", "lost", "freed"}]
  /\ saver \in SaverLabels
  /\ pc \in [Inserters \cup Stoppers -> InsertLabels \cup StopLabels]
  /\ \A t \in Inserters : pc[t] \in InsertLabels
  /\ \A d \in Stoppers : pc[d] \in StopLabels
  /\ hand \in [Inserters -> Seq(Requests)]

-----------------------------------------------------------------------------
(* Where the records are.                                                  *)

\* A record is in a hand while it is on its way to a list.
HandsOK ==
  \A t \in Inserters :
    pc[t] \in {"idle", "dereference", "signal"} => hand[t] = <<>>

BatchOK == saver \notin {"take", "write"} => batch = <<>>

NoneTwice ==
  /\ IsInjective(np) /\ IsInjective(paged) /\ IsInjective(batch)
  /\ \A t \in Inserters : IsInjective(hand[t])

Apart ==
  /\ ToSet(np) \cap ToSet(paged) = {}
  /\ ToSet(np) \cap ToSet(batch) = {}
  /\ ToSet(paged) \cap ToSet(batch) = {}
  /\ \A t \in Inserters :
       /\ ToSet(hand[t]) \cap ToSet(np) = {}
       /\ ToSet(hand[t]) \cap ToSet(paged) = {}
       /\ ToSet(hand[t]) \cap ToSet(batch) = {}
  /\ \A t, u \in Inserters : t # u => ToSet(hand[t]) \cap ToSet(hand[u]) = {}

LiveSomewhere ==
  \A r \in Requests :
    mem[r] = "live" <=>
      \/ r \in ToSet(np) \/ r \in ToSet(paged) \/ r \in ToSet(batch)
      \/ \E t \in Inserters : r \in ToSet(hand[t])

PlaceInv ==
  TypeOK /\ HandsOK /\ BatchOK /\ NoneTwice /\ Apart /\ LiveSomewhere /\ FileComplete

-----------------------------------------------------------------------------
(* Who uses the callback.                                                  *)

\* Connections that disable the log come from one client at a time.
OneDisabler == \A d, e \in Disablers : d = e

\* The threads between _CallbackListReference and _CallbackListDereference.
Users == {t \in Inserters : pc[t] \in {"invoke", "append", "dereference"}}

\* RequestQueueCallbackUnregister has dropped the reference of the list.
Unregistered ==
  callback = "freed" \/ \E d \in Stoppers : pc[d] \in {"unlink", "await", "free"}

Signalling == \E t \in Inserters : pc[t] = "signal"

RefsOK ==
  /\ IsFiniteSet(Users)
  /\ refs = Cardinality(Users) + (IF Unregistered THEN 0 ELSE 1)
  /\ ~linked => Unregistered /\ Users = {}

NobodyFaults == \A t \in Inserters : pc[t] # "faulted"

\* Only one thread at a time disables the log.
OneStops ==
  /\ \A d, e \in Stoppers : pc[d] # "idle" /\ pc[e] # "idle" => d = e
  /\ unloaded => \A d \in Stoppers : pc[d] = "idle"

SignalOK ==
  /\ \A t, u \in Inserters : pc[t] = "signal" /\ pc[u] = "signal" => t = u
  /\ Signalling => ~event /\ ~linked /\ \E d \in Stoppers : pc[d] = "await"
  /\ event => ~linked

\* What the stages of BLDisable know about the callback ...
CallbackStages ==
  /\ \A d \in Stoppers :
       /\ pc[d] = "await" => Signalling \/ event \/ (linked /\ Users # {})
       /\ pc[d] = "unlink" => Users = {} /\ linked
       /\ pc[d] = "free" => ~linked /\ ~Signalling
       /\ pc[d] \in {"unregister", "unlink", "await", "free"} => callback = "live"
       /\ pc[d] \in {"unregister", "unlink", "await", "free", "stop"} => enabled
  /\ callback = "freed" => ~linked /\ ~Signalling

\* ... and what they leave to the saving thread.
EnabledOK ==
  /\ enabled => LogBoot
  /\ LogBoot /\ ~enabled => callback = "freed"
  /\ enabled /\ callback = "freed" => \E d \in Stoppers : pc[d] = "stop"
  /\ \A d \in Stoppers : pc[d] = "stop" => callback = "freed"

CallbackInv ==
  RefsOK /\ NobodyFaults /\ OneStops /\ SignalOK /\ CallbackStages /\ EnabledOK

-----------------------------------------------------------------------------
(* What the saving thread has yet to write.                                *)

SaverInv ==
  /\ headed => LogBoot
  /\ saver = "open" => ~headed /\ LogBoot
  /\ saver = "loop" => headed /\ ~final
  /\ saver \in {"cache", "take", "write"} => headed \/ final
  /\ headed /\ final => ~enabled
  /\ headed /\ saver \in {"top", "ended"} => final
  /\ headed /\ final /\ saver \in {"take", "write", "top", "ended"} => np = <<>>
  /\ headed /\ final /\ saver \in {"write", "top", "ended"} => paged = <<>>

UnloadInv ==
  /\ pc[Unloader] = "purge" \/ unloaded => saver = "ended" /\ callback = "freed"
  /\ unloaded => np = <<>> /\ paged = <<>>
  /\ \A d \in Stoppers : pc[d] = "join" => ~enabled

Inv == ~resurrected => CallbackInv /\ SaverInv /\ (LogBoot => UnloadInv)
-----------------------------------------------------------------------------
(* Sequences of records and their sets.                                    *)

LEMMA EmptyFacts == ToSet(<<>>) = {} /\ IsInjective(<<>>)
  BY DEF ToSet, IsInjective

LEMMA SingleFacts ==
  ASSUME NEW S, NEW x \in S
  PROVE  <<x>> \in Seq(S) /\ ToSet(<<x>>) = {x} /\ IsInjective(<<x>>)
  BY DEF ToSet, IsInjective

LEMMA SetType ==
  ASSUME NEW S, NEW s \in Seq(S)
  PROVE  ToSet(s) \subseteq S /\ (ToSet(s) = {} => s = <<>>)
<1>1. ToSet(s) \subseteq S
  BY LenProperties DEF ToSet
<1>2. ASSUME s # <<>>
      PROVE  ToSet(s) # {}
  <2>1. 1 \in DOMAIN s
    BY <1>2, EmptySeq, LenProperties
  <2> QED BY <2>1 DEF ToSet
<1> QED BY <1>1, <1>2

\* Joining two sequences that share nothing repeats nothing.
LEMMA ConcatFacts ==
  ASSUME NEW S, NEW s \in Seq(S), NEW u \in Seq(S)
  PROVE  /\ s \o u \in Seq(S)
         /\ ToSet(s \o u) = ToSet(s) \cup ToSet(u)
         /\ IsInjective(s) /\ IsInjective(u) /\ ToSet(s) \cap ToSet(u) = {}
              => IsInjective(s \o u)
<1>1. /\ s \o u \in Seq(S) /\ Len(s \o u) = Len(s) + Len(u)
      /\ \A i \in 1 .. Len(s) + Len(u) :
           (s \o u)[i] = IF i <= Len(s) THEN s[i] ELSE u[i - Len(s)]
  BY ConcatProperties
<1>2. Len(s) \in Nat /\ Len(u) \in Nat
  OBVIOUS
<1>3. ToSet(s \o u) \subseteq ToSet(s) \cup ToSet(u)
  <2> SUFFICES ASSUME NEW x \in ToSet(s \o u)
               PROVE  x \in ToSet(s) \cup ToSet(u)
    OBVIOUS
  <2>1. PICK i \in 1 .. Len(s) + Len(u) : x = (s \o u)[i]
    BY <1>1 DEF ToSet
  <2>2. CASE i <= Len(s)
    BY <2>1, <2>2, <1>1, <1>2 DEF ToSet
  <2>3. CASE ~(i <= Len(s))
    <3>1. i - Len(s) \in 1 .. Len(u)
      BY <2>1, <2>3, <1>2
    <3> QED BY <2>1, <2>3, <3>1, <1>1 DEF ToSet
  <2> QED BY <2>2, <2>3
<1>4. ToSet(s) \subseteq ToSet(s \o u)
  BY <1>1, <1>2 DEF ToSet
<1>5. ToSet(u) \subseteq ToSet(s \o u)
  <2> SUFFICES ASSUME NEW x \in ToSet(u)
               PROVE  x \in ToSet(s \o u)
    OBVIOUS
  <2>1. PICK i \in 1 .. Len(u) : x = u[i]
    BY DEF ToSet
  <2>2. i + Len(s) \in 1 .. Len(s) + Len(u) /\ (i + Len(s)) - Len(s) = i
        /\ ~(i + Len(s) <= Len(s))
    BY <2>1, <1>2
  <2>3. (s \o u)[i + Len(s)] = u[i]
    BY <2>2, <1>1
  <2> QED BY <2>1, <2>2, <2>3, <1>1 DEF ToSet
<1>6. ASSUME IsInjective(s), IsInjective(u), ToSet(s) \cap ToSet(u) = {}
      PROVE  IsInjective(s \o u)
  <2> SUFFICES ASSUME NEW i \in 1 .. Len(s) + Len(u), NEW j \in 1 .. Len(s) + Len(u),
                      (s \o u)[i] = (s \o u)[j]
               PROVE  i = j
    BY <1>1 DEF IsInjective
  <2>1. CASE i <= Len(s) /\ j <= Len(s)
    BY <2>1, <1>1, <1>2, <1>6 DEF IsInjective
  <2>2. CASE ~(i <= Len(s)) /\ ~(j <= Len(s))
    <3>1. i - Len(s) \in DOMAIN u /\ j - Len(s) \in DOMAIN u
      BY <2>2, <1>2
    <3>2. u[i - Len(s)] = u[j - Len(s)]
      BY <2>2, <1>1
    <3>3. i - Len(s) = j - Len(s)
      BY <3>1, <3>2, <1>6 DEF IsInjective
    <3> QED BY <3>3, <1>2
  <2>3. ASSUME NEW k \in 1 .. Len(s) + Len(u), NEW l \in 1 .. Len(s) + Len(u),
               k <= Len(s), ~(l <= Len(s))
        PROVE  (s \o u)[k] # (s \o u)[l]
    <3>1. (s \o u)[k] = s[k] /\ k \in DOMAIN s
      BY <2>3, <1>1, <1>2
    <3>2. (s \o u)[l] = u[l - Len(s)] /\ l - Len(s) \in DOMAIN u
      BY <2>3, <1>1, <1>2
    <3> QED BY <3>1, <3>2, <1>6 DEF ToSet
  <2> QED BY <2>1, <2>2, <2>3
<1> QED BY <1>1, <1>3, <1>4, <1>5, <1>6

\* Taking the head off a sequence without repetition removes it.
LEMMA HeadFacts ==
  ASSUME NEW S, NEW s \in Seq(S), s # <<>>, IsInjective(s)
  PROVE  /\ Head(s) \in S /\ Head(s) \in ToSet(s)
         /\ Tail(s) \in Seq(S)
         /\ IsInjective(Tail(s))
         /\ ToSet(Tail(s)) = ToSet(s) \ {Head(s)}
<1>1. /\ Head(s) \in S /\ Tail(s) \in Seq(S)
      /\ Len(Tail(s)) = Len(s) - 1 /\ Len(s) \in Nat \ {0}
      /\ \A i \in 1 .. Len(Tail(s)) : Tail(s)[i] = s[i + 1]
  BY HeadTailProperties, EmptySeq
<1>2. Head(s) = s[1] /\ 1 \in DOMAIN s
  BY <1>1
<1>3. IsInjective(Tail(s))
  <2> SUFFICES ASSUME NEW i \in 1 .. Len(Tail(s)), NEW j \in 1 .. Len(Tail(s)),
                      Tail(s)[i] = Tail(s)[j]
               PROVE  i = j
    BY <1>1 DEF IsInjective
  <2>1. i + 1 \in DOMAIN s /\ j + 1 \in DOMAIN s /\ s[i + 1] = s[j + 1]
    BY <1>1
  <2>2. i + 1 = j + 1
    BY <2>1 DEF IsInjective
  <2> QED BY <2>2, <1>1
<1>4. ToSet(Tail(s)) \subseteq ToSet(s) \ {Head(s)}
  <2> SUFFICES ASSUME NEW x \in ToSet(Tail(s))
               PROVE  x \in ToSet(s) \ {Head(s)}
    OBVIOUS
  <2>1. PICK i \in 1 .. Len(Tail(s)) : x = Tail(s)[i]
    BY <1>1 DEF ToSet
  <2>2. i + 1 \in DOMAIN s /\ x = s[i + 1] /\ i + 1 # 1
    BY <2>1, <1>1
  <2> QED BY <2>2, <1>2 DEF ToSet, IsInjective
<1>5. ToSet(s) \ {Head(s)} \subseteq ToSet(Tail(s))
  <2> SUFFICES ASSUME NEW x \in ToSet(s) \ {Head(s)}
               PROVE  x \in ToSet(Tail(s))
    OBVIOUS
  <2>1. PICK i \in 1 .. Len(s) : x = s[i]
    BY DEF ToSet
  <2>2. i - 1 \in 1 .. Len(Tail(s)) /\ (i - 1) + 1 = i
    BY <2>1, <1>1, <1>2
  <2>3. x = Tail(s)[i - 1]
    BY <2>1, <2>2, <1>1
  <2>4. i - 1 \in DOMAIN Tail(s)
    BY <2>2, <1>1, LenProperties
  <2> QED BY <2>3, <2>4 DEF ToSet
<1> QED BY <1>1, <1>2, <1>3, <1>4, <1>5 DEF ToSet

\* A sequence is extended by what it does not hold.
LEMMA AppendFacts ==
  ASSUME NEW S, NEW s \in Seq(S), NEW x \in S
  PROVE  /\ Append(s, x) \in Seq(S)
         /\ ToSet(Append(s, x)) = ToSet(s) \cup {x}
         /\ IsInjective(s) /\ x \notin ToSet(s) => IsInjective(Append(s, x))
<1>1. <<x>> \in Seq(S) /\ Append(s, x) = s \o <<x>>
  OBVIOUS
<1>2. ToSet(<<x>>) = {x} /\ IsInjective(<<x>>)
  BY SingleFacts
<1>3. ASSUME NEW u \in Seq(S), ToSet(u) = {x}, IsInjective(u)
      PROVE  /\ s \o u \in Seq(S) /\ ToSet(s \o u) = ToSet(s) \cup {x}
             /\ IsInjective(s) /\ x \notin ToSet(s) => IsInjective(s \o u)
  BY <1>3, ConcatFacts
<1> QED BY <1>1, <1>2, <1>3


-----------------------------------------------------------------------------
(* Types.                                                                  *)

LEMMA Threads ==
  /\ Unloader \in Stoppers /\ Disablers \subseteq Stoppers
  /\ \A t \in Inserters : t \notin Stoppers
  BY BootLogAssumption DEF Stoppers

LEMMA InserterMoves ==
  ASSUME TypeOK, NEW t \in Inserters, NEW l \in InsertLabels, At(t, l)
  PROVE  /\ pc' \in [Inserters \cup Stoppers -> InsertLabels \cup StopLabels]
         /\ \A u \in Inserters : pc'[u] \in InsertLabels
         /\ \A d \in Stoppers : pc'[d] \in StopLabels
         /\ pc'[t] = l
         /\ \A u \in Inserters \cup Stoppers : u # t => pc'[u] = pc[u]
  BY Threads DEF TypeOK, At

LEMMA StopperMoves ==
  ASSUME TypeOK, NEW d \in Stoppers, NEW l \in StopLabels, At(d, l)
  PROVE  /\ pc' \in [Inserters \cup Stoppers -> InsertLabels \cup StopLabels]
         /\ \A u \in Inserters : pc'[u] \in InsertLabels
         /\ \A e \in Stoppers : pc'[e] \in StopLabels
         /\ pc'[d] = l
         /\ \A u \in Inserters \cup Stoppers : u # d => pc'[u] = pc[u]
  BY Threads DEF TypeOK, At

LEMMA FlagsStep ==
  ASSUME Flags, [Next]_vars
  PROVE  Flags'
<1> USE DEF Flags, vars, cb, log, saving, SaverAt
<1>1. CASE UNCHANGED vars
  BY <1>1, Zenon
<1>2. ASSUME NEW t \in Inserters, InsertUnwanted(t)
      PROVE  Flags'
  BY <1>2, Zenon DEF InsertUnwanted
<1>3. ASSUME NEW t \in Inserters, InsertRefer(t)
      PROVE  Flags'
  BY <1>3, Zenon DEF InsertRefer
<1>4. ASSUME NEW t \in Inserters, InvokeCache(t)
      PROVE  Flags'
  BY <1>4, Zenon DEF InvokeCache
<1>5. ASSUME NEW t \in Inserters, InvokeFlush(t)
      PROVE  Flags'
  BY <1>5, Zenon DEF InvokeFlush
<1>6. ASSUME NEW t \in Inserters, InvokeAppend(t)
      PROVE  Flags'
  BY <1>6, Zenon DEF InvokeAppend
<1>7. ASSUME NEW t \in Inserters, InsertDereference(t)
      PROVE  Flags'
  BY <1>7, Zenon DEF InsertDereference
<1>8. ASSUME NEW t \in Inserters, InsertSignal(t)
      PROVE  Flags'
  BY <1>8, Zenon DEF InsertSignal
<1>9. ASSUME NEW t \in Inserters, InsertFault(t)
      PROVE  Flags'
  BY <1>9, Zenon DEF InsertFault
<1>10. ASSUME NEW d \in Disablers, Connect(d)
      PROVE  Flags'
  BY <1>10, Zenon DEF Connect
<1>11. ASSUME NEW d \in Stoppers, DisableCheck(d)
      PROVE  Flags'
  BY <1>11, Zenon DEF DisableCheck
<1>12. ASSUME NEW d \in Stoppers, Unregister(d)
      PROVE  Flags'
  BY <1>12, Zenon DEF Unregister
<1>13. ASSUME NEW d \in Stoppers, Unlink(d)
      PROVE  Flags'
  BY <1>13, Zenon DEF Unlink
<1>14. ASSUME NEW d \in Stoppers, Await(d)
      PROVE  Flags'
  BY <1>14, Zenon DEF Await
<1>15. ASSUME NEW d \in Stoppers, FreeCallback(d)
      PROVE  Flags'
  BY <1>15, Zenon DEF FreeCallback
<1>16. ASSUME NEW d \in Stoppers, Stop(d)
      PROVE  Flags'
  BY <1>16, Zenon DEF Stop
<1>17. ASSUME NEW d \in Stoppers, Join(d)
      PROVE  Flags'
  BY <1>17, Zenon DEF Join
<1>18. CASE Disconnect
  BY <1>18, Zenon DEF Disconnect
<1>19. CASE Unload
  BY <1>19, Zenon DEF Unload
<1>20. CASE Purge
  BY <1>20, Zenon DEF Purge
<1>21. CASE SaverTop
  BY <1>21, Zenon DEF SaverTop
<1>22. CASE SaverOpen
  BY <1>22, BootLogAssumption, Zenon DEF SaverOpen
<1>23. CASE SaverLoop
  BY <1>23, Zenon DEF SaverLoop
<1>24. CASE FlushCache
  BY <1>24, Zenon DEF FlushCache
<1>25. CASE FlushTake
  BY <1>25, Zenon DEF FlushTake
<1>26. CASE FlushWrite
  BY <1>26, Zenon DEF FlushWrite
<1>27. CASE FlushDone
  BY <1>27, Zenon DEF FlushDone
<1>28. ASSUME NEW t \in Inserters, NEW r \in Requests, InsertBegin(t, r)
      PROVE  Flags'
  BY <1>28, Zenon DEF InsertBegin
<1> QED BY <1>1, <1>2, <1>3, <1>4, <1>5, <1>6, <1>7, <1>8, <1>9, <1>10, <1>11, <1>12, <1>13, <1>14, <1>15, <1>16, <1>17, <1>18, <1>19, <1>20, <1>21, <1>22, <1>23, <1>24, <1>25, <1>26, <1>27, <1>28, Zenon
      DEF Next, InsertStep, DisableStep, SaverStep

LEMMA BecomeType ==
  ASSUME TypeOK, NEW S, NEW state \in {"unused", "live", "saved", "lost", "freed"},
         Become(S, state)
  PROVE  mem' \in [Requests -> {"unused", "live", "saved", "lost", "freed"}]
  BY DEF Become, TypeOK

LEMMA TypeStep ==
  ASSUME TypeOK, [Next]_vars
  PROVE  TypeOK'
<1> USE DEF vars, cb, log, saving, SaverAt
<1>0. Flags'
  BY FlagsStep DEF TypeOK
<1>1. CASE UNCHANGED vars
  BY <1>0, <1>1 DEF TypeOK
<1>2. ASSUME NEW t \in Inserters, InsertUnwanted(t)
      PROVE  TypeOK'
  <2>1. ("idle") \in InsertLabels
    BY DEF InsertLabels
  <2> QED BY <1>0, <1>2, <2>1, InserterMoves, BecomeType, EmptySeq DEF InsertUnwanted, TypeOK
<1>3. ASSUME NEW t \in Inserters, InsertRefer(t)
      PROVE  TypeOK'
  <2>1. ("invoke") \in InsertLabels
    BY DEF InsertLabels
  <2> QED BY <1>0, <1>3, <2>1, InserterMoves DEF InsertRefer, TypeOK
<1>4. ASSUME NEW t \in Inserters, InvokeCache(t)
      PROVE  TypeOK'
  <2>1. ("dereference") \in InsertLabels
    BY DEF InsertLabels
  <2> QED BY <1>0, <1>4, <2>1, InserterMoves, EmptySeq, ConcatFacts DEF InvokeCache, TypeOK
<1>5. ASSUME NEW t \in Inserters, InvokeFlush(t)
      PROVE  TypeOK'
  <2>1. ("append") \in InsertLabels
    BY DEF InsertLabels
  <2> QED BY <1>0, <1>5, <2>1, InserterMoves, EmptySeq, ConcatFacts DEF InvokeFlush, TypeOK
<1>6. ASSUME NEW t \in Inserters, InvokeAppend(t)
      PROVE  TypeOK'
  <2>1. ("dereference") \in InsertLabels
    BY DEF InsertLabels
  <2> QED BY <1>0, <1>6, <2>1, InserterMoves, EmptySeq, ConcatFacts DEF InvokeAppend, TypeOK
<1>7. ASSUME NEW t \in Inserters, InsertDereference(t)
      PROVE  TypeOK'
  <2>1. (IF refs = 1 THEN "signal" ELSE "idle") \in InsertLabels
    BY DEF InsertLabels
  <2> QED BY <1>0, <1>7, <2>1, InserterMoves DEF InsertDereference, TypeOK
<1>8. ASSUME NEW t \in Inserters, InsertSignal(t)
      PROVE  TypeOK'
  <2>1. ("idle") \in InsertLabels
    BY DEF InsertLabels
  <2> QED BY <1>0, <1>8, <2>1, InserterMoves DEF InsertSignal, TypeOK
<1>9. ASSUME NEW t \in Inserters, InsertFault(t)
      PROVE  TypeOK'
  <2>1. ("faulted") \in InsertLabels
    BY DEF InsertLabels
  <2> QED BY <1>0, <1>9, <2>1, InserterMoves DEF InsertFault, TypeOK
<1>10. ASSUME NEW t \in Inserters, NEW r \in Requests, InsertBegin(t, r)
      PROVE  TypeOK'
  <2>1. "refer" \in InsertLabels
    BY DEF InsertLabels
  <2>2. <<r>> \in Seq(Requests)
    OBVIOUS
  <2> QED BY <1>0, <1>10, <2>1, <2>2, InserterMoves, BecomeType DEF InsertBegin, TypeOK
<1>11. ASSUME NEW d \in Disablers, Connect(d)
      PROVE  TypeOK'
  <2>1. "check" \in StopLabels /\ d \in Stoppers
    BY Threads DEF StopLabels
  <2> QED BY <1>0, <1>11, <2>1, StopperMoves DEF Connect, TypeOK
<1>12. ASSUME NEW d \in Stoppers, DisableCheck(d)
      PROVE  TypeOK'
  <2>1. (IF enabled THEN "unregister" ELSE "join") \in StopLabels
    BY DEF StopLabels
  <2> QED BY <1>0, <1>12, <2>1, StopperMoves DEF DisableCheck, TypeOK
<1>13. ASSUME NEW d \in Stoppers, Unregister(d)
      PROVE  TypeOK'
  <2>1. (IF refs = 1 THEN "unlink" ELSE "await") \in StopLabels
    BY DEF StopLabels
  <2> QED BY <1>0, <1>13, <2>1, StopperMoves DEF Unregister, TypeOK
<1>14. ASSUME NEW d \in Stoppers, Unlink(d)
      PROVE  TypeOK'
  <2>1. ("free") \in StopLabels
    BY DEF StopLabels
  <2> QED BY <1>0, <1>14, <2>1, StopperMoves DEF Unlink, TypeOK
<1>15. ASSUME NEW d \in Stoppers, Await(d)
      PROVE  TypeOK'
  <2>1. ("free") \in StopLabels
    BY DEF StopLabels
  <2> QED BY <1>0, <1>15, <2>1, StopperMoves DEF Await, TypeOK
<1>16. ASSUME NEW d \in Stoppers, FreeCallback(d)
      PROVE  TypeOK'
  <2>1. ("stop") \in StopLabels
    BY DEF StopLabels
  <2> QED BY <1>0, <1>16, <2>1, StopperMoves DEF FreeCallback, TypeOK
<1>17. ASSUME NEW d \in Stoppers, Stop(d)
      PROVE  TypeOK'
  <2>1. ("join") \in StopLabels
    BY DEF StopLabels
  <2> QED BY <1>0, <1>17, <2>1, StopperMoves DEF Stop, TypeOK
<1>18. ASSUME NEW d \in Stoppers, Join(d)
      PROVE  TypeOK'
  <2>1. (IF d = Unloader THEN "purge" ELSE "idle") \in StopLabels
    BY DEF StopLabels
  <2> QED BY <1>0, <1>18, <2>1, StopperMoves DEF Join, TypeOK
<1>19. CASE Disconnect
  BY <1>0, <1>19 DEF Disconnect, TypeOK
<1>20. CASE Unload
  <2>1. "check" \in StopLabels
    BY DEF StopLabels
  <2> QED BY <1>0, <1>20, <2>1, StopperMoves, Threads DEF Unload, TypeOK
<1>21. CASE Purge
  <2>1. "idle" \in StopLabels
    BY DEF StopLabels
  <2> QED BY <1>0, <1>21, <2>1, StopperMoves, Threads, BecomeType, EmptySeq DEF Purge, TypeOK
<1>22. CASE SaverTop
  BY <1>0, <1>22 DEF SaverTop, TypeOK, SaverLabels
<1>23. CASE SaverOpen
  BY <1>0, <1>23, BecomeType, EmptySeq DEF SaverOpen, TypeOK, SaverLabels
<1>24. CASE SaverLoop
  BY <1>0, <1>24 DEF SaverLoop, TypeOK, SaverLabels
<1>25. CASE FlushCache
  BY <1>0, <1>25, EmptySeq DEF FlushCache, TypeOK, SaverLabels
<1>26. CASE FlushTake
  BY <1>0, <1>26, EmptySeq, ConcatFacts DEF FlushTake, TypeOK, SaverLabels
<1>27. CASE FlushWrite
  <2>1. Head(batch) \in Requests /\ Tail(batch) \in Seq(Requests)
    BY <1>27, HeadTailProperties DEF FlushWrite, TypeOK
  <2>2. Append(file, Head(batch)) \in Seq(Requests)
    BY <2>1, AppendFacts DEF TypeOK
  <2>3. mem' \in [Requests -> {"unused", "live", "saved", "lost", "freed"}]
    BY <1>27, BecomeType DEF FlushWrite
  <2> QED BY <1>0, <1>27, <2>1, <2>2, <2>3 DEF FlushWrite, TypeOK
<1>28. CASE FlushDone
  BY <1>0, <1>28 DEF FlushDone, TypeOK, SaverLabels
<1> QED BY <1>1, <1>2, <1>3, <1>4, <1>5, <1>6, <1>7, <1>8, <1>9, <1>10, <1>11, <1>12, <1>13, <1>14,
      <1>15, <1>16, <1>17, <1>18, <1>19, <1>20, <1>21, <1>22, <1>23, <1>24, <1>25, <1>26, <1>27, <1>28
      DEF Next, InsertStep, DisableStep, SaverStep

-----------------------------------------------------------------------------
(* Places.                                                                 *)

\* The inserters stay where they are while another thread moves.
LEMMA HandsStay ==
  ASSUME TypeOK, HandsOK, UNCHANGED hand,
         \A t \in Inserters : pc'[t] = pc[t]
  PROVE  HandsOK'
  BY DEF HandsOK

LEMMA HandMoves ==
  ASSUME TypeOK, HandsOK, NEW t \in Inserters, NEW l \in InsertLabels,
         NEW s \in Seq(Requests), l \in {"idle", "dereference", "signal"} => s = <<>>,
         At(t, l), hand' = [hand EXCEPT ![t] = s]
  PROVE  /\ HandsOK'
         /\ hand'[t] = s /\ \A u \in Inserters : u # t => hand'[u] = hand[u]
  BY Threads DEF HandsOK, TypeOK, At

\* No record moves.
LEMMA PlaceKept ==
  ASSUME PlaceInv, TypeOK', HandsOK', BatchOK', UNCHANGED <<log, file, batch, hand>>
  PROVE  PlaceInv'
  BY DEF PlaceInv, log, NoneTwice, Apart, LiveSomewhere, FileComplete

\* An inserter moves and no record does.
LEMMA InserterKeeps ==
  ASSUME PlaceInv, TypeOK', NEW t \in Inserters, NEW l \in InsertLabels,
         l \in {"idle", "dereference", "signal"} => hand[t] = <<>>,
         At(t, l), UNCHANGED <<log, file, batch, hand, saver>>
  PROVE  PlaceInv'
<1>1. HandsOK'
  BY Threads DEF PlaceInv, HandsOK, TypeOK, At
<1>2. BatchOK'
  BY DEF PlaceInv, BatchOK
<1> QED BY <1>1, <1>2, PlaceKept

\* A thread that disables the log moves and no record does.
LEMMA StopperKeeps ==
  ASSUME PlaceInv, TypeOK', NEW d \in Stoppers, NEW l \in StopLabels, At(d, l),
         UNCHANGED <<log, file, batch, hand, saver>>
  PROVE  PlaceInv'
<1>1. HandsOK'
  BY StopperMoves, HandsStay, Threads DEF PlaceInv
<1>2. BatchOK'
  BY DEF PlaceInv, BatchOK
<1> QED BY <1>1, <1>2, PlaceKept

\* The saving thread moves records it does not write.
LEMMA SaverKeeps ==
  ASSUME PlaceInv, TypeOK', BatchOK', UNCHANGED <<mem, file, pc, hand>>,
         IsInjective(np'), IsInjective(paged'), IsInjective(batch'),
         ToSet(np') \cap ToSet(paged') = {}, ToSet(np') \cap ToSet(batch') = {},
         ToSet(paged') \cap ToSet(batch') = {},
         ToSet(np') \cup ToSet(paged') \cup ToSet(batch')
           = ToSet(np) \cup ToSet(paged) \cup ToSet(batch)
  PROVE  PlaceInv'
<1>1. HandsOK'
  BY DEF PlaceInv, HandsOK
<1>2. NoneTwice'
  BY DEF PlaceInv, NoneTwice
<1>3. Apart'
  <2>1. ASSUME NEW t \in Inserters
        PROVE  /\ ToSet(hand'[t]) \cap ToSet(np') = {}
               /\ ToSet(hand'[t]) \cap ToSet(paged') = {}
               /\ ToSet(hand'[t]) \cap ToSet(batch') = {}
    BY DEF PlaceInv, Apart
  <2>2. \A t, u \in Inserters : t # u => ToSet(hand'[t]) \cap ToSet(hand'[u]) = {}
    BY DEF PlaceInv, Apart
  <2> QED BY <2>1, <2>2 DEF Apart
<1>4. LiveSomewhere'
  BY DEF PlaceInv, LiveSomewhere
<1>5. FileComplete'
  BY DEF PlaceInv, FileComplete
<1> QED BY <1>1, <1>2, <1>3, <1>4, <1>5 DEF PlaceInv

\* Inserter t lays down what it has in hand or takes more, on or from the lists.
LEMMA HandKeeps ==
  ASSUME PlaceInv, TypeOK', NEW t \in Inserters, NEW l \in InsertLabels,
         NEW s \in Seq(Requests), l \in {"idle", "dereference", "signal"} => s = <<>>,
         At(t, l), hand' = [hand EXCEPT ![t] = s],
         UNCHANGED <<mem, file, batch, saver>>,
         IsInjective(np'), IsInjective(paged'), IsInjective(s),
         ToSet(np') \cap ToSet(paged') = {}, ToSet(np') \cap ToSet(s) = {},
         ToSet(paged') \cap ToSet(s) = {},
         ToSet(np') \cup ToSet(paged') \cup ToSet(s)
           = ToSet(np) \cup ToSet(paged) \cup ToSet(hand[t])
  PROVE  PlaceInv'
<1>1. /\ HandsOK'
      /\ hand'[t] = s /\ \A u \in Inserters : u # t => hand'[u] = hand[u]
  BY HandMoves DEF PlaceInv
<1>2. BatchOK'
  BY DEF PlaceInv, BatchOK
<1>3. NoneTwice'
  BY <1>1 DEF PlaceInv, NoneTwice
<1>4. Apart'
  <2>1. ToSet(np') \cap ToSet(batch') = {} /\ ToSet(paged') \cap ToSet(batch') = {}
    BY DEF PlaceInv, Apart
  <2>2. ASSUME NEW u \in Inserters
        PROVE  /\ ToSet(hand'[u]) \cap ToSet(np') = {}
               /\ ToSet(hand'[u]) \cap ToSet(paged') = {}
               /\ ToSet(hand'[u]) \cap ToSet(batch') = {}
    <3>1. CASE u = t
      BY <1>1, <3>1 DEF PlaceInv, Apart
    <3>2. CASE u # t
      <4>1. /\ ToSet(hand[u]) \cap ToSet(hand[t]) = {}
            /\ ToSet(hand[u]) \cap ToSet(np) = {}
            /\ ToSet(hand[u]) \cap ToSet(paged) = {}
            /\ ToSet(hand[u]) \cap ToSet(batch) = {}
        BY <3>2 DEF PlaceInv, Apart
      <4> QED BY <1>1, <3>2, <4>1
    <3> QED BY <3>1, <3>2
  <2>3. ASSUME NEW u \in Inserters, u # t
        PROVE  ToSet(hand'[u]) \cap ToSet(hand'[t]) = {}
    <3>1. /\ ToSet(hand[u]) \cap ToSet(hand[t]) = {}
          /\ ToSet(hand[u]) \cap ToSet(np) = {}
          /\ ToSet(hand[u]) \cap ToSet(paged) = {}
      BY <2>3 DEF PlaceInv, Apart
    <3> QED BY <1>1, <2>3, <3>1
  <2>4. ASSUME NEW u \in Inserters, NEW v \in Inserters, u # v
        PROVE  ToSet(hand'[u]) \cap ToSet(hand'[v]) = {}
    <3>1. CASE u # t /\ v # t
      BY <1>1, <2>4, <3>1 DEF PlaceInv, Apart
    <3>2. CASE u = t \/ v = t
      BY <2>3, <2>4, <3>2
    <3> QED BY <3>1, <3>2
  <2> QED BY <1>3, <2>1, <2>2, <2>4 DEF Apart
<1>5. LiveSomewhere'
  <2> SUFFICES ASSUME NEW r \in Requests
               PROVE  mem'[r] = "live" <=>
                        \/ r \in ToSet(np') \/ r \in ToSet(paged') \/ r \in ToSet(batch')
                        \/ \E u \in Inserters : r \in ToSet(hand'[u])
    BY DEF LiveSomewhere
  <2>1. (\E u \in Inserters : r \in ToSet(hand'[u]))
          <=> r \in ToSet(s) \/ \E u \in Inserters : u # t /\ r \in ToSet(hand[u])
    BY <1>1
  <2>2. (\E u \in Inserters : r \in ToSet(hand[u]))
          <=> r \in ToSet(hand[t]) \/ \E u \in Inserters : u # t /\ r \in ToSet(hand[u])
    OBVIOUS
  <2> QED BY <2>1, <2>2 DEF PlaceInv, LiveSomewhere
<1>6. FileComplete'
  BY DEF PlaceInv, FileComplete
<1> QED BY <1>1, <1>2, <1>3, <1>4, <1>5, <1>6 DEF PlaceInv

LEMMA PlaceStep ==
  ASSUME PlaceInv, [Next]_vars
  PROVE  PlaceInv'
<1> USE DEF vars, cb, log, saving, SaverAt
<1>0. TypeOK /\ TypeOK'
  BY TypeStep DEF PlaceInv
<1>1. CASE UNCHANGED vars
  BY <1>0, <1>1, PlaceKept DEF PlaceInv, HandsOK, BatchOK
<1>2. ASSUME NEW t \in Inserters, NEW r \in Requests, InsertBegin(t, r)
      PROVE  PlaceInv'
  <2>1. /\ <<r>> \in Seq(Requests) /\ ToSet(<<r>>) = {r} /\ IsInjective(<<r>>)
        /\ hand[t] = <<>> /\ ToSet(hand[t]) = {}
    BY <1>2, SingleFacts, EmptyFacts DEF InsertBegin, PlaceInv, HandsOK
  <2>2. /\ HandsOK'
        /\ hand'[t] = <<r>> /\ \A u \in Inserters : u # t => hand'[u] = hand[u]
    BY <1>2, <2>1, HandMoves DEF InsertBegin, PlaceInv, InsertLabels
  <2>3. /\ r \notin ToSet(np) /\ r \notin ToSet(paged) /\ r \notin ToSet(batch)
        /\ \A u \in Inserters : r \notin ToSet(hand[u])
        /\ r \notin ToSet(file)
    BY <1>2 DEF InsertBegin, PlaceInv, LiveSomewhere, FileComplete
  <2>4. NoneTwice'
    BY <1>2, <2>1, <2>2 DEF InsertBegin, PlaceInv, NoneTwice
  <2>5. Apart'
    <3>1. /\ ToSet(np') \cap ToSet(paged') = {} /\ ToSet(np') \cap ToSet(batch') = {}
          /\ ToSet(paged') \cap ToSet(batch') = {}
      BY <1>2 DEF InsertBegin, PlaceInv, Apart
    <3>2. ASSUME NEW u \in Inserters
          PROVE  /\ ToSet(hand'[u]) \cap ToSet(np') = {}
                 /\ ToSet(hand'[u]) \cap ToSet(paged') = {}
                 /\ ToSet(hand'[u]) \cap ToSet(batch') = {}
      BY <1>2, <2>1, <2>2, <2>3 DEF InsertBegin, PlaceInv, Apart
    <3>3. ASSUME NEW u \in Inserters, NEW v \in Inserters, u # v
          PROVE  ToSet(hand'[u]) \cap ToSet(hand'[v]) = {}
      BY <2>1, <2>2, <2>3, <3>3 DEF PlaceInv, Apart
    <3> QED BY <3>1, <3>2, <3>3 DEF Apart
  <2>6. mem' = [mem EXCEPT ![r] = "live"]
    BY <1>0, <1>2 DEF InsertBegin, Become, TypeOK
  <2>7. LiveSomewhere'
    <3>1. ASSUME NEW x \in Requests
          PROVE  (\E u \in Inserters : x \in ToSet(hand'[u]))
                   <=> x = r \/ \E u \in Inserters : x \in ToSet(hand[u])
      BY <2>1, <2>2
    <3> QED BY <1>0, <1>2, <2>6, <3>1
        DEF InsertBegin, PlaceInv, LiveSomewhere, TypeOK
  <2>8. FileComplete'
    BY <1>0, <1>2, <2>3, <2>6 DEF InsertBegin, PlaceInv, FileComplete, TypeOK
  <2>9. BatchOK'
    BY <1>2 DEF InsertBegin, PlaceInv, BatchOK
  <2> QED BY <1>0, <2>2, <2>4, <2>5, <2>7, <2>8, <2>9 DEF PlaceInv
<1>3. ASSUME NEW t \in Inserters, InsertUnwanted(t)
      PROVE  PlaceInv'
  <2>1. /\ HandsOK'
        /\ hand'[t] = <<>> /\ \A u \in Inserters : u # t => hand'[u] = hand[u]
    BY <1>3, HandMoves, EmptySeq DEF InsertUnwanted, PlaceInv, InsertLabels
  <2>2. ToSet(hand'[t]) = {} /\ IsInjective(hand'[t])
    BY <2>1, EmptyFacts
  <2>3. \A u \in Inserters : ToSet(hand'[u]) \subseteq ToSet(hand[u])
    BY <2>1, <2>2
  <2>4. NoneTwice'
    BY <1>3, <2>1, <2>2 DEF InsertUnwanted, PlaceInv, NoneTwice
  <2>5. Apart'
    <3>1. /\ ToSet(np') \cap ToSet(paged') = {} /\ ToSet(np') \cap ToSet(batch') = {}
          /\ ToSet(paged') \cap ToSet(batch') = {}
      BY <1>3 DEF InsertUnwanted, PlaceInv, Apart
    <3>2. ASSUME NEW u \in Inserters
          PROVE  /\ ToSet(hand'[u]) \cap ToSet(np') = {}
                 /\ ToSet(hand'[u]) \cap ToSet(paged') = {}
                 /\ ToSet(hand'[u]) \cap ToSet(batch') = {}
      BY <1>3, <2>3 DEF InsertUnwanted, PlaceInv, Apart
    <3>3. ASSUME NEW u \in Inserters, NEW v \in Inserters, u # v
          PROVE  ToSet(hand'[u]) \cap ToSet(hand'[v]) = {}
      BY <2>3, <3>3 DEF PlaceInv, Apart
    <3> QED BY <3>1, <3>2, <3>3 DEF Apart
  <2>6. LiveSomewhere'
    <3> SUFFICES ASSUME NEW x \in Requests
                 PROVE  mem'[x] = "live" <=>
                          \/ x \in ToSet(np') \/ x \in ToSet(paged') \/ x \in ToSet(batch')
                          \/ \E u \in Inserters : x \in ToSet(hand'[u])
      BY DEF LiveSomewhere
    <3>1. mem'[x] = IF x \in ToSet(hand[t]) THEN "freed" ELSE mem[x]
      BY <1>3 DEF InsertUnwanted, Become
    <3>2. CASE x \in ToSet(hand[t])
      <4>1. /\ x \notin ToSet(np) /\ x \notin ToSet(paged) /\ x \notin ToSet(batch)
            /\ \A u \in Inserters : u # t => x \notin ToSet(hand[u])
        BY <3>2 DEF PlaceInv, Apart
      <4> QED BY <1>3, <2>1, <2>2, <3>1, <3>2, <4>1 DEF InsertUnwanted
    <3>3. CASE x \notin ToSet(hand[t])
      <4>1. (\E u \in Inserters : x \in ToSet(hand'[u]))
              <=> \E u \in Inserters : x \in ToSet(hand[u])
        BY <2>1, <2>2, <3>3
      <4> QED BY <1>3, <3>1, <3>3, <4>1 DEF InsertUnwanted, PlaceInv, LiveSomewhere
    <3> QED BY <3>2, <3>3
  <2>7. FileComplete'
    <3>1. \A x \in ToSet(hand[t]) : mem[x] # "saved"
      <4>1. ToSet(hand[t]) \subseteq Requests
        BY <1>0, SetType DEF TypeOK
      <4>2. \A x \in ToSet(hand[t]) : mem[x] = "live"
        BY <4>1 DEF PlaceInv, LiveSomewhere
      <4> QED BY <4>2
    <3> QED BY <1>3, <3>1 DEF InsertUnwanted, PlaceInv, FileComplete, Become
  <2>8. BatchOK'
    BY <1>3 DEF InsertUnwanted, PlaceInv, BatchOK
  <2> QED BY <1>0, <2>1, <2>4, <2>5, <2>6, <2>7, <2>8 DEF PlaceInv
<1>4. ASSUME NEW t \in Inserters, InsertRefer(t)
      PROVE  PlaceInv'
  BY <1>0, <1>4, InserterKeeps DEF InsertRefer, InsertLabels
<1>5. ASSUME NEW t \in Inserters, InvokeCache(t)
      PROVE  PlaceInv'
  <2>1. /\ hand[t] \in Seq(Requests) /\ IsInjective(hand[t]) /\ IsInjective(np)
        /\ ToSet(hand[t]) \cap ToSet(np) = {} /\ ToSet(hand[t]) \cap ToSet(paged) = {}
        /\ ToSet(np) \cap ToSet(paged) = {} /\ IsInjective(paged)
    BY <1>0 DEF PlaceInv, TypeOK, NoneTwice, Apart
  <2>2. /\ ToSet(np \o hand[t]) = ToSet(np) \cup ToSet(hand[t])
        /\ IsInjective(np \o hand[t])
    BY <1>0, <2>1, ConcatFacts DEF TypeOK
  <2>3. /\ "dereference" \in InsertLabels /\ <<>> \in Seq(Requests)
        /\ ToSet(<<>>) = {} /\ IsInjective(<<>>)
    BY EmptyFacts, EmptySeq DEF InsertLabels
  <2> QED BY <1>0, <1>5, <2>1, <2>2, <2>3, HandKeeps DEF InvokeCache
<1>6. ASSUME NEW t \in Inserters, InvokeFlush(t)
      PROVE  PlaceInv'
  <2>1. /\ hand[t] \in Seq(Requests) /\ IsInjective(hand[t]) /\ IsInjective(np)
        /\ ToSet(hand[t]) \cap ToSet(np) = {} /\ ToSet(hand[t]) \cap ToSet(paged) = {}
        /\ ToSet(np) \cap ToSet(paged) = {} /\ IsInjective(paged)
    BY <1>0 DEF PlaceInv, TypeOK, NoneTwice, Apart
  <2>2. /\ ToSet(np \o hand[t]) = ToSet(np) \cup ToSet(hand[t])
        /\ IsInjective(np \o hand[t]) /\ np \o hand[t] \in Seq(Requests)
    BY <1>0, <2>1, ConcatFacts DEF TypeOK
  <2>3. /\ "append" \in InsertLabels
        /\ ToSet(np') = {} /\ IsInjective(np')
    BY <1>6, EmptyFacts DEF InsertLabels, InvokeFlush
  <2> QED BY <1>0, <1>6, <2>1, <2>2, <2>3, HandKeeps DEF InvokeFlush
<1>7. ASSUME NEW t \in Inserters, InvokeAppend(t)
      PROVE  PlaceInv'
  <2>1. /\ hand[t] \in Seq(Requests) /\ IsInjective(hand[t]) /\ IsInjective(np)
        /\ ToSet(hand[t]) \cap ToSet(np) = {} /\ ToSet(paged) \cap ToSet(hand[t]) = {}
        /\ ToSet(np) \cap ToSet(paged) = {} /\ IsInjective(paged)
    BY <1>0 DEF PlaceInv, TypeOK, NoneTwice, Apart
  <2>2. /\ ToSet(paged \o hand[t]) = ToSet(paged) \cup ToSet(hand[t])
        /\ IsInjective(paged \o hand[t])
    BY <1>0, <2>1, ConcatFacts DEF TypeOK
  <2>3. /\ "dereference" \in InsertLabels /\ <<>> \in Seq(Requests)
        /\ ToSet(<<>>) = {} /\ IsInjective(<<>>)
    BY EmptyFacts, EmptySeq DEF InsertLabels
  <2> QED BY <1>0, <1>7, <2>1, <2>2, <2>3, HandKeeps DEF InvokeAppend
<1>8. ASSUME NEW t \in Inserters, InsertDereference(t)
      PROVE  PlaceInv'
  <2>1. (IF refs = 1 THEN "signal" ELSE "idle") \in InsertLabels /\ hand[t] = <<>>
    BY <1>8 DEF InsertDereference, InsertLabels, PlaceInv, HandsOK
  <2> QED BY <1>0, <1>8, <2>1, InserterKeeps DEF InsertDereference
<1>9. ASSUME NEW t \in Inserters, InsertSignal(t)
      PROVE  PlaceInv'
  <2>1. hand[t] = <<>>
    BY <1>9 DEF InsertSignal, PlaceInv, HandsOK
  <2> QED BY <1>0, <1>9, <2>1, InserterKeeps DEF InsertSignal, InsertLabels
<1>10. ASSUME NEW t \in Inserters, InsertFault(t)
      PROVE  PlaceInv'
  BY <1>0, <1>10, InserterKeeps DEF InsertFault, InsertLabels
<1>11. ASSUME NEW d \in Disablers, Connect(d)
       PROVE  PlaceInv'
  BY <1>0, <1>11, StopperKeeps, Threads DEF Connect, StopLabels
<1>12. ASSUME NEW d \in Stoppers, DisableStep(d)
       PROVE  PlaceInv'
  <2>1. CASE DisableCheck(d)
    BY <1>0, <2>1, StopperKeeps DEF DisableCheck, StopLabels
  <2>2. CASE Unregister(d)
    BY <1>0, <2>2, StopperKeeps DEF Unregister, StopLabels
  <2>3. CASE Unlink(d)
    BY <1>0, <2>3, StopperKeeps DEF Unlink, StopLabels
  <2>4. CASE Await(d)
    BY <1>0, <2>4, StopperKeeps DEF Await, StopLabels
  <2>5. CASE FreeCallback(d)
    BY <1>0, <2>5, StopperKeeps DEF FreeCallback, StopLabels
  <2>6. CASE Stop(d)
    BY <1>0, <2>6, StopperKeeps DEF Stop, StopLabels
  <2>7. CASE Join(d)
    BY <1>0, <2>7, StopperKeeps DEF Join, StopLabels
  <2> QED BY <1>12, <2>1, <2>2, <2>3, <2>4, <2>5, <2>6, <2>7 DEF DisableStep
<1>13. CASE Disconnect
  BY <1>0, <1>13, PlaceKept DEF Disconnect, PlaceInv, HandsOK, BatchOK
<1>14. CASE Unload
  BY <1>0, <1>14, StopperKeeps, Threads DEF Unload, StopLabels
<1>15. CASE Purge
  <2>1. HandsOK'
    <3>1. "idle" \in StopLabels /\ Unloader \in Stoppers
      BY Threads DEF StopLabels
    <3>2. \A t \in Inserters : pc'[t] = pc[t]
      BY <1>0, <1>15, <3>1, StopperMoves, Threads DEF Purge
    <3> QED BY <1>0, <1>15, <3>2, HandsStay DEF Purge, PlaceInv
  <2>2. BatchOK'
    BY <1>15 DEF Purge, PlaceInv, BatchOK
  <2>3. np' = <<>> /\ paged' = <<>> /\ ToSet(np') = {} /\ ToSet(paged') = {}
        /\ IsInjective(np') /\ IsInjective(paged')
    BY <1>15, EmptyFacts DEF Purge
  <2>4. NoneTwice' /\ Apart'
    BY <1>15, <2>3 DEF Purge, PlaceInv, NoneTwice, Apart
  <2>5. LiveSomewhere'
    <3> SUFFICES ASSUME NEW x \in Requests
                 PROVE  mem'[x] = "live" <=>
                          \/ x \in ToSet(np') \/ x \in ToSet(paged') \/ x \in ToSet(batch')
                          \/ \E u \in Inserters : x \in ToSet(hand'[u])
      BY DEF LiveSomewhere
    <3>1. mem'[x] = IF x \in ToSet(np) \cup ToSet(paged) THEN "freed" ELSE mem[x]
      BY <1>15 DEF Purge, Become
    <3>2. CASE x \in ToSet(np) \cup ToSet(paged)
      <4>1. x \notin ToSet(batch) /\ \A u \in Inserters : x \notin ToSet(hand[u])
        BY <3>2 DEF PlaceInv, Apart
      <4> QED BY <1>15, <2>3, <3>1, <3>2, <4>1 DEF Purge
    <3>3. CASE x \notin ToSet(np) \cup ToSet(paged)
      BY <1>15, <2>3, <3>1, <3>3 DEF Purge, PlaceInv, LiveSomewhere
    <3> QED BY <3>2, <3>3
  <2>6. FileComplete'
    <3>1. ToSet(np) \cup ToSet(paged) \subseteq Requests
      BY <1>0, SetType DEF TypeOK
    <3>2. \A x \in ToSet(np) \cup ToSet(paged) : mem[x] = "live"
      BY <3>1 DEF PlaceInv, LiveSomewhere
    <3> QED BY <1>15, <3>2 DEF Purge, PlaceInv, FileComplete, Become
  <2> QED BY <1>0, <2>1, <2>2, <2>4, <2>5, <2>6 DEF PlaceInv
<1>16. CASE SaverTop
  <2>1. BatchOK' /\ HandsOK'
    BY <1>16 DEF SaverTop, PlaceInv, BatchOK, HandsOK
  <2> QED BY <1>0, <1>16, <2>1, PlaceKept DEF SaverTop
<1>17. CASE SaverOpen
  <2>1. BatchOK' /\ HandsOK'
    BY <1>17 DEF SaverOpen, PlaceInv, BatchOK, HandsOK
  <2>2. CASE UNCHANGED <<mem, file>>
    BY <1>0, <1>17, <2>1, <2>2, PlaceKept DEF SaverOpen
  <2>3. CASE file' = <<>> /\ Become(ToSet(file), "lost")
    <3>1. NoneTwice' /\ Apart'
      BY <1>17 DEF SaverOpen, PlaceInv, NoneTwice, Apart
    <3>2. \A x \in Requests : mem'[x] = IF mem[x] = "saved" THEN "lost" ELSE mem[x]
      BY <2>3 DEF Become, PlaceInv, FileComplete
    <3>3. LiveSomewhere'
      BY <1>17, <3>2 DEF SaverOpen, PlaceInv, LiveSomewhere
    <3>4. FileComplete'
      BY <2>3, <3>2, EmptyFacts DEF FileComplete
    <3> QED BY <1>0, <2>1, <3>1, <3>3, <3>4 DEF PlaceInv
  <2> QED BY <1>17, <2>2, <2>3 DEF SaverOpen
<1>18. CASE SaverLoop
  <2>1. BatchOK' /\ HandsOK'
    BY <1>18 DEF SaverLoop, PlaceInv, BatchOK, HandsOK
  <2> QED BY <1>0, <1>18, <2>1, PlaceKept DEF SaverLoop
<1>19. CASE FlushCache
  <2>1. /\ BatchOK' /\ batch = <<>> /\ np' = <<>> /\ batch' = np /\ paged' = paged
    BY <1>19 DEF FlushCache, PlaceInv, BatchOK
  <2>2. ToSet(np') = {} /\ IsInjective(np') /\ ToSet(batch) = {}
    BY <2>1, EmptyFacts
  <2>3. /\ IsInjective(np) /\ IsInjective(paged)
        /\ ToSet(np) \cap ToSet(paged) = {}
    BY DEF PlaceInv, NoneTwice, Apart
  <2> QED BY <1>0, <1>19, <2>1, <2>2, <2>3, SaverKeeps DEF FlushCache
<1>20. CASE FlushTake
  <2>1. /\ BatchOK' /\ batch' = paged \o batch /\ paged' = <<>> /\ np' = np
    BY <1>20 DEF FlushTake, PlaceInv, BatchOK
  <2>2. /\ IsInjective(np) /\ IsInjective(paged) /\ IsInjective(batch)
        /\ ToSet(np) \cap ToSet(paged) = {} /\ ToSet(np) \cap ToSet(batch) = {}
        /\ ToSet(paged) \cap ToSet(batch) = {}
    BY DEF PlaceInv, NoneTwice, Apart
  <2>3. ToSet(paged') = {} /\ IsInjective(paged')
    BY <2>1, EmptyFacts
  <2>4. IsInjective(batch') /\ ToSet(batch') = ToSet(paged) \cup ToSet(batch)
    BY <1>0, <2>1, <2>2, ConcatFacts DEF TypeOK
  <2> QED BY <1>0, <1>20, <2>1, <2>2, <2>3, <2>4, SaverKeeps DEF FlushTake
<1>21. CASE FlushWrite
  <2>1. BatchOK' /\ HandsOK'
    BY <1>21 DEF FlushWrite, PlaceInv, BatchOK, HandsOK
  <2> DEFINE h == Head(batch)
  <2>2. /\ h \in Requests /\ h \in ToSet(batch) /\ IsInjective(batch')
        /\ ToSet(batch') = ToSet(batch) \ {h}
    BY <1>0, <1>21, HeadFacts DEF FlushWrite, PlaceInv, NoneTwice, TypeOK
  <2>3. NoneTwice'
    BY <1>21, <2>2 DEF FlushWrite, PlaceInv, NoneTwice
  <2>4. Apart'
    BY <1>21, <2>2 DEF FlushWrite, PlaceInv, Apart
  <2>5. /\ h \notin ToSet(np) /\ h \notin ToSet(paged)
        /\ \A u \in Inserters : h \notin ToSet(hand[u])
        /\ mem[h] = "live" /\ h \notin ToSet(file)
    BY <2>2 DEF PlaceInv, Apart, LiveSomewhere, FileComplete
  <2>6. PICK ok \in WriteResults :
          /\ file' = IF ok THEN Append(file, h) ELSE file
          /\ Become({h}, IF ok THEN "saved" ELSE "lost")
    BY <1>21 DEF FlushWrite
  <2>7. \A x \in Requests : mem'[x] = IF x = h THEN (IF ok THEN "saved" ELSE "lost") ELSE mem[x]
    BY <2>6 DEF Become
  <2>8. LiveSomewhere'
    BY <1>21, <2>2, <2>5, <2>7 DEF FlushWrite, PlaceInv, LiveSomewhere
  <2>9. FileComplete'
    <3>1. CASE ok
      <4>1. ToSet(file') = ToSet(file) \cup {h} /\ IsInjective(file')
        BY <1>0, <2>2, <2>5, <2>6, <3>1, AppendFacts DEF PlaceInv, FileComplete, TypeOK
      <4> QED BY <2>2, <2>7, <3>1, <4>1 DEF PlaceInv, FileComplete
    <3>2. CASE ~ok
      BY <2>5, <2>6, <2>7, <3>2 DEF PlaceInv, FileComplete
    <3> QED BY <3>1, <3>2
  <2> QED BY <1>0, <2>1, <2>3, <2>4, <2>8, <2>9 DEF PlaceInv
<1>22. CASE FlushDone
  <2>1. BatchOK' /\ HandsOK'
    BY <1>22 DEF FlushDone, PlaceInv, BatchOK, HandsOK
  <2> QED BY <1>0, <1>22, <2>1, PlaceKept DEF FlushDone
<1> QED BY <1>1, <1>2, <1>3, <1>4, <1>5, <1>6, <1>7, <1>8, <1>9, <1>10, <1>11, <1>12,
        <1>13, <1>14, <1>15, <1>16, <1>17, <1>18, <1>19, <1>20, <1>21, <1>22
    DEF Next, InsertStep, SaverStep

LEMMA PlaceInit ==
  ASSUME Init
  PROVE  PlaceInv
<1> USE DEF Init
<1>1. Flags
  BY BootLogAssumption, Zenon DEF Flags
<1>2. TypeOK
  BY <1>1, EmptySeq, Threads DEF TypeOK, InsertLabels, StopLabels, SaverLabels
<1> QED BY <1>2, EmptyFacts
    DEF PlaceInv, HandsOK, BatchOK, NoneTwice, Apart, LiveSomewhere, FileComplete

\* The state of every record and its one place, whoever inserts or disables.
THEOREM PlaceInvariance == Spec => []PlaceInv
<1>1. PlaceInv /\ [Next]_vars => PlaceInv'
  BY PlaceStep
<1> QED BY PlaceInit, <1>1, PTL DEF Spec

\* Every record the log was given is with one inserter, on one of its two lists or
\* with _BLSaveThread, once (boot-log.c, _BLOnRequest and _FlushBootRequests): for any
\* number of inserting threads and of clients that connect at once.
THEOREM OnePlace == Spec => []LogOnePlace
<1>1. ASSUME PlaceInv
      PROVE  LogOnePlace
  <2> USE <1>1
  <2> DEFINE everywhere == np \o paged \o batch
  <2>1. /\ np \o paged \in Seq(Requests)
        /\ ToSet(np \o paged) = ToSet(np) \cup ToSet(paged)
        /\ IsInjective(np \o paged)
    BY ConcatFacts DEF PlaceInv, TypeOK, NoneTwice, Apart
  <2>2. ToSet(np \o paged) \cap ToSet(batch) = {}
    BY <2>1 DEF PlaceInv, Apart
  <2>3. /\ ToSet(everywhere) = ToSet(np \o paged) \cup ToSet(batch)
        /\ IsInjective(everywhere)
    <3>1. ASSUME NEW s \in Seq(Requests), IsInjective(s), ToSet(s) \cap ToSet(batch) = {}
          PROVE  /\ ToSet(s \o batch) = ToSet(s) \cup ToSet(batch)
                 /\ IsInjective(s \o batch)
      BY <3>1, ConcatFacts DEF PlaceInv, TypeOK, NoneTwice
    <3> QED BY <2>1, <2>2, <3>1
  <2>4. ASSUME NEW r \in Requests
        PROVE  mem[r] = "live" <=>
                 (r \in ToSet(everywhere)) # (\E t \in Inserters : r \in ToSet(hand[t]))
    <3>1. mem[r] = "live" <=>
            r \in ToSet(everywhere) \/ \E t \in Inserters : r \in ToSet(hand[t])
      BY <2>1, <2>3 DEF PlaceInv, LiveSomewhere
    <3>2. ~(r \in ToSet(everywhere) /\ \E t \in Inserters : r \in ToSet(hand[t]))
      BY <2>1, <2>3 DEF PlaceInv, Apart
    <3> DEFINE A == r \in ToSet(everywhere)
               B == \E t \in Inserters : r \in ToSet(hand[t])
    <3>3. A \in BOOLEAN /\ B \in BOOLEAN
      BY SMT
    <3>4. ((A \/ B) /\ ~(A /\ B)) <=> A # B
      BY <3>3, Zenon
    <3> QED BY <3>1, <3>2, <3>4, Zenon
  <2>5. \A t, u \in Inserters : t # u => ToSet(hand[t]) \cap ToSet(hand[u]) = {}
    BY DEF PlaceInv, Apart
  <2> QED BY <2>3, <2>4, <2>5 DEF LogOnePlace
<1> QED BY PlaceInvariance, <1>1, PTL

\* The log file holds each record once, and the records written to it are the ones
\* it holds (boot-log.c, _BLSaveThread), through failed and repeated opens.
THEOREM FileHolds == Spec => []FileComplete
<1>1. PlaceInv => FileComplete
  BY DEF PlaceInv
<1> QED BY PlaceInvariance, <1>1, PTL

-----------------------------------------------------------------------------
(* The callback.                                                           *)

\* Nothing the callback's invariant reads changes.
LEMMA CallbackKept ==
  ASSUME CallbackInv, UNCHANGED <<cb, enabled, unloaded, pc>>
  PROVE  CallbackInv'
<1> USE DEF cb
<1>1. Users' = Users /\ (Unregistered' <=> Unregistered) /\ (Signalling' <=> Signalling)
  BY DEF Users, Unregistered, Signalling
<1> QED BY <1>1
    DEF CallbackInv, RefsOK, NobodyFaults, OneStops, SignalOK, CallbackStages, EnabledOK

\* An inserter moves without becoming a user of the callback or ceasing to be one.
LEMMA InserterPasses ==
  ASSUME CallbackInv, TypeOK, NEW t \in Inserters, NEW l \in InsertLabels,
         At(t, l), UNCHANGED <<cb, enabled, unloaded>>,
         l \notin {"signal", "faulted"}, pc[t] # "signal",
         l \in {"invoke", "append", "dereference"} <=> t \in Users
  PROVE  CallbackInv'
<1> USE DEF cb
<1>1. /\ pc'[t] = l /\ \A u \in Inserters : u # t => pc'[u] = pc[u]
      /\ \A d \in Stoppers : pc'[d] = pc[d]
  BY InserterMoves, Threads
<1>2. Users' = Users
  BY <1>1 DEF Users
<1>3. Unregistered' <=> Unregistered
  BY <1>1 DEF Unregistered
<1>4. Signalling' <=> Signalling
  BY <1>1 DEF Signalling
<1>5. NobodyFaults' /\ OneStops' /\ EnabledOK'
  BY <1>1 DEF CallbackInv, NobodyFaults, OneStops, EnabledOK
<1>6. RefsOK' /\ SignalOK' /\ CallbackStages'
  BY <1>1, <1>2, <1>3, <1>4 DEF CallbackInv, RefsOK, SignalOK, CallbackStages
<1> QED BY <1>5, <1>6 DEF CallbackInv

\* The thread that disables the log does so alone.
LEMMA StopsAlone ==
  ASSUME CallbackInv, TypeOK, NEW d \in Stoppers, pc[d] # "idle",
         NEW l \in StopLabels, At(d, l)
  PROVE  /\ pc'[d] = l /\ \A u \in Inserters : pc'[u] = pc[u]
         /\ \A e \in Stoppers : e # d => pc[e] = "idle" /\ pc'[e] = "idle"
         /\ Users' = Users /\ (Signalling' <=> Signalling)
         /\ Unregistered <=> callback = "freed" \/ pc[d] \in {"unlink", "await", "free"}
         /\ Unregistered' <=> callback' = "freed" \/ l \in {"unlink", "await", "free"}
         /\ NobodyFaults'
<1>1. pc'[d] = l /\ \A u \in Inserters : pc'[u] = pc[u]
  BY StopperMoves, Threads
<1>2. \A e \in Stoppers : e # d => pc[e] = "idle" /\ pc'[e] = "idle"
  BY StopperMoves DEF CallbackInv, OneStops
<1>3. Users' = Users /\ (Signalling' <=> Signalling) /\ NobodyFaults'
  BY <1>1 DEF Users, Signalling, CallbackInv, NobodyFaults
<1>4. Unregistered <=> callback = "freed" \/ pc[d] \in {"unlink", "await", "free"}
  BY <1>2 DEF Unregistered
<1>5. Unregistered' <=> callback' = "freed" \/ l \in {"unlink", "await", "free"}
  BY <1>1, <1>2 DEF Unregistered
<1> QED BY <1>1, <1>2, <1>3, <1>4, <1>5

LEMMA CallbackStep ==
  ASSUME OneDisabler, TypeOK, CallbackInv, [Next]_vars, ~resurrected'
  PROVE  CallbackInv'
<1> USE DEF vars, cb, log, saving, SaverAt
<1>1. CASE UNCHANGED vars \/ Disconnect \/ SaverStep
  BY <1>1, CallbackKept DEF Disconnect, SaverStep, SaverTop, SaverOpen, SaverLoop,
     FlushCache, FlushTake, FlushWrite, FlushDone
<1>2. ASSUME NEW t \in Inserters, NEW r \in Requests, InsertBegin(t, r)
      PROVE  CallbackInv'
  BY <1>2, InserterPasses DEF InsertBegin, InsertLabels, Users
<1>3. ASSUME NEW t \in Inserters, InsertUnwanted(t)
      PROVE  CallbackInv'
  BY <1>3, InserterPasses DEF InsertUnwanted, InsertLabels, Users
<1>4. ASSUME NEW t \in Inserters, InsertRefer(t)
      PROVE  CallbackInv'
  <2>1. /\ pc'[t] = "invoke" /\ \A u \in Inserters : u # t => pc'[u] = pc[u]
        /\ \A d \in Stoppers : pc'[d] = pc[d]
    BY <1>4, InserterMoves, Threads DEF InsertRefer, InsertLabels
  <2>2. t \notin Users /\ Users' = Users \cup {t}
    BY <1>4, <2>1 DEF InsertRefer, Users
  <2>3. /\ IsFiniteSet(Users') /\ Cardinality(Users') = Cardinality(Users) + 1
        /\ Users' # {} /\ Cardinality(Users) \in Nat
    BY <2>2, FS_AddElement, FS_CardinalityType DEF CallbackInv, RefsOK
  <2>4. (Unregistered' <=> Unregistered) /\ (Signalling' <=> Signalling)
    BY <1>4, <2>1 DEF Unregistered, Signalling, InsertRefer
  <2>5. /\ refs # 0 /\ refs' = refs + 1 /\ linked /\ linked' = linked
        /\ UNCHANGED <<callback, event, enabled, unloaded>>
    BY <1>4 DEF InsertRefer
  <2>6. Unregistered => Users # {}
    BY <2>5, FS_EmptySet DEF CallbackInv, RefsOK
  <2>7. RefsOK'
    BY <2>3, <2>4, <2>5 DEF CallbackInv, RefsOK, TypeOK
  <2>8. NobodyFaults' /\ OneStops' /\ EnabledOK'
    BY <2>1, <2>5 DEF CallbackInv, NobodyFaults, OneStops, EnabledOK
  <2>9. SignalOK'
    BY <2>1, <2>4, <2>5 DEF CallbackInv, SignalOK
  <2>10. CallbackStages'
    BY <2>1, <2>3, <2>4, <2>5, <2>6 DEF CallbackInv, CallbackStages, Unregistered
  <2> QED BY <2>7, <2>8, <2>9, <2>10 DEF CallbackInv
<1>5. ASSUME NEW t \in Inserters, InvokeCache(t)
      PROVE  CallbackInv'
  BY <1>5, InserterPasses DEF InvokeCache, InsertLabels, Users
<1>6. ASSUME NEW t \in Inserters, InvokeFlush(t)
      PROVE  CallbackInv'
  BY <1>6, InserterPasses DEF InvokeFlush, InsertLabels, Users
<1>7. ASSUME NEW t \in Inserters, InvokeAppend(t)
      PROVE  CallbackInv'
  BY <1>7, InserterPasses DEF InvokeAppend, InsertLabels, Users
<1>8. ASSUME NEW t \in Inserters, InsertDereference(t)
      PROVE  CallbackInv'
  <2> DEFINE l == IF refs = 1 THEN "signal" ELSE "idle"
  <2>1. /\ pc'[t] = l /\ \A u \in Inserters : u # t => pc'[u] = pc[u]
        /\ \A d \in Stoppers : pc'[d] = pc[d]
    BY <1>8, InserterMoves, Threads DEF InsertDereference, InsertLabels
  <2>2. t \in Users /\ Users' = Users \ {t}
    BY <1>8, <2>1 DEF InsertDereference, Users
  <2>3. /\ IsFiniteSet(Users') /\ Cardinality(Users') = Cardinality(Users) - 1
        /\ Cardinality(Users) \in Nat /\ Cardinality(Users') \in Nat
        /\ Cardinality(Users') = 0 <=> Users' = {}
    BY <2>2, FS_RemoveElement, FS_CardinalityType, FS_EmptySet DEF CallbackInv, RefsOK
  <2>4. /\ refs' = refs - 1 /\ linked /\ linked' = (refs # 1)
        /\ UNCHANGED <<callback, event, enabled, unloaded>>
    BY <1>8 DEF InsertDereference
  <2>5. Unregistered' <=> Unregistered
    BY <2>1, <2>4 DEF Unregistered
  <2>6. /\ refs = 1 => Unregistered /\ Users' = {}
        /\ Users' = {} /\ Unregistered => refs = 1
    BY <2>3 DEF CallbackInv, RefsOK
  <2>7. ~Signalling /\ ~event
    BY <2>4 DEF CallbackInv, SignalOK
  <2>8. Signalling' <=> refs = 1
    BY <2>1, <2>7 DEF Signalling
  <2>9. refs = 1 => \E d \in Stoppers : pc[d] = "await"
    BY <2>2, <2>4, <2>6 DEF CallbackInv, CallbackStages, Unregistered
  <2>10. RefsOK'
    <3>1. refs' = Cardinality(Users') + (IF Unregistered' THEN 0 ELSE 1)
      <4>1. refs = Cardinality(Users) + (IF Unregistered THEN 0 ELSE 1)
        BY DEF CallbackInv, RefsOK
      <4>2. Unregistered' = Unregistered
        BY <2>5
      <4> QED BY <2>3, <2>4, <4>1, <4>2
    <3>2. ~linked' => Unregistered' /\ Users' = {}
      BY <2>4, <2>5, <2>6
    <3> QED BY <2>3, <3>1, <3>2 DEF RefsOK
  <2>11. NobodyFaults' /\ OneStops' /\ EnabledOK'
    BY <2>1, <2>4 DEF CallbackInv, NobodyFaults, OneStops, EnabledOK
  <2>12. SignalOK'
    <3>1. \A u, v \in Inserters : pc'[u] = "signal" /\ pc'[v] = "signal" => u = v
      BY <2>1, <2>7 DEF Signalling
    <3>2. Signalling' => ~event' /\ ~linked' /\ \E d \in Stoppers : pc'[d] = "await"
      BY <2>1, <2>4, <2>7, <2>8, <2>9
    <3>3. ~event'
      BY <2>4, <2>7
    <3> QED BY <3>1, <3>2, <3>3 DEF SignalOK
  <2>13. CallbackStages'
    <3>1. ASSUME NEW d \in Stoppers, pc[d] \in {"await", "unlink", "free"}
          PROVE  /\ pc[d] = "await" /\ Unregistered /\ callback = "live"
                 /\ Signalling' \/ event' \/ (linked' /\ Users' # {})
      <4>1. pc[d] = "await"
        BY <3>1, <2>2, <2>4 DEF CallbackInv, CallbackStages
      <4>2. Unregistered /\ callback = "live"
        BY <4>1 DEF Unregistered, CallbackInv, CallbackStages
      <4>3. CASE refs = 1
        BY <2>8, <4>1, <4>2, <4>3
      <4>4. CASE refs # 1
        BY <2>4, <2>6, <4>1, <4>2, <4>4
      <4> QED BY <4>3, <4>4
    <3>2. callback # "freed"
      BY <2>4 DEF CallbackInv, CallbackStages
    <3> QED BY <2>1, <2>4, <3>1, <3>2 DEF CallbackInv, CallbackStages
  <2> QED BY <2>10, <2>11, <2>12, <2>13 DEF CallbackInv
<1>9. ASSUME NEW t \in Inserters, InsertSignal(t)
      PROVE  CallbackInv'
  <2>1. /\ pc'[t] = "idle" /\ \A u \in Inserters : u # t => pc'[u] = pc[u]
        /\ \A d \in Stoppers : pc'[d] = pc[d]
    BY <1>9, InserterMoves, Threads DEF InsertSignal, InsertLabels
  <2>2. /\ pc[t] = "signal" /\ event' = TRUE
        /\ UNCHANGED <<linked, refs, callback, enabled, unloaded>>
    BY <1>9 DEF InsertSignal
  <2>3. Signalling /\ ~linked /\ \A u \in Inserters : pc[u] = "signal" => u = t
    BY <2>2 DEF Signalling, CallbackInv, SignalOK
  <2>4. Users' = Users /\ (Unregistered' <=> Unregistered) /\ ~Signalling'
    BY <2>1, <2>2, <2>3 DEF Users, Unregistered, Signalling
  <2>5. RefsOK'
    BY <2>2, <2>4 DEF CallbackInv, RefsOK
  <2>6. NobodyFaults' /\ OneStops' /\ EnabledOK'
    BY <2>1, <2>2 DEF CallbackInv, NobodyFaults, OneStops, EnabledOK
  <2>7. SignalOK'
    BY <2>1, <2>2, <2>3, <2>4 DEF SignalOK, Signalling
  <2>8. CallbackStages'
    BY <2>1, <2>2, <2>3, <2>4 DEF CallbackInv, CallbackStages
  <2> QED BY <2>5, <2>6, <2>7, <2>8 DEF CallbackInv
<1>10. ASSUME NEW t \in Inserters, InsertFault(t)
       PROVE  CallbackInv'
  <2>1. CASE pc[t] \in {"invoke", "dereference"} /\ ~linked
    BY <2>1 DEF CallbackInv, RefsOK, Users
  <2>2. CASE pc[t] = "signal" /\ callback = "freed"
    BY <2>2 DEF CallbackInv, CallbackStages, Signalling
  <2> QED BY <1>10, <2>1, <2>2 DEF InsertFault
<1>11. ASSUME NEW d \in Stoppers, pc[d] = "idle", At(d, "check"),
              \A e \in Stoppers : pc[e] = "idle", ~unloaded,
              UNCHANGED <<enabled, cb, unloaded>>
       PROVE  CallbackInv'
  <2>1. /\ pc'[d] = "check" /\ \A u \in Inserters : pc'[u] = pc[u]
        /\ \A e \in Stoppers : e # d => pc'[e] = "idle"
    BY <1>11, StopperMoves, Threads DEF StopLabels
  <2>2. Users' = Users /\ (Signalling' <=> Signalling) /\ NobodyFaults'
    BY <2>1 DEF Users, Signalling, CallbackInv, NobodyFaults
  <2>3. ~Signalling /\ (Unregistered <=> callback = "freed")
        /\ (Unregistered' <=> callback' = "freed")
    BY <1>11, <2>1 DEF CallbackInv, SignalOK, Unregistered
  <2>4. RefsOK'
    BY <1>11, <2>2, <2>3 DEF CallbackInv, RefsOK
  <2>5. OneStops' /\ EnabledOK'
    BY <1>11, <2>1 DEF OneStops, EnabledOK, CallbackInv
  <2>6. SignalOK' /\ CallbackStages'
    BY <1>11, <2>1, <2>2, <2>3 DEF SignalOK, CallbackStages, CallbackInv
  <2> QED BY <2>2, <2>4, <2>5, <2>6 DEF CallbackInv
<1>12. ASSUME NEW d \in Disablers, Connect(d)
       PROVE  CallbackInv'
  <2>1. d \in Stoppers /\ \A e \in Stoppers : pc[e] = "idle"
    BY <1>12, Threads DEF Connect, OneDisabler, Stoppers
  <2> QED BY <1>11, <1>12, <2>1 DEF Connect
<1>13. CASE Unload
  <2>1. Unloader \in Stoppers /\ \A e \in Stoppers : pc[e] = "idle"
    BY <1>13, Threads DEF Unload, Stoppers
  <2> QED BY <1>11, <1>13, <2>1 DEF Unload
<1>14. ASSUME NEW d \in Stoppers, DisableCheck(d)
       PROVE  CallbackInv'
  <2> DEFINE l == IF enabled THEN "unregister" ELSE "join"
  <2>1. /\ pc[d] = "check" /\ l \in StopLabels /\ At(d, l)
        /\ UNCHANGED <<enabled, cb, unloaded>>
    BY <1>14 DEF DisableCheck, StopLabels
  <2>2. /\ pc'[d] = l /\ \A u \in Inserters : pc'[u] = pc[u]
        /\ \A e \in Stoppers : e # d => pc[e] = "idle" /\ pc'[e] = "idle"
        /\ Users' = Users /\ (Signalling' <=> Signalling)
        /\ (Unregistered <=> callback = "freed")
        /\ (Unregistered' <=> callback' = "freed") /\ NobodyFaults'
    BY <2>1, StopsAlone
  <2>3. ~Signalling /\ (enabled => callback = "live")
    BY <2>1, <2>2 DEF CallbackInv, SignalOK, EnabledOK, TypeOK
  <2>4. RefsOK' /\ OneStops' /\ EnabledOK'
    BY <2>1, <2>2 DEF CallbackInv, RefsOK, OneStops, EnabledOK
  <2>5. SignalOK' /\ CallbackStages'
    BY <2>1, <2>2, <2>3 DEF CallbackInv, SignalOK, CallbackStages
  <2> QED BY <2>2, <2>4, <2>5 DEF CallbackInv
<1>15. ASSUME NEW d \in Stoppers, Unregister(d)
       PROVE  CallbackInv'
  <2> DEFINE l == IF refs = 1 THEN "unlink" ELSE "await"
  <2>1. /\ pc[d] = "unregister" /\ l \in StopLabels /\ At(d, l)
        /\ UNCHANGED <<enabled, linked, callback, event, unloaded>> /\ refs' = refs - 1
    BY <1>15 DEF Unregister, StopLabels
  <2>2. /\ pc'[d] = l /\ \A u \in Inserters : pc'[u] = pc[u]
        /\ \A e \in Stoppers : e # d => pc[e] = "idle" /\ pc'[e] = "idle"
        /\ Users' = Users /\ (Signalling' <=> Signalling)
        /\ (Unregistered <=> callback = "freed")
        /\ Unregistered' /\ NobodyFaults'
    BY <2>1, StopsAlone
  <2>3. ~Signalling /\ callback = "live" /\ enabled /\ ~Unregistered /\ linked
    BY <2>1, <2>2 DEF CallbackInv, SignalOK, CallbackStages, RefsOK
  <2>4. /\ Cardinality(Users) \in Nat /\ (refs = 1 <=> Users = {})
    BY <2>3, FS_CardinalityType, FS_EmptySet DEF CallbackInv, RefsOK
  <2>5. RefsOK'
    BY <2>1, <2>2, <2>3, <2>4 DEF CallbackInv, RefsOK
  <2>6. OneStops' /\ EnabledOK'
    BY <2>1, <2>2, <2>3 DEF CallbackInv, OneStops, EnabledOK
  <2>7. SignalOK' /\ CallbackStages'
    BY <2>1, <2>2, <2>3, <2>4 DEF CallbackInv, SignalOK, CallbackStages
  <2> QED BY <2>2, <2>5, <2>6, <2>7 DEF CallbackInv
<1>16. ASSUME NEW d \in Stoppers, Unlink(d)
       PROVE  CallbackInv'
  <2>1. /\ pc[d] = "unlink" /\ "free" \in StopLabels /\ At(d, "free") /\ linked' = FALSE
        /\ UNCHANGED <<enabled, refs, callback, event, unloaded>>
    BY <1>16 DEF Unlink, StopLabels
  <2>2. /\ pc'[d] = "free" /\ \A u \in Inserters : pc'[u] = pc[u]
        /\ \A e \in Stoppers : e # d => pc[e] = "idle" /\ pc'[e] = "idle"
        /\ Users' = Users /\ (Signalling' <=> Signalling)
        /\ Unregistered /\ Unregistered' /\ NobodyFaults'
    BY <2>1, StopsAlone
  <2>3. ~Signalling /\ callback = "live" /\ enabled /\ Users = {} /\ linked /\ ~event
    BY <2>1, <2>2 DEF CallbackInv, SignalOK, CallbackStages
  <2>4. RefsOK' /\ OneStops' /\ EnabledOK'
    BY <2>1, <2>2, <2>3 DEF CallbackInv, RefsOK, OneStops, EnabledOK
  <2>5. SignalOK' /\ CallbackStages'
    BY <2>1, <2>2, <2>3 DEF CallbackInv, SignalOK, CallbackStages
  <2> QED BY <2>2, <2>4, <2>5 DEF CallbackInv
<1>17. ASSUME NEW d \in Stoppers, Await(d)
       PROVE  CallbackInv'
  <2>1. /\ pc[d] = "await" /\ "free" \in StopLabels /\ At(d, "free") /\ event
        /\ UNCHANGED <<enabled, cb, unloaded>>
    BY <1>17 DEF Await, StopLabels
  <2>2. /\ pc'[d] = "free" /\ \A u \in Inserters : pc'[u] = pc[u]
        /\ \A e \in Stoppers : e # d => pc[e] = "idle" /\ pc'[e] = "idle"
        /\ Users' = Users /\ (Signalling' <=> Signalling)
        /\ Unregistered /\ Unregistered' /\ NobodyFaults'
    BY <2>1, StopsAlone
  <2>3. ~Signalling /\ callback = "live" /\ enabled /\ ~linked
    BY <2>1, <2>2 DEF CallbackInv, SignalOK, CallbackStages
  <2>4. RefsOK' /\ OneStops' /\ EnabledOK'
    BY <2>1, <2>2, <2>3 DEF CallbackInv, RefsOK, OneStops, EnabledOK
  <2>5. SignalOK' /\ CallbackStages'
    BY <2>1, <2>2, <2>3 DEF CallbackInv, SignalOK, CallbackStages
  <2> QED BY <2>2, <2>4, <2>5 DEF CallbackInv
<1>18. ASSUME NEW d \in Stoppers, FreeCallback(d)
       PROVE  CallbackInv'
  <2>1. /\ pc[d] = "free" /\ "stop" \in StopLabels /\ At(d, "stop") /\ callback' = "freed"
        /\ UNCHANGED <<enabled, linked, refs, event, unloaded>>
    BY <1>18 DEF FreeCallback, StopLabels
  <2>2. /\ pc'[d] = "stop" /\ \A u \in Inserters : pc'[u] = pc[u]
        /\ \A e \in Stoppers : e # d => pc[e] = "idle" /\ pc'[e] = "idle"
        /\ Users' = Users /\ (Signalling' <=> Signalling)
        /\ Unregistered /\ Unregistered' /\ NobodyFaults'
    BY <2>1, StopsAlone
  <2>3. ~Signalling /\ enabled /\ ~linked
    BY <2>1, <2>2 DEF CallbackInv, CallbackStages
  <2>4. RefsOK' /\ OneStops' /\ EnabledOK'
    BY <2>1, <2>2, <2>3 DEF CallbackInv, RefsOK, OneStops, EnabledOK
  <2>5. SignalOK' /\ CallbackStages'
    BY <2>1, <2>2, <2>3 DEF CallbackInv, SignalOK, CallbackStages
  <2> QED BY <2>2, <2>4, <2>5 DEF CallbackInv
<1>19. ASSUME NEW d \in Stoppers, Stop(d)
       PROVE  CallbackInv'
  <2>1. /\ pc[d] = "stop" /\ "join" \in StopLabels /\ At(d, "join") /\ enabled' = FALSE
        /\ UNCHANGED <<cb, unloaded>>
    BY <1>19 DEF Stop, StopLabels
  <2>2. /\ pc'[d] = "join" /\ \A u \in Inserters : pc'[u] = pc[u]
        /\ \A e \in Stoppers : e # d => pc[e] = "idle" /\ pc'[e] = "idle"
        /\ Users' = Users /\ (Signalling' <=> Signalling)
        /\ (Unregistered <=> callback = "freed")
        /\ (Unregistered' <=> callback' = "freed") /\ NobodyFaults'
    BY <2>1, StopsAlone
  <2>3. ~Signalling /\ callback = "freed" /\ ~linked
    BY <2>1 DEF CallbackInv, CallbackStages, EnabledOK
  <2>4. RefsOK' /\ OneStops' /\ EnabledOK'
    BY <2>1, <2>2, <2>3 DEF CallbackInv, RefsOK, OneStops, EnabledOK
  <2>5. SignalOK' /\ CallbackStages'
    BY <2>1, <2>2, <2>3 DEF CallbackInv, SignalOK, CallbackStages
  <2> QED BY <2>2, <2>4, <2>5 DEF CallbackInv
<1>20. ASSUME NEW d \in Stoppers, Join(d)
       PROVE  CallbackInv'
  <2> DEFINE l == IF d = Unloader THEN "purge" ELSE "idle"
  <2>1. /\ pc[d] = "join" /\ l \in StopLabels /\ At(d, l)
        /\ UNCHANGED <<enabled, cb, unloaded>>
    BY <1>20 DEF Join, StopLabels
  <2>2. /\ pc'[d] = l /\ \A u \in Inserters : pc'[u] = pc[u]
        /\ \A e \in Stoppers : e # d => pc[e] = "idle" /\ pc'[e] = "idle"
        /\ Users' = Users /\ (Signalling' <=> Signalling)
        /\ (Unregistered <=> callback = "freed")
        /\ (Unregistered' <=> callback' = "freed") /\ NobodyFaults'
    BY <2>1, StopsAlone
  <2>3. ~Signalling
    BY <2>1, <2>2 DEF CallbackInv, SignalOK
  <2>4. RefsOK' /\ OneStops' /\ EnabledOK'
    BY <2>1, <2>2 DEF CallbackInv, RefsOK, OneStops, EnabledOK
  <2>5. SignalOK' /\ CallbackStages'
    BY <2>1, <2>2, <2>3 DEF CallbackInv, SignalOK, CallbackStages
  <2> QED BY <2>2, <2>4, <2>5 DEF CallbackInv
<1>21. CASE Purge
  <2>1. /\ Unloader \in Stoppers /\ pc[Unloader] = "purge" /\ "idle" \in StopLabels
        /\ At(Unloader, "idle") /\ UNCHANGED <<enabled, cb>> /\ unloaded' = TRUE
    BY <1>21, Threads DEF Purge, StopLabels
  <2>2. /\ pc'[Unloader] = "idle" /\ \A u \in Inserters : pc'[u] = pc[u]
        /\ \A e \in Stoppers : e # Unloader => pc[e] = "idle" /\ pc'[e] = "idle"
        /\ Users' = Users /\ (Signalling' <=> Signalling)
        /\ (Unregistered <=> callback = "freed")
        /\ (Unregistered' <=> callback' = "freed") /\ NobodyFaults'
    BY <2>1, StopsAlone
  <2>3. ~Signalling
    BY <2>1, <2>2 DEF CallbackInv, SignalOK
  <2>4. RefsOK' /\ OneStops' /\ EnabledOK'
    BY <2>1, <2>2 DEF CallbackInv, RefsOK, OneStops, EnabledOK
  <2>5. SignalOK' /\ CallbackStages'
    BY <2>1, <2>2, <2>3 DEF CallbackInv, SignalOK, CallbackStages
  <2> QED BY <2>2, <2>4, <2>5 DEF CallbackInv
<1> QED BY <1>1, <1>2, <1>3, <1>4, <1>5, <1>6, <1>7, <1>8, <1>9, <1>10, <1>12, <1>13,
        <1>14, <1>15, <1>16, <1>17, <1>18, <1>19, <1>20, <1>21
    DEF Next, InsertStep, DisableStep

-----------------------------------------------------------------------------
(* The saving thread and the unloading driver.                             *)

\* Nobody is on the way to the lists once the log is disabled.
LEMMA DisabledIsQuiet ==
  ASSUME CallbackInv, TypeOK, LogBoot, ~enabled \/ callback = "freed"
  PROVE  callback = "freed" /\ Users = {}
  BY DEF CallbackInv, RefsOK, EnabledOK, CallbackStages

LEMMA SaverStepKeeps ==
  ASSUME TypeOK, CallbackInv, SaverInv, [Next]_vars
  PROVE  SaverInv'
<1> USE DEF vars, cb, log, saving, SaverAt
<1>1. ASSUME UNCHANGED <<np, paged, headed, saver, final>>, enabled' => enabled
      PROVE  SaverInv'
  BY <1>1 DEF SaverInv
<1>2. ASSUME NEW t \in Inserters, t \in Users, UNCHANGED <<enabled, headed, saver, final>>
      PROVE  SaverInv'
  BY <1>2, DisabledIsQuiet DEF SaverInv
<1>3. CASE UNCHANGED vars \/ Disconnect \/ Unload
  BY <1>1, <1>3 DEF Disconnect, Unload
<1>4. ASSUME NEW t \in Inserters, NEW r \in Requests, InsertBegin(t, r)
      PROVE  SaverInv'
  BY <1>1, <1>4 DEF InsertBegin
<1>5. ASSUME NEW t \in Inserters, InsertStep(t)
      PROVE  SaverInv'
  <2>1. CASE InvokeCache(t)
    BY <1>2, <2>1 DEF InvokeCache, Users
  <2>2. CASE InvokeFlush(t)
    BY <1>2, <2>2 DEF InvokeFlush, Users
  <2>3. CASE InvokeAppend(t)
    BY <1>2, <2>3 DEF InvokeAppend, Users
  <2>4. CASE ~(InvokeCache(t) \/ InvokeFlush(t) \/ InvokeAppend(t))
    BY <1>1, <1>5, <2>4 DEF InsertStep, InsertUnwanted, InsertRefer, InsertDereference,
       InsertSignal, InsertFault
  <2> QED BY <2>1, <2>2, <2>3, <2>4
<1>6. ASSUME NEW d \in Disablers, Connect(d)
      PROVE  SaverInv'
  BY <1>1, <1>6 DEF Connect
<1>7. ASSUME NEW d \in Stoppers, DisableStep(d)
      PROVE  SaverInv'
  BY <1>1, <1>7 DEF DisableStep, DisableCheck, Unregister, Unlink, Await, FreeCallback,
     Stop, Join
<1>8. CASE Purge
  BY <1>8 DEF Purge, SaverInv
<1>9. CASE SaverTop
  BY <1>9 DEF SaverTop, SaverInv, CallbackInv, EnabledOK
<1>10. CASE SaverOpen
  <2>1. saver = "open" /\ ~headed /\ LogBoot /\ UNCHANGED <<enabled, np, paged>>
    BY <1>10 DEF SaverOpen, SaverInv
  <2>2. CASE UNCHANGED <<headed, final>> /\ saver' = "top"
    BY <2>1, <2>2 DEF SaverInv
  <2>3. ASSUME NEW header \in HeaderResults,
               saver' = IF header THEN "loop" ELSE "cache",
               headed' = header, final' = ~header
        PROVE  SaverInv'
    <3>1. CASE header
      BY <2>1, <2>3, <3>1 DEF SaverInv
    <3>2. CASE ~header
      BY <2>1, <2>3, <3>2 DEF SaverInv
    <3> QED BY <3>1, <3>2
  <2> QED BY <1>10, <2>2, <2>3 DEF SaverOpen
<1>11. CASE SaverLoop
  BY <1>11 DEF SaverLoop, SaverInv
<1>12. CASE FlushCache
  BY <1>12 DEF FlushCache, SaverInv
<1>13. CASE FlushTake
  BY <1>13 DEF FlushTake, SaverInv
<1>14. CASE FlushWrite
  BY <1>14 DEF FlushWrite, SaverInv
<1>15. CASE FlushDone
  BY <1>15 DEF FlushDone, SaverInv
<1> QED BY <1>3, <1>4, <1>5, <1>6, <1>7, <1>8, <1>9, <1>10, <1>11, <1>12, <1>13, <1>14,
        <1>15
    DEF Next, SaverStep

LEMMA UnloadStepKeeps ==
  ASSUME TypeOK, CallbackInv, UnloadInv, LogBoot, [Next]_vars
  PROVE  UnloadInv'
<1> USE DEF vars, cb, log, saving, SaverAt
<1>0. Unloader \in Stoppers /\ Disablers \subseteq Stoppers /\ Unloader \notin Disablers
      /\ \A t \in Inserters : t \notin Stoppers
  BY Threads, BootLogAssumption
<1>1. ASSUME \A d \in Stoppers : pc'[d] = pc[d], enabled' => enabled,
             UNCHANGED <<np, paged, saver, callback, unloaded>>
      PROVE  UnloadInv'
  BY <1>0, <1>1 DEF UnloadInv
<1>2. ASSUME NEW t \in Inserters, NEW l \in InsertLabels, At(t, l), t \in Users,
             UNCHANGED <<enabled, saver, callback, unloaded>>
      PROVE  UnloadInv'
  <2>1. \A d \in Stoppers : pc'[d] = pc[d]
    BY <1>0, <1>2, InserterMoves
  <2>2. pc[Unloader] # "purge" /\ ~unloaded
    BY <1>2, DisabledIsQuiet DEF UnloadInv
  <2> QED BY <1>0, <1>2, <2>1, <2>2 DEF UnloadInv
<1>3. CASE UNCHANGED vars \/ Disconnect
  BY <1>1, <1>3 DEF Disconnect
<1>4. ASSUME NEW t \in Inserters, NEW r \in Requests, InsertBegin(t, r)
      PROVE  UnloadInv'
  BY <1>0, <1>1, <1>4, InserterMoves DEF InsertBegin, InsertLabels
<1>5. ASSUME NEW t \in Inserters, InsertStep(t)
      PROVE  UnloadInv'
  <2>1. CASE InvokeCache(t)
    BY <1>2, <2>1 DEF InvokeCache, Users, InsertLabels
  <2>2. CASE InvokeFlush(t)
    BY <1>2, <2>2 DEF InvokeFlush, Users, InsertLabels
  <2>3. CASE InvokeAppend(t)
    BY <1>2, <2>3 DEF InvokeAppend, Users, InsertLabels
  <2>4. CASE ~(InvokeCache(t) \/ InvokeFlush(t) \/ InvokeAppend(t))
    <3>1. /\ UNCHANGED <<enabled, np, paged, saver, callback, unloaded>>
          /\ \E l \in InsertLabels : At(t, l)
      BY <1>5, <2>4 DEF InsertStep, InsertUnwanted, InsertRefer, InsertDereference,
         InsertSignal, InsertFault, InsertLabels
    <3>2. \A d \in Stoppers : pc'[d] = pc[d]
      BY <1>0, <3>1, InserterMoves
    <3> QED BY <1>1, <3>1, <3>2
  <2> QED BY <2>1, <2>2, <2>3, <2>4
<1>6. ASSUME NEW d \in Stoppers, NEW l \in StopLabels, At(d, l), l \notin {"join", "purge"},
             UNCHANGED <<enabled, np, paged, saver, callback, unloaded>>
      PROVE  UnloadInv'
  BY <1>0, <1>6, StopperMoves DEF UnloadInv
<1>7. ASSUME NEW d \in Disablers, Connect(d)
      PROVE  UnloadInv'
  BY <1>0, <1>6, <1>7 DEF Connect, StopLabels
<1>8. CASE Unload
  BY <1>0, <1>6, <1>8 DEF Unload, StopLabels
<1>9. ASSUME NEW d \in Stoppers, DisableCheck(d)
      PROVE  UnloadInv'
  <2>1. (IF enabled THEN "unregister" ELSE "join") \in StopLabels
    BY DEF StopLabels
  <2> QED BY <1>0, <1>9, <2>1, StopperMoves DEF DisableCheck, UnloadInv
<1>10. ASSUME NEW d \in Stoppers, Unregister(d)
       PROVE  UnloadInv'
  <2>1. (IF refs = 1 THEN "unlink" ELSE "await") \in StopLabels
    BY DEF StopLabels
  <2> QED BY <1>6, <1>10, <2>1 DEF Unregister
<1>11. ASSUME NEW d \in Stoppers, Unlink(d)
       PROVE  UnloadInv'
  BY <1>6, <1>11 DEF Unlink, StopLabels
<1>12. ASSUME NEW d \in Stoppers, Await(d)
       PROVE  UnloadInv'
  BY <1>6, <1>12 DEF Await, StopLabels
<1>13. ASSUME NEW d \in Stoppers, FreeCallback(d)
       PROVE  UnloadInv'
  BY <1>0, <1>13, StopperMoves DEF FreeCallback, StopLabels, UnloadInv
<1>14. ASSUME NEW d \in Stoppers, Stop(d)
       PROVE  UnloadInv'
  BY <1>0, <1>14, StopperMoves DEF Stop, StopLabels, UnloadInv
<1>15. ASSUME NEW d \in Stoppers, Join(d)
       PROVE  UnloadInv'
  <2>1. (IF d = Unloader THEN "purge" ELSE "idle") \in StopLabels
    BY DEF StopLabels
  <2>2. ~enabled /\ callback = "freed" /\ saver = "ended"
    BY <1>15, DisabledIsQuiet DEF Join, UnloadInv
  <2> QED BY <1>0, <1>15, <2>1, <2>2, StopperMoves DEF Join, UnloadInv
<1>16. CASE Purge
  BY <1>0, <1>16, StopperMoves DEF Purge, StopLabels, UnloadInv
<1>17. CASE SaverStep
  <2>1. saver # "ended" /\ UNCHANGED <<pc, enabled, callback, unloaded>>
    BY <1>17 DEF SaverStep, SaverTop, SaverOpen, SaverLoop, FlushCache, FlushTake,
       FlushWrite, FlushDone
  <2> QED BY <1>0, <2>1 DEF UnloadInv
<1> QED BY <1>3, <1>4, <1>5, <1>7, <1>8, <1>9, <1>10, <1>11, <1>12, <1>13, <1>14,
        <1>15, <1>16, <1>17
    DEF Next, DisableStep

LEMMA InvInit ==
  ASSUME Init
  PROVE  Inv
<1> USE DEF Init
<1>1. Users = {} /\ ~Unregistered /\ ~Signalling
  BY Threads DEF Users, Unregistered, Signalling
<1>2. RefsOK
  BY <1>1, FS_EmptySet DEF RefsOK
<1>3. NobodyFaults /\ OneStops /\ SignalOK /\ CallbackStages /\ EnabledOK
  BY <1>1, Threads DEF NobodyFaults, OneStops, SignalOK, CallbackStages, EnabledOK
<1>4. SaverInv /\ UnloadInv
  BY Threads DEF SaverInv, UnloadInv
<1> QED BY <1>2, <1>3, <1>4 DEF Inv, CallbackInv

LEMMA InvStep ==
  ASSUME OneDisabler, PlaceInv, Inv, [Next]_vars
  PROVE  Inv'
<1> SUFFICES ASSUME ~resurrected'
             PROVE  CallbackInv' /\ SaverInv' /\ (LogBoot => UnloadInv')
  BY DEF Inv
<1>1. ~resurrected
  BY DEF Next, InsertStep, DisableStep, SaverStep, vars, InsertBegin, InsertUnwanted,
     InsertRefer, InvokeCache, InvokeFlush, InvokeAppend, InsertDereference,
     InsertSignal, InsertFault, Connect, Disconnect, Unload, DisableCheck, Unregister,
     Unlink, Await, FreeCallback, Stop, Join, Purge, SaverTop, SaverOpen, SaverLoop,
     FlushCache, FlushTake, FlushWrite, FlushDone
<1>2. TypeOK /\ CallbackInv /\ SaverInv /\ (LogBoot => UnloadInv)
  BY <1>1 DEF Inv, PlaceInv
<1> QED BY <1>2, CallbackStep, SaverStepKeeps, UnloadStepKeeps

\* What the callback's users, the thread that disables the log and the saving
\* thread know of each other.
THEOREM InvInvariance ==
  ASSUME OneDisabler
  PROVE  Spec => [](PlaceInv /\ Inv)
<1>1. Init => PlaceInv /\ Inv
  BY PlaceInit, InvInit
<1>2. PlaceInv /\ Inv /\ [Next]_vars => (PlaceInv /\ Inv)'
  BY PlaceStep, InvStep
<1> QED BY <1>1, <1>2, PTL DEF Spec

\* RequestQueueCallbackUnregister (req-queue.c) frees the callback record when no
\* inserting thread uses it any more, except after the one race the run shows: a
\* reference taken when the last one has been dropped and the record not unlinked.
THEOREM CallbackSafe ==
  ASSUME OneDisabler
  PROVE  Spec => []CallbackOutlivesUse
<1>1. PlaceInv /\ Inv => CallbackOutlivesUse
  BY DEF Inv, CallbackInv, RefsOK, CallbackStages, NobodyFaults, Users, Signalling,
     CallbackOutlivesUse
<1> QED BY InvInvariance, <1>1, PTL

\* _BLSaveThread leaves its loop only after the callback is gone, and its last
\* flush (boot-log.c, _FlushBootRequests) empties both lists.
THEOREM DisableSaves ==
  ASSUME OneDisabler
  PROVE  Spec => []DisableSavesAll
<1>1. PlaceInv /\ Inv => DisableSavesAll
  BY DEF Inv, SaverInv, PlaceInv, BatchOK, DisableSavesAll
<1> QED BY InvInvariance, <1>1, PTL

\* After BLModuleFinit the log holds no record and none is on its way to it.  When
\* the setting is off the callback is never unregistered, so the theorem is about
\* the log that is on.
THEOREM UnloadClean ==
  ASSUME OneDisabler, LogBoot
  PROVE  Spec => []UnloadLeavesNothing
<1>1. ASSUME PlaceInv, Inv
      PROVE  UnloadLeavesNothing
  <2> SUFFICES ASSUME unloaded, ~resurrected, NEW r \in Requests, mem[r] = "live"
               PROVE  \E t \in Inserters : pc[t] = "refer" /\ r \in ToSet(hand[t])
    BY DEF UnloadLeavesNothing
  <2>1. np = <<>> /\ paged = <<>> /\ batch = <<>> /\ Users = {} /\ NobodyFaults
    BY <1>1 DEF Inv, UnloadInv, PlaceInv, BatchOK, CallbackInv, CallbackStages, RefsOK
  <2>2. PICK t \in Inserters : r \in ToSet(hand[t])
    BY <1>1, <2>1, EmptyFacts DEF PlaceInv, LiveSomewhere
  <2>3. pc[t] \notin {"idle", "dereference", "signal"}
    BY <1>1, <2>2, EmptyFacts DEF PlaceInv, HandsOK
  <2>4. pc[t] = "refer"
    BY <1>1, <2>1, <2>3 DEF PlaceInv, TypeOK, InsertLabels, Users, NobodyFaults
  <2> QED BY <2>2, <2>4
<1> QED BY InvInvariance, <1>1, PTL
=============================================================================
