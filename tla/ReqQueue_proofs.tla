--------------------------- MODULE ReqQueue_proofs --------------------------
(***************************************************************************)
(* The event queue, for any numbers of records, inserting threads and      *)
(* clients: each record is in one place; the statistics counters follow    *)
(* the lists; a disconnect waits for everyone inside and leaves nothing.   *)
(***************************************************************************)
EXTENDS ReqQueue, FiniteSetTheorems, SequenceTheorems, TLAPS

\* What a thread has in hand when it is at label l.
HandOK(l, s) ==
  /\ l \in {"insert.acquire", "insert.callback", "insert.id", "insert.link",
             "insert.count", "get.size", "get.count"}
       => \E r \in Requests : s = <<r>>
  /\ l \in {"connect.link", "connect.count"} => s # <<>>
  /\ l \in {"idle", "insert.release", "connect.list", "connect.disable",
             "disconnect.wait", "disconnect.unset", "disconnect.clear",
             "clear.paged", "get.acquire", "get.remove", "get.release"}
       => s = <<>>

HandsOK == \A t \in Threads : HandOK(pc[t], held[t])

TypeInv == TypeOK /\ HandsOK

\* Freeing records keeps the type of their memory.
LEMMA FreeType ==
  ASSUME TypeOK, NEW S, Free(S)
  PROVE  mem' \in [Requests -> {"unused", "live", "freed", "client", "logged"}]
  BY DEF Free, TypeOK

\* Linking a record keeps the lists sequences of records.
LEMMA LinkType ==
  ASSUME TypeOK, NEW r \in Requests, NEW b \in BOOLEAN, Link(r, b)
  PROVE  paged' \in Seq(Requests) /\ npaged' \in Seq(Requests)
<1>1. Append(paged, r) \in Seq(Requests) /\ Append(npaged, r) \in Seq(Requests)
  BY AppendProperties DEF TypeOK
<1>2. <<r>> \in Seq(Requests)
  OBVIOUS
<1>3. <<r>> \o paged \in Seq(Requests) /\ <<r>> \o npaged \in Seq(Requests)
  BY <1>2, ConcatProperties DEF TypeOK
<1>4. CASE IsPaged(r)
  BY <1>1, <1>3, <1>4 DEF Link, TypeOK
<1>5. CASE ~IsPaged(r)
  BY <1>1, <1>3, <1>5 DEF Link, TypeOK
<1> QED BY <1>4, <1>5

\* Drawing an Id keeps the types of the Ids and of what preceded whom.
LEMMA AssignIdType ==
  ASSUME TypeOK, NEW r \in Requests, AssignId(r)
  PROVE  /\ lastId' \in Nat
         /\ id' \in [Requests -> Nat]
         /\ preds' \in [Requests -> SUBSET Requests]
<1>1. Queued \subseteq Requests
  BY DEF Queued, ToSet, TypeOK
<1>2. InReadersHand \subseteq Requests
  BY QueueAssumption DEF InReadersHand, ToSet, TypeOK, Threads
<1> QED BY <1>1, <1>2 DEF AssignId, TypeOK

\* Counting a record keeps the counters integers.
LEMMA CountType ==
  ASSUME TypeOK, NEW r, Count(r)
  PROVE  length' \in Int /\ pagedLength' \in Int /\ npagedLength' \in Int
  BY DEF Count, TypeOK

\* Taking and giving back the remove lock keep its fields' types.
LEMMA RemoveLockType ==
  ASSUME TypeOK, ReleaseRemoveLock \/ AcquireRemoveLock
  PROVE  ioCount' \in Int /\ removed' \in BOOLEAN /\ removeEvent' \in BOOLEAN
<1>1. ioCount' \in Int
  BY DEF ReleaseRemoveLock, AcquireRemoveLock, TypeOK
<1>2. removed' \in BOOLEAN /\ removeEvent' \in BOOLEAN
  BY Zenon DEF ReleaseRemoveLock, AcquireRemoveLock, TypeOK
<1> QED BY <1>1, <1>2

\* Only thread t moves and only its hand changes.
LEMMA OneThreadMoves ==
  ASSUME TypeInv, NEW t \in Threads,
         NEW l \in Labels, NEW s \in Seq(Requests), HandOK(l, s),
         Go(t, l), Hold(t, s)
  PROVE  /\ pc' \in [Threads -> Labels]
         /\ held' \in [Threads -> Seq(Requests)]
         /\ HandsOK'
<1>1. /\ pc' \in [Threads -> Labels]
      /\ held' \in [Threads -> Seq(Requests)]
  BY DEF TypeInv, TypeOK, Go, Hold
<1>2. ASSUME NEW u \in Threads
      PROVE  HandOK(pc'[u], held'[u])
  <2>1. CASE u = t
    BY <2>1 DEF TypeInv, TypeOK, Go, Hold
  <2>2. CASE u # t
    BY <2>2 DEF TypeInv, TypeOK, HandsOK, Go, Hold
  <2> QED BY <2>1, <2>2
<1> QED BY <1>1, <1>2 DEF HandsOK

\* Thread t moves and keeps what it has in hand.
LEMMA OneThreadKeeps ==
  ASSUME TypeInv, NEW t \in Threads,
         NEW l \in Labels, HandOK(l, held[t]),
         Go(t, l), UNCHANGED held
  PROVE  /\ pc' \in [Threads -> Labels]
         /\ held' \in [Threads -> Seq(Requests)]
         /\ HandsOK'
<1>1. held[t] \in Seq(Requests) /\ Hold(t, held[t])
  BY DEF TypeInv, TypeOK, Hold
<1> QED BY <1>1, OneThreadMoves

\* What remains of a sequence of records is one.
LEMMA HeadType ==
  ASSUME TypeOK, NEW t \in Threads, held[t] # <<>>
  PROVE  Head(held[t]) \in Requests /\ Tail(held[t]) \in Seq(Requests)
  BY HeadTailProperties DEF TypeOK

\* A thread between drawing an Id and counting has a record in hand.
LEMMA HandsHeld ==
  ASSUME TypeInv, NEW t \in Threads,
         pc[t] \in {"insert.acquire", "insert.callback", "insert.id",
                   "insert.link", "insert.count", "connect.link",
                   "connect.count", "get.size", "get.count"}
  PROVE  held[t] # <<>>
  BY DEF TypeInv, HandsOK, HandOK

\* Every step keeps TypeOK and what each thread may have in hand.
LEMMA TypeInvStep ==
  ASSUME TypeInv, [Next]_vars
  PROVE  TypeInv'
<1> USE DEF lists, rlock, settings, counters, ids
<1>1. ASSUME NEW t \in Producers, NEW r \in Requests, InsertBegin(t, r)
      PROVE  TypeInv'
  <2> t \in Threads
    BY QueueAssumption DEF Threads
  <2>1. /\ HandOK((IF connected \/ collect THEN "insert.acquire" ELSE "insert.callback"), <<r>>)
        /\ (IF connected \/ collect THEN "insert.acquire" ELSE "insert.callback") \in Labels
        /\ <<r>> \in Seq(Requests)
    BY <1>1 DEF InsertBegin, TypeInv, TypeOK, HandsOK, HandOK, Labels
  <2>2. /\ pc' \in [Threads -> Labels] /\ held' \in [Threads -> Seq(Requests)]
        /\ HandsOK'
    BY <1>1, <2>1, OneThreadMoves DEF InsertBegin
  <2> QED BY <1>1, <2>2 DEF InsertBegin, TypeInv, TypeOK
<1>2. ASSUME NEW t \in Producers, InsertAcquire(t)
      PROVE  TypeInv'
  <2> t \in Threads
    BY QueueAssumption DEF Threads
  <2>1. HandOK("insert.id", held[t]) /\ "insert.id" \in Labels
    BY <1>2 DEF InsertAcquire, TypeInv, TypeOK, HandsOK, HandOK, Labels
  <2>2. /\ pc' \in [Threads -> Labels] /\ held' \in [Threads -> Seq(Requests)]
        /\ HandsOK'
    BY <1>2, <2>1, OneThreadKeeps DEF InsertAcquire
  <2> QED BY <1>2, <2>2, RemoveLockType DEF InsertAcquire, TypeInv, TypeOK
<1>3. ASSUME NEW t \in Producers, InsertRefused(t)
      PROVE  TypeInv'
  <2> t \in Threads
    BY QueueAssumption DEF Threads
  <2>1. HandOK("idle", <<>>) /\ "idle" \in Labels /\ <<>> \in Seq(Requests)
    BY <1>3 DEF InsertRefused, TypeInv, TypeOK, HandsOK, HandOK, Labels
  <2>2. /\ pc' \in [Threads -> Labels] /\ held' \in [Threads -> Seq(Requests)]
        /\ HandsOK'
    BY <1>3, <2>1, OneThreadMoves DEF InsertRefused
  <2> QED BY <1>3, <2>2, FreeType DEF InsertRefused, TypeInv, TypeOK
<1>4. ASSUME NEW t \in Producers, InsertId(t)
      PROVE  TypeInv'
  <2> t \in Threads
    BY QueueAssumption DEF Threads
  <2>1. HandOK("insert.link", held[t]) /\ "insert.link" \in Labels
    BY <1>4 DEF InsertId, TypeInv, TypeOK, HandsOK, HandOK, Labels
  <2>2. /\ pc' \in [Threads -> Labels] /\ held' \in [Threads -> Seq(Requests)]
        /\ HandsOK'
    BY <1>4, <2>1, OneThreadKeeps DEF InsertId
  <2> QED BY <1>4, <2>2, AssignIdType, HeadType, HandsHeld DEF InsertId,
      TypeInv, TypeOK
<1>5. ASSUME NEW t \in Producers, InsertLink(t)
      PROVE  TypeInv'
  <2> t \in Threads
    BY QueueAssumption DEF Threads
  <2>1. HandOK("insert.count", held[t]) /\ "insert.count" \in Labels
    BY <1>5 DEF InsertLink, TypeInv, TypeOK, HandsOK, HandOK, Labels
  <2>2. /\ pc' \in [Threads -> Labels] /\ held' \in [Threads -> Seq(Requests)]
        /\ HandsOK'
    BY <1>5, <2>1, OneThreadKeeps DEF InsertLink
  <2> QED BY <1>5, <2>2, LinkType, HeadType, HandsHeld DEF InsertLink, TypeInv,
      TypeOK
<1>6. ASSUME NEW t \in Producers, InsertCount(t)
      PROVE  TypeInv'
  <2> t \in Threads
    BY QueueAssumption DEF Threads
  <2>1. /\ HandOK("insert.release", <<>>)
        /\ "insert.release" \in Labels
        /\ <<>> \in Seq(Requests)
    BY <1>6 DEF InsertCount, TypeInv, TypeOK, HandsOK, HandOK, Labels
  <2>2. /\ pc' \in [Threads -> Labels] /\ held' \in [Threads -> Seq(Requests)]
        /\ HandsOK'
    BY <1>6, <2>1, OneThreadMoves DEF InsertCount
  <2> QED BY <1>6, <2>2, CountType DEF InsertCount, TypeInv, TypeOK
<1>7. ASSUME NEW t \in Producers, InsertRelease(t)
      PROVE  TypeInv'
  <2> t \in Threads
    BY QueueAssumption DEF Threads
  <2>1. HandOK("idle", held[t]) /\ "idle" \in Labels
    BY <1>7 DEF InsertRelease, TypeInv, TypeOK, HandsOK, HandOK, Labels
  <2>2. /\ pc' \in [Threads -> Labels] /\ held' \in [Threads -> Seq(Requests)]
        /\ HandsOK'
    BY <1>7, <2>1, OneThreadKeeps DEF InsertRelease
  <2> QED BY <1>7, <2>2, RemoveLockType DEF InsertRelease, TypeInv, TypeOK
<1>8. ASSUME NEW t \in Producers, InsertCallback(t)
      PROVE  TypeInv'
  <2> t \in Threads
    BY QueueAssumption DEF Threads
  <2>1. HandOK("idle", <<>>) /\ "idle" \in Labels /\ <<>> \in Seq(Requests)
    BY <1>8 DEF InsertCallback, TypeInv, TypeOK, HandsOK, HandOK, Labels
  <2>2. /\ pc' \in [Threads -> Labels] /\ held' \in [Threads -> Seq(Requests)]
        /\ HandsOK'
    BY <1>8, <2>1, OneThreadMoves DEF InsertCallback
  <2> QED BY <1>8, <2>2, AssignIdType, FreeType, HeadType, HandsHeld
      DEF InsertCallback, TypeInv, TypeOK
<1>9. ASSUME NEW t \in Clients, ConnectBegin(t)
      PROVE  TypeInv'
  <2> t \in Threads
    BY QueueAssumption DEF Threads
  <2>1. HandOK("connect.list", held[t]) /\ "connect.list" \in Labels
    BY <1>9 DEF ConnectBegin, TypeInv, TypeOK, HandsOK, HandOK, Labels
  <2>2. /\ pc' \in [Threads -> Labels] /\ held' \in [Threads -> Seq(Requests)]
        /\ HandsOK'
    BY <1>9, <2>1, OneThreadKeeps DEF ConnectBegin
  <2>3. removed' \in BOOLEAN /\ removeEvent' \in BOOLEAN /\ ioCount' \in Int
    <3>1. removed' = FALSE /\ removeEvent' = FALSE /\ ioCount' = 2
      BY <1>9 DEF ConnectBegin
    <3>2. ioCount' \in Int
      BY <3>1
    <3>3. removed' \in BOOLEAN /\ removeEvent' \in BOOLEAN
      BY <3>1, Zenon
    <3> QED BY <3>2, <3>3
  <2>4. connectLock' \in Clients \cup {Nobody}
    BY <1>9 DEF ConnectBegin
  <2>5. UNCHANGED <<paged, npaged, connected, bootLog, collect,
      clearOnDisc,
                    lastId, length, pagedLength, npagedLength, mem, id, preds>>
    BY <1>9 DEF ConnectBegin
  <2> QED BY <2>2, <2>3, <2>4, <2>5 DEF TypeInv, TypeOK
<1>10. ASSUME NEW t \in Clients, ConnectFail(t)
      PROVE  TypeInv'
  <2> t \in Threads
    BY QueueAssumption DEF Threads
  <2>1. HandOK("idle", held[t]) /\ "idle" \in Labels
    BY <1>10 DEF ConnectFail, TypeInv, TypeOK, HandsOK, HandOK, Labels
  <2>2. /\ pc' \in [Threads -> Labels] /\ held' \in [Threads -> Seq(Requests)]
        /\ HandsOK'
    BY <1>10, <2>1, OneThreadKeeps DEF ConnectFail
  <2> QED BY <1>10, <2>2, FreeType, RemoveLockType DEF ConnectFail, TypeInv,
      TypeOK
<1>11. ASSUME NEW t \in Clients, ConnectId(t)
      PROVE  TypeInv'
  <2> t \in Threads
    BY QueueAssumption DEF Threads
  <2>1. HandOK("connect.link", held[t]) /\ "connect.link" \in Labels
    BY <1>11 DEF ConnectId, TypeInv, TypeOK, HandsOK, HandOK, Labels
  <2>2. /\ pc' \in [Threads -> Labels] /\ held' \in [Threads -> Seq(Requests)]
        /\ HandsOK'
    BY <1>11, <2>1, OneThreadKeeps DEF ConnectId
  <2> QED BY <1>11, <2>2, AssignIdType, HeadType DEF ConnectId, TypeInv, TypeOK
<1>12. ASSUME NEW t \in Clients, ConnectLink(t)
      PROVE  TypeInv'
  <2> t \in Threads
    BY QueueAssumption DEF Threads
  <2>1. HandOK("connect.count", held[t]) /\ "connect.count" \in Labels
    BY <1>12 DEF ConnectLink, TypeInv, TypeOK, HandsOK, HandOK, Labels
  <2>2. /\ pc' \in [Threads -> Labels] /\ held' \in [Threads -> Seq(Requests)]
        /\ HandsOK'
    BY <1>12, <2>1, OneThreadKeeps DEF ConnectLink
  <2> QED BY <1>12, <2>2, LinkType, HeadType, HandsHeld DEF ConnectLink,
      TypeInv, TypeOK
<1>13. ASSUME NEW t \in Clients, ConnectCount(t)
      PROVE  TypeInv'
  <2> t \in Threads
    BY QueueAssumption DEF Threads
  <2>1. /\ HandOK("connect.id", Tail(held[t]))
        /\ "connect.id" \in Labels
        /\ Tail(held[t]) \in Seq(Requests)
    BY <1>13, HeadType DEF ConnectCount, TypeInv, TypeOK, HandsOK, HandOK,
        Labels
  <2>2. /\ pc' \in [Threads -> Labels] /\ held' \in [Threads -> Seq(Requests)]
        /\ HandsOK'
    BY <1>13, <2>1, OneThreadMoves DEF ConnectCount
  <2> QED BY <1>13, <2>2, CountType DEF ConnectCount, TypeInv, TypeOK
<1>14. ASSUME NEW t \in Clients, ConnectDone(t)
      PROVE  TypeInv'
  <2> t \in Threads
    BY QueueAssumption DEF Threads
  <2>1. HandOK("connect.disable", held[t]) /\ "connect.disable" \in Labels
    BY <1>14 DEF ConnectDone, TypeInv, TypeOK, HandsOK, HandOK, Labels
  <2>2. /\ pc' \in [Threads -> Labels] /\ held' \in [Threads -> Seq(Requests)]
        /\ HandsOK'
    BY <1>14, <2>1, OneThreadKeeps DEF ConnectDone
  <2> QED BY <1>14, <2>2 DEF ConnectDone, TypeInv, TypeOK
<1>15. ASSUME NEW t \in Clients, ConnectDisable(t)
      PROVE  TypeInv'
  <2> t \in Threads
    BY QueueAssumption DEF Threads
  <2>1. HandOK("idle", held[t]) /\ "idle" \in Labels
    BY <1>15 DEF ConnectDisable, TypeInv, TypeOK, HandsOK, HandOK, Labels
  <2>2. /\ pc' \in [Threads -> Labels] /\ held' \in [Threads -> Seq(Requests)]
        /\ HandsOK'
    BY <1>15, <2>1, OneThreadKeeps DEF ConnectDisable
  <2> QED BY <1>15, <2>2 DEF ConnectDisable, TypeInv, TypeOK
<1>16. ASSUME NEW t \in Clients, DisconnectBegin(t)
      PROVE  TypeInv'
  <2> t \in Threads
    BY QueueAssumption DEF Threads
  <2>1. /\ HandOK((IF ioCount > 2 THEN "disconnect.wait" ELSE "disconnect.unset"), held[t])
        /\ (IF ioCount > 2 THEN "disconnect.wait" ELSE "disconnect.unset") \in Labels
    BY <1>16 DEF DisconnectBegin, TypeInv, TypeOK, HandsOK, HandOK, Labels
  <2>2. /\ pc' \in [Threads -> Labels] /\ held' \in [Threads -> Seq(Requests)]
        /\ HandsOK'
    BY <1>16, <2>1, OneThreadKeeps DEF DisconnectBegin
  <2> QED BY <1>16, <2>2 DEF DisconnectBegin, TypeInv, TypeOK
<1>17. ASSUME NEW t \in Clients, DisconnectWait(t)
      PROVE  TypeInv'
  <2> t \in Threads
    BY QueueAssumption DEF Threads
  <2>1. HandOK("disconnect.unset", held[t]) /\ "disconnect.unset" \in Labels
    BY <1>17 DEF DisconnectWait, TypeInv, TypeOK, HandsOK, HandOK, Labels
  <2>2. /\ pc' \in [Threads -> Labels] /\ held' \in [Threads -> Seq(Requests)]
        /\ HandsOK'
    BY <1>17, <2>1, OneThreadKeeps DEF DisconnectWait
  <2> QED BY <1>17, <2>2 DEF DisconnectWait, TypeInv, TypeOK
<1>18. ASSUME NEW t \in Clients, DisconnectUnset(t)
      PROVE  TypeInv'
  <2> t \in Threads
    BY QueueAssumption DEF Threads
  <2>1. HandOK("disconnect.clear", held[t]) /\ "disconnect.clear" \in Labels
    BY <1>18 DEF DisconnectUnset, TypeInv, TypeOK, HandsOK, HandOK, Labels
  <2>2. /\ pc' \in [Threads -> Labels] /\ held' \in [Threads -> Seq(Requests)]
        /\ HandsOK'
    BY <1>18, <2>1, OneThreadKeeps DEF DisconnectUnset
  <2> QED BY <1>18, <2>2 DEF DisconnectUnset, TypeInv, TypeOK
<1>19. ASSUME NEW t \in Clients, DisconnectKeep(t)
      PROVE  TypeInv'
  <2> t \in Threads
    BY QueueAssumption DEF Threads
  <2>1. HandOK("idle", held[t]) /\ "idle" \in Labels
    BY <1>19 DEF DisconnectKeep, TypeInv, TypeOK, HandsOK, HandOK, Labels
  <2>2. /\ pc' \in [Threads -> Labels] /\ held' \in [Threads -> Seq(Requests)]
        /\ HandsOK'
    BY <1>19, <2>1, OneThreadKeeps DEF DisconnectKeep
  <2> QED BY <1>19, <2>2 DEF DisconnectKeep, TypeInv, TypeOK
<1>20. ASSUME NEW t \in Clients, ClearNonPaged(t)
      PROVE  TypeInv'
  <2> t \in Threads
    BY QueueAssumption DEF Threads
  <2>1. /\ HandOK("clear.freeNonPaged", npaged)
        /\ "clear.freeNonPaged" \in Labels
        /\ npaged \in Seq(Requests)
    BY <1>20 DEF ClearNonPaged, TypeInv, TypeOK, HandsOK, HandOK, Labels
  <2>2. /\ pc' \in [Threads -> Labels] /\ held' \in [Threads -> Seq(Requests)]
        /\ HandsOK'
    BY <1>20, <2>1, OneThreadMoves DEF ClearNonPaged
  <2> QED BY <1>20, <2>2 DEF ClearNonPaged, TypeInv, TypeOK
<1>21. ASSUME NEW t \in Clients, ClearFreeNonPaged(t)
      PROVE  TypeInv'
  <2> t \in Threads
    BY QueueAssumption DEF Threads
  <2>1. /\ HandOK("clear.paged", <<>>)
        /\ "clear.paged" \in Labels
        /\ <<>> \in Seq(Requests)
    BY <1>21 DEF ClearFreeNonPaged, TypeInv, TypeOK, HandsOK, HandOK, Labels
  <2>2. /\ pc' \in [Threads -> Labels] /\ held' \in [Threads -> Seq(Requests)]
        /\ HandsOK'
    BY <1>21, <2>1, OneThreadMoves DEF ClearFreeNonPaged
  <2> QED BY <1>21, <2>2, FreeType DEF ClearFreeNonPaged, TypeInv, TypeOK
<1>22. ASSUME NEW t \in Clients, ClearPaged(t)
      PROVE  TypeInv'
  <2> t \in Threads
    BY QueueAssumption DEF Threads
  <2>1. /\ HandOK("clear.freePaged", paged)
        /\ "clear.freePaged" \in Labels
        /\ paged \in Seq(Requests)
    BY <1>22 DEF ClearPaged, TypeInv, TypeOK, HandsOK, HandOK, Labels
  <2>2. /\ pc' \in [Threads -> Labels] /\ held' \in [Threads -> Seq(Requests)]
        /\ HandsOK'
    BY <1>22, <2>1, OneThreadMoves DEF ClearPaged
  <2> QED BY <1>22, <2>2 DEF ClearPaged, TypeInv, TypeOK
<1>23. ASSUME NEW t \in Clients, ClearFreePaged(t)
      PROVE  TypeInv'
  <2> t \in Threads
    BY QueueAssumption DEF Threads
  <2>1. HandOK("idle", <<>>) /\ "idle" \in Labels /\ <<>> \in Seq(Requests)
    BY <1>23 DEF ClearFreePaged, TypeInv, TypeOK, HandsOK, HandOK, Labels
  <2>2. /\ pc' \in [Threads -> Labels] /\ held' \in [Threads -> Seq(Requests)]
        /\ HandsOK'
    BY <1>23, <2>1, OneThreadMoves DEF ClearFreePaged
  <2> QED BY <1>23, <2>2, FreeType DEF ClearFreePaged, TypeInv, TypeOK
<1>24. ASSUME NEW t \in Getters, GetBegin(t)
      PROVE  TypeInv'
  <2> t \in Threads
    BY QueueAssumption DEF Threads
  <2>1. HandOK("get.acquire", held[t]) /\ "get.acquire" \in Labels
    BY <1>24 DEF GetBegin, TypeInv, TypeOK, HandsOK, HandOK, Labels
  <2>2. /\ pc' \in [Threads -> Labels] /\ held' \in [Threads -> Seq(Requests)]
        /\ HandsOK'
    BY <1>24, <2>1, OneThreadKeeps DEF GetBegin
  <2> QED BY <1>24, <2>2 DEF GetBegin, TypeInv, TypeOK
<1>25. ASSUME NEW t \in Getters, GetAcquire(t)
      PROVE  TypeInv'
  <2> t \in Threads
    BY QueueAssumption DEF Threads
  <2>1. HandOK("get.remove", held[t]) /\ "get.remove" \in Labels
    BY <1>25 DEF GetAcquire, TypeInv, TypeOK, HandsOK, HandOK, Labels
  <2>2. /\ pc' \in [Threads -> Labels] /\ held' \in [Threads -> Seq(Requests)]
        /\ HandsOK'
    BY <1>25, <2>1, OneThreadKeeps DEF GetAcquire
  <2> QED BY <1>25, <2>2, RemoveLockType DEF GetAcquire, TypeInv, TypeOK
<1>26. ASSUME NEW t \in Getters, GetRefused(t)
      PROVE  TypeInv'
  <2> t \in Threads
    BY QueueAssumption DEF Threads
  <2>1. HandOK("idle", held[t]) /\ "idle" \in Labels
    BY <1>26 DEF GetRefused, TypeInv, TypeOK, HandsOK, HandOK, Labels
  <2>2. /\ pc' \in [Threads -> Labels] /\ held' \in [Threads -> Seq(Requests)]
        /\ HandsOK'
    BY <1>26, <2>1, OneThreadKeeps DEF GetRefused
  <2> QED BY <1>26, <2>2 DEF GetRefused, TypeInv, TypeOK
<1>27. ASSUME NEW t \in Getters, GetNoMore(t)
      PROVE  TypeInv'
  <2> t \in Threads
    BY QueueAssumption DEF Threads
  <2>1. HandOK("get.release", held[t]) /\ "get.release" \in Labels
    BY <1>27 DEF GetNoMore, TypeInv, TypeOK, HandsOK, HandOK, Labels
  <2>2. /\ pc' \in [Threads -> Labels] /\ held' \in [Threads -> Seq(Requests)]
        /\ HandsOK'
    BY <1>27, <2>1, OneThreadKeeps DEF GetNoMore
  <2> QED BY <1>27, <2>2 DEF GetNoMore, TypeInv, TypeOK
<1>28. ASSUME NEW t \in Getters, GetDeliver(t)
      PROVE  TypeInv'
  <2> t \in Threads
    BY QueueAssumption DEF Threads
  <2>1. /\ HandOK("get.release", <<>>)
        /\ "get.release" \in Labels
        /\ <<>> \in Seq(Requests)
    BY <1>28 DEF GetDeliver, TypeInv, TypeOK, HandsOK, HandOK, Labels
  <2>2. /\ pc' \in [Threads -> Labels] /\ held' \in [Threads -> Seq(Requests)]
        /\ HandsOK'
    BY <1>28, <2>1, OneThreadMoves DEF GetDeliver
  <2> QED BY <1>28, <2>2, HeadType, HandsHeld DEF GetDeliver, TypeInv, TypeOK
<1>29. ASSUME NEW t \in Getters, GetPutBack(t)
      PROVE  TypeInv'
  <2> t \in Threads
    BY QueueAssumption DEF Threads
  <2>1. HandOK("get.count", held[t]) /\ "get.count" \in Labels
    BY <1>29 DEF GetPutBack, TypeInv, TypeOK, HandsOK, HandOK, Labels
  <2>2. /\ pc' \in [Threads -> Labels] /\ held' \in [Threads -> Seq(Requests)]
        /\ HandsOK'
    BY <1>29, <2>1, OneThreadKeeps DEF GetPutBack
  <2> QED BY <1>29, <2>2, LinkType, HeadType, HandsHeld DEF GetPutBack,
      TypeInv, TypeOK
<1>30. ASSUME NEW t \in Getters, GetCount(t)
      PROVE  TypeInv'
  <2> t \in Threads
    BY QueueAssumption DEF Threads
  <2>1. /\ HandOK("get.release", <<>>)
        /\ "get.release" \in Labels
        /\ <<>> \in Seq(Requests)
    BY <1>30 DEF GetCount, TypeInv, TypeOK, HandsOK, HandOK, Labels
  <2>2. /\ pc' \in [Threads -> Labels] /\ held' \in [Threads -> Seq(Requests)]
        /\ HandsOK'
    BY <1>30, <2>1, OneThreadMoves DEF GetCount
  <2> QED BY <1>30, <2>2, CountType DEF GetCount, TypeInv, TypeOK
<1>31. ASSUME NEW t \in Getters, GetRelease(t)
      PROVE  TypeInv'
  <2> t \in Threads
    BY QueueAssumption DEF Threads
  <2>1. HandOK("idle", held[t]) /\ "idle" \in Labels
    BY <1>31 DEF GetRelease, TypeInv, TypeOK, HandsOK, HandOK, Labels
  <2>2. /\ pc' \in [Threads -> Labels] /\ held' \in [Threads -> Seq(Requests)]
        /\ HandsOK'
    BY <1>31, <2>1, OneThreadKeeps DEF GetRelease
  <2> QED BY <1>31, <2>2, RemoveLockType DEF GetRelease, TypeInv, TypeOK
<1>32. ASSUME NEW t \in Clients, ConnectList(t)
      PROVE  TypeInv'
  <2> t \in Threads
    BY QueueAssumption DEF Threads
  <2>1. PICK s \in SeqOf(Unused, MaxSnapshot) :
          /\ Hold(t, s)
          /\ mem' = [r \in Requests |-> IF r \in ToSet(s) THEN "live" ELSE mem[r]]
    BY <1>32 DEF ConnectList
  <2>2. s \in Seq(Requests)
    <3>1. PICK n \in 0..MaxSnapshot : s \in [1..n -> Unused]
      BY <2>1 DEF SeqOf
    <3>2. n \in Nat /\ s \in [1..n -> Requests]
      BY <3>1, QueueAssumption DEF Unused
    <3> QED BY <3>2
  <2>3. HandOK("connect.id", s) /\ "connect.id" \in Labels
    BY DEF HandOK, Labels
  <2>4. pc' \in [Threads -> Labels] /\ held' \in [Threads -> Seq(Requests)] /\ HandsOK'
    BY <1>32, <2>1, <2>2, <2>3, OneThreadMoves DEF ConnectList
  <2>5. mem' \in [Requests -> {"unused", "live", "freed", "client", "logged"}]
    BY <2>1 DEF TypeInv, TypeOK
  <2> QED BY <1>32, <2>4, <2>5 DEF ConnectList, TypeInv, TypeOK
<1>33. ASSUME NEW t \in Getters, GetRemove(t)
      PROVE  TypeInv'
  <2> t \in Threads
    BY QueueAssumption DEF Threads
  <2>1. CASE NonPagedFirst
    <3>1. Head(npaged) \in Requests /\ Tail(npaged) \in Seq(Requests)
      BY <2>1, HeadTailProperties DEF NonPagedFirst, TypeInv, TypeOK
    <3>2. HandOK("get.size", <<Head(npaged)>>) /\ "get.size" \in Labels
          /\ <<Head(npaged)>> \in Seq(Requests)
      BY <3>1 DEF HandOK, Labels
    <3>3. /\ Go(t, "get.size") /\ Hold(t, <<Head(npaged)>>)
          /\ npaged' = Tail(npaged) /\ npagedLength' = npagedLength - 1 /\ length' = length - 1
          /\ UNCHANGED <<paged, pagedLength, rlock, connectLock, connected,
              settings,
                         bootLog, ids, mem>>
      BY <1>33, <2>1 DEF GetRemove
    <3>4. pc' \in [Threads -> Labels] /\ held' \in [Threads -> Seq(Requests)] /\ HandsOK'
      BY <3>1, <3>2, <3>3, OneThreadMoves
    <3> QED BY <3>1, <3>3, <3>4 DEF TypeInv, TypeOK
  <2>2. CASE ~NonPagedFirst
    <3>1. paged # <<>>
      BY <1>33, <2>2, EmptySeq DEF GetRemove, Queued, NonPagedFirst, ToSet
    <3>2. Head(paged) \in Requests /\ Tail(paged) \in Seq(Requests)
      BY <3>1, HeadTailProperties DEF TypeInv, TypeOK
    <3>3. HandOK("get.size", <<Head(paged)>>) /\ "get.size" \in Labels
          /\ <<Head(paged)>> \in Seq(Requests)
      BY <3>2 DEF HandOK, Labels
    <3>4. /\ Go(t, "get.size") /\ Hold(t, <<Head(paged)>>)
          /\ paged' = Tail(paged) /\ pagedLength' = pagedLength - 1 /\ length' = length - 1
          /\ UNCHANGED <<npaged, npagedLength, rlock, connectLock, connected,
              settings,
                         bootLog, ids, mem>>
      BY <1>33, <2>2 DEF GetRemove
    <3>5. pc' \in [Threads -> Labels] /\ held' \in [Threads -> Seq(Requests)] /\ HandsOK'
      BY <3>2, <3>3, <3>4, OneThreadMoves
    <3> QED BY <3>2, <3>4, <3>5 DEF TypeInv, TypeOK
  <2> QED BY <2>1, <2>2
<1>34. CASE SettingsSet
  BY <1>34, QueueAssumption DEF SettingsSet, TypeInv, TypeOK, HandsOK
<1>35. CASE UNCHANGED vars
  BY <1>35 DEF vars, TypeInv, TypeOK, HandsOK
<1> QED
  BY <1>1, <1>2, <1>3, <1>4, <1>5, <1>6, <1>7, <1>8, <1>9, <1>10, <1>11, <1>12,
      <1>13, <1>14, <1>15, <1>16, <1>17, <1>18, <1>19, <1>20, <1>21, <1>22,
      <1>23, <1>24, <1>25, <1>26, <1>27, <1>28, <1>29, <1>30, <1>31, <1>32,
      <1>33, <1>34, <1>35
  DEF Next, InsertStep, ConnectStep, DisconnectStep, GetStep

\* Initially the types are right and every hand is empty.
LEMMA TypeInvInit ==
  ASSUME Init
  PROVE  TypeInv
<1>1. /\ paged \in Seq(Requests) /\ npaged \in Seq(Requests)
      /\ ioCount \in Int /\ lastId \in Nat
      /\ length \in Int /\ pagedLength \in Int /\ npagedLength \in Int
      /\ connectLock \in Clients \cup {Nobody}
      /\ id \in [Requests -> Nat]
      /\ preds \in [Requests -> SUBSET Requests]
  BY DEF Init
<1>2. /\ pc \in [Threads -> Labels] /\ held \in [Threads -> Seq(Requests)]
      /\ mem \in [Requests -> {"unused", "live", "freed", "client", "logged"}]
  BY DEF Init, Labels
<1>3. /\ removed \in BOOLEAN /\ removeEvent \in BOOLEAN
      /\ connected \in BOOLEAN /\ bootLog \in BOOLEAN
      /\ collect \in BOOLEAN /\ clearOnDisc \in BOOLEAN
  BY QueueAssumption, Zenon DEF Init
<1>4. HandsOK
  BY DEF Init, HandsOK, HandOK
<1> QED BY <1>1, <1>2, <1>3, <1>4 DEF TypeInv, TypeOK

\* TypeOK, for any number of records, producers and clients.
THEOREM QueueTypeOK == Spec => []TypeOK
<1>1. Init => TypeInv
  BY TypeInvInit
<1>2. TypeInv /\ [Next]_vars => TypeInv'
  BY TypeInvStep
<1>3. TypeInv => TypeOK
  BY DEF TypeInv
<1> QED BY <1>1, <1>2, <1>3, PTL DEF Spec

-----------------------------------------------------------------------------
(* Sequences without repetitions.                                          *)

\* The sets of the shortest sequences.
LEMMA EmptySingle ==
  ASSUME NEW r
  PROVE  /\ ToSet(<<>>) = {} /\ NoRepeats(<<>>)
         /\ ToSet(<<r>>) = {r} /\ NoRepeats(<<r>>)
         /\ Head(<<r>>) = r /\ Tail(<<r>>) = <<>>
  BY DEF ToSet, NoRepeats

\* A new element at the end.
LEMMA AppendSet ==
  ASSUME NEW s \in Seq(Requests), NEW r \in Requests
  PROVE  /\ ToSet(Append(s, r)) = ToSet(s) \cup {r}
         /\ NoRepeats(s) /\ r \notin ToSet(s) => NoRepeats(Append(s, r))
  BY AppendProperties DEF ToSet, NoRepeats

\* The elements of a sequence are in its set.
LEMMA InToSet ==
  ASSUME NEW s \in Seq(Requests), NEW x
  PROVE  x \in ToSet(s) <=> \E i \in 1..Len(s) : s[i] = x
  BY LenProperties DEF ToSet

\* A new element in front.
LEMMA ConsSet ==
  ASSUME NEW s \in Seq(Requests), NEW r \in Requests
  PROVE  /\ ToSet(<<r>> \o s) = ToSet(s) \cup {r}
         /\ NoRepeats(s) /\ r \notin ToSet(s) => NoRepeats(<<r>> \o s)
<1> DEFINE c == <<r>> \o s
<1>1. /\ c \in Seq(Requests) /\ Len(c) = Len(s) + 1
      /\ c[1] = r /\ \A i \in 1..Len(s) : c[i + 1] = s[i]
      /\ Len(s) \in Nat
  BY ConcatProperties, LenProperties
<1> HIDE DEF c
<1>2. \A i \in 1..Len(c) : i = 1 \/ (i - 1 \in 1..Len(s) /\ c[i] = s[i - 1])
  BY <1>1
<1>3. \A i \in 1..Len(s) : i + 1 \in 1..Len(c)
  BY <1>1
<1>4. ASSUME NEW x PROVE x \in ToSet(c) <=> x \in ToSet(s) \/ x = r
  BY <1>1, <1>2, <1>3, InToSet
<1>5. NoRepeats(s) /\ r \notin ToSet(s) => NoRepeats(c)
  <2> SUFFICES ASSUME NoRepeats(s), r \notin ToSet(s),
                      NEW i \in 1..Len(c), NEW j \in 1..Len(c), c[i] = c[j]
               PROVE  i = j
    BY DEF NoRepeats
  <2>1. \A k \in 1..Len(s) : s[k] # r
    BY InToSet
  <2> QED BY <1>1, <1>2, <2>1 DEF NoRepeats
<1> QED BY <1>4, <1>5 DEF c

\* The first element and the others are all, and are disjoint.
LEMMA HeadTailSet ==
  ASSUME NEW s \in Seq(Requests), s # <<>>
  PROVE  /\ ToSet(s) = {Head(s)} \cup ToSet(Tail(s))
         /\ NoRepeats(s) => NoRepeats(Tail(s)) /\ Head(s) \notin ToSet(Tail(s))
<1> DEFINE h == Head(s)
           t == Tail(s)
<1>1. /\ h = s[1] /\ t \in Seq(Requests)
      /\ Len(t) = Len(s) - 1 /\ Len(s) \in Nat \ {0}
      /\ \A i \in 1..Len(t) : t[i] = s[i + 1]
  BY HeadTailProperties, EmptySeq, LenProperties
<1> HIDE DEF h, t
<1>2. \A i \in 1..Len(s) : i = 1 \/ (i - 1 \in 1..Len(t) /\ s[i] = t[i - 1])
  BY <1>1
<1>3. \A i \in 1..Len(t) : i + 1 \in 1..Len(s)
  BY <1>1
<1>4. 1 \in 1..Len(s)
  BY <1>1
<1>5. ASSUME NEW x PROVE x \in ToSet(s) <=> x \in ToSet(t) \/ x = h
  <2>1. x \in ToSet(s) => x \in ToSet(t) \/ x = h
    BY <1>1, <1>2, InToSet
  <2>2. x \in ToSet(t) => x \in ToSet(s)
    <3> SUFFICES ASSUME x \in ToSet(t) PROVE x \in ToSet(s)
      OBVIOUS
    <3>1. PICK i \in 1..Len(t) : t[i] = x
      BY <1>1, InToSet
    <3>2. i + 1 \in 1..Len(s) /\ s[i + 1] = x
      BY <1>1, <1>3, <3>1
    <3> QED BY <3>2, InToSet
  <2>3. h \in ToSet(s)
    BY <1>1, <1>4, InToSet
  <2> QED BY <2>1, <2>2, <2>3
<1>6. ASSUME NoRepeats(s) PROVE NoRepeats(t) /\ h \notin ToSet(t)
  <2>1. NoRepeats(t)
    BY <1>1, <1>3, <1>6 DEF NoRepeats
  <2>2. ASSUME h \in ToSet(t) PROVE FALSE
    <3>1. PICK i \in 1..Len(t) : t[i] = h
      BY <1>1, <2>2, InToSet
    <3>2. i + 1 \in 1..Len(s) /\ s[i + 1] = s[1] /\ i + 1 # 1
      BY <1>1, <1>3, <3>1
    <3> QED BY <1>4, <1>6, <3>2 DEF NoRepeats
  <2> QED BY <2>1, <2>2
<1> QED BY <1>5, <1>6 DEF h, t

-----------------------------------------------------------------------------
(* How a step of one thread changes who owns which record.                 *)

\* Only thread t moves, to label l.
Moves(t, l) ==
  /\ Go(t, l)
  /\ \A u \in Threads \ {t} : held'[u] = held[u]

\* What a thread owns after it moved to a label with something in hand.
LEMMA OwnedAfter ==
  ASSUME TypeInv, NEW t \in Threads, NEW l, NEW s, Go(t, l), Hold(t, s)
  PROVE  /\ Owned(t)' = IF l \in CountLabels THEN Tail(s) ELSE s
         /\ \A u \in Threads \ {t} : Owned(u)' = Owned(u)
  BY DEF TypeInv, TypeOK, Go, Hold, Owned

\* The other threads own what they owned.
LEMMA OwnedKept ==
  ASSUME TypeInv, NEW t \in Threads, NEW l, Go(t, l), UNCHANGED held
  PROVE  /\ Owned(t)' = IF l \in CountLabels THEN Tail(held[t]) ELSE held[t]
         /\ \A u \in Threads \ {t} : Owned(u)' = Owned(u)
  BY DEF TypeInv, TypeOK, Go, Owned

\* The condition OnePlace puts on the two lists.
ListsOK ==
  /\ ToSet(paged) \subseteq Paged /\ NoRepeats(paged)
  /\ ToSet(npaged) \cap Paged = {} /\ NoRepeats(npaged)

\* What the lists and thread t have between them.
Share(t) == Queued \cup ToSet(Owned(t))

O(t) == ToSet(Owned(t))

\* If one thread t moves, and each record enters or leaves its share together
\* with its memory's life, the other threads' shares stay apart.
LEMMA OwnerStep ==
  ASSUME TypeInv, OnePlace, NEW t \in Threads,
         \A u \in Threads \ {t} : Owned(u)' = Owned(u),
         ListsOK', NoRepeats(Owned(t))',
         ToSet(Owned(t))' \cap Queued' = {},
         \A r \in Share(t)' \ Share(t) : mem[r] # "live" /\ r \in Requests,
         \A r \in Requests :
           mem'[r] = "live" <=> r \in Share(t)' \/ (mem[r] = "live" /\ r \notin Share(t))
  PROVE  OnePlace'
<1>1. \A u \in Threads : NoRepeats(Owned(u))'
  BY DEF OnePlace
<1>2. \A u \in Threads \ {t} : O(u)' = O(u)
  BY DEF O
<1>3. \A u \in Threads \ {t} : \A r \in O(u) : r \in Requests /\ mem[r] = "live"
  <2>1. \A u \in Threads : O(u) \subseteq Requests
    <3>1. ASSUME NEW u \in Threads PROVE Owned(u) \in Seq(Requests)
      <4>1. CASE pc[u] \in CountLabels
        BY <4>1, HandsHeld, HeadType DEF CountLabels, Owned, TypeInv
      <4>2. CASE pc[u] \notin CountLabels
        BY <4>2 DEF Owned, TypeInv, TypeOK
      <4> QED BY <4>1, <4>2
    <3> QED BY <3>1 DEF ToSet, O
  <2> QED BY <2>1 DEF OnePlace, O
<1>4. \A u \in Threads \ {t} : O(u) \cap Share(t) = {}
  BY DEF OnePlace, Share, O
<1>5. \A u \in Threads \ {t} : O(u) \cap Share(t)' = {}
  BY <1>3, <1>4
<1>6. \A u \in Threads : O(u)' \cap Queued' = {}
  BY <1>2, <1>5 DEF Share, O
<1>7. \A u, v \in Threads : u # v => O(u)' \cap O(v)' = {}
  <2> SUFFICES ASSUME NEW u \in Threads, NEW v \in Threads, u # v
               PROVE  O(u)' \cap O(v)' = {}
    OBVIOUS
  <2>1. CASE u = t
    BY <1>2, <1>5, <2>1 DEF Share, O
  <2>2. CASE v = t
    BY <1>2, <1>5, <2>2 DEF Share, O
  <2>3. CASE u # t /\ v # t
    BY <1>2, <2>3 DEF OnePlace, O
  <2> QED BY <2>1, <2>2, <2>3
<1>8. ASSUME NEW r \in Requests
      PROVE  mem'[r] = "live" <=> r \in Queued' \/ \E u \in Threads : r \in O(u)'
  <2>1. mem[r] = "live" <=> r \in Queued \/ \E u \in Threads : r \in O(u)
    BY DEF OnePlace, O
  <2>2. mem[r] = "live" /\ r \notin Share(t)
          <=> \E u \in Threads \ {t} : r \in O(u)
    BY <2>1, <1>4 DEF Share, O
  <2>3. mem'[r] = "live" <=> r \in Share(t)' \/ \E u \in Threads \ {t} : r \in O(u)'
    BY <2>2, <1>2
  <2> QED BY <2>3 DEF Share, O
<1> QED BY <1>1, <1>6, <1>7, <1>8 DEF OnePlace, ListsOK, O

\* Linking a record adds it to the records on the lists.
LEMMA LinkSets ==
  ASSUME TypeInv, OnePlace, NEW r \in Requests, NEW b \in BOOLEAN,
         r \notin Queued, Link(r, b)
  PROVE  ListsOK' /\ Queued' = Queued \cup {r}
<1>1. CASE IsPaged(r)
  <2>1. npaged' = npaged
    BY <1>1 DEF Link
  <2>2. ToSet(paged') = ToSet(paged) \cup {r} /\ NoRepeats(paged')
    <3>1. paged \in Seq(Requests) /\ NoRepeats(paged) /\ r \notin ToSet(paged)
      BY DEF TypeInv, TypeOK, OnePlace, Queued
    <3>2. paged' = <<r>> \o paged \/ paged' = Append(paged, r)
      BY <1>1 DEF Link
    <3>3. CASE paged' = <<r>> \o paged
      BY <3>1, <3>3, ConsSet, Zenon
    <3>4. CASE paged' = Append(paged, r)
      BY <3>1, <3>4, AppendSet, Zenon
    <3> QED BY <3>2, <3>3, <3>4
  <2> QED BY <1>1, <2>1, <2>2 DEF ListsOK, OnePlace, Queued, IsPaged
<1>2. CASE ~IsPaged(r)
  <2>1. paged' = paged
    BY <1>2 DEF Link
  <2>2. ToSet(npaged') = ToSet(npaged) \cup {r} /\ NoRepeats(npaged')
    <3>1. npaged \in Seq(Requests) /\ NoRepeats(npaged) /\ r \notin ToSet(npaged)
      BY DEF TypeInv, TypeOK, OnePlace, Queued
    <3>2. npaged' = <<r>> \o npaged \/ npaged' = Append(npaged, r)
      BY <1>2 DEF Link
    <3>3. CASE npaged' = <<r>> \o npaged
      BY <3>1, <3>3, ConsSet, Zenon
    <3>4. CASE npaged' = Append(npaged, r)
      BY <3>1, <3>4, AppendSet, Zenon
    <3> QED BY <3>2, <3>3, <3>4
  <2> QED BY <1>2, <2>1, <2>2 DEF ListsOK, OnePlace, Queued, IsPaged
<1> QED BY <1>1, <1>2

\* t moves on; nothing changes hands.
LEMMA KeepMove ==
  ASSUME TypeInv, OnePlace, NEW t \in Threads, NEW l,
         Go(t, l), l \notin CountLabels, pc[t] \notin CountLabels,
         UNCHANGED <<held, paged, npaged>>,
         \A r \in Requests : mem'[r] = "live" <=> mem[r] = "live"
  PROVE  OnePlace'
<1>1. \A u \in Threads : Owned(u)' = Owned(u)
  BY OwnedKept DEF Owned
<1>2. Queued' = Queued
  BY DEF Queued
<1> QED BY <1>1, <1>2 DEF OnePlace

\* The record that t has linked is counted and forgotten.
LEMMA CountMove ==
  ASSUME TypeInv, OnePlace, NEW t \in Threads, NEW l,
         Go(t, l), l \notin CountLabels, pc[t] \in CountLabels,
         Hold(t, Tail(held[t])), UNCHANGED <<paged, npaged, mem>>
  PROVE  OnePlace'
<1>1. \A u \in Threads : Owned(u)' = Owned(u)
  BY OwnedAfter DEF Owned
<1>2. Queued' = Queued
  BY DEF Queued
<1> QED BY <1>1, <1>2 DEF OnePlace

\* t links the first record it has in hand.
LEMMA LinkMove ==
  ASSUME TypeInv, OnePlace, NEW t \in Threads, NEW l, NEW b \in BOOLEAN,
         Go(t, l), l \in CountLabels, pc[t] \notin CountLabels,
         held[t] # <<>>, Link(Head(held[t]), b), UNCHANGED <<held, mem>>
  PROVE  OnePlace'
<1> DEFINE r == Head(held[t])
<1>1. /\ Owned(t) = held[t] /\ Owned(t)' = Tail(held[t])
      /\ \A u \in Threads \ {t} : Owned(u)' = Owned(u)
  BY OwnedKept DEF Owned
<1>2. /\ ToSet(held[t]) = {r} \cup ToSet(Tail(held[t]))
      /\ NoRepeats(Tail(held[t])) /\ r \notin ToSet(Tail(held[t]))
      /\ r \in Requests
  BY <1>1, HeadTailSet, HeadType DEF OnePlace, TypeInv, TypeOK
<1>3. r \notin Queued
  BY <1>1, <1>2 DEF OnePlace
<1>4. ListsOK' /\ Queued' = Queued \cup {r}
  BY <1>2, <1>3, LinkSets
<1>5. Share(t)' = Share(t)
  BY <1>1, <1>2, <1>4 DEF Share
<1>6. ToSet(Owned(t))' \cap Queued' = {} /\ NoRepeats(Owned(t))'
  BY <1>1, <1>2, <1>4 DEF OnePlace
<1>7. \A q \in Requests : q \in Share(t) => mem[q] = "live"
  BY DEF Share, OnePlace
<1> QED BY <1>1, <1>4, <1>5, <1>6, <1>7, OwnerStep

\* t gets rid of everything it has in hand.
LEMMA DisposeMove ==
  ASSUME TypeInv, OnePlace, NEW t \in Threads, NEW l,
         Go(t, l), l \notin CountLabels, pc[t] \notin CountLabels,
         Hold(t, <<>>), UNCHANGED <<paged, npaged>>,
         \A r \in Requests :
           mem'[r] = "live" <=> mem[r] = "live" /\ r \notin ToSet(held[t])
  PROVE  OnePlace'
<1>1. /\ Owned(t) = held[t] /\ Owned(t)' = <<>>
      /\ \A u \in Threads \ {t} : Owned(u)' = Owned(u)
  BY OwnedAfter DEF Owned
<1>2. ListsOK' /\ Queued' = Queued
  BY DEF ListsOK, OnePlace, Queued
<1>3. ToSet(Owned(t))' = {} /\ NoRepeats(Owned(t))'
  BY <1>1, EmptySingle
<1>4. Share(t)' = Queued /\ Share(t) = Queued \cup ToSet(held[t])
  BY <1>1, <1>2, <1>3 DEF Share
<1>5. \A r \in Requests : r \in Queued => mem[r] = "live" /\ r \notin ToSet(held[t])
  BY <1>1 DEF OnePlace
<1>6. \A r \in Requests :
        mem'[r] = "live" <=> r \in Share(t)' \/ (mem[r] = "live" /\ r \notin Share(t))
  BY <1>4, <1>5
<1>7. ToSet(Owned(t))' \cap Queued' = {}
  BY <1>3
<1>8. \A r \in Share(t)' \ Share(t) : mem[r] # "live" /\ r \in Requests
  BY <1>4
<1> QED BY <1>1, <1>2, <1>3, <1>6, <1>7, <1>8, OwnerStep

\* t, with nothing in hand, gets new records.
LEMMA NewMove ==
  ASSUME TypeInv, OnePlace, NEW t \in Threads, NEW l, NEW s,
         Go(t, l), l \notin CountLabels, pc[t] \notin CountLabels,
         held[t] = <<>>, Hold(t, s), NoRepeats(s), ToSet(s) \subseteq Unused,
         UNCHANGED <<paged, npaged>>,
         \A r \in Requests :
           mem'[r] = "live" <=> mem[r] = "live" \/ r \in ToSet(s)
  PROVE  OnePlace'
<1>1. /\ Owned(t) = <<>> /\ Owned(t)' = s
      /\ \A u \in Threads \ {t} : Owned(u)' = Owned(u)
  BY OwnedAfter DEF Owned
<1>2. ListsOK' /\ Queued' = Queued
  BY DEF ListsOK, OnePlace, Queued
<1>3. \A r \in ToSet(s) : r \in Requests /\ mem[r] # "live"
  BY DEF Unused
<1>4. \A r \in Requests : r \in Queued => mem[r] = "live"
  BY DEF OnePlace
<1>5. Share(t)' = Queued \cup ToSet(s) /\ Share(t) = Queued
  BY <1>1, <1>2, EmptySingle DEF Share
<1>6. \A r \in Requests :
        mem'[r] = "live" <=> r \in Share(t)' \/ (mem[r] = "live" /\ r \notin Share(t))
  BY <1>3, <1>4, <1>5
<1>7. ToSet(Owned(t))' \cap Queued' = {} /\ NoRepeats(Owned(t))'
  BY <1>1, <1>2, <1>3, <1>4
<1>8. \A r \in Share(t)' \ Share(t) : mem[r] # "live" /\ r \in Requests
  BY <1>3, <1>5
<1> QED BY <1>1, <1>2, <1>6, <1>7, <1>8, OwnerStep

\* t, with nothing in hand, takes records off the lists.
LEMMA TakeMove ==
  ASSUME TypeInv, OnePlace, NEW t \in Threads, NEW l, NEW s,
         Go(t, l), l \notin CountLabels, pc[t] \notin CountLabels,
         held[t] = <<>>, Hold(t, s), NoRepeats(s), ListsOK',
         ToSet(s) \cap Queued' = {}, ToSet(s) \cup Queued' = Queued,
         UNCHANGED mem
  PROVE  OnePlace'
<1>1. /\ Owned(t) = <<>> /\ Owned(t)' = s
      /\ \A u \in Threads \ {t} : Owned(u)' = Owned(u)
  BY OwnedAfter DEF Owned
<1>2. Share(t)' = Queued /\ Share(t) = Queued
  BY <1>1, EmptySingle DEF Share
<1>3. \A r \in Requests : r \in Queued => mem[r] = "live"
  BY DEF OnePlace
<1>4. ToSet(Owned(t))' \cap Queued' = {} /\ NoRepeats(Owned(t))'
  BY <1>1
<1> QED BY <1>1, <1>2, <1>3, <1>4, OwnerStep

\* A thread between drawing an Id and counting owns one record at most.
LEMMA HandsSingle ==
  ASSUME TypeInv, NEW t \in Threads,
         pc[t] \in {"insert.acquire", "insert.callback", "insert.id",
                   "insert.link", "insert.count", "get.size", "get.count"}
  PROVE  /\ ToSet(held[t]) = {Head(held[t])} /\ Head(held[t]) \in Requests
         /\ Tail(held[t]) = <<>>
<1>1. PICK r \in Requests : held[t] = <<r>>
  BY DEF TypeInv, HandsOK, HandOK
<1> QED BY <1>1, EmptySingle, Zenon

\* Every step keeps OnePlace, given the types.
LEMMA OnePlaceStep ==
  ASSUME TypeInv, OnePlace, [Next]_vars
  PROVE  OnePlace'
<1> USE DEF lists, rlock, settings, counters, ids
<1> Producers \subseteq Threads /\ Clients \subseteq Threads /\ Getters \subseteq Threads
  BY QueueAssumption DEF Threads
<1>1. ASSUME NEW t \in Producers, NEW r \in Requests, InsertBegin(t, r)
      PROVE  OnePlace'
  <2>1. held[t] = <<>>
    BY <1>1 DEF InsertBegin, TypeInv, HandsOK, HandOK
  <2>2. NoRepeats(<<r>>) /\ ToSet(<<r>>) = {r} /\ {r} \subseteq Unused
    BY <1>1, EmptySingle DEF InsertBegin, Unused
  <2>3. \A q \in Requests : mem'[q] = "live" <=> mem[q] = "live" \/ q = r
    BY <1>1 DEF InsertBegin, TypeInv, TypeOK
  <2> QED BY <1>1, <2>1, <2>2, <2>3, NewMove DEF InsertBegin, CountLabels
<1>2. ASSUME NEW t \in Producers, InsertAcquire(t)
      PROVE  OnePlace'
  BY <1>2, KeepMove DEF InsertAcquire, CountLabels
<1>3. ASSUME NEW t \in Producers, InsertRefused(t)
      PROVE  OnePlace'
  BY <1>3, DisposeMove DEF InsertRefused, CountLabels, Free
<1>4. ASSUME NEW t \in Producers, InsertId(t)
      PROVE  OnePlace'
  BY <1>4, KeepMove DEF InsertId, CountLabels
<1>5. ASSUME NEW t \in Producers, InsertLink(t)
      PROVE  OnePlace'
  BY <1>5, LinkMove, HandsHeld DEF InsertLink, CountLabels
<1>6. ASSUME NEW t \in Producers, InsertCount(t)
      PROVE  OnePlace'
  <2>1. Tail(held[t]) = <<>>
    BY <1>6, HandsSingle DEF InsertCount
  <2> QED BY <1>6, <2>1, CountMove DEF InsertCount, CountLabels
<1>7. ASSUME NEW t \in Producers, InsertRelease(t)
      PROVE  OnePlace'
  BY <1>7, KeepMove DEF InsertRelease, CountLabels
<1>8. ASSUME NEW t \in Producers, InsertCallback(t)
      PROVE  OnePlace'
  <2>1. ToSet(held[t]) = {Head(held[t])} /\ Head(held[t]) \in Requests
    BY <1>8, HandsSingle DEF InsertCallback
  <2>2. \A r \in Requests : mem'[r] = "live" <=> mem[r] = "live" /\ r \notin ToSet(held[t])
    BY <1>8, <2>1 DEF InsertCallback, Free, TypeInv, TypeOK
  <2> QED BY <1>8, <2>2, DisposeMove DEF InsertCallback, CountLabels
<1>9. ASSUME NEW t \in Clients, ConnectBegin(t)
      PROVE  OnePlace'
  BY <1>9, KeepMove DEF ConnectBegin, CountLabels
<1>10. ASSUME NEW t \in Clients, ConnectList(t)
      PROVE  OnePlace'
  <2>1. PICK s \in SeqOf(Unused, MaxSnapshot) :
          /\ NoRepeats(s) /\ Hold(t, s)
          /\ mem' = [r \in Requests |-> IF r \in ToSet(s) THEN "live" ELSE mem[r]]
    BY <1>10 DEF ConnectList
  <2>2. ToSet(s) \subseteq Unused
    BY <2>1 DEF SeqOf, ToSet
  <2>3. held[t] = <<>>
    BY <1>10 DEF ConnectList, TypeInv, HandsOK, HandOK
  <2>4. \A r \in Requests : mem'[r] = "live" <=> mem[r] = "live" \/ r \in ToSet(s)
    BY <2>1
  <2> QED BY <1>10, <2>1, <2>2, <2>3, <2>4, NewMove DEF ConnectList, CountLabels
<1>11. ASSUME NEW t \in Clients, ConnectFail(t)
      PROVE  OnePlace'
  <2>1. PICK S \in SUBSET Unused : Free(S)
    BY <1>11 DEF ConnectFail
  <2>2. \A r \in Requests : mem'[r] = "live" <=> mem[r] = "live"
    BY <2>1 DEF Free, Unused
  <2> QED BY <1>11, <2>2, KeepMove DEF ConnectFail, CountLabels
<1>12. ASSUME NEW t \in Clients, ConnectId(t)
      PROVE  OnePlace'
  BY <1>12, KeepMove DEF ConnectId, CountLabels
<1>13. ASSUME NEW t \in Clients, ConnectLink(t)
      PROVE  OnePlace'
  BY <1>13, LinkMove, HandsHeld DEF ConnectLink, CountLabels
<1>14. ASSUME NEW t \in Clients, ConnectCount(t)
      PROVE  OnePlace'
  BY <1>14, CountMove DEF ConnectCount, CountLabels
<1>15. ASSUME NEW t \in Clients, ConnectDone(t)
      PROVE  OnePlace'
  BY <1>15, KeepMove DEF ConnectDone, CountLabels
<1>16. ASSUME NEW t \in Clients, ConnectDisable(t)
      PROVE  OnePlace'
  BY <1>16, KeepMove DEF ConnectDisable, CountLabels
<1>17. ASSUME NEW t \in Clients, DisconnectBegin(t)
      PROVE  OnePlace'
  BY <1>17, KeepMove DEF DisconnectBegin, CountLabels
<1>18. ASSUME NEW t \in Clients, DisconnectWait(t)
      PROVE  OnePlace'
  BY <1>18, KeepMove DEF DisconnectWait, CountLabels
<1>19. ASSUME NEW t \in Clients, DisconnectUnset(t)
      PROVE  OnePlace'
  BY <1>19, KeepMove DEF DisconnectUnset, CountLabels
<1>20. ASSUME NEW t \in Clients, DisconnectKeep(t)
      PROVE  OnePlace'
  BY <1>20, KeepMove DEF DisconnectKeep, CountLabels
<1>21. ASSUME NEW t \in Clients, ClearNonPaged(t)
      PROVE  OnePlace'
  <2>1. held[t] = <<>>
    BY <1>21 DEF ClearNonPaged, TypeInv, HandsOK, HandOK
  <2>2. /\ Hold(t, npaged) /\ npaged' = <<>> /\ paged' = paged /\ mem' = mem
        /\ Go(t, "clear.freeNonPaged") /\ pc[t] \notin CountLabels
    BY <1>21 DEF ClearNonPaged, CountLabels
  <2>3. ListsOK' /\ NoRepeats(npaged) /\ ToSet(npaged) \cap ToSet(paged) = {}
    BY <2>2, EmptySingle DEF ListsOK, OnePlace
  <2>4. Queued = ToSet(npaged) \cup ToSet(paged) /\ Queued' = ToSet(paged)
    BY <2>2, EmptySingle DEF Queued
  <2> QED BY <2>1, <2>2, <2>3, <2>4, TakeMove DEF CountLabels
<1>22. ASSUME NEW t \in Clients, ClearFreeNonPaged(t)
      PROVE  OnePlace'
  BY <1>22, DisposeMove DEF ClearFreeNonPaged, CountLabels, Free
<1>23. ASSUME NEW t \in Clients, ClearPaged(t)
      PROVE  OnePlace'
  <2>1. held[t] = <<>>
    BY <1>23 DEF ClearPaged, TypeInv, HandsOK, HandOK
  <2>2. /\ Hold(t, paged) /\ paged' = <<>> /\ npaged' = npaged /\ mem' = mem
        /\ Go(t, "clear.freePaged") /\ pc[t] \notin CountLabels
    BY <1>23 DEF ClearPaged, CountLabels
  <2>3. ListsOK' /\ NoRepeats(paged) /\ ToSet(paged) \cap ToSet(npaged) = {}
    BY <2>2, EmptySingle DEF ListsOK, OnePlace
  <2>4. Queued = ToSet(paged) \cup ToSet(npaged) /\ Queued' = ToSet(npaged)
    BY <2>2, EmptySingle DEF Queued
  <2> QED BY <2>1, <2>2, <2>3, <2>4, TakeMove DEF CountLabels
<1>24. ASSUME NEW t \in Clients, ClearFreePaged(t)
      PROVE  OnePlace'
  BY <1>24, DisposeMove DEF ClearFreePaged, CountLabels, Free
<1>25. ASSUME NEW t \in Getters, GetBegin(t)
      PROVE  OnePlace'
  BY <1>25, KeepMove DEF GetBegin, CountLabels
<1>26. ASSUME NEW t \in Getters, GetAcquire(t)
      PROVE  OnePlace'
  BY <1>26, KeepMove DEF GetAcquire, CountLabels
<1>27. ASSUME NEW t \in Getters, GetRefused(t)
      PROVE  OnePlace'
  BY <1>27, KeepMove DEF GetRefused, CountLabels
<1>28. ASSUME NEW t \in Getters, GetNoMore(t)
      PROVE  OnePlace'
  BY <1>28, KeepMove DEF GetNoMore, CountLabels
<1>29. ASSUME NEW t \in Getters, GetRemove(t)
      PROVE  OnePlace'
  <2>1. held[t] = <<>> /\ pc[t] = "get.remove"
    BY <1>29 DEF GetRemove, TypeInv, HandsOK, HandOK
  <2>2. CASE NonPagedFirst
    <3>1. /\ Go(t, "get.size") /\ Hold(t, <<Head(npaged)>>)
          /\ npaged' = Tail(npaged) /\ paged' = paged /\ mem' = mem
      BY <1>29, <2>2 DEF GetRemove
    <3>2. npaged # <<>>
      BY <1>29, <2>2, EmptySingle DEF GetRemove, NonPagedFirst, Queued
    <3>3. /\ ToSet(npaged) = {Head(npaged)} \cup ToSet(Tail(npaged))
          /\ NoRepeats(Tail(npaged)) /\ Head(npaged) \notin ToSet(Tail(npaged))
      BY <3>2, HeadTailSet DEF OnePlace, TypeInv, TypeOK
    <3>4. ToSet(npaged) \cap ToSet(paged) = {}
      BY DEF OnePlace
    <3>5. ToSet(<<Head(npaged)>>) = {Head(npaged)} /\ NoRepeats(<<Head(npaged)>>)
      BY EmptySingle
    <3>6. ListsOK'
      BY <3>1, <3>3 DEF ListsOK, OnePlace
    <3>7. Queued' = ToSet(Tail(npaged)) \cup ToSet(paged) /\ Queued = ToSet(npaged) \cup ToSet(paged)
      BY <3>1 DEF Queued
    <3> QED BY <1>29, <2>1, <3>1, <3>3, <3>4, <3>5, <3>6, <3>7, TakeMove
        DEF GetRemove, CountLabels
  <2>3. CASE ~NonPagedFirst
    <3>1. /\ Go(t, "get.size") /\ Hold(t, <<Head(paged)>>)
          /\ paged' = Tail(paged) /\ npaged' = npaged /\ mem' = mem
      BY <1>29, <2>3 DEF GetRemove
    <3>2. paged # <<>>
      BY <1>29, <2>3, EmptySingle DEF GetRemove, NonPagedFirst, Queued
    <3>3. /\ ToSet(paged) = {Head(paged)} \cup ToSet(Tail(paged))
          /\ NoRepeats(Tail(paged)) /\ Head(paged) \notin ToSet(Tail(paged))
      BY <3>2, HeadTailSet DEF OnePlace, TypeInv, TypeOK
    <3>4. ToSet(paged) \cap ToSet(npaged) = {}
      BY DEF OnePlace
    <3>5. ToSet(<<Head(paged)>>) = {Head(paged)} /\ NoRepeats(<<Head(paged)>>)
      BY EmptySingle
    <3>6. ListsOK'
      BY <3>1, <3>3 DEF ListsOK, OnePlace
    <3>7. Queued' = ToSet(Tail(paged)) \cup ToSet(npaged) /\ Queued = ToSet(paged) \cup ToSet(npaged)
      BY <3>1 DEF Queued
    <3> QED BY <1>29, <2>1, <3>1, <3>3, <3>4, <3>5, <3>6, <3>7, TakeMove
        DEF GetRemove, CountLabels
  <2> QED BY <2>2, <2>3
<1>30. ASSUME NEW t \in Getters, GetDeliver(t)
      PROVE  OnePlace'
  <2>1. ToSet(held[t]) = {Head(held[t])} /\ Head(held[t]) \in Requests
    BY <1>30, HandsSingle DEF GetDeliver
  <2>2. \A r \in Requests : mem'[r] = "live" <=> mem[r] = "live" /\ r \notin ToSet(held[t])
    BY <1>30, <2>1 DEF GetDeliver, TypeInv, TypeOK
  <2> QED BY <1>30, <2>2, DisposeMove DEF GetDeliver, CountLabels
<1>31. ASSUME NEW t \in Getters, GetPutBack(t)
      PROVE  OnePlace'
  BY <1>31, LinkMove, HandsHeld DEF GetPutBack, CountLabels
<1>32. ASSUME NEW t \in Getters, GetCount(t)
      PROVE  OnePlace'
  <2>1. Tail(held[t]) = <<>>
    BY <1>32, HandsSingle DEF GetCount
  <2> QED BY <1>32, <2>1, CountMove DEF GetCount, CountLabels
<1>33. ASSUME NEW t \in Getters, GetRelease(t)
      PROVE  OnePlace'
  BY <1>33, KeepMove DEF GetRelease, CountLabels
<1>34. CASE SettingsSet \/ UNCHANGED vars
  <2>1. UNCHANGED <<paged, npaged, pc, held, mem>>
    BY <1>34 DEF SettingsSet, vars
  <2> QED BY <2>1 DEF OnePlace, Owned, Queued
<1> QED
  BY <1>1, <1>2, <1>3, <1>4, <1>5, <1>6, <1>7, <1>8, <1>9, <1>10, <1>11, <1>12,
      <1>13, <1>14, <1>15, <1>16, <1>17, <1>18, <1>19, <1>20, <1>21, <1>22,
      <1>23, <1>24, <1>25, <1>26, <1>27, <1>28, <1>29, <1>30, <1>31, <1>32,
      <1>33, <1>34
  DEF Next, InsertStep, ConnectStep, DisconnectStep, GetStep

\* At the start nothing is queued and nobody has a record in hand.
LEMMA OnePlaceInit ==
  ASSUME Init
  PROVE  OnePlace
<1>1. /\ paged = <<>> /\ npaged = <<>>
      /\ \A t \in Threads : Owned(t) = <<>>
      /\ \A r \in Requests : mem[r] # "live"
  BY DEF Init, Owned, CountLabels
<1>2. Queued = {}
  BY <1>1, EmptySingle DEF Queued
<1> QED BY <1>1, <1>2, EmptySingle DEF OnePlace

\* OnePlace, for any number of records, producers and clients.
THEOREM QueueOnePlace == Spec => []OnePlace
<1>1. Init => TypeInv /\ OnePlace
  BY TypeInvInit, OnePlaceInit
<1>2. TypeInv /\ OnePlace /\ [Next]_vars => (TypeInv /\ OnePlace)'
  BY TypeInvStep, OnePlaceStep
<1> QED BY <1>1, <1>2, PTL DEF Spec

-----------------------------------------------------------------------------
(* The statistics counters agree with the two lists, up to the insertions  *)
(* that are linked and not counted yet and the records that are taken out  *)
(* and not freed yet.                                                      *)

\* What the two counters are about.
PagedIn == ToSet(paged) \cup BeingCleared("clear.freePaged")
NonPagedIn == ToSet(npaged) \cup BeingCleared("clear.freeNonPaged")

FreeingLabels == {"clear.freePaged", "clear.freeNonPaged"}

-----------------------------------------------------------------------------
(* Sizes of sets.                                                          *)

LEMMA FiniteRequests ==
  ASSUME NEW S \in SUBSET Requests
  PROVE  IsFiniteSet(S) /\ Cardinality(S) \in Nat
  BY FS_Subset, FS_CardinalityType, QueueAssumption

LEMMA FiniteThreads ==
  ASSUME NEW S \in SUBSET Threads
  PROVE  IsFiniteSet(S) /\ Cardinality(S) \in Nat
  BY FS_Subset, FS_CardinalityType, QueueAssumption

\* A sequence without repetitions is as long as its set is large.
LEMMA SizeOfSet ==
  ASSUME NEW s \in Seq(Requests), NoRepeats(s)
  PROVE  Cardinality(ToSet(s)) = Len(s)
<1>1. Len(s) \in Nat /\ s \in [1..Len(s) -> Requests]
  BY LenProperties
<1>2. ToSet(s) = {s[i] : i \in 1..Len(s)}
  BY DEF ToSet
<1>3. s \in Bijection(1..Len(s), ToSet(s))
  BY <1>1, <1>2 DEF Bijection, Injection, Surjection, IsInjective, NoRepeats
<1>4. ExistsBijection(1..Len(s), ToSet(s))
  BY <1>3 DEF ExistsBijection
<1> QED BY <1>1, <1>4, FS_CountingElements

LEMMA SeqSet ==
  ASSUME NEW s \in Seq(Requests)
  PROVE  ToSet(s) \subseteq Requests
  BY DEF ToSet

LEMMA InTypes ==
  ASSUME TypeInv
  PROVE  /\ PagedIn \subseteq Requests /\ NonPagedIn \subseteq Requests
         /\ \A S : Uncounted(S) \subseteq Threads
<1>1. \A t \in Threads : ToSet(held[t]) \subseteq Requests
  BY SeqSet DEF TypeInv, TypeOK
<1>2. ToSet(paged) \subseteq Requests /\ ToSet(npaged) \subseteq Requests
  BY SeqSet DEF TypeInv, TypeOK
<1> QED BY <1>1, <1>2 DEF PagedIn, NonPagedIn, BeingCleared, Uncounted, Threads

\* Two sets that differ by one element more, or one element less.
LEMMA OneMore ==
  ASSUME NEW S, NEW x, IsFiniteSet(S), x \notin S
  PROVE  Cardinality(S \cup {x}) = Cardinality(S) + 1
  BY FS_AddElement

LEMMA OneLess ==
  ASSUME NEW S, NEW x, IsFiniteSet(S), x \in S
  PROVE  Cardinality(S \ {x}) = Cardinality(S) - 1
  BY FS_RemoveElement

LEMMA SomeLess ==
  ASSUME NEW S \in SUBSET Requests, NEW T \in SUBSET S
  PROVE  Cardinality(S \ T) = Cardinality(S) - Cardinality(T)
<1>1. IsFiniteSet(S)
  BY FiniteRequests
<1>2. S \cap T = T
  OBVIOUS
<1> QED BY <1>1, <1>2, FS_Difference

-----------------------------------------------------------------------------
(* How a step of one thread changes the sets.                              *)

LEMMA UncountedAfter ==
  ASSUME TypeInv, NEW t \in Threads, NEW l, Moves(t, l), NEW S
  PROVE  /\ l \in CountLabels /\ Head(held'[t]) \in S
              => Uncounted(S)' = Uncounted(S) \cup {t}
         /\ ~(l \in CountLabels /\ Head(held'[t]) \in S)
              => Uncounted(S)' = Uncounted(S) \ {t}
         /\ pc[t] \notin CountLabels => t \notin Uncounted(S)
  BY DEF Moves, Uncounted, Go, TypeInv, TypeOK

LEMMA ClearedAfter ==
  ASSUME TypeInv, OnePlace, NEW t \in Threads, NEW l, Moves(t, l),
         NEW lab \in FreeingLabels
  PROVE  /\ pc[t] # lab /\ l # lab => BeingCleared(lab)' = BeingCleared(lab)
         /\ pc[t] # lab /\ l = lab /\ t \in Clients
              => BeingCleared(lab)' = BeingCleared(lab) \cup ToSet(held'[t])
         /\ pc[t] = lab /\ l # lab /\ t \in Clients
              => /\ BeingCleared(lab)' = BeingCleared(lab) \ ToSet(held[t])
                 /\ ToSet(held[t]) \subseteq BeingCleared(lab)
<1> Clients \subseteq Threads
  BY DEF Threads
<1>1. \A c \in Clients \ {t} :
        pc'[c] = pc[c] /\ held'[c] = held[c]
  BY DEF Moves, Go, TypeInv, TypeOK
<1>2. pc'[t] = l
  BY DEF Moves, Go, TypeInv, TypeOK
<1>3. ASSUME pc[t] # lab, l # lab
      PROVE  BeingCleared(lab)' = BeingCleared(lab)
  BY <1>1, <1>2, <1>3 DEF BeingCleared
<1>4. ASSUME pc[t] # lab, l = lab, t \in Clients
      PROVE  BeingCleared(lab)' = BeingCleared(lab) \cup ToSet(held'[t])
  BY <1>1, <1>2, <1>4 DEF BeingCleared
<1>5. ASSUME pc[t] = lab, l # lab, t \in Clients
      PROVE  /\ BeingCleared(lab)' = BeingCleared(lab) \ ToSet(held[t])
             /\ ToSet(held[t]) \subseteq BeingCleared(lab)
  <2>1. \A c \in Clients \ {t} : pc[c] = lab => ToSet(held[c]) \cap ToSet(held[t]) = {}
    BY <1>5 DEF OnePlace, Owned, CountLabels, FreeingLabels
  <2> QED BY <1>1, <1>2, <1>5, <2>1 DEF BeingCleared
<1> QED BY <1>3, <1>4, <1>5

\* The sizes of the sets as numbers.
LEMMA Sizes ==
  ASSUME TypeInv
  PROVE  /\ Cardinality(PagedIn) \in Nat /\ Cardinality(NonPagedIn) \in Nat
         /\ \A S : Cardinality(Uncounted(S)) \in Nat
  BY InTypes, FiniteRequests, FiniteThreads

LEMMA SizesPrime ==
  ASSUME TypeInv'
  PROVE  /\ Cardinality(PagedIn)' \in Nat /\ Cardinality(NonPagedIn)' \in Nat
         /\ \A S : Cardinality(Uncounted(S))' \in Nat
<1>1. \A t \in Threads : ToSet(held'[t]) \subseteq Requests
  BY SeqSet DEF TypeInv, TypeOK
<1>2. ToSet(paged') \subseteq Requests /\ ToSet(npaged') \subseteq Requests
  BY SeqSet DEF TypeInv, TypeOK
<1>3. PagedIn' \subseteq Requests /\ NonPagedIn' \subseteq Requests
  BY <1>1, <1>2 DEF PagedIn, NonPagedIn, BeingCleared, Threads
<1>4. \A S : Uncounted(S)' \subseteq Threads
  BY DEF Uncounted
<1> QED BY <1>3, <1>4, FiniteRequests, FiniteThreads

\* If a step changes the counters as it changes the sizes, they stay exact.
LEMMA Shift ==
  ASSUME TypeInv, CountersExact,
         pagedLength' = pagedLength + (Cardinality(PagedIn)' - Cardinality(PagedIn))
           - (Cardinality(Uncounted(Paged))' - Cardinality(Uncounted(Paged))),
         npagedLength' = npagedLength + (Cardinality(NonPagedIn)' - Cardinality(NonPagedIn))
           - (Cardinality(Uncounted(Requests \ Paged))'
                - Cardinality(Uncounted(Requests \ Paged))),
         length' - length = (pagedLength' - pagedLength) + (npagedLength' - npagedLength),
         TypeInv'
  PROVE  CountersExact'
<1>1. /\ pagedLength = Cardinality(PagedIn) - Cardinality(Uncounted(Paged))
      /\ npagedLength = Cardinality(NonPagedIn) - Cardinality(Uncounted(Requests \ Paged))
      /\ length = pagedLength + npagedLength
  BY DEF CountersExact, PagedIn, NonPagedIn
<1>2. /\ pagedLength' = Cardinality(PagedIn)' - Cardinality(Uncounted(Paged))'
      /\ npagedLength' = Cardinality(NonPagedIn)' - Cardinality(Uncounted(Requests \ Paged))'
      /\ length' = pagedLength' + npagedLength'
  <2>1. /\ Cardinality(PagedIn)' \in Nat /\ Cardinality(NonPagedIn)' \in Nat
        /\ Cardinality(Uncounted(Paged))' \in Nat
        /\ Cardinality(Uncounted(Requests \ Paged))' \in Nat
    BY SizesPrime
  <2>2. /\ Cardinality(PagedIn) \in Nat /\ Cardinality(NonPagedIn) \in Nat
        /\ Cardinality(Uncounted(Paged)) \in Nat
        /\ Cardinality(Uncounted(Requests \ Paged)) \in Nat
    BY Sizes
  <2>3. length' \in Int /\ pagedLength' \in Int /\ npagedLength' \in Int
    BY DEF TypeInv, TypeOK
  <2> QED BY <1>1, <2>1, <2>2, <2>3
<1> QED BY <1>2 DEF CountersExact, PagedIn, NonPagedIn

\* A step that neither links nor counts nor clears changes nothing.
LEMMA CountersKept ==
  ASSUME TypeInv, OnePlace, CountersExact, NEW t \in Threads, NEW l, Moves(t, l),
         pc[t] \notin CountLabels \cup FreeingLabels, l \notin CountLabels \cup FreeingLabels,
         UNCHANGED <<lists, counters>>
  PROVE  CountersExact'
<1>1. \A S : Uncounted(S)' = Uncounted(S)
  BY UncountedAfter
<1>2. \A lab \in FreeingLabels : BeingCleared(lab)' = BeingCleared(lab)
  BY ClearedAfter
<1> QED BY <1>1, <1>2 DEF CountersExact, FreeingLabels, lists, counters

\* Linking a record makes its list and the records not counted yet one longer.
LEMMA CountersLink ==
  ASSUME TypeInv, TypeInv', OnePlace, CountersExact,
         NEW t \in Threads, NEW l, NEW b \in BOOLEAN,
         Go(t, l), UNCHANGED <<held, counters>>, held[t] # <<>>, Link(Head(held[t]), b),
         pc[t] \notin CountLabels \cup FreeingLabels, l \in CountLabels
  PROVE  CountersExact'
<1> DEFINE r == Head(held[t])
<1>1. Moves(t, l) /\ l \notin FreeingLabels
  BY DEF Moves, CountLabels, FreeingLabels
<1>2. r \in Requests /\ r \in ToSet(held[t]) /\ Owned(t) = held[t]
  BY HeadType, HeadTailSet DEF TypeInv, TypeOK, Owned
<1>3. r \notin Queued
  BY <1>2 DEF OnePlace
<1>4. \A lab \in FreeingLabels : /\ BeingCleared(lab)' = BeingCleared(lab)
                               /\ r \notin BeingCleared(lab)
  <2>1. \A lab \in FreeingLabels : BeingCleared(lab)' = BeingCleared(lab)
    BY <1>1, ClearedAfter
  <2>2. ASSUME NEW lab \in FreeingLabels, NEW c \in Clients, pc[c] = lab
        PROVE  r \notin ToSet(held[c])
    <3>1. c \in Threads /\ c # t /\ Owned(c) = held[c]
      BY <2>2 DEF Threads, Owned, CountLabels, FreeingLabels
    <3> QED BY <1>2, <3>1 DEF OnePlace
  <2> QED BY <2>1, <2>2 DEF BeingCleared
<1>5. paged \in Seq(Requests) /\ npaged \in Seq(Requests)
  BY DEF TypeInv, TypeOK
<1>6. ASSUME NEW S
      PROVE  /\ r \in S => Uncounted(S)' = Uncounted(S) \cup {t}
             /\ r \notin S => Uncounted(S)' = Uncounted(S)
             /\ t \notin Uncounted(S)
             /\ IsFiniteSet(Uncounted(S)) /\ Cardinality(Uncounted(S)) \in Nat
  <2>1. t \notin Uncounted(S)
    BY <1>1, UncountedAfter
  <2>2. IsFiniteSet(Uncounted(S)) /\ Cardinality(Uncounted(S)) \in Nat
    BY InTypes, FiniteThreads
  <2>3. Head(held'[t]) = r
    OBVIOUS
  <2>4. r \in S => Uncounted(S)' = Uncounted(S) \cup {t}
    BY <1>1, <2>3, UncountedAfter
  <2>5. r \notin S => Uncounted(S)' = Uncounted(S) \ {t}
    BY <1>1, <2>3, UncountedAfter
  <2>6. Uncounted(S) \ {t} = Uncounted(S)
    BY <2>1
  <2> QED BY <2>1, <2>2, <2>4, <2>5, <2>6
<1>7. /\ IsFiniteSet(PagedIn) /\ Cardinality(PagedIn) \in Nat
      /\ IsFiniteSet(NonPagedIn) /\ Cardinality(NonPagedIn) \in Nat
  BY InTypes, FiniteRequests
<1>8. r \notin PagedIn /\ r \notin NonPagedIn
  BY <1>3, <1>4 DEF PagedIn, NonPagedIn, Queued, FreeingLabels
<1>a. pagedLength \in Int /\ npagedLength \in Int /\ length \in Int
  BY DEF TypeInv, TypeOK
<1> HIDE DEF r
<1>9. CASE IsPaged(r)
  <2>1. npaged' = npaged /\ ToSet(paged') = ToSet(paged) \cup {r}
    <3>1. npaged' = npaged /\ (paged' = <<r>> \o paged \/ paged' = Append(paged, r))
      BY <1>9 DEF Link, r
    <3> QED BY <1>2, <1>5, <3>1, AppendSet, ConsSet
  <2>2. PagedIn' = PagedIn \cup {r} /\ NonPagedIn' = NonPagedIn
    BY <1>4, <2>1 DEF PagedIn, NonPagedIn, FreeingLabels
  <2>3. r \in Paged /\ r \notin Requests \ Paged
    BY <1>9 DEF IsPaged
  <2>4. /\ Cardinality(PagedIn)' = Cardinality(PagedIn) + 1
        /\ Cardinality(Uncounted(Paged))' = Cardinality(Uncounted(Paged)) + 1
        /\ Cardinality(Uncounted(Requests \ Paged))' = Cardinality(Uncounted(Requests \ Paged))
    BY <1>6, <1>7, <1>8, <2>2, <2>3, OneMore
  <2> QED BY <1>a, <2>2, <2>4, Sizes, Shift DEF counters
<1>10. CASE ~IsPaged(r)
  <2>1. paged' = paged /\ ToSet(npaged') = ToSet(npaged) \cup {r}
    <3>1. paged' = paged /\ (npaged' = <<r>> \o npaged \/ npaged' = Append(npaged, r))
      BY <1>10 DEF Link, r
    <3> QED BY <1>2, <1>5, <3>1, AppendSet, ConsSet
  <2>2. NonPagedIn' = NonPagedIn \cup {r} /\ PagedIn' = PagedIn
    BY <1>4, <2>1 DEF PagedIn, NonPagedIn, FreeingLabels
  <2>3. r \notin Paged /\ r \in Requests \ Paged
    BY <1>2, <1>10 DEF IsPaged
  <2>4. /\ Cardinality(NonPagedIn)' = Cardinality(NonPagedIn) + 1
        /\ Cardinality(Uncounted(Requests \ Paged))'
             = Cardinality(Uncounted(Requests \ Paged)) + 1
        /\ Cardinality(Uncounted(Paged))' = Cardinality(Uncounted(Paged))
    BY <1>6, <1>7, <1>8, <2>2, <2>3, OneMore
  <2> QED BY <1>a, <2>2, <2>4, Sizes, Shift DEF counters
<1> QED BY <1>9, <1>10

\* Counting a record settles what was linked and not counted.
LEMMA CountersCount ==
  ASSUME TypeInv, TypeInv', OnePlace, CountersExact, NEW t \in Threads, NEW l,
         Moves(t, l), UNCHANGED lists, held[t] # <<>>, Count(Head(held[t])),
         pc[t] \in CountLabels, l \notin CountLabels \cup FreeingLabels
  PROVE  CountersExact'
<1> DEFINE r == Head(held[t])
<1>1. r \in Requests
  BY HeadType DEF TypeInv
<1>2. \A lab \in FreeingLabels : BeingCleared(lab)' = BeingCleared(lab)
  BY ClearedAfter DEF CountLabels, FreeingLabels
<1>3. PagedIn' = PagedIn /\ NonPagedIn' = NonPagedIn
  BY <1>2 DEF PagedIn, NonPagedIn, FreeingLabels, lists
<1>4. ASSUME NEW S
      PROVE  Cardinality(Uncounted(S))' = Cardinality(Uncounted(S))
                                          - (IF r \in S THEN 1 ELSE 0)
  <2>1. Uncounted(S)' = Uncounted(S) \ {t} /\ IsFiniteSet(Uncounted(S))
    BY UncountedAfter, InTypes, FiniteThreads
  <2>2. t \in Uncounted(S) <=> r \in S
    BY DEF Uncounted
  <2>3. Cardinality(Uncounted(S)) \in Nat
    BY InTypes, FiniteThreads
  <2>4. CASE r \in S
    <3>1. Cardinality(Uncounted(S) \ {t}) = Cardinality(Uncounted(S)) - 1
      BY <2>1, <2>2, <2>4, OneLess
    <3> QED BY <2>1, <2>4, <3>1
  <2>5. CASE r \notin S
    <3>1. Uncounted(S) \ {t} = Uncounted(S)
      BY <2>2, <2>5
    <3>2. Cardinality(Uncounted(S))' = Cardinality(Uncounted(S))
      BY <2>1, <3>1
    <3> QED BY <2>3, <2>5, <3>2
  <2> QED BY <2>4, <2>5
<1>5. r \in Paged <=> r \notin Requests \ Paged
  BY <1>1
<1>6. /\ Cardinality(Uncounted(Paged))' = Cardinality(Uncounted(Paged))
                                          - (IF r \in Paged THEN 1 ELSE 0)
      /\ Cardinality(Uncounted(Requests \ Paged))' = Cardinality(Uncounted(Requests \ Paged))
                                          - (IF r \in Paged THEN 0 ELSE 1)
  BY <1>4, <1>5
<1>7. /\ pagedLength' = pagedLength + (IF r \in Paged THEN 1 ELSE 0)
      /\ npagedLength' = npagedLength + (IF r \in Paged THEN 0 ELSE 1)
      /\ length' = length + 1
  BY DEF Count, IsPaged
<1>8. pagedLength \in Int /\ npagedLength \in Int /\ length \in Int
  BY DEF TypeInv, TypeOK
<1>9. /\ Cardinality(PagedIn) \in Nat /\ Cardinality(NonPagedIn) \in Nat
      /\ Cardinality(Uncounted(Paged)) \in Nat
      /\ Cardinality(Uncounted(Requests \ Paged)) \in Nat
  BY Sizes
<1> HIDE DEF r
<1> QED BY <1>3, <1>6, <1>7, <1>8, <1>9, Shift

\* Nothing is counted or linked: the sizes of the two sets and the counters change alike.
LEMMA CountersTaken ==
  ASSUME TypeInv, TypeInv', OnePlace, CountersExact, NEW t \in Threads, NEW l,
         Moves(t, l), pc[t] \notin CountLabels, l \notin CountLabels,
         NEW n \in Int, NEW m \in Int,
         Cardinality(PagedIn)' = Cardinality(PagedIn) - n,
         Cardinality(NonPagedIn)' = Cardinality(NonPagedIn) - m,
         pagedLength' = pagedLength - n, npagedLength' = npagedLength - m,
         length' = length - n - m
  PROVE  CountersExact'
<1>1. \A S : Uncounted(S)' = Uncounted(S)
  BY UncountedAfter
<1>2. pagedLength \in Int /\ npagedLength \in Int /\ length \in Int
  BY DEF TypeInv, TypeOK
<1>3. /\ Cardinality(PagedIn) \in Nat /\ Cardinality(NonPagedIn) \in Nat
      /\ Cardinality(Uncounted(Paged)) \in Nat
      /\ Cardinality(Uncounted(Requests \ Paged)) \in Nat
  BY Sizes
<1>4. /\ Cardinality(Uncounted(Paged))' = Cardinality(Uncounted(Paged))
      /\ Cardinality(Uncounted(Requests \ Paged))' = Cardinality(Uncounted(Requests \ Paged))
  BY <1>1
<1> QED BY <1>2, <1>3, <1>4, Shift

\* What a clear has in hand is not linked.
LEMMA ClearedApart ==
  ASSUME TypeInv, OnePlace, NEW lab \in FreeingLabels
  PROVE  BeingCleared(lab) \cap Queued = {}
  BY DEF BeingCleared, OnePlace, Owned, CountLabels, FreeingLabels, Threads

\* The reader takes the head of a list, and counts it off at once.
LEMMA CountersRemove ==
  ASSUME TypeInv, TypeInv', OnePlace, CountersExact, NEW t \in Threads, GetRemove(t)
  PROVE  CountersExact'
<1> USE DEF lists, counters
<1>1. Moves(t, "get.size")
  BY DEF GetRemove, Moves, Hold, TypeInv, TypeOK
<1>2. \A lab \in FreeingLabels : BeingCleared(lab)' = BeingCleared(lab)
  BY <1>1, ClearedAfter DEF FreeingLabels, GetRemove
<1>3. /\ paged \in Seq(Requests) /\ npaged \in Seq(Requests)
      /\ NoRepeats(paged) /\ NoRepeats(npaged)
  BY DEF TypeInv, TypeOK, OnePlace
<1>4. /\ Cardinality(PagedIn) \in Nat /\ Cardinality(NonPagedIn) \in Nat
      /\ IsFiniteSet(PagedIn) /\ IsFiniteSet(NonPagedIn)
  BY InTypes, FiniteRequests
<1>5. length \in Int /\ pagedLength \in Int /\ npagedLength \in Int
  BY DEF TypeInv, TypeOK
<1>6. CASE NonPagedFirst
  <2> DEFINE r == Head(npaged)
  <2>1. npaged # <<>> /\ npaged' = Tail(npaged) /\ UNCHANGED <<paged, pagedLength>>
          /\ npagedLength' = npagedLength - 1 /\ length' = length - 1
    BY <1>6 DEF GetRemove, NonPagedFirst
  <2>2. ToSet(npaged) = {r} \cup ToSet(npaged') /\ r \notin ToSet(npaged')
    BY <1>3, <2>1, HeadTailSet
  <2>3. r \notin BeingCleared("clear.freeNonPaged")
    BY <2>2, ClearedApart DEF FreeingLabels, Queued
  <2>4. r \in NonPagedIn /\ NonPagedIn' = NonPagedIn \ {r} /\ PagedIn' = PagedIn
    BY <1>2, <2>1, <2>2, <2>3 DEF NonPagedIn, PagedIn, FreeingLabels
  <2>5. Cardinality(NonPagedIn)' = Cardinality(NonPagedIn) - 1
    BY <1>4, <2>4, OneLess
  <2>6. Cardinality(PagedIn)' = Cardinality(PagedIn) - 0
    BY <1>4, <2>4
  <2> QED BY <1>1, <1>5, <2>1, <2>5, <2>6, CountersTaken DEF CountLabels, GetRemove
<1>7. CASE ~NonPagedFirst
  <2> DEFINE r == Head(paged)
  <2>1. paged # <<>> /\ paged' = Tail(paged) /\ UNCHANGED <<npaged, npagedLength>>
          /\ pagedLength' = pagedLength - 1 /\ length' = length - 1
    <3>1. Queued # {}
      BY DEF GetRemove
    <3>2. paged # <<>>
      BY <1>7, <3>1, EmptySingle DEF NonPagedFirst, Queued
    <3> QED BY <1>7, <3>2 DEF GetRemove
  <2>2. ToSet(paged) = {r} \cup ToSet(paged') /\ r \notin ToSet(paged')
    BY <1>3, <2>1, HeadTailSet
  <2>3. r \notin BeingCleared("clear.freePaged")
    BY <2>2, ClearedApart DEF FreeingLabels, Queued
  <2>4. r \in PagedIn /\ PagedIn' = PagedIn \ {r} /\ NonPagedIn' = NonPagedIn
    BY <1>2, <2>1, <2>2, <2>3 DEF NonPagedIn, PagedIn, FreeingLabels
  <2>5. Cardinality(PagedIn)' = Cardinality(PagedIn) - 1
    BY <1>4, <2>4, OneLess
  <2>6. Cardinality(NonPagedIn)' = Cardinality(NonPagedIn) - 0
    BY <1>4, <2>4
  <2> QED BY <1>1, <1>5, <2>1, <2>5, <2>6, CountersTaken DEF CountLabels, GetRemove
<1> QED BY <1>6, <1>7

\* A clear takes a whole list, which stays counted until it frees the records.
LEMMA CountersClear ==
  ASSUME TypeInv, TypeInv', OnePlace, CountersExact, NEW t \in Clients,
         ClearNonPaged(t) \/ ClearPaged(t)
  PROVE  CountersExact'
<1> USE DEF lists, counters
<1> t \in Threads
  BY DEF Threads
<1>1. length \in Int /\ pagedLength \in Int /\ npagedLength \in Int
        /\ Cardinality(PagedIn) \in Nat /\ Cardinality(NonPagedIn) \in Nat
  BY Sizes DEF TypeInv, TypeOK
<1>2. ToSet(<<>>) = {}
  BY EmptySingle
<1>3. CASE ClearNonPaged(t)
  <2>1. Moves(t, "clear.freeNonPaged") /\ held'[t] = npaged /\ npaged' = <<>>
    BY <1>3 DEF ClearNonPaged, Moves, Hold, TypeInv, TypeOK
  <2>2. pc[t] \in {"idle", "disconnect.clear"}
    BY <1>3 DEF ClearNonPaged
  <2>3. BeingCleared("clear.freeNonPaged")'
           = BeingCleared("clear.freeNonPaged") \cup ToSet(npaged)
    BY <2>1, <2>2, ClearedAfter DEF FreeingLabels
  <2>4. BeingCleared("clear.freePaged")' = BeingCleared("clear.freePaged")
    BY <2>1, <2>2, ClearedAfter DEF FreeingLabels
  <2>5. PagedIn' = PagedIn /\ NonPagedIn' = NonPagedIn
    BY <1>2, <1>3, <2>1, <2>3, <2>4 DEF PagedIn, NonPagedIn, ClearNonPaged
  <2>6. UNCHANGED counters
    BY <1>3 DEF ClearNonPaged
  <2>7. /\ Cardinality(PagedIn)' = Cardinality(PagedIn) - 0
        /\ Cardinality(NonPagedIn)' = Cardinality(NonPagedIn) - 0
    BY <1>1, <2>5
  <2> QED BY <1>1, <2>1, <2>2, <2>6, <2>7, CountersTaken DEF CountLabels
<1>4. CASE ClearPaged(t)
  <2>1. Moves(t, "clear.freePaged") /\ held'[t] = paged /\ paged' = <<>>
    BY <1>4 DEF ClearPaged, Moves, Hold, TypeInv, TypeOK
  <2>2. pc[t] = "clear.paged"
    BY <1>4 DEF ClearPaged
  <2>3. BeingCleared("clear.freePaged")' = BeingCleared("clear.freePaged") \cup ToSet(paged)
    BY <2>1, <2>2, ClearedAfter DEF FreeingLabels
  <2>4. BeingCleared("clear.freeNonPaged")' = BeingCleared("clear.freeNonPaged")
    BY <2>1, <2>2, ClearedAfter DEF FreeingLabels
  <2>5. PagedIn' = PagedIn /\ NonPagedIn' = NonPagedIn
    BY <1>2, <1>4, <2>1, <2>3, <2>4 DEF PagedIn, NonPagedIn, ClearPaged
  <2>6. UNCHANGED counters
    BY <1>4 DEF ClearPaged
  <2>7. /\ Cardinality(PagedIn)' = Cardinality(PagedIn) - 0
        /\ Cardinality(NonPagedIn)' = Cardinality(NonPagedIn) - 0
    BY <1>1, <2>5
  <2> QED BY <1>1, <2>1, <2>2, <2>6, <2>7, CountersTaken DEF CountLabels
<1> QED BY <1>3, <1>4

LEMMA CountersFree ==
  ASSUME TypeInv, TypeInv', OnePlace, CountersExact, NEW t \in Clients,
         ClearFreeNonPaged(t) \/ ClearFreePaged(t)
  PROVE  CountersExact'
<1> USE DEF lists, counters
<1> t \in Threads
  BY DEF Threads
<1>1. length \in Int /\ pagedLength \in Int /\ npagedLength \in Int
        /\ Cardinality(PagedIn) \in Nat /\ Cardinality(NonPagedIn) \in Nat
  BY Sizes DEF TypeInv, TypeOK
<1>2. Owned(t) = held[t] /\ held[t] \in Seq(Requests) /\ NoRepeats(held[t])
  BY DEF ClearFreeNonPaged, ClearFreePaged, Owned, CountLabels, OnePlace, TypeInv, TypeOK
<1>3. Cardinality(ToSet(held[t])) = Len(held[t]) /\ Len(held[t]) \in Nat
  BY <1>2, SizeOfSet, LenProperties
<1>4. ToSet(held[t]) \cap Queued = {}
  BY <1>2 DEF OnePlace
<1>5. PagedIn \subseteq Requests /\ NonPagedIn \subseteq Requests
  BY InTypes
<1>6. CASE ClearFreeNonPaged(t)
  <2>1. Moves(t, "clear.paged") /\ pc[t] = "clear.freeNonPaged" /\ UNCHANGED lists
    BY <1>6 DEF ClearFreeNonPaged, Moves, Hold, TypeInv, TypeOK
  <2>2. /\ BeingCleared("clear.freeNonPaged")'
             = BeingCleared("clear.freeNonPaged") \ ToSet(held[t])
        /\ ToSet(held[t]) \subseteq BeingCleared("clear.freeNonPaged")
        /\ BeingCleared("clear.freePaged")' = BeingCleared("clear.freePaged")
    BY <2>1, ClearedAfter DEF FreeingLabels
  <2>3. /\ PagedIn' = PagedIn /\ NonPagedIn' = NonPagedIn \ ToSet(held[t])
        /\ ToSet(held[t]) \subseteq NonPagedIn
    BY <1>4, <2>1, <2>2 DEF PagedIn, NonPagedIn, Queued
  <2>4. /\ Cardinality(PagedIn)' = Cardinality(PagedIn) - 0
        /\ Cardinality(NonPagedIn)' = Cardinality(NonPagedIn) - Len(held[t])
    BY <1>1, <1>3, <1>5, <2>3, SomeLess
  <2>5. /\ pagedLength' = pagedLength - 0 /\ npagedLength' = npagedLength - Len(held[t])
        /\ length' = length - 0 - Len(held[t])
    BY <1>1, <1>3, <1>6 DEF ClearFreeNonPaged
  <2> QED BY <1>3, <2>1, <2>4, <2>5, CountersTaken DEF CountLabels
<1>7. CASE ClearFreePaged(t)
  <2>1. Moves(t, "idle") /\ pc[t] = "clear.freePaged" /\ UNCHANGED lists
    BY <1>7 DEF ClearFreePaged, Moves, Hold, TypeInv, TypeOK
  <2>2. /\ BeingCleared("clear.freePaged")'
             = BeingCleared("clear.freePaged") \ ToSet(held[t])
        /\ ToSet(held[t]) \subseteq BeingCleared("clear.freePaged")
        /\ BeingCleared("clear.freeNonPaged")' = BeingCleared("clear.freeNonPaged")
    BY <2>1, ClearedAfter DEF FreeingLabels
  <2>3. /\ NonPagedIn' = NonPagedIn /\ PagedIn' = PagedIn \ ToSet(held[t])
        /\ ToSet(held[t]) \subseteq PagedIn
    BY <1>4, <2>1, <2>2 DEF PagedIn, NonPagedIn, Queued
  <2>4. /\ Cardinality(NonPagedIn)' = Cardinality(NonPagedIn) - 0
        /\ Cardinality(PagedIn)' = Cardinality(PagedIn) - Len(held[t])
    BY <1>1, <1>3, <1>5, <2>3, SomeLess
  <2>5. /\ npagedLength' = npagedLength - 0 /\ pagedLength' = pagedLength - Len(held[t])
        /\ length' = length - Len(held[t]) - 0
    BY <1>1, <1>3, <1>7 DEF ClearFreePaged
  <2> QED BY <1>3, <2>1, <2>4, <2>5, CountersTaken DEF CountLabels
<1> QED BY <1>6, <1>7

-----------------------------------------------------------------------------
(* The steps.                                                              *)

LEMMA CountersInsert ==
  ASSUME TypeInv, TypeInv', OnePlace, CountersExact, NEW t \in Producers,
         (\E r \in Requests : InsertBegin(t, r)) \/ InsertStep(t)
  PROVE  CountersExact'
<1> USE DEF lists, counters, rlock, settings, ids
<1> t \in Threads
  BY DEF Threads
<1>1. ASSUME NEW r \in Requests, InsertBegin(t, r)
      PROVE  CountersExact'
  <2> DEFINE l == IF connected \/ collect THEN "insert.acquire" ELSE "insert.callback"
  <2>1. l \notin CountLabels \cup FreeingLabels /\ pc[t] \notin CountLabels \cup FreeingLabels
    BY <1>1 DEF InsertBegin, CountLabels, FreeingLabels
  <2>2. Moves(t, l)
    BY <1>1 DEF InsertBegin, Moves, Hold, TypeInv, TypeOK
  <2>3. UNCHANGED <<lists, counters>>
    BY <1>1 DEF InsertBegin
  <2> HIDE DEF l
  <2> QED BY <2>1, <2>2, <2>3, CountersKept
<1>2. CASE InsertAcquire(t)
  BY <1>2, CountersKept DEF InsertAcquire, Moves, CountLabels, FreeingLabels
<1>3. CASE InsertRefused(t)
  <2>1. Moves(t, "idle")
    BY <1>3 DEF InsertRefused, Moves, Hold, TypeInv, TypeOK
  <2> QED BY <1>3, <2>1, CountersKept DEF InsertRefused, CountLabels, FreeingLabels
<1>4. CASE InsertId(t)
  BY <1>4, CountersKept DEF InsertId, Moves, CountLabels, FreeingLabels
<1>5. CASE InsertLink(t)
  BY <1>5, CountersLink, HandsHeld DEF InsertLink, CountLabels, FreeingLabels
<1>6. CASE InsertCount(t)
  <2>1. Moves(t, "insert.release")
    BY <1>6 DEF InsertCount, Moves, Hold, TypeInv, TypeOK
  <2> QED BY <1>6, <2>1, CountersCount, HandsHeld DEF InsertCount, CountLabels, FreeingLabels
<1>7. CASE InsertRelease(t)
  BY <1>7, CountersKept DEF InsertRelease, Moves, CountLabels, FreeingLabels
<1>8. CASE InsertCallback(t)
  <2>1. Moves(t, "idle")
    BY <1>8 DEF InsertCallback, Moves, Hold, TypeInv, TypeOK
  <2> QED BY <1>8, <2>1, CountersKept DEF InsertCallback, CountLabels, FreeingLabels
<1> QED BY <1>1, <1>2, <1>3, <1>4, <1>5, <1>6, <1>7, <1>8 DEF InsertStep

LEMMA CountersConnect ==
  ASSUME TypeInv, TypeInv', OnePlace, CountersExact, NEW t \in Clients,
         ConnectBegin(t) \/ ConnectStep(t)
  PROVE  CountersExact'
<1> USE DEF lists, counters, rlock, settings, ids
<1> t \in Threads
  BY DEF Threads
<1>1. CASE ConnectBegin(t)
  BY <1>1, CountersKept DEF ConnectBegin, Moves, CountLabels, FreeingLabels
<1>2. CASE ConnectList(t)
  <2>1. Moves(t, "connect.id")
    BY <1>2 DEF ConnectList, Moves, Hold, TypeInv, TypeOK
  <2> QED BY <1>2, <2>1, CountersKept DEF ConnectList, CountLabels, FreeingLabels
<1>3. CASE ConnectFail(t)
  BY <1>3, CountersKept DEF ConnectFail, Moves, CountLabels, FreeingLabels
<1>4. CASE ConnectId(t)
  BY <1>4, CountersKept DEF ConnectId, Moves, CountLabels, FreeingLabels
<1>5. CASE ConnectLink(t)
  BY <1>5, CountersLink, HandsHeld DEF ConnectLink, CountLabels, FreeingLabels
<1>6. CASE ConnectCount(t)
  <2>1. Moves(t, "connect.id")
    BY <1>6 DEF ConnectCount, Moves, Hold, TypeInv, TypeOK
  <2> QED BY <1>6, <2>1, CountersCount, HandsHeld DEF ConnectCount, CountLabels, FreeingLabels
<1>7. CASE ConnectDone(t)
  BY <1>7, CountersKept DEF ConnectDone, Moves, CountLabels, FreeingLabels
<1>8. CASE ConnectDisable(t)
  BY <1>8, CountersKept DEF ConnectDisable, Moves, CountLabels, FreeingLabels
<1> QED BY <1>1, <1>2, <1>3, <1>4, <1>5, <1>6, <1>7, <1>8 DEF ConnectStep

LEMMA CountersDisconnect ==
  ASSUME TypeInv, TypeInv', OnePlace, CountersExact, NEW t \in Clients,
         DisconnectBegin(t) \/ ClearNonPaged(t) \/ DisconnectStep(t)
  PROVE  CountersExact'
<1> USE DEF lists, counters, rlock, settings, ids
<1> t \in Threads
  BY DEF Threads
<1>1. CASE DisconnectBegin(t)
  <2> DEFINE l == IF ioCount > 2 THEN "disconnect.wait" ELSE "disconnect.unset"
  <2>1. l \notin CountLabels \cup FreeingLabels /\ pc[t] \notin CountLabels \cup FreeingLabels
    BY <1>1 DEF DisconnectBegin, CountLabels, FreeingLabels
  <2>2. Moves(t, l)
    BY <1>1 DEF DisconnectBegin, Moves
  <2>3. UNCHANGED <<lists, counters>>
    BY <1>1 DEF DisconnectBegin
  <2> HIDE DEF l
  <2> QED BY <2>1, <2>2, <2>3, CountersKept
<1>2. CASE DisconnectWait(t)
  BY <1>2, CountersKept DEF DisconnectWait, Moves, CountLabels, FreeingLabels
<1>3. CASE DisconnectUnset(t)
  BY <1>3, CountersKept DEF DisconnectUnset, Moves, CountLabels, FreeingLabels
<1>4. CASE DisconnectKeep(t)
  BY <1>4, CountersKept DEF DisconnectKeep, Moves, CountLabels, FreeingLabels
<1>5. CASE ClearNonPaged(t) \/ ClearPaged(t)
  BY <1>5, CountersClear
<1>6. CASE ClearFreeNonPaged(t) \/ ClearFreePaged(t)
  BY <1>6, CountersFree
<1> QED BY <1>1, <1>2, <1>3, <1>4, <1>5, <1>6 DEF DisconnectStep

LEMMA CountersGet ==
  ASSUME TypeInv, TypeInv', OnePlace, CountersExact, NEW t \in Getters,
         GetBegin(t) \/ GetStep(t)
  PROVE  CountersExact'
<1> USE DEF lists, counters, rlock, settings, ids
<1> t \in Threads
  BY QueueAssumption DEF Threads
<1>1. CASE GetBegin(t)
  BY <1>1, CountersKept DEF GetBegin, Moves, CountLabels, FreeingLabels
<1>2. CASE GetAcquire(t)
  BY <1>2, CountersKept DEF GetAcquire, Moves, CountLabels, FreeingLabels
<1>3. CASE GetRefused(t)
  BY <1>3, CountersKept DEF GetRefused, Moves, CountLabels, FreeingLabels
<1>4. CASE GetRemove(t)
  BY <1>4, CountersRemove
<1>5. CASE GetNoMore(t)
  BY <1>5, CountersKept DEF GetNoMore, Moves, CountLabels, FreeingLabels
<1>6. CASE GetDeliver(t)
  <2>1. Moves(t, "get.release")
    BY <1>6 DEF GetDeliver, Moves, Hold, TypeInv, TypeOK
  <2> QED BY <1>6, <2>1, CountersKept DEF GetDeliver, CountLabels, FreeingLabels
<1>7. CASE GetPutBack(t)
  BY <1>7, CountersLink, HandsHeld DEF GetPutBack, CountLabels, FreeingLabels
<1>8. CASE GetCount(t)
  <2>1. Moves(t, "get.release")
    BY <1>8 DEF GetCount, Moves, Hold, TypeInv, TypeOK
  <2> QED BY <1>8, <2>1, CountersCount, HandsHeld DEF GetCount, CountLabels, FreeingLabels
<1>9. CASE GetRelease(t)
  BY <1>9, CountersKept DEF GetRelease, Moves, CountLabels, FreeingLabels
<1> QED BY <1>1, <1>2, <1>3, <1>4, <1>5, <1>6, <1>7, <1>8, <1>9 DEF GetStep

\* Every step keeps the counters exact.
LEMMA CountersStep ==
  ASSUME TypeInv, OnePlace, CountersExact, [Next]_vars
  PROVE  CountersExact'
<1>1. TypeInv'
  BY TypeInvStep
<1>2. CASE SettingsSet \/ UNCHANGED vars
  <2>1. UNCHANGED <<paged, npaged, pc, held, length, pagedLength, npagedLength>>
    BY <1>2 DEF SettingsSet, vars, lists, counters
  <2> QED BY <2>1 DEF CountersExact, BeingCleared, Uncounted
<1> QED BY <1>1, <1>2, CountersInsert, CountersConnect, CountersDisconnect, CountersGet
        DEF Next

\* The counters are exact at the start.
LEMMA CountersInit ==
  ASSUME Init
  PROVE  CountersExact
<1>1. ToSet(paged) = {} /\ ToSet(npaged) = {}
  BY EmptySingle DEF Init
<1>2. BeingCleared("clear.freePaged") = {} /\ BeingCleared("clear.freeNonPaged") = {}
  BY DEF Init, BeingCleared, Threads
<1>3. \A S : Uncounted(S) = {}
  BY DEF Init, Uncounted, CountLabels
<1>4. ToSet(paged) \cup BeingCleared("clear.freePaged") = {}
        /\ ToSet(npaged) \cup BeingCleared("clear.freeNonPaged") = {}
  BY <1>1, <1>2
<1>5. Cardinality({}) = 0
  BY FS_EmptySet
<1>6. /\ Cardinality(Uncounted(Paged)) = 0
      /\ Cardinality(Uncounted(Requests \ Paged)) = 0
  BY <1>3, <1>5
<1>7. length = 0 /\ pagedLength = 0 /\ npagedLength = 0
  BY DEF Init
<1>8. /\ Cardinality(ToSet(paged) \cup BeingCleared("clear.freePaged")) = 0
      /\ Cardinality(ToSet(npaged) \cup BeingCleared("clear.freeNonPaged")) = 0
  BY <1>4, <1>5
<1> HIDE DEF BeingCleared, Uncounted
<1> QED BY <1>6, <1>7, <1>8 DEF CountersExact

\* CountersExact, for any numbers of records, inserting threads and clients:
\* what the statistics report differs from the two lists only by the linked
\* records that an insertion or a put-back has not counted yet and by those
\* a clear has taken over and not freed yet.
THEOREM QueueCountersExact == Spec => []CountersExact
<1>1. Init => TypeInv /\ OnePlace /\ CountersExact
  BY TypeInvInit, OnePlaceInit, CountersInit
<1>2. TypeInv /\ OnePlace /\ CountersExact /\ [Next]_vars
        => (TypeInv /\ OnePlace /\ CountersExact)'
  BY TypeInvStep, OnePlaceStep, CountersStep
<1> QED BY <1>1, <1>2, PTL DEF Spec

-----------------------------------------------------------------------------
(* A disconnect waits for every insert and every get that is inside, and a *)
(* disconnect that clears leaves nothing.                                  *)

\* Nothing is collected without a client and a connect lists no snapshot.
\* Otherwise RequestQueueConnect may initialise the remove lock anew under an
\* insert that has acquired it (req-queue.c:216), and what the disconnect of
\* that session waits for is no longer the number of the threads inside.
PlainSessions == CollectValues = {FALSE} /\ MaxSnapshot = 0

ConnectLabels == {"connect.list", "connect.id", "connect.link", "connect.count"}

DrainLabels == {"disconnect.wait", "disconnect.unset"}

ClearingLabels ==
  {"disconnect.clear", "clear.freeNonPaged", "clear.paged", "clear.freePaged"}

InsideLabels ==
  {"insert.id", "insert.link", "insert.count", "insert.release",
   "get.remove", "get.size", "get.count", "get.release"}

\* The settings in effect are among the allowed ones.
SettingsOK == collect \in CollectValues /\ clearOnDisc \in ClearValues

\* How the place l of client c goes with the connect lock and the two flags.
HolderAt(c, l) ==
  /\ l \in ConnectLabels => connectLock = c /\ ~removed /\ ~connected
  /\ l \in DrainLabels => connectLock = c /\ removed /\ connected
  /\ l = "disconnect.unset" => Inside = {}
  /\ l = "disconnect.clear" => connectLock = c
  /\ connectLock = c => l \in ConnectLabels \cup DrainLabels \cup ClearingLabels
  /\ connectLock = c /\ l \in ClearingLabels => removed /\ ~connected

HolderOK == \A c \in Clients : HolderAt(c, pc[c])

\* No client has connected yet, and none is about to.
NeverConnected == ~removed /\ ~connected /\ connectLock = Nobody

\* The references the lock itself accounts for: the initial one, and the one
\* RequestQueueConnect takes for the disconnect.
OwnReferences == IF removed THEN 0 ELSE IF NeverConnected THEN 1 ELSE 2

\* The remove lock counts the threads inside and the references of its own.
RefsOK ==
  /\ ioCount = Cardinality(Inside) + OwnReferences
  /\ removeEvent => removed /\ Inside = {}
  /\ removed /\ ~connected => Inside = {}
  /\ removed /\ connected => connectLock # Nobody
  /\ NeverConnected =>
       /\ Inside = {}
       /\ \A t \in Threads : pc[t] \notin {"insert.acquire", "get.acquire"}

SessionInv == TypeInv /\ SettingsOK /\ HolderOK /\ RefsOK

-----------------------------------------------------------------------------
(* How a step of one thread changes who is inside.                         *)

LEMMA InsideIs ==
  /\ Inside = {t \in Threads : pc[t] \in InsideLabels}
  /\ IsFiniteSet(Inside) /\ Cardinality(Inside) \in Nat
<1>1. Inside = {t \in Threads : pc[t] \in InsideLabels}
  BY DEF Inside, InsideLabels
<1>2. Inside \subseteq Threads
  BY <1>1
<1> QED BY <1>1, <1>2, FS_Subset, FS_CardinalityType, QueueAssumption

LEMMA Stays ==
  ASSUME TypeInv, NEW t \in Threads, NEW l, Go(t, l),
         pc[t] \in InsideLabels <=> l \in InsideLabels
  PROVE  Inside' = Inside
  BY DEF Inside, InsideLabels, Go, TypeInv, TypeOK

LEMMA Enters ==
  ASSUME TypeInv, NEW t \in Threads, NEW l, Go(t, l),
         pc[t] \notin InsideLabels, l \in InsideLabels
  PROVE  Cardinality(Inside)' = Cardinality(Inside) + 1
<1>1. Inside' = Inside \cup {t} /\ t \notin Inside
  BY DEF Inside, InsideLabels, Go, TypeInv, TypeOK
<1>2. Cardinality(Inside \cup {t}) = Cardinality(Inside) + 1
  BY <1>1, InsideIs, FS_AddElement
<1> QED BY <1>1, <1>2

LEMMA Leaves ==
  ASSUME TypeInv, NEW t \in Threads, NEW l, Go(t, l),
         pc[t] \in InsideLabels, l \notin InsideLabels
  PROVE  /\ Cardinality(Inside)' = Cardinality(Inside) - 1
         /\ Inside' \subseteq Inside
         /\ Cardinality(Inside) = 1 => Inside' = {}
         /\ Inside # {} /\ Cardinality(Inside) # 0
<1>1. Inside' = Inside \ {t} /\ t \in Inside
  BY DEF Inside, InsideLabels, Go, TypeInv, TypeOK
<1>2. Cardinality(Inside \ {t}) = Cardinality(Inside) - 1 /\ IsFiniteSet(Inside \ {t})
  BY <1>1, InsideIs, FS_RemoveElement
<1>3. Cardinality(Inside \ {t}) = 0 => Inside \ {t} = {}
  BY <1>2, FS_EmptySet
<1>4. Cardinality(Inside) # 0
  BY <1>1, InsideIs, FS_EmptySet
<1>5. Cardinality(Inside)' = Cardinality(Inside) - 1
  BY <1>1, <1>2
<1>6. Cardinality(Inside) = 1 => Inside' = {}
  BY <1>1, <1>2, <1>3
<1> QED BY <1>1, <1>4, <1>5, <1>6

LEMMA NobodyInside ==
  Cardinality(Inside) = 0 <=> Inside = {}
  BY InsideIs, FS_EmptySet

-----------------------------------------------------------------------------
(* Who holds the connect lock.                                             *)

\* A thread moves that neither takes nor gives the connect lock.
LEMMA HolderMove ==
  ASSUME TypeInv, HolderOK, NEW t \in Threads, NEW l, Go(t, l),
         t \in Clients => HolderAt(t, l)',
         UNCHANGED <<removed, connected, connectLock>>,
         Inside' \subseteq Inside \/ ~removed
  PROVE  HolderOK'
<1> SUFFICES ASSUME NEW c \in Clients PROVE HolderAt(c, pc[c])'
  BY DEF HolderOK
<1> c \in Threads
  BY DEF Threads
<1>1. CASE c = t
  <2>1. pc'[c] = l
    BY <1>1 DEF Go, TypeInv, TypeOK
  <2> QED BY <1>1, <2>1 DEF HolderAt
<1>2. CASE c # t
  <2>1. pc'[c] = pc[c] /\ HolderAt(c, pc[c])
    BY <1>2 DEF Go, TypeInv, TypeOK, HolderOK
  <2> QED BY <2>1 DEF HolderAt, DrainLabels
<1> QED BY <1>1, <1>2

\* The connect lock passes between "nobody" and t, or stays where it is of the two.
LEMMA HolderAlone ==
  ASSUME TypeInv, HolderOK, NEW t \in Clients, NEW l, Go(t, l), HolderAt(t, l)',
         connectLock \in {Nobody, t}, connectLock' \in {Nobody, t}
  PROVE  HolderOK'
<1> SUFFICES ASSUME NEW c \in Clients PROVE HolderAt(c, pc[c])'
  BY DEF HolderOK
<1> c \in Threads /\ t \in Threads /\ Nobody \notin Threads
  BY QueueAssumption DEF Threads
<1>1. CASE c = t
  <2>1. pc'[c] = l
    BY <1>1 DEF Go, TypeInv, TypeOK
  <2> QED BY <1>1, <2>1 DEF HolderAt
<1>2. CASE c # t
  <2>1. pc'[c] = pc[c] /\ HolderAt(c, pc[c])
    BY <1>2 DEF Go, TypeInv, TypeOK, HolderOK
  <2>2. connectLock # c /\ connectLock' # c
    BY <1>2
  <2> QED BY <2>1, <2>2 DEF HolderAt, DrainLabels
<1> QED BY <1>1, <1>2

-----------------------------------------------------------------------------
(* The remove lock.                                                        *)

\* A thread moves and nobody goes in or out.
LEMMA RefsStay ==
  ASSUME TypeInv, RefsOK, NEW t \in Threads, NEW l, Go(t, l),
         pc[t] \in InsideLabels <=> l \in InsideLabels,
         l \in {"insert.acquire", "get.acquire"} => connected,
         UNCHANGED <<rlock, connected, connectLock>>
  PROVE  RefsOK' /\ Inside' = Inside
<1>1. Inside' = Inside
  BY Stays
<1>2. NeverConnected' = NeverConnected /\ OwnReferences' = OwnReferences
  BY DEF NeverConnected, OwnReferences, rlock
<1>3. NeverConnected => \A u \in Threads : pc'[u] \notin {"insert.acquire", "get.acquire"}
  BY DEF RefsOK, NeverConnected, Go, TypeInv, TypeOK
<1> QED BY <1>1, <1>2, <1>3 DEF RefsOK, rlock

\* A thread acquires the remove lock.
LEMMA RefsEnter ==
  ASSUME TypeInv, RefsOK, NEW t \in Threads, NEW l, Go(t, l),
         pc[t] \in {"insert.acquire", "get.acquire"}, l \in InsideLabels,
         AcquireRemoveLock, UNCHANGED <<connected, connectLock>>
  PROVE  RefsOK'
<1>1. Cardinality(Inside)' = Cardinality(Inside) + 1
  BY Enters DEF InsideLabels
<1>2. ~NeverConnected
  BY DEF RefsOK
<1>3. ~removed /\ ~removed' /\ removeEvent' = removeEvent /\ ioCount' = ioCount + 1
  BY DEF AcquireRemoveLock
<1>4. ~NeverConnected' /\ OwnReferences = 2 /\ OwnReferences' = 2
  BY <1>2, <1>3 DEF NeverConnected, OwnReferences
<1>5. ~removeEvent
  BY <1>3 DEF RefsOK
<1>6. ioCount' = Cardinality(Inside)' + OwnReferences'
  BY <1>1, <1>3, <1>4, InsideIs DEF RefsOK
<1> QED BY <1>3, <1>4, <1>5, <1>6 DEF RefsOK

\* A thread releases the remove lock.
LEMMA RefsLeave ==
  ASSUME TypeInv, RefsOK, NEW t \in Threads, NEW l, Go(t, l),
         pc[t] \in InsideLabels, l \notin InsideLabels,
         ReleaseRemoveLock, UNCHANGED <<connected, connectLock>>
  PROVE  RefsOK' /\ Inside' \subseteq Inside
<1>1. /\ Cardinality(Inside)' = Cardinality(Inside) - 1
      /\ Inside' \subseteq Inside
      /\ Cardinality(Inside) = 1 => Inside' = {}
      /\ Inside # {} /\ Cardinality(Inside) # 0
  BY Leaves
<1>2. ~NeverConnected /\ ~NeverConnected'
  BY <1>1 DEF RefsOK, NeverConnected, ReleaseRemoveLock
<1>3. OwnReferences' = OwnReferences /\ OwnReferences = IF removed THEN 0 ELSE 2
  BY <1>2 DEF OwnReferences, ReleaseRemoveLock
<1>4. ioCount = Cardinality(Inside) + OwnReferences /\ ioCount' = ioCount - 1
  BY DEF RefsOK, ReleaseRemoveLock
<1>5. ioCount' = Cardinality(Inside)' + OwnReferences'
  BY <1>1, <1>3, <1>4, InsideIs
<1>6. ioCount = 1 => removed /\ Inside' = {}
  BY <1>1, <1>3, <1>4, InsideIs
<1>7. removeEvent' => removed' /\ Inside' = {}
  BY <1>1, <1>6 DEF RefsOK, ReleaseRemoveLock
<1>8. removed' /\ ~connected' => Inside' = {}
  BY <1>1 DEF RefsOK, ReleaseRemoveLock
<1>9. removed' /\ connected' => connectLock' # Nobody
  BY DEF RefsOK, ReleaseRemoveLock
<1> QED BY <1>1, <1>2, <1>5, <1>7, <1>8, <1>9 DEF RefsOK

-----------------------------------------------------------------------------
(* The steps of the inserting threads and of the readers.                  *)

\* A step that leaves the locks and the flags alone.
LEMMA SessionStays ==
  ASSUME SessionInv, NEW t \in Threads, NEW l, Go(t, l),
         pc[t] \in InsideLabels <=> l \in InsideLabels,
         l \in {"insert.acquire", "get.acquire"} => connected,
         t \in Clients => HolderAt(t, l),
         UNCHANGED <<rlock, connected, connectLock>>
  PROVE  HolderOK' /\ RefsOK'
<1>1. RefsOK' /\ Inside' = Inside
  BY RefsStay DEF SessionInv
<1>2. t \in Clients => HolderAt(t, l)'
  BY <1>1 DEF HolderAt, rlock
<1> QED BY <1>1, <1>2, HolderMove DEF SessionInv, rlock

\* What a client must be, to be at a label outside the connect and disconnect.
LEMMA HolderElsewhere ==
  ASSUME HolderOK, NEW c \in Clients,
         pc[c] \notin ConnectLabels \cup DrainLabels \cup ClearingLabels, NEW l,
         l \notin ConnectLabels \cup DrainLabels \cup ClearingLabels
  PROVE  HolderAt(c, l) /\ connectLock # c
  BY DEF HolderOK, HolderAt, ClearingLabels, DrainLabels

LEMMA SessionInsert ==
  ASSUME PlainSessions, SessionInv, NEW t \in Producers,
         (\E r \in Requests : InsertBegin(t, r)) \/ InsertStep(t)
  PROVE  HolderOK' /\ RefsOK'
<1> USE DEF rlock, settings
<1> t \in Threads /\ t \notin Clients
  BY QueueAssumption DEF Threads
<1>a. ~collect
  BY DEF SessionInv, SettingsOK, PlainSessions
<1>1. ASSUME NEW r \in Requests, InsertBegin(t, r)
      PROVE  HolderOK' /\ RefsOK'
  <2>1. CASE connected
    <3>1. Go(t, "insert.acquire") /\ pc[t] = "idle"
            /\ UNCHANGED <<rlock, connected, connectLock>>
      BY <1>1, <2>1 DEF InsertBegin
    <3> QED BY <2>1, <3>1, SessionStays DEF InsideLabels
  <2>2. CASE ~connected
    <3>1. Go(t, "insert.callback") /\ pc[t] = "idle"
            /\ UNCHANGED <<rlock, connected, connectLock>>
      BY <1>1, <1>a, <2>2 DEF InsertBegin
    <3> QED BY <3>1, SessionStays DEF InsideLabels
  <2> QED BY <2>1, <2>2
<1>2. CASE InsertAcquire(t)
  <2>1. RefsOK'
    BY <1>2, RefsEnter DEF InsertAcquire, InsideLabels, SessionInv
  <2>2. HolderOK'
    BY <1>2, HolderMove DEF InsertAcquire, AcquireRemoveLock, SessionInv
  <2> QED BY <2>1, <2>2
<1>3. CASE InsertRefused(t)
  BY <1>3, SessionStays DEF InsertRefused, InsideLabels
<1>4. CASE InsertId(t)
  BY <1>4, SessionStays DEF InsertId, InsideLabels
<1>5. CASE InsertLink(t)
  BY <1>5, SessionStays DEF InsertLink, InsideLabels
<1>6. CASE InsertCount(t)
  BY <1>6, SessionStays DEF InsertCount, InsideLabels
<1>7. CASE InsertRelease(t)
  <2>1. RefsOK' /\ Inside' \subseteq Inside
    BY <1>7, RefsLeave DEF InsertRelease, InsideLabels, SessionInv
  <2>2. HolderOK'
    BY <1>7, <2>1, HolderMove DEF InsertRelease, ReleaseRemoveLock, SessionInv
  <2> QED BY <2>1, <2>2
<1>8. CASE InsertCallback(t)
  BY <1>8, SessionStays DEF InsertCallback, InsideLabels
<1> QED BY <1>1, <1>2, <1>3, <1>4, <1>5, <1>6, <1>7, <1>8 DEF InsertStep

LEMMA SessionGet ==
  ASSUME SessionInv, NEW t \in Getters, GetBegin(t) \/ GetStep(t)
  PROVE  HolderOK' /\ RefsOK'
<1> USE DEF rlock, settings
<1> t \in Threads /\ t \in Clients
  BY QueueAssumption DEF Threads
<1>a. ASSUME NEW l, l \notin ConnectLabels \cup DrainLabels \cup ClearingLabels
      PROVE  HolderAt(t, l)
  <2>1. pc[t] \notin ConnectLabels \cup DrainLabels \cup ClearingLabels
    BY DEF GetBegin, GetStep, GetAcquire, GetRefused, GetRemove, GetNoMore, GetDeliver,
           GetPutBack, GetCount, GetRelease, ConnectLabels, DrainLabels, ClearingLabels
  <2> QED BY <1>a, <2>1, HolderElsewhere DEF SessionInv
<1>b. \A l \in {"idle", "get.acquire", "get.remove", "get.size", "get.count", "get.release"} :
        HolderAt(t, l)
  <2> SUFFICES ASSUME NEW l \in {"idle", "get.acquire", "get.remove", "get.size", "get.count",
                                 "get.release"}
               PROVE  HolderAt(t, l)
    OBVIOUS
  <2>1. l \notin ConnectLabels \cup DrainLabels \cup ClearingLabels
    BY DEF ConnectLabels, DrainLabels, ClearingLabels
  <2> QED BY <1>a, <2>1
<1>1. CASE GetBegin(t)
  BY <1>1, <1>b, SessionStays DEF GetBegin, InsideLabels
<1>2. CASE GetAcquire(t)
  <2>1. RefsOK'
    BY <1>2, RefsEnter DEF GetAcquire, InsideLabels, SessionInv
  <2>2. HolderAt(t, "get.remove")'
    BY <1>2, <1>b DEF HolderAt, GetAcquire, AcquireRemoveLock, ConnectLabels, DrainLabels,
                      ClearingLabels
  <2>3. HolderOK'
    BY <1>2, <2>2, HolderMove DEF GetAcquire, AcquireRemoveLock, SessionInv
  <2> QED BY <2>1, <2>3
<1>3. CASE GetRefused(t)
  BY <1>3, <1>b, SessionStays DEF GetRefused, InsideLabels
<1>4. CASE GetRemove(t)
  BY <1>4, <1>b, SessionStays DEF GetRemove, InsideLabels
<1>5. CASE GetNoMore(t)
  BY <1>5, <1>b, SessionStays DEF GetNoMore, InsideLabels
<1>6. CASE GetDeliver(t)
  BY <1>6, <1>b, SessionStays DEF GetDeliver, InsideLabels
<1>7. CASE GetPutBack(t)
  BY <1>7, <1>b, SessionStays DEF GetPutBack, InsideLabels
<1>8. CASE GetCount(t)
  BY <1>8, <1>b, SessionStays DEF GetCount, InsideLabels
<1>9. CASE GetRelease(t)
  <2>1. RefsOK' /\ Inside' \subseteq Inside
    BY <1>9, RefsLeave DEF GetRelease, InsideLabels, SessionInv
  <2>2. HolderAt(t, "idle")'
    BY <1>9, <1>b, <2>1 DEF HolderAt, GetRelease, ReleaseRemoveLock, ConnectLabels,
                            DrainLabels, ClearingLabels
  <2>3. HolderOK'
    BY <1>9, <2>1, <2>2, HolderMove DEF GetRelease, ReleaseRemoveLock, SessionInv
  <2> QED BY <2>1, <2>3
<1> QED BY <1>1, <1>2, <1>3, <1>4, <1>5, <1>6, <1>7, <1>8, <1>9 DEF GetStep

-----------------------------------------------------------------------------
(* The steps of RequestQueueConnect.                                       *)

LEMMA SessionConnect ==
  ASSUME PlainSessions, SessionInv, NEW t \in Clients, ConnectBegin(t) \/ ConnectStep(t)
  PROVE  HolderOK' /\ RefsOK'
<1> USE DEF rlock, settings
<1> t \in Threads /\ Nobody # t
  BY QueueAssumption DEF Threads
<1>a. ASSUME NEW l \in ConnectLabels, pc[t] \in ConnectLabels
      PROVE  HolderAt(t, l)
  BY <1>a DEF SessionInv, HolderOK, HolderAt, ConnectLabels, DrainLabels, ClearingLabels
<1>1. CASE ConnectBegin(t)
  <2>1. Inside' = Inside /\ Inside = {}
    <3>1. Inside' = Inside
      BY <1>1, Stays DEF ConnectBegin, SessionInv, InsideLabels
    <3>2. Inside = {}
      BY <1>1 DEF ConnectBegin, SessionInv, RefsOK, NeverConnected
    <3> QED BY <3>1, <3>2
  <2>2. ioCount' = 2 /\ ~removed' /\ ~removeEvent' /\ connectLock' = t /\ ~connected'
          /\ connectLock = Nobody
    BY <1>1 DEF ConnectBegin
  <2>3. RefsOK'
    <3>1. ~NeverConnected' /\ OwnReferences' = 2
      BY <2>2 DEF NeverConnected, OwnReferences
    <3>2. Cardinality(Inside)' = 0
      BY <2>1, FS_EmptySet
    <3> QED BY <2>1, <2>2, <3>1, <3>2 DEF RefsOK
  <2>4. HolderAt(t, "connect.list")'
    BY <2>2 DEF HolderAt, ConnectLabels, DrainLabels, ClearingLabels
  <2> QED BY <1>1, <2>2, <2>3, <2>4, HolderAlone DEF ConnectBegin, SessionInv
<1>2. CASE ConnectList(t)
  <2>1. HolderAt(t, "connect.id")
    BY <1>2, <1>a DEF ConnectList, ConnectLabels
  <2> QED BY <1>2, <2>1, SessionStays DEF ConnectList, InsideLabels
<1>3. CASE ConnectFail(t)
  BY <1>3 DEF ConnectFail, PlainSessions
<1>4. CASE ConnectId(t)
  <2>1. HolderAt(t, "connect.link")
    BY <1>4, <1>a DEF ConnectId, ConnectLabels
  <2> QED BY <1>4, <2>1, SessionStays DEF ConnectId, InsideLabels
<1>5. CASE ConnectLink(t)
  <2>1. HolderAt(t, "connect.count")
    BY <1>5, <1>a DEF ConnectLink, ConnectLabels
  <2> QED BY <1>5, <2>1, SessionStays DEF ConnectLink, InsideLabels
<1>6. CASE ConnectCount(t)
  <2>1. HolderAt(t, "connect.id")
    BY <1>6, <1>a DEF ConnectCount, ConnectLabels
  <2> QED BY <1>6, <2>1, SessionStays DEF ConnectCount, InsideLabels
<1>7. CASE ConnectDone(t)
  <2>1. connectLock = t /\ ~removed /\ ~connected
    BY <1>7 DEF ConnectDone, SessionInv, HolderOK, HolderAt, ConnectLabels
  <2>2. Inside' = Inside
    BY <1>7, Stays DEF ConnectDone, SessionInv, InsideLabels
  <2>3. UNCHANGED <<ioCount, removed, removeEvent>> /\ connected' /\ connectLock' = Nobody
    BY <1>7 DEF ConnectDone
  <2>4. OwnReferences = 2 /\ OwnReferences' = 2 /\ ~NeverConnected'
    BY <2>1, <2>3 DEF OwnReferences, NeverConnected
  <2>5. RefsOK'
    BY <2>1, <2>2, <2>3, <2>4 DEF SessionInv, RefsOK
  <2>6. HolderAt(t, "connect.disable")'
    BY <2>3 DEF HolderAt, ConnectLabels, DrainLabels, ClearingLabels
  <2> QED BY <1>7, <2>1, <2>3, <2>5, <2>6, HolderAlone DEF ConnectDone, SessionInv
<1>8. CASE ConnectDisable(t)
  <2>1. HolderAt(t, "idle")
    BY <1>8, HolderElsewhere DEF ConnectDisable, SessionInv, ConnectLabels, DrainLabels,
                                 ClearingLabels
  <2> QED BY <1>8, <2>1, SessionStays DEF ConnectDisable, InsideLabels
<1> QED BY <1>1, <1>2, <1>3, <1>4, <1>5, <1>6, <1>7, <1>8 DEF ConnectStep

-----------------------------------------------------------------------------
(* The steps of RequestQueueDisconnect and RequestQueueClear.              *)

LEMMA SessionDisconnect ==
  ASSUME SessionInv, NEW t \in Clients, DisconnectBegin(t) \/ ClearNonPaged(t) \/ DisconnectStep(t)
  PROVE  HolderOK' /\ RefsOK'
<1> USE DEF rlock, settings
<1> t \in Threads /\ Nobody # t
  BY QueueAssumption DEF Threads
<1>0. HolderAt(t, pc[t])
  BY DEF SessionInv, HolderOK
<1>1. CASE DisconnectBegin(t)
  <2>1. pc[t] = "idle" /\ connectLock = Nobody /\ connected /\ connectLock' = t /\ removed'
          /\ ioCount' = ioCount - 2 /\ connected' = connected /\ removeEvent' = removeEvent
    BY <1>1 DEF DisconnectBegin
  <2>2. PICK l \in DrainLabels : Go(t, l) /\ (l = "disconnect.unset" => ~(ioCount > 2))
    BY <1>1 DEF DisconnectBegin, DrainLabels
  <2>3. ~removed /\ ~removeEvent /\ ioCount = Cardinality(Inside) + 2
    BY <2>1 DEF SessionInv, RefsOK, OwnReferences, NeverConnected
  <2>4. Inside' = Inside
    BY <2>1, <2>2, Stays DEF SessionInv, InsideLabels, DrainLabels
  <2>5. RefsOK'
    <3>1. ~NeverConnected' /\ OwnReferences' = 0
      BY <2>1 DEF NeverConnected, OwnReferences
    <3>2. ioCount' = Cardinality(Inside)'
      BY <2>1, <2>3, <2>4, InsideIs
    <3>3. Cardinality(Inside)' \in Nat
      BY <2>4, InsideIs
    <3>4. ioCount' = Cardinality(Inside)' + OwnReferences'
      BY <3>1, <3>2, <3>3
    <3> QED BY <2>1, <2>3, <3>1, <3>4 DEF RefsOK
  <2>6. l = "disconnect.unset" => Inside' = {}
    BY <2>2, <2>3, <2>4, InsideIs, NobodyInside
  <2>7. HolderAt(t, l)'
    BY <2>1, <2>6 DEF HolderAt, ConnectLabels, DrainLabels, ClearingLabels
  <2> QED BY <2>1, <2>2, <2>5, <2>7, HolderAlone DEF SessionInv
<1>2. CASE DisconnectWait(t)
  <2>1. connectLock = t /\ removed /\ connected
    BY <1>0, <1>2 DEF DisconnectWait, HolderAt, DrainLabels
  <2>2. Inside = {}
    BY <1>2 DEF DisconnectWait, SessionInv, RefsOK
  <2>3. HolderAt(t, "disconnect.unset")
    BY <2>1, <2>2 DEF HolderAt, ConnectLabels, DrainLabels, ClearingLabels
  <2> QED BY <1>2, <2>3, SessionStays DEF DisconnectWait, InsideLabels
<1>3. CASE DisconnectUnset(t)
  <2>1. connectLock = t /\ removed /\ connected /\ Inside = {}
    BY <1>0, <1>3 DEF DisconnectUnset, HolderAt, DrainLabels
  <2>2. Inside' = Inside
    BY <1>3, Stays DEF DisconnectUnset, SessionInv, InsideLabels
  <2>3. UNCHANGED <<ioCount, removed, removeEvent, connectLock>> /\ ~connected'
    BY <1>3 DEF DisconnectUnset
  <2>4. OwnReferences' = OwnReferences /\ ~NeverConnected'
    BY <2>1, <2>3 DEF OwnReferences, NeverConnected
  <2>5. RefsOK'
    BY <2>1, <2>2, <2>3, <2>4 DEF SessionInv, RefsOK
  <2>6. HolderAt(t, "disconnect.clear")'
    BY <2>1, <2>3 DEF HolderAt, ConnectLabels, DrainLabels, ClearingLabels
  <2> QED BY <1>3, <2>1, <2>3, <2>5, <2>6, HolderAlone DEF DisconnectUnset, SessionInv
<1>4. ASSUME pc[t] \in ClearingLabels, connectLock = t, Go(t, "idle"), connectLock' = Nobody,
             UNCHANGED <<rlock, connected>>
      PROVE  HolderOK' /\ RefsOK'
  <2>1. removed /\ ~connected
    BY <1>0, <1>4 DEF HolderAt
  <2>2. Inside' = Inside
    BY <1>4, Stays DEF SessionInv, InsideLabels, ClearingLabels
  <2>3. OwnReferences' = OwnReferences /\ ~NeverConnected'
    BY <1>4, <2>1 DEF OwnReferences, NeverConnected
  <2>4. RefsOK'
    BY <1>4, <2>1, <2>2, <2>3 DEF SessionInv, RefsOK
  <2>5. HolderAt(t, "idle")'
    BY <1>4 DEF HolderAt, ConnectLabels, DrainLabels, ClearingLabels
  <2> QED BY <1>4, <2>4, <2>5, HolderAlone DEF SessionInv
<1>5. CASE DisconnectKeep(t)
  BY <1>0, <1>4, <1>5 DEF DisconnectKeep, HolderAt, ClearingLabels
<1>6. CASE ClearNonPaged(t)
  <2>1. HolderAt(t, "clear.freeNonPaged")
    BY <1>0, <1>6 DEF ClearNonPaged, HolderAt, ConnectLabels, DrainLabels, ClearingLabels
  <2> QED BY <1>6, <2>1, SessionStays DEF ClearNonPaged, InsideLabels
<1>7. CASE ClearFreeNonPaged(t)
  <2>1. HolderAt(t, "clear.paged")
    BY <1>0, <1>7 DEF ClearFreeNonPaged, HolderAt, ConnectLabels, DrainLabels, ClearingLabels
  <2> QED BY <1>7, <2>1, SessionStays DEF ClearFreeNonPaged, InsideLabels
<1>8. CASE ClearPaged(t)
  <2>1. HolderAt(t, "clear.freePaged")
    BY <1>0, <1>8 DEF ClearPaged, HolderAt, ConnectLabels, DrainLabels, ClearingLabels
  <2> QED BY <1>8, <2>1, SessionStays DEF ClearPaged, InsideLabels
<1>9. CASE ClearFreePaged(t)
  <2>1. CASE connectLock = t
    BY <1>4, <1>9, <2>1 DEF ClearFreePaged, ClearingLabels
  <2>2. CASE connectLock # t
    <3>1. HolderAt(t, "idle")
      BY <2>2 DEF HolderAt, ConnectLabels, DrainLabels, ClearingLabels
    <3>2. UNCHANGED connectLock
      BY <1>9, <2>2 DEF ClearFreePaged
    <3> QED BY <1>9, <3>1, <3>2, SessionStays DEF ClearFreePaged, InsideLabels
  <2> QED BY <2>1, <2>2
<1> QED BY <1>1, <1>2, <1>3, <1>5, <1>6, <1>7, <1>8, <1>9 DEF DisconnectStep

-----------------------------------------------------------------------------
\* Every step keeps the invariant of the sessions.
LEMMA SessionStep ==
  ASSUME PlainSessions, SessionInv, [Next]_vars
  PROVE  SessionInv'
<1>1. TypeInv'
  BY TypeInvStep DEF SessionInv
<1>2. SettingsOK'
  BY DEF SessionInv, SettingsOK, Next, InsertStep, ConnectStep, DisconnectStep, GetStep,
         InsertBegin, InsertAcquire, InsertRefused, InsertId, InsertLink, InsertCount,
         InsertRelease, InsertCallback, ConnectBegin, ConnectList, ConnectFail, ConnectId,
         ConnectLink, ConnectCount, ConnectDone, ConnectDisable, DisconnectBegin,
         DisconnectWait, DisconnectUnset, DisconnectKeep, ClearNonPaged, ClearFreeNonPaged,
         ClearPaged, ClearFreePaged, GetBegin, GetAcquire, GetRefused, GetRemove, GetNoMore,
         GetDeliver, GetPutBack, GetCount, GetRelease, SettingsSet, vars, settings
<1>3. CASE SettingsSet \/ UNCHANGED vars
  <2>1. UNCHANGED <<pc, ioCount, removed, removeEvent, connected, connectLock>>
    BY <1>3 DEF SettingsSet, vars, rlock
  <2>2. HolderOK' /\ RefsOK'
    BY <2>1 DEF SessionInv, HolderOK, HolderAt, RefsOK, OwnReferences, NeverConnected, Inside
  <2> QED BY <1>1, <1>2, <2>2 DEF SessionInv
<1>4. ASSUME HolderOK', RefsOK'
      PROVE  SessionInv'
  BY <1>1, <1>2, <1>4 DEF SessionInv
<1> QED BY <1>3, <1>4, SessionInsert, SessionConnect, SessionDisconnect, SessionGet DEF Next

LEMMA SessionInit ==
  ASSUME Init
  PROVE  SessionInv
<1>1. TypeInv
  BY TypeInvInit
<1>2. \A t \in Threads : pc[t] = "idle"
  BY DEF Init
<1>3. connectLock = Nobody /\ ~removed /\ ~connected /\ ~removeEvent /\ ioCount = 1
  BY DEF Init
<1>4. Inside = {} /\ Cardinality(Inside) = 0
  <2>1. Inside = {}
    BY <1>2 DEF Inside
  <2> QED BY <2>1, NobodyInside
<1>5. RefsOK
  BY <1>2, <1>3, <1>4 DEF RefsOK, OwnReferences, NeverConnected
<1>6. HolderOK
  BY <1>2, <1>3, QueueAssumption DEF HolderOK, HolderAt, Threads, ConnectLabels, DrainLabels,
                                     ClearingLabels
<1> QED BY <1>1, <1>5, <1>6 DEF SessionInv, SettingsOK, Init

\* DisconnectDrains, for any numbers of records, inserting threads and clients:
\* once RequestQueueDisconnect has marked the queue as disconnected, no insert and
\* no get is at work on the lists.
THEOREM QueueDisconnectDrains ==
  ASSUME PlainSessions
  PROVE  Spec => []DisconnectDrains
<1>1. Init => SessionInv
  BY SessionInit
<1>2. SessionInv /\ [Next]_vars => SessionInv'
  BY SessionStep
<1>3. SessionInv => DisconnectDrains
  BY DEF SessionInv, RefsOK, DisconnectDrains
<1> QED BY <1>1, <1>2, <1>3, PTL DEF Spec

-----------------------------------------------------------------------------
(* What a disconnect that clears leaves behind.                            *)

AlwaysClears == ClearValues = {TRUE}

\* What the clear of a disconnect has emptied when it is at label l.
EmptiedAt(l) ==
  /\ l \in {"clear.freeNonPaged", "clear.paged", "clear.freePaged"} => npaged = <<>>
  /\ l = "clear.freePaged" => paged = <<>>

\* Between a disconnect and the next connect the lists get and stay empty.
EmptiedOK ==
  /\ removed /\ ~connected /\ connectLock = Nobody => paged = <<>> /\ npaged = <<>>
  /\ \A c \in Clients : connectLock = c => EmptiedAt(pc[c])

\* A list that is empty stays empty.
Shrinks == (paged = <<>> => paged' = <<>>) /\ (npaged = <<>> => npaged' = <<>>)

\* A connect is under way, or there is a connection.
LEMMA EmptiedLoud ==
  ASSUME HolderOK', ~(removed' /\ ~connected')
  PROVE  EmptiedOK'
<1> SUFFICES ASSUME NEW c \in Clients, connectLock' = c PROVE EmptiedAt(pc[c])'
  BY DEF EmptiedOK
<1>1. HolderAt(c, pc[c])'
  BY DEF HolderOK
<1>2. pc'[c] \notin ClearingLabels
  BY <1>1 DEF HolderAt
<1> QED BY <1>2 DEF EmptiedAt, ClearingLabels

\* A thread moves, links nothing and leaves the connect lock as it is.
LEMMA EmptiedMove ==
  ASSUME TypeInv, EmptiedOK, NEW t \in Threads, NEW l, Go(t, l), Shrinks,
         UNCHANGED <<removed, connected, connectLock>>,
         connectLock = t => EmptiedAt(l)'
  PROVE  EmptiedOK'
<1>1. removed' /\ ~connected' /\ connectLock' = Nobody => paged' = <<>> /\ npaged' = <<>>
  BY DEF EmptiedOK, Shrinks
<1>2. ASSUME NEW c \in Clients, connectLock' = c
      PROVE  EmptiedAt(pc[c])'
  <2> c \in Threads
    BY DEF Threads
  <2>1. CASE c = t
    <3>1. pc'[c] = l
      BY <2>1 DEF Go, TypeInv, TypeOK
    <3> QED BY <1>2, <2>1, <3>1 DEF EmptiedAt
  <2>2. CASE c # t
    <3>1. pc'[c] = pc[c] /\ EmptiedAt(pc[c])
      BY <1>2, <2>2 DEF Go, TypeInv, TypeOK, EmptiedOK
    <3> QED BY <3>1 DEF EmptiedAt, Shrinks
  <2> QED BY <2>1, <2>2
<1> QED BY <1>1, <1>2 DEF EmptiedOK

\* A thread that is inside, or that connects, does not meet a disconnected queue.
LEMMA LinkersLoud ==
  ASSUME SessionInv, NEW t \in Threads,
         pc[t] \in InsideLabels \/ (t \in Clients /\ pc[t] \in ConnectLabels)
  PROVE  ~(removed /\ ~connected)
<1>1. CASE pc[t] \in InsideLabels
  <2>1. Inside # {}
    BY <1>1 DEF Inside, InsideLabels
  <2> QED BY <2>1 DEF SessionInv, RefsOK
<1>2. CASE t \in Clients /\ pc[t] \in ConnectLabels
  BY <1>2 DEF SessionInv, HolderOK, HolderAt
<1> QED BY <1>1, <1>2

LEMMA EmptiedInsert ==
  ASSUME SessionInv, HolderOK', EmptiedOK, NEW t \in Producers,
         (\E r \in Requests : InsertBegin(t, r)) \/ InsertStep(t)
  PROVE  EmptiedOK'
<1> t \in Threads /\ t \notin Clients
  BY QueueAssumption DEF Threads
<1>1. connectLock # t
  BY QueueAssumption DEF SessionInv, TypeInv, TypeOK
<1>2. CASE InsertLink(t)
  <2>1. ~(removed /\ ~connected)
    BY <1>2, LinkersLoud DEF InsertLink, InsideLabels
  <2> QED BY <1>2, <2>1, EmptiedLoud DEF InsertLink, rlock
<1>3. CASE ~InsertLink(t)
  <2>1. /\ UNCHANGED <<paged, npaged, removed, connected, connectLock>>
        /\ \E l : Go(t, l)
    BY <1>3 DEF InsertStep, InsertBegin, InsertAcquire, InsertRefused, InsertId, InsertCount,
           InsertRelease, InsertCallback, AcquireRemoveLock, ReleaseRemoveLock, lists, rlock
  <2> QED BY <1>1, <2>1, EmptiedMove DEF SessionInv, Shrinks
<1> QED BY <1>2, <1>3

LEMMA EmptiedGet ==
  ASSUME SessionInv, HolderOK', EmptiedOK, NEW t \in Getters, GetBegin(t) \/ GetStep(t)
  PROVE  EmptiedOK'
<1> t \in Threads /\ t \in Clients
  BY QueueAssumption DEF Threads
<1>1. connectLock # t
  <2>1. pc[t] \notin ConnectLabels \cup DrainLabels \cup ClearingLabels
    BY DEF GetBegin, GetStep, GetAcquire, GetRefused, GetRemove, GetNoMore, GetDeliver,
           GetPutBack, GetCount, GetRelease, ConnectLabels, DrainLabels, ClearingLabels
  <2> QED BY <2>1 DEF SessionInv, HolderOK, HolderAt
<1>2. CASE GetPutBack(t)
  <2>1. ~(removed /\ ~connected)
    BY <1>2, LinkersLoud DEF GetPutBack, InsideLabels
  <2> QED BY <1>2, <2>1, EmptiedLoud DEF GetPutBack, rlock
<1>3. CASE GetRemove(t)
  <2>1. CASE NonPagedFirst
    <3>1. npaged # <<>> /\ paged' = paged
      BY <1>3, <2>1 DEF GetRemove, NonPagedFirst
    <3> QED BY <1>1, <1>3, <3>1, EmptiedMove DEF SessionInv, Shrinks, GetRemove, rlock
  <2>2. CASE ~NonPagedFirst
    <3>1. paged # <<>>
      BY <1>3, <2>2, EmptySingle DEF GetRemove, NonPagedFirst, Queued
    <3>2. npaged' = npaged
      BY <1>3, <2>2 DEF GetRemove
    <3> QED BY <1>1, <1>3, <3>1, <3>2, EmptiedMove DEF SessionInv, Shrinks, GetRemove, rlock
  <2> QED BY <2>1, <2>2
<1>4. CASE ~GetPutBack(t) /\ ~GetRemove(t)
  <2>1. /\ UNCHANGED <<paged, npaged, removed, connected, connectLock>>
        /\ \E l : Go(t, l)
    BY <1>4 DEF GetStep, GetBegin, GetAcquire, GetRefused, GetNoMore, GetDeliver, GetCount,
           GetRelease, AcquireRemoveLock, ReleaseRemoveLock, lists, rlock
  <2> QED BY <1>1, <2>1, EmptiedMove DEF SessionInv, Shrinks
<1> QED BY <1>2, <1>3, <1>4

LEMMA EmptiedConnect ==
  ASSUME PlainSessions, SessionInv, HolderOK', EmptiedOK, NEW t \in Clients,
         ConnectBegin(t) \/ ConnectStep(t)
  PROVE  EmptiedOK'
<1> t \in Threads
  BY DEF Threads
<1>1. CASE ConnectDisable(t)
  <2>1. connectLock # t
    BY <1>1 DEF ConnectDisable, SessionInv, HolderOK, HolderAt, ConnectLabels, DrainLabels,
                ClearingLabels
  <2> QED BY <1>1, <2>1, EmptiedMove DEF ConnectDisable, SessionInv, Shrinks, lists, rlock
<1>2. CASE ~ConnectDisable(t)
  <2>1. ~removed'
    <3>1. CASE ConnectBegin(t)
      BY <3>1 DEF ConnectBegin
    <3>2. CASE ConnectStep(t)
      <4>1. ~ConnectFail(t)
        BY DEF ConnectFail, PlainSessions
      <4>2. pc[t] \in ConnectLabels /\ removed' = removed
        BY <1>2, <3>2, <4>1 DEF ConnectStep, ConnectList, ConnectId, ConnectLink,
               ConnectCount, ConnectDone, ConnectLabels, rlock
      <4> QED BY <4>2 DEF SessionInv, HolderOK, HolderAt
    <3> QED BY <3>1, <3>2
  <2> QED BY <2>1, EmptiedLoud
<1> QED BY <1>1, <1>2

LEMMA EmptiedDisconnect ==
  ASSUME AlwaysClears, SessionInv, HolderOK', EmptiedOK, NEW t \in Clients,
         DisconnectBegin(t) \/ ClearNonPaged(t) \/ DisconnectStep(t)
  PROVE  EmptiedOK'
<1> USE DEF lists, rlock
<1> t \in Threads /\ Nobody # t
  BY QueueAssumption DEF Threads
<1>0. HolderAt(t, pc[t])
  BY DEF SessionInv, HolderOK
<1>1. CASE DisconnectBegin(t) \/ DisconnectWait(t)
  <2>1. connected'
    BY <1>0, <1>1 DEF DisconnectBegin, DisconnectWait, HolderAt, DrainLabels
  <2> QED BY <2>1, EmptiedLoud
<1>2. CASE DisconnectUnset(t)
  <2>1. connectLock' = t /\ pc'[t] = "disconnect.clear"
    BY <1>0, <1>2 DEF DisconnectUnset, HolderAt, DrainLabels, Go, SessionInv, TypeInv, TypeOK
  <2> QED BY <2>1 DEF EmptiedOK, EmptiedAt
<1>3. CASE DisconnectKeep(t)
  BY <1>3 DEF DisconnectKeep, AlwaysClears, SessionInv, SettingsOK
<1>4. CASE ClearNonPaged(t)
  <2>1. EmptiedAt("clear.freeNonPaged")'
    BY <1>4 DEF ClearNonPaged, EmptiedAt
  <2> QED BY <1>4, <2>1, EmptiedMove DEF ClearNonPaged, SessionInv, Shrinks
<1>5. CASE ClearFreeNonPaged(t)
  <2>1. connectLock = t => EmptiedAt("clear.paged")'
    BY <1>5 DEF ClearFreeNonPaged, EmptiedOK, EmptiedAt
  <2> QED BY <1>5, <2>1, EmptiedMove DEF ClearFreeNonPaged, SessionInv, Shrinks
<1>6. CASE ClearPaged(t)
  <2>1. connectLock = t => EmptiedAt("clear.freePaged")'
    BY <1>6 DEF ClearPaged, EmptiedOK, EmptiedAt
  <2> QED BY <1>6, <2>1, EmptiedMove DEF ClearPaged, SessionInv, Shrinks
<1>7. CASE ClearFreePaged(t)
  <2>1. CASE connectLock = t
    <3>1. paged' = <<>> /\ npaged' = <<>> /\ connectLock' = Nobody
      BY <1>7, <2>1 DEF ClearFreePaged, EmptiedOK, EmptiedAt
    <3> QED BY <3>1, QueueAssumption DEF EmptiedOK, Threads
  <2>2. CASE connectLock # t
    BY <1>7, <2>2, EmptiedMove DEF ClearFreePaged, SessionInv, Shrinks
  <2> QED BY <2>1, <2>2
<1> QED BY <1>1, <1>2, <1>3, <1>4, <1>5, <1>6, <1>7 DEF DisconnectStep

LEMMA EmptiedStep ==
  ASSUME PlainSessions, AlwaysClears, SessionInv, EmptiedOK, [Next]_vars
  PROVE  EmptiedOK'
<1>1. HolderOK'
  BY SessionStep DEF SessionInv
<1>2. CASE SettingsSet \/ UNCHANGED vars
  <2>1. UNCHANGED <<paged, npaged, pc, removed, connected, connectLock>>
    BY <1>2 DEF SettingsSet, vars, rlock, lists
  <2> QED BY <2>1 DEF EmptiedOK, EmptiedAt
<1> QED BY <1>1, <1>2, EmptiedInsert, EmptiedGet, EmptiedConnect, EmptiedDisconnect DEF Next

\* EmptyAfterDisconnect, for any numbers of records, inserting threads and clients:
\* RequestQueueDisconnect, with ReqQueueClearOnDisconnect, leaves both lists empty, and
\* they stay empty until the next connect.
THEOREM QueueEmptyAfterDisconnect ==
  ASSUME PlainSessions, AlwaysClears
  PROVE  Spec => []EmptyAfterDisconnect
<1>1. Init => SessionInv /\ EmptiedOK
  <2> SUFFICES ASSUME Init PROVE EmptiedOK
    BY SessionInit
  <2> QED BY QueueAssumption DEF Init, EmptiedOK, Threads
<1>2. SessionInv /\ EmptiedOK /\ [Next]_vars => (SessionInv /\ EmptiedOK)'
  BY SessionStep, EmptiedStep
<1>3. SessionInv /\ EmptiedOK => EmptyAfterDisconnect
  BY EmptySingle DEF EmptiedOK, EmptyAfterDisconnect, Queued
<1> QED BY <1>1, <1>2, <1>3, PTL DEF Spec
=============================================================================
