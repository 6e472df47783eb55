------------------------ MODULE ReqQueueOrder_proofs ------------------------
(***************************************************************************)
(* The order in which the reader gets the records of the event queue, and  *)
(* the refinement of EventQueue that rests on it.                          *)
(***************************************************************************)
EXTENDS ReqQueue_proofs

\* One client reads.  With two, a record put back by one reader may be
\* overtaken by what the other reader has taken in between.
OneReader == \A g, h \in Getters : g = h

\* Records in hand that have no Id yet.
Fresh(t) ==
  IF pc[t] \in {"insert.acquire", "insert.callback", "insert.id", "connect.id"}
    THEN ToSet(held[t])
    ELSE IF pc[t] \in {"connect.link", "connect.count"} THEN ToSet(Tail(held[t])) ELSE {}

\* The record in hand that has an Id and is not queued yet.
Announced(t) ==
  IF pc[t] \in {"insert.link", "connect.link"} THEN {Head(held[t])} ELSE {}

\* Whoever came after y came after x as well.
Before(x, y) == \A b \in Requests : y \in preds[b] => x \in preds[b]

\* Earlier elements of a list came before the later ones.
Ordered(s) == \A i, j \in 1..Len(s) : i < j => Before(s[i], s[j])

\* Ids are handed out once, and increase.
IdsOK ==
  /\ \A r \in Requests : id[r] <= lastId
  /\ \A r \in Requests : mem[r] = "unused" => id[r] = 0
  /\ \A b \in Requests : \A a \in preds[b] : 0 < id[a] /\ id[a] < id[b]
  /\ \A r \in Queued \cup InReadersHand : 0 < id[r]

FreshOK == \A t \in Threads : \A r \in Fresh(t) : id[r] = 0

\* An announced record has not been seen in the queue by any other.
AnnouncedOK ==
  \A t \in Threads : \A r \in Announced(t) :
    0 < id[r] /\ \A b \in Requests : r \notin preds[b]

\* The record in the reader's hand still comes before what its list holds.
HandFirst ==
  \A r \in InReadersHand :
    /\ preds[r] \cap Queued = {}
    /\ \A y \in Queued : (y \in Paged <=> r \in Paged) => Before(r, y)

OrderInv ==
  /\ TypeInv /\ OnePlace
  /\ IdsOK /\ FreshOK /\ AnnouncedOK /\ HandFirst
  /\ Ordered(paged) /\ Ordered(npaged)

-----------------------------------------------------------------------------
(* Ordered lists.                                                          *)

LEMMA OrderedEmpty == Ordered(<<>>)
  BY DEF Ordered

LEMMA OrderedAppend ==
  ASSUME NEW s \in Seq(Requests), NEW r \in Requests, Ordered(s),
         \A x \in ToSet(s) : Before(x, r)
  PROVE  Ordered(Append(s, r))
<1> DEFINE a == Append(s, r)
<1>1. /\ Len(a) = Len(s) + 1 /\ Len(s) \in Nat /\ a[Len(s) + 1] = r
      /\ \A i \in 1..Len(s) : a[i] = s[i]
  BY AppendProperties, LenProperties
<1>2. \A i \in 1..Len(s) : Before(s[i], r)
  BY InToSet
<1> HIDE DEF a
<1> SUFFICES ASSUME NEW i \in 1..Len(a), NEW j \in 1..Len(a), i < j
             PROVE  Before(a[i], a[j])
  BY DEF Ordered, a
<1>3. i \in 1..Len(s) /\ a[i] = s[i]
  BY <1>1
<1>4. CASE j = Len(s) + 1
  BY <1>1, <1>2, <1>3, <1>4
<1>5. CASE j # Len(s) + 1
  <2>1. j \in 1..Len(s) /\ a[j] = s[j]
    BY <1>1, <1>5
  <2> QED BY <1>3, <2>1 DEF Ordered
<1> QED BY <1>4, <1>5

LEMMA OrderedCons ==
  ASSUME NEW s \in Seq(Requests), NEW r \in Requests, Ordered(s),
         \A y \in ToSet(s) : Before(r, y)
  PROVE  Ordered(<<r>> \o s)
<1> DEFINE c == <<r>> \o s
<1>1. /\ Len(c) = Len(s) + 1 /\ Len(s) \in Nat /\ c[1] = r
      /\ \A i \in 1..Len(s) : c[i + 1] = s[i]
  BY ConcatProperties, LenProperties
<1>2. \A i \in 1..Len(s) : Before(r, s[i])
  BY InToSet
<1> HIDE DEF c
<1> SUFFICES ASSUME NEW i \in 1..Len(c), NEW j \in 1..Len(c), i < j
             PROVE  Before(c[i], c[j])
  BY DEF Ordered, c
<1>3. j - 1 \in 1..Len(s) /\ c[j] = s[j - 1]
  BY <1>1
<1>4. CASE i = 1
  BY <1>1, <1>2, <1>3, <1>4
<1>5. CASE i # 1
  <2>1. i - 1 \in 1..Len(s) /\ c[i] = s[i - 1] /\ i - 1 < j - 1
    BY <1>1, <1>5
  <2> QED BY <1>3, <2>1 DEF Ordered
<1> QED BY <1>4, <1>5

LEMMA OrderedTail ==
  ASSUME NEW s \in Seq(Requests), s # <<>>, Ordered(s)
  PROVE  Ordered(Tail(s)) /\ \A y \in ToSet(Tail(s)) : Before(Head(s), y)
<1> DEFINE t == Tail(s)
           h == Head(s)
<1>1. /\ h = s[1] /\ t \in Seq(Requests)
      /\ Len(t) = Len(s) - 1 /\ Len(s) \in Nat \ {0}
      /\ \A i \in 1..Len(t) : t[i] = s[i + 1]
  BY HeadTailProperties, EmptySeq, LenProperties
<1> HIDE DEF t, h
<1>2. \A i \in 1..Len(t) : i + 1 \in 1..Len(s) /\ 1 < i + 1
  BY <1>1
<1>3. Ordered(t)
  BY <1>1, <1>2 DEF Ordered
<1>4. 1 \in 1..Len(s)
  BY <1>1
<1>5. ASSUME NEW y \in ToSet(t)
      PROVE  Before(h, y)
  <2>1. PICK i \in 1..Len(t) : t[i] = y
    BY <1>1, InToSet
  <2> QED BY <1>1, <1>2, <1>4, <2>1 DEF Ordered
<1> QED BY <1>3, <1>5 DEF t, h

\* What is in an ordered list came after the head of it, or is the head.
LEMMA HeadBefore ==
  ASSUME NEW s \in Seq(Requests), Ordered(s), NEW y \in ToSet(s)
  PROVE  s # <<>> /\ (y = Head(s) \/ Before(Head(s), y))
<1>1. s # <<>>
  BY EmptySingle
<1> QED BY <1>1, HeadTailSet, OrderedTail

-----------------------------------------------------------------------------
(* Steps that give out no Id and link nothing.                             *)

LEMMA ReadersHandMove ==
  ASSUME TypeInv, NEW t \in Threads, NEW l, Moves(t, l), l # "get.size"
  PROVE  /\ InReadersHand' \subseteq InReadersHand
         /\ pc[t] # "get.size" => InReadersHand' = InReadersHand
<1>1. Getters \subseteq Threads
  BY QueueAssumption DEF Threads
<1>2. pc'[t] = l /\ \A u \in Threads \ {t} : pc'[u] = pc[u] /\ held'[u] = held[u]
  BY DEF Moves, Go, TypeInv, TypeOK
<1> QED BY <1>1, <1>2 DEF InReadersHand

\* The other threads keep what they have, announced and fresh.
LEMMA OthersKeep ==
  ASSUME TypeInv, NEW t \in Threads, NEW l, Moves(t, l)
  PROVE  /\ pc'[t] = l
         /\ \A u \in Threads \ {t} : Fresh(u)' = Fresh(u) /\ Announced(u)' = Announced(u)
  BY DEF Moves, Go, TypeInv, TypeOK, Fresh, Announced

QuietLabel(l) == l \notin {"get.size", "insert.link", "connect.link"}

\* The lists stay or are emptied.
LEMMA QuietMove ==
  ASSUME OrderInv, TypeInv', OnePlace', NEW t \in Threads, NEW l, Moves(t, l), QuietLabel(l),
         UNCHANGED ids, paged' \in {paged, <<>>}, npaged' \in {npaged, <<>>},
         \A r \in Requests : mem'[r] = "unused" => mem[r] = "unused",
         \A r \in Fresh(t)' : id[r] = 0
  PROVE  OrderInv'
<1> USE DEF ids
<1>1. InReadersHand' \subseteq InReadersHand
  BY ReadersHandMove DEF OrderInv, QuietLabel
<1>2. Queued' \subseteq Queued
  BY EmptySingle DEF Queued
<1>3. Announced(t)' = {} /\ \A u \in Threads \ {t} : Fresh(u)' = Fresh(u) /\ Announced(u)' = Announced(u)
  BY OthersKeep DEF OrderInv, QuietLabel, Announced
<1>4. IdsOK'
  BY <1>1, <1>2 DEF OrderInv, IdsOK
<1>5. FreshOK' /\ AnnouncedOK'
  BY <1>3 DEF OrderInv, FreshOK, AnnouncedOK
<1>6. HandFirst'
  BY <1>1, <1>2 DEF OrderInv, HandFirst, Before
<1>7. Ordered(paged)' /\ Ordered(npaged)'
  <2>1. Ordered(paged)' = Ordered(paged') /\ Ordered(npaged)' = Ordered(npaged')
    BY DEF Ordered, Before
  <2> QED BY <2>1, OrderedEmpty DEF OrderInv
<1> QED BY <1>4, <1>5, <1>6, <1>7 DEF OrderInv

-----------------------------------------------------------------------------
(* Giving out an Id.                                                       *)

Waiting == Queued \cup InReadersHand

\* What is in the reader's hand is in nobody else's, and on no list.
LEMMA HandsApart ==
  ASSUME TypeInv, OnePlace, NEW t \in Threads, pc[t] \notin CountLabels, pc[t] # "get.size",
         NEW r \in ToSet(held[t])
  PROVE  r \notin Waiting
<1>1. Owned(t) = held[t]
  BY DEF Owned
<1>2. r \notin Queued
  BY <1>1 DEF OnePlace
<1>3. ASSUME NEW g \in Getters, pc[g] = "get.size"
      PROVE  r \notin ToSet(held[g])
  <2>1. g \in Threads /\ g # t /\ Owned(g) = held[g]
    BY <1>3, QueueAssumption DEF Threads, Owned, CountLabels
  <2> QED BY <1>1, <2>1 DEF OnePlace
<1> QED BY <1>2, <1>3 DEF Waiting, InReadersHand

\* What is fresh or announced in one hand is in no other.
LEMMA FreshApart ==
  ASSUME TypeInv, OnePlace, NEW t \in Threads, NEW r \in ToSet(held[t]),
         pc[t] \notin CountLabels, NEW u \in Threads \ {t}
  PROVE  r \notin Fresh(u)
<1>1. Owned(t) = held[t]
  BY DEF Owned
<1>2. Fresh(u) \subseteq ToSet(Owned(u))
  <2>1. CASE pc[u] = "connect.link"
    BY <2>1, HandsHeld, HeadTailSet DEF Fresh, Owned, CountLabels, TypeInv, TypeOK
  <2>2. CASE pc[u] # "connect.link"
    BY <2>2, EmptySingle DEF Fresh, Owned, CountLabels
  <2> QED BY <2>1, <2>2
<1> QED BY <1>1, <1>2 DEF OnePlace

\* Thread t gives an Id to the first record it has in hand.
LEMMA AssignMove ==
  ASSUME OrderInv, TypeInv', OnePlace', NEW t \in Threads, NEW l, Moves(t, l),
         pc[t] \in {"insert.id", "insert.callback", "connect.id"},
         l \in {"insert.link", "connect.link", "idle"},
         l = "idle" => held'[t] = <<>>, l # "idle" => held'[t] = held[t],
         held[t] # <<>>, AssignId(Head(held[t])), UNCHANGED lists,
         \A q \in Requests : mem'[q] = "unused" => mem[q] = "unused"
  PROVE  OrderInv'
<1> DEFINE r == Head(held[t])
<1> USE DEF lists
<1>1. /\ r \in Requests /\ r \in ToSet(held[t]) /\ r \notin ToSet(Tail(held[t]))
      /\ ToSet(held[t]) = {r} \cup ToSet(Tail(held[t]))
  <2>1. NoRepeats(held[t])
    BY DEF OrderInv, OnePlace, Owned, CountLabels
  <2>2. held[t] \in Seq(Requests)
    BY DEF OrderInv, TypeInv, TypeOK
  <2>3. r \in Requests
    BY HeadType DEF OrderInv, TypeInv
  <2> QED BY <2>1, <2>2, <2>3, HeadTailSet
<1>2. id[r] = 0 /\ Fresh(t) = ToSet(held[t])
  BY <1>1 DEF OrderInv, FreshOK, Fresh
<1>3. pc[t] \notin CountLabels /\ pc[t] # "get.size" /\ l # "get.size"
  BY DEF CountLabels
<1>4. r \notin Waiting
  BY <1>1, <1>3, HandsApart DEF OrderInv
<1>5. InReadersHand' = InReadersHand /\ Queued' = Queued
  BY <1>3, ReadersHandMove DEF OrderInv, Queued
<1> HIDE DEF r
<1>6. /\ lastId' = lastId + 1 /\ lastId \in Nat /\ id \in [Requests -> Nat]
      /\ id' = [id EXCEPT ![r] = lastId + 1]
      /\ preds' = [preds EXCEPT ![r] = Waiting]
      /\ preds \in [Requests -> SUBSET Requests] /\ Waiting \subseteq Requests
  <2>1. Waiting \subseteq Requests
    BY AssignIdType, <1>1 DEF OrderInv, TypeInv, TypeOK, AssignId, Waiting, r
  <2> QED BY <2>1 DEF AssignId, OrderInv, TypeInv, TypeOK, Waiting, r
<1>7. \A q \in Requests : q # r => id'[q] = id[q] /\ preds'[q] = preds[q]
  BY <1>6
<1>8. id'[r] = lastId + 1 /\ preds'[r] = Waiting
  BY <1>1, <1>6
<1>9. mem'[r] # "unused"
  <2>1. mem[r] = "live"
    <3>1. r \in ToSet(Owned(t))
      BY <1>1, <1>3 DEF Owned
    <3> QED BY <1>1, <3>1 DEF OrderInv, OnePlace
  <2> QED BY <1>1, <2>1
<1>10. \A b \in Requests : r \notin preds[b]
  BY <1>2 DEF OrderInv, IdsOK
<1>11. IdsOK'
  <2>1. \A q \in Requests : id'[q] <= lastId'
    BY <1>1, <1>6, <1>7, <1>8 DEF OrderInv, IdsOK
  <2>2. \A q \in Requests : mem'[q] = "unused" => id'[q] = 0
    BY <1>7, <1>9 DEF OrderInv, IdsOK
  <2>3. ASSUME NEW b \in Requests, NEW a \in preds'[b]
        PROVE  0 < id'[a] /\ id'[a] < id'[b]
    <3>1. CASE b = r
      <4>1. a \in Waiting /\ a # r /\ a \in Requests
        BY <1>4, <1>6, <1>8, <2>3, <3>1
      <4>2. 0 < id[a] /\ id[a] <= lastId /\ id'[a] = id[a]
        BY <1>7, <4>1 DEF OrderInv, IdsOK, Waiting
      <4> QED BY <1>6, <1>8, <3>1, <4>1, <4>2
    <3>2. CASE b # r
      <4>1. a \in preds[b] /\ a # r /\ a \in Requests
        BY <1>6, <1>7, <1>10, <2>3, <3>2
      <4>2. 0 < id[a] /\ id[a] < id[b] /\ id'[a] = id[a] /\ id'[b] = id[b]
        BY <1>7, <3>2, <4>1 DEF OrderInv, IdsOK
      <4> QED BY <4>2
    <3> QED BY <3>1, <3>2
  <2>4. \A q \in Queued' \cup InReadersHand' : 0 < id'[q]
    BY <1>4, <1>5, <1>6, <1>7 DEF OrderInv, IdsOK, Waiting
  <2> QED BY <2>1, <2>2, <2>3, <2>4 DEF IdsOK
<1>12. /\ pc'[t] = l
       /\ \A u \in Threads \ {t} : Fresh(u)' = Fresh(u) /\ Announced(u)' = Announced(u)
  BY OthersKeep DEF OrderInv
<1>13. FreshOK'
  <2> SUFFICES ASSUME NEW u \in Threads, NEW q \in Fresh(u)' PROVE id'[q] = 0
    BY DEF FreshOK
  <2>1. q \in Fresh(u) /\ q # r
    <3>1. CASE u = t
      <4>1. l = "connect.link"
        BY <1>12, <3>1, EmptySingle DEF Fresh
      <4>2. Fresh(t)' = ToSet(Tail(held[t]))
        BY <1>12, <4>1 DEF Fresh
      <4> QED BY <1>1, <1>2, <3>1, <4>2
    <3>2. CASE u # t
      BY <1>1, <1>3, <1>12, <3>2, FreshApart DEF OrderInv
    <3> QED BY <3>1, <3>2
  <2>2. Fresh(u) \subseteq Requests
    <3>1. held[u] \in Seq(Requests)
      BY DEF OrderInv, TypeInv, TypeOK
    <3>2. ToSet(held[u]) \subseteq Requests
      BY <3>1 DEF ToSet
    <3>3. pc[u] \in {"connect.link", "connect.count"} => ToSet(Tail(held[u])) \subseteq Requests
      BY <3>1, <3>2, HandsHeld, HeadTailSet DEF OrderInv
    <3> QED BY <3>2, <3>3 DEF Fresh
  <2>3. id[q] = 0
    BY <2>1 DEF OrderInv, FreshOK
  <2> QED BY <1>7, <2>1, <2>2, <2>3
<1>14. AnnouncedOK'
  <2> SUFFICES ASSUME NEW u \in Threads, NEW q \in Announced(u)'
               PROVE  0 < id'[q] /\ \A b \in Requests : q \notin preds'[b]
    BY DEF AnnouncedOK
  <2>1. CASE u = t
    <3>1. q = r
      BY <1>12, <2>1 DEF Announced, r
    <3> QED BY <1>4, <1>6, <1>7, <1>8, <1>10, <3>1
  <2>2. CASE u # t
    <3>1. q \in Announced(u) /\ 0 < id[q] /\ \A b \in Requests : q \notin preds[b]
      BY <1>12, <2>2 DEF OrderInv, AnnouncedOK
    <3>2. pc[u] \in {"insert.link", "connect.link"} /\ q = Head(held[u])
      BY <3>1 DEF Announced
    <3>3. q \in ToSet(held[u]) /\ q \in Requests
      <4>1. held[u] # <<>>
        BY <3>2, HandsHeld DEF OrderInv
      <4>2. held[u] \in Seq(Requests)
        BY DEF OrderInv, TypeInv, TypeOK
      <4>3. q \in Requests
        BY <3>2, <4>1, HeadType DEF OrderInv, TypeInv
      <4> QED BY <3>2, <4>1, <4>2, <4>3, HeadTailSet
    <3>4. q \notin Waiting
      BY <3>2, <3>3, HandsApart DEF OrderInv, CountLabels
    <3>5. q # r
      BY <1>2, <3>1
    <3> QED BY <1>7, <1>8, <3>1, <3>3, <3>4, <3>5
  <2> QED BY <2>1, <2>2
<1>15. ASSUME NEW x, NEW y, Before(x, y), y \in Waiting => x \in Waiting
       PROVE  Before(x, y)'
  BY <1>1, <1>7, <1>8, <1>15 DEF Before
<1>16. HandFirst'
  <2> SUFFICES ASSUME NEW h \in InReadersHand'
               PROVE  /\ preds'[h] \cap Queued' = {}
                      /\ \A y \in Queued' : (y \in Paged <=> h \in Paged) => Before(h, y)'
    BY DEF HandFirst
  <2>1. h \in InReadersHand /\ h # r /\ h \in Requests
    BY <1>4, <1>5, <1>6 DEF Waiting
  <2> QED BY <1>5, <1>7, <1>15, <2>1 DEF OrderInv, HandFirst, Waiting
<1>17. ASSUME NEW s \in Seq(Requests), Ordered(s), ToSet(s) \subseteq Queued
       PROVE  \A i, j \in 1..Len(s) : i < j => Before(s[i], s[j])'
  <2>1. \A i \in 1..Len(s) : s[i] \in Waiting
    BY <1>17, InToSet DEF Waiting
  <2> QED BY <1>15, <1>17, <2>1 DEF Ordered
<1>18. Ordered(paged)' /\ Ordered(npaged)'
  <2>1. paged \in Seq(Requests) /\ npaged \in Seq(Requests)
          /\ ToSet(paged) \subseteq Queued /\ ToSet(npaged) \subseteq Queued
    BY DEF OrderInv, TypeInv, TypeOK, Queued
  <2>2. \A i, j \in 1..Len(paged) : i < j => Before(paged[i], paged[j])'
    BY <1>17, <2>1 DEF OrderInv
  <2>3. \A i, j \in 1..Len(npaged) : i < j => Before(npaged[i], npaged[j])'
    BY <1>17, <2>1 DEF OrderInv
  <2> QED BY <2>2, <2>3 DEF Ordered
<1> QED BY <1>11, <1>13, <1>14, <1>16, <1>18 DEF OrderInv

-----------------------------------------------------------------------------
(* Linking, putting back and taking.                                       *)

\* The records of a list have the list's pool type.
LEMMA ListKinds ==
  ASSUME OrderInv
  PROVE  /\ \A y \in ToSet(paged) : y \in Paged
         /\ \A y \in ToSet(npaged) : y \notin Paged
         /\ paged \in Seq(Requests) /\ npaged \in Seq(Requests)
  BY DEF OrderInv, OnePlace, TypeInv, TypeOK

LEMMA InReadersHandType ==
  ASSUME TypeInv
  PROVE  InReadersHand \subseteq Requests
<1>1. \A g \in Getters : held[g] \in Seq(Requests)
  BY QueueAssumption DEF TypeInv, TypeOK, Threads
<1> QED BY <1>1 DEF InReadersHand, ToSet

\* An announced record goes to the end of its list.
LEMMA LinkNewMove ==
  ASSUME OrderInv, TypeInv', OnePlace', NEW t \in Threads, NEW l,
         Go(t, l), UNCHANGED <<held, ids, mem>>, Link(Head(held[t]), FALSE),
         pc[t] \in {"insert.link", "connect.link"},
         l = IF pc[t] = "insert.link" THEN "insert.count" ELSE "connect.count"
  PROVE  OrderInv'
<1> USE DEF ids
<1> DEFINE r == Head(held[t])
<1>1. Moves(t, l) /\ l # "get.size" /\ pc[t] # "get.size"
  BY DEF Moves
<1>2. r \in Requests /\ r \in ToSet(held[t])
  BY HandsHeld, HeadType, HeadTailSet DEF OrderInv, TypeInv, TypeOK
<1>3. 0 < id[r] /\ \A b \in Requests : r \notin preds[b]
  BY DEF OrderInv, AnnouncedOK, Announced
<1>4. r \notin Queued
  BY <1>2, HandsApart DEF OrderInv, CountLabels, Waiting
<1>5. Queued' = Queued \cup {r}
  BY <1>2, <1>4, LinkSets DEF OrderInv
<1>6. InReadersHand' = InReadersHand
  BY <1>1, ReadersHandMove DEF OrderInv
<1>7. /\ pc'[t] = l
      /\ \A u \in Threads \ {t} : Fresh(u)' = Fresh(u) /\ Announced(u)' = Announced(u)
  BY <1>1, OthersKeep DEF OrderInv
<1>8. Announced(t)' = {} /\ Fresh(t)' = Fresh(t)
  BY <1>7 DEF Announced, Fresh
<1>9. \A x : Before(x, r)
  BY <1>3 DEF Before
<1>10. IdsOK'
  BY <1>3, <1>5, <1>6 DEF OrderInv, IdsOK
<1>11. FreshOK' /\ AnnouncedOK'
  BY <1>7, <1>8 DEF OrderInv, FreshOK, AnnouncedOK
<1>12. HandFirst'
  <2>1. \A h \in InReadersHand : h \in Requests
    BY InReadersHandType DEF OrderInv
  <2> SUFFICES ASSUME NEW h \in InReadersHand
               PROVE  /\ preds[h] \cap (Queued \cup {r}) = {}
                      /\ \A y \in Queued \cup {r} : (y \in Paged <=> h \in Paged) => Before(h, y)
    BY <1>5, <1>6 DEF HandFirst, Before
  <2> QED BY <1>3, <1>9, <2>1 DEF OrderInv, HandFirst
<1>13. Ordered(paged)' = Ordered(paged') /\ Ordered(npaged)' = Ordered(npaged')
  BY DEF Ordered, Before
<1>14. paged' \in {paged, Append(paged, r)} /\ npaged' \in {npaged, Append(npaged, r)}
  BY DEF Link
<1>15. Ordered(Append(paged, r)) /\ Ordered(Append(npaged, r))
  BY <1>2, <1>9, OrderedAppend, ListKinds DEF OrderInv
<1> QED BY <1>10, <1>11, <1>12, <1>13, <1>14, <1>15 DEF OrderInv

\* The reader's hand, when there is one reader.
LEMMA ReadersHand ==
  ASSUME OneReader, TypeInv, NEW g \in Getters
  PROVE  /\ pc[g] = "get.size" => InReadersHand = {Head(held[g])}
         /\ pc[g] # "get.size" => InReadersHand = {}
<1>1. g \in Threads /\ \A h \in Getters : h = g
  BY QueueAssumption DEF Threads, OneReader
<1>2. CASE pc[g] = "get.size"
  BY <1>1, <1>2, HandsSingle DEF InReadersHand
<1>3. CASE pc[g] # "get.size"
  BY <1>1, <1>3 DEF InReadersHand
<1> QED BY <1>2, <1>3

\* The reader puts back the record it cannot deliver.
LEMMA PutBackMove ==
  ASSUME OneReader, OrderInv, TypeInv', OnePlace', NEW t \in Getters, GetPutBack(t)
  PROVE  OrderInv'
<1> USE DEF ids
<1> DEFINE r == Head(held[t])
<1> t \in Threads
  BY QueueAssumption DEF Threads
<1>1. /\ Moves(t, "get.count") /\ pc[t] = "get.size" /\ Link(r, TRUE)
      /\ UNCHANGED <<held, ids, mem>>
  BY DEF GetPutBack, Moves
<1>2. r \in Requests /\ r \in ToSet(held[t])
  BY <1>1, HandsHeld, HeadType, HeadTailSet DEF OrderInv, TypeInv, TypeOK
<1>3. InReadersHand = {r} /\ InReadersHand' = {}
  <2>1. pc'[t] = "get.count"
    BY <1>1, OthersKeep DEF OrderInv
  <2>2. InReadersHand' = {}
    <3>1. \A h \in Getters : h = t
      BY DEF OneReader
    <3> QED BY <2>1, <3>1 DEF InReadersHand
  <2> QED BY <1>1, <2>2, ReadersHand DEF OrderInv
<1>4. r \notin Queued
  BY <1>1, <1>2 DEF OrderInv, OnePlace, Owned, CountLabels
<1>5. Queued' = Queued \cup {r}
  BY <1>1, <1>2, <1>4, LinkSets DEF OrderInv
<1>6. /\ Announced(t)' = {} /\ Fresh(t)' = {}
      /\ \A u \in Threads \ {t} : Fresh(u)' = Fresh(u) /\ Announced(u)' = Announced(u)
  BY <1>1, OthersKeep DEF OrderInv, Announced, Fresh
<1>7. IdsOK'
  BY <1>1, <1>3, <1>5 DEF OrderInv, IdsOK
<1>8. FreshOK' /\ AnnouncedOK'
  BY <1>1, <1>6 DEF OrderInv, FreshOK, AnnouncedOK
<1>9. HandFirst'
  BY <1>3 DEF HandFirst
<1>10. Ordered(paged)' = Ordered(paged') /\ Ordered(npaged)' = Ordered(npaged')
  BY <1>1 DEF Ordered, Before
<1>11. \A y \in Queued : (y \in Paged <=> r \in Paged) => Before(r, y)
  BY <1>3 DEF OrderInv, HandFirst
<1> HIDE DEF r
<1>12. CASE r \in Paged
  <2>1. paged' = <<r>> \o paged /\ npaged' = npaged
    BY <1>1, <1>12 DEF Link, IsPaged
  <2>2. Ordered(<<r>> \o paged)
    BY <1>2, <1>11, <1>12, OrderedCons, ListKinds DEF OrderInv, Queued
  <2> QED BY <1>7, <1>8, <1>9, <1>10, <2>1, <2>2 DEF OrderInv
<1>13. CASE r \notin Paged
  <2>1. npaged' = <<r>> \o npaged /\ paged' = paged
    BY <1>1, <1>13 DEF Link, IsPaged
  <2>2. Ordered(<<r>> \o npaged)
    BY <1>2, <1>11, <1>13, OrderedCons, ListKinds DEF OrderInv, Queued
  <2> QED BY <1>7, <1>8, <1>9, <1>10, <2>1, <2>2 DEF OrderInv
<1> QED BY <1>12, <1>13

\* What the reader takes: the record _RequestRemove chooses came before all others.
Chosen == IF NonPagedFirst THEN Head(npaged) ELSE Head(paged)

\* It came before what is on its own list because that list is ordered, and
\* before what is on the other because its Id is lower than that of the head.
LEMMA ChosenFirst ==
  ASSUME OrderInv, Queued # {}
  PROVE  /\ Chosen \in Queued
         /\ preds[Chosen] \cap Queued = {}
<1>1. /\ paged \in Seq(Requests) /\ npaged \in Seq(Requests)
      /\ id \in [Requests -> Nat] /\ Queued \subseteq Requests
  BY DEF OrderInv, TypeInv, TypeOK, Queued, ToSet
<1>2. \A b \in Requests : \A a \in preds[b] : id[a] < id[b]
  BY DEF OrderInv, IdsOK
<1>3. \A y \in ToSet(paged) : paged # <<>> /\ (y = Head(paged) \/ Before(Head(paged), y))
  BY <1>1, HeadBefore DEF OrderInv
<1>4. \A y \in ToSet(npaged) : npaged # <<>> /\ (y = Head(npaged) \/ Before(Head(npaged), y))
  BY <1>1, HeadBefore DEF OrderInv
<1>5. paged # <<>> => Head(paged) \in ToSet(paged)
  BY <1>1, HeadTailSet
<1>6. npaged # <<>> => Head(npaged) \in ToSet(npaged)
  BY <1>1, HeadTailSet
<1>7. Chosen \in Queued
  <2>1. ~NonPagedFirst => paged # <<>>
    BY EmptySingle DEF NonPagedFirst, Queued
  <2> QED BY <1>5, <1>6, <2>1 DEF Chosen, NonPagedFirst, Queued
<1>8. ASSUME NEW y \in Queued, y \in preds[Chosen]
      PROVE  FALSE
  <2> DEFINE c == Chosen
  <2>1. c \in Requests /\ y \in Requests
    BY <1>1, <1>7
  <2>2. id[y] < id[c] /\ id[c] \in Nat
    BY <1>1, <1>2, <1>8, <2>1
  <2>3. CASE NonPagedFirst
    <3>1. c = Head(npaged) /\ (paged = <<>> \/ id[c] < id[Head(paged)])
      BY <2>3 DEF Chosen, NonPagedFirst
    <3>2. CASE y \in ToSet(npaged)
      <4>1. y = c \/ c \in preds[c]
        BY <1>4, <1>8, <2>1, <3>1, <3>2 DEF Before
      <4> QED BY <1>2, <2>1, <2>2, <4>1
    <3>3. CASE y \in ToSet(paged)
      <4>1. Head(paged) \in preds[c]
        BY <1>3, <1>8, <2>1, <3>3 DEF Before
      <4>2. id[Head(paged)] < id[c] /\ paged # <<>> /\ Head(paged) \in Requests
        BY <1>1, <1>2, <1>3, <1>5, <2>1, <3>3, <4>1 DEF Queued
      <4> QED BY <1>1, <2>1, <3>1, <4>2
    <3> QED BY <3>2, <3>3 DEF Queued
  <2>4. CASE ~NonPagedFirst
    <3>1. c = Head(paged) /\ (npaged = <<>> \/ ~(id[Head(npaged)] < id[Head(paged)]))
      BY <2>4 DEF Chosen, NonPagedFirst
    <3>2. CASE y \in ToSet(paged)
      <4>1. y = c \/ c \in preds[c]
        BY <1>3, <1>8, <2>1, <3>1, <3>2 DEF Before
      <4> QED BY <1>2, <2>1, <2>2, <4>1
    <3>3. CASE y \in ToSet(npaged)
      <4>1. Head(npaged) \in preds[c] /\ npaged # <<>>
        BY <1>4, <1>8, <2>1, <3>3 DEF Before
      <4>2. id[Head(npaged)] < id[c]
        BY <1>2, <2>1, <4>1
      <4> QED BY <3>1, <4>1, <4>2
    <3> QED BY <3>2, <3>3 DEF Queued
  <2> QED BY <2>3, <2>4
<1> QED BY <1>7, <1>8

LEMMA TakeHeadMove ==
  ASSUME OneReader, OrderInv, TypeInv', OnePlace', NEW t \in Getters, GetRemove(t)
  PROVE  OrderInv'
<1> USE DEF ids
<1> DEFINE c == Chosen
<1> t \in Threads
  BY QueueAssumption DEF Threads
<1>1. /\ Moves(t, "get.size") /\ pc[t] = "get.remove" /\ Hold(t, <<c>>)
      /\ UNCHANGED <<ids, mem>> /\ Queued # {}
  BY DEF GetRemove, Moves, Hold, OrderInv, TypeInv, TypeOK, Chosen
<1>2. c \in Queued /\ preds[c] \cap Queued = {}
  BY <1>1, ChosenFirst
<1>3. pc'[t] = "get.size" /\ held'[t] = <<c>>
  BY <1>1, OthersKeep DEF OrderInv, TypeInv, TypeOK, Hold
<1>4. InReadersHand' = {c}
  <2>1. \A h \in Getters : h = t
    BY DEF OneReader
  <2>2. InReadersHand' = ToSet(held'[t])
    BY <1>3, <2>1 DEF InReadersHand
  <2>3. ToSet(<<c>>) = {c}
    BY EmptySingle
  <2> QED BY <1>3, <2>2, <2>3
<1>5. /\ Announced(t)' = {} /\ Fresh(t)' = {}
      /\ \A u \in Threads \ {t} : Fresh(u)' = Fresh(u) /\ Announced(u)' = Announced(u)
  BY <1>1, OthersKeep DEF OrderInv, Announced, Fresh
<1>6. /\ Queued' \subseteq Queued
      /\ \A y \in Queued' : (y \in Paged <=> c \in Paged) => Before(c, y)
      /\ Ordered(paged') /\ Ordered(npaged')
  <2>1. CASE NonPagedFirst
    <3>1. npaged # <<>> /\ npaged' = Tail(npaged) /\ paged' = paged /\ c = Head(npaged)
      BY <2>1 DEF GetRemove, NonPagedFirst, Chosen
    <3>2. ToSet(npaged) = {c} \cup ToSet(Tail(npaged))
      BY <3>1, HeadTailSet, ListKinds
    <3>3. Ordered(Tail(npaged)) /\ \A y \in ToSet(Tail(npaged)) : Before(c, y)
      BY <3>1, OrderedTail, ListKinds DEF OrderInv
    <3> QED BY <3>1, <3>2, <3>3, ListKinds DEF OrderInv, Queued
  <2>2. CASE ~NonPagedFirst
    <3>1. paged # <<>>
      BY <1>1, <2>2, EmptySingle DEF NonPagedFirst, Queued
    <3>2. paged' = Tail(paged) /\ npaged' = npaged /\ c = Head(paged)
      BY <2>2 DEF GetRemove, Chosen
    <3>3. ToSet(paged) = {c} \cup ToSet(Tail(paged))
      BY <3>1, <3>2, HeadTailSet, ListKinds
    <3>4. Ordered(Tail(paged)) /\ \A y \in ToSet(Tail(paged)) : Before(c, y)
      BY <3>1, <3>2, OrderedTail, ListKinds DEF OrderInv
    <3> QED BY <3>2, <3>3, <3>4, ListKinds DEF OrderInv, Queued
  <2> QED BY <2>1, <2>2
<1> HIDE DEF c
<1>7. IdsOK'
  BY <1>1, <1>2, <1>4, <1>6 DEF OrderInv, IdsOK
<1>8. FreshOK' /\ AnnouncedOK'
  BY <1>1, <1>5 DEF OrderInv, FreshOK, AnnouncedOK
<1>9. HandFirst'
  BY <1>1, <1>2, <1>4, <1>6 DEF HandFirst, Before
<1>10. Ordered(paged)' = Ordered(paged') /\ Ordered(npaged)' = Ordered(npaged')
  BY <1>1 DEF Ordered, Before
<1> QED BY <1>6, <1>7, <1>8, <1>9, <1>10 DEF OrderInv

-----------------------------------------------------------------------------
(* The steps.                                                              *)

LEMMA OrderInsert ==
  ASSUME OrderInv, TypeInv', OnePlace', NEW t \in Producers,
         (\E r \in Requests : InsertBegin(t, r)) \/ InsertStep(t)
  PROVE  OrderInv'
<1> USE DEF lists, ids
<1> t \in Threads
  BY DEF Threads
<1>1. ASSUME NEW r \in Requests, InsertBegin(t, r)
      PROVE  OrderInv'
  <2>1. PICK l \in {"insert.acquire", "insert.callback"} : Go(t, l)
    BY <1>1 DEF InsertBegin
  <2>2. Moves(t, l) /\ Hold(t, <<r>>)
    BY <1>1, <2>1 DEF InsertBegin, Moves, Hold, OrderInv, TypeInv, TypeOK
  <2>3. Fresh(t)' = {r}
    BY <2>1, <2>2, OthersKeep, EmptySingle DEF OrderInv, TypeInv, TypeOK, Hold, Fresh
  <2>4. id[r] = 0
    BY <1>1 DEF InsertBegin, OrderInv, IdsOK
  <2>5. UNCHANGED <<lists, ids>> /\ mem' = [mem EXCEPT ![r] = "live"]
    BY <1>1 DEF InsertBegin
  <2>6. \A q \in Requests : mem'[q] = "unused" => mem[q] = "unused"
    BY <2>5 DEF OrderInv, TypeInv, TypeOK
  <2> QED BY <2>1, <2>2, <2>3, <2>4, <2>5, <2>6, QuietMove DEF QuietLabel
<1>2. CASE InsertAcquire(t)
  <2>1. Moves(t, "insert.id") /\ UNCHANGED <<lists, ids, mem>> /\ Fresh(t)' = Fresh(t)
    BY <1>2, OthersKeep DEF InsertAcquire, Moves, OrderInv, Fresh
  <2> QED BY <2>1, QuietMove DEF QuietLabel, OrderInv, FreshOK
<1>3. CASE InsertRefused(t)
  <2>1. Moves(t, "idle") /\ UNCHANGED <<lists, ids>> /\ Free(ToSet(held[t]))
    BY <1>3 DEF InsertRefused, Moves, Hold, OrderInv, TypeInv, TypeOK
  <2>2. Fresh(t)' = {}
    BY <2>1, OthersKeep DEF OrderInv, Fresh
  <2>3. \A q \in Requests : mem'[q] = "unused" => mem[q] = "unused"
    BY <2>1 DEF Free
  <2> QED BY <2>1, <2>2, <2>3, QuietMove DEF QuietLabel
<1>4. CASE InsertId(t)
  <2>1. Moves(t, "insert.link") /\ UNCHANGED <<lists, held, mem>> /\ AssignId(Head(held[t]))
          /\ pc[t] = "insert.id"
    BY <1>4 DEF InsertId, Moves
  <2>2. held[t] # <<>>
    BY <2>1, HandsHeld DEF OrderInv
  <2> QED BY <2>1, <2>2, AssignMove
<1>5. CASE InsertLink(t)
  BY <1>5, LinkNewMove DEF InsertLink
<1>6. CASE InsertCount(t)
  <2>1. Moves(t, "insert.release") /\ UNCHANGED <<lists, ids, mem>>
    BY <1>6 DEF InsertCount, Moves, Hold, OrderInv, TypeInv, TypeOK
  <2>2. Fresh(t)' = {}
    BY <2>1, OthersKeep DEF OrderInv, Fresh
  <2> QED BY <2>1, <2>2, QuietMove DEF QuietLabel
<1>7. CASE InsertRelease(t)
  <2>1. Moves(t, "idle") /\ UNCHANGED <<lists, ids, mem>>
    BY <1>7 DEF InsertRelease, Moves
  <2>2. Fresh(t)' = {}
    BY <2>1, OthersKeep DEF OrderInv, Fresh
  <2> QED BY <2>1, <2>2, QuietMove DEF QuietLabel
<1>8. CASE InsertCallback(t)
  <2>1. Moves(t, "idle") /\ UNCHANGED lists /\ pc[t] = "insert.callback" /\ Hold(t, <<>>)
    BY <1>8 DEF InsertCallback, Moves, Hold, OrderInv, TypeInv, TypeOK
  <2>2. Fresh(t)' = {} /\ held'[t] = <<>>
    BY <2>1, OthersKeep DEF OrderInv, Fresh, TypeInv, TypeOK, Hold
  <2>3. held[t] # <<>> /\ Head(held[t]) \in Requests
    BY <2>1, HandsHeld, HeadType DEF OrderInv, TypeInv
  <2>4. CASE bootLog
    <3>1. AssignId(Head(held[t])) /\ mem' = [mem EXCEPT ![Head(held[t])] = "logged"]
      BY <1>8, <2>4 DEF InsertCallback
    <3>2. \A q \in Requests : mem'[q] = "unused" => mem[q] = "unused"
      BY <2>3, <3>1 DEF OrderInv, TypeInv, TypeOK
    <3> QED BY <2>1, <2>2, <2>3, <3>1, <3>2, AssignMove
  <2>5. CASE ~bootLog
    <3>1. Free(ToSet(held[t])) /\ UNCHANGED ids
      BY <1>8, <2>5 DEF InsertCallback
    <3>2. \A q \in Requests : mem'[q] = "unused" => mem[q] = "unused"
      BY <3>1 DEF Free
    <3> QED BY <2>1, <2>2, <3>1, <3>2, QuietMove DEF QuietLabel
  <2> QED BY <2>4, <2>5
<1> QED BY <1>1, <1>2, <1>3, <1>4, <1>5, <1>6, <1>7, <1>8 DEF InsertStep

LEMMA OrderConnect ==
  ASSUME OrderInv, TypeInv', OnePlace', NEW t \in Clients, ConnectBegin(t) \/ ConnectStep(t)
  PROVE  OrderInv'
<1> USE DEF lists, ids
<1> t \in Threads
  BY DEF Threads
<1>a. ASSUME NEW l \in {"connect.list", "connect.disable", "idle"}, Moves(t, l),
             UNCHANGED <<lists, ids>>,
             \A q \in Requests : mem'[q] = "unused" => mem[q] = "unused"
      PROVE  OrderInv'
  <2>1. Fresh(t)' = {}
    BY <1>a, OthersKeep DEF OrderInv, Fresh
  <2> QED BY <1>a, <2>1, QuietMove DEF QuietLabel
<1>1. CASE ConnectBegin(t)
  BY <1>1, <1>a DEF ConnectBegin, Moves
<1>2. CASE ConnectList(t)
  <2>1. PICK s \in SeqOf(Unused, MaxSnapshot) :
          Hold(t, s) /\ mem' = [r \in Requests |-> IF r \in ToSet(s) THEN "live" ELSE mem[r]]
    BY <1>2 DEF ConnectList
  <2>2. ToSet(s) \subseteq Unused
    BY <2>1 DEF SeqOf, ToSet
  <2>3. Moves(t, "connect.id") /\ UNCHANGED <<lists, ids>>
    BY <1>2, <2>1 DEF ConnectList, Moves, Hold, OrderInv, TypeInv, TypeOK
  <2>4. Fresh(t)' = ToSet(s)
    BY <2>1, <2>3, OthersKeep DEF OrderInv, Fresh, TypeInv, TypeOK, Hold
  <2>5. \A r \in ToSet(s) : id[r] = 0
    BY <2>2 DEF Unused, OrderInv, IdsOK
  <2>6. \A q \in Requests : mem'[q] = "unused" => mem[q] = "unused"
    BY <2>1
  <2> QED BY <2>3, <2>4, <2>5, <2>6, QuietMove DEF QuietLabel
<1>3. CASE ConnectFail(t)
  <2>1. PICK S \in SUBSET Unused : Free(S)
    BY <1>3 DEF ConnectFail
  <2>2. \A q \in Requests : mem'[q] = "unused" => mem[q] = "unused"
    BY <2>1 DEF Free
  <2> QED BY <1>3, <1>a, <2>2 DEF ConnectFail, Moves
<1>4. CASE ConnectId(t)
  <2>1. Moves(t, "connect.link") /\ UNCHANGED <<lists, held, mem>> /\ AssignId(Head(held[t]))
          /\ pc[t] = "connect.id" /\ held[t] # <<>>
    BY <1>4 DEF ConnectId, Moves
  <2> QED BY <2>1, AssignMove
<1>5. CASE ConnectLink(t)
  BY <1>5, LinkNewMove DEF ConnectLink
<1>6. CASE ConnectCount(t)
  <2>1. Moves(t, "connect.id") /\ UNCHANGED <<lists, ids, mem>> /\ Hold(t, Tail(held[t]))
          /\ pc[t] = "connect.count"
    BY <1>6 DEF ConnectCount, Moves, Hold, OrderInv, TypeInv, TypeOK
  <2>2. Fresh(t)' = Fresh(t)
    BY <2>1, OthersKeep DEF OrderInv, Fresh, TypeInv, TypeOK, Hold
  <2> QED BY <2>1, <2>2, QuietMove DEF QuietLabel, OrderInv, FreshOK
<1>7. CASE ConnectDone(t)
  BY <1>7, <1>a DEF ConnectDone, Moves
<1>8. CASE ConnectDisable(t)
  BY <1>8, <1>a DEF ConnectDisable, Moves
<1> QED BY <1>1, <1>2, <1>3, <1>4, <1>5, <1>6, <1>7, <1>8 DEF ConnectStep

LEMMA OrderDisconnect ==
  ASSUME OrderInv, TypeInv', OnePlace', NEW t \in Clients,
         DisconnectBegin(t) \/ ClearNonPaged(t) \/ DisconnectStep(t)
  PROVE  OrderInv'
<1> USE DEF lists, ids
<1> t \in Threads
  BY DEF Threads
<1>a. ASSUME NEW l \in {"disconnect.wait", "disconnect.unset", "disconnect.clear",
                        "clear.freeNonPaged", "clear.paged", "clear.freePaged", "idle"},
             Moves(t, l), UNCHANGED ids, paged' \in {paged, <<>>}, npaged' \in {npaged, <<>>},
             \A q \in Requests : mem'[q] = "unused" => mem[q] = "unused"
      PROVE  OrderInv'
  <2>1. Fresh(t)' = {}
    BY <1>a, OthersKeep DEF OrderInv, Fresh
  <2> QED BY <1>a, <2>1, QuietMove DEF QuietLabel
<1>1. CASE DisconnectBegin(t)
  <2>1. PICK l \in {"disconnect.wait", "disconnect.unset"} : Go(t, l)
    BY <1>1 DEF DisconnectBegin
  <2> QED BY <1>1, <1>a, <2>1 DEF DisconnectBegin, Moves
<1>2. CASE DisconnectWait(t)
  BY <1>2, <1>a DEF DisconnectWait, Moves
<1>3. CASE DisconnectUnset(t)
  BY <1>3, <1>a DEF DisconnectUnset, Moves
<1>4. CASE DisconnectKeep(t)
  BY <1>4, <1>a DEF DisconnectKeep, Moves
<1>5. CASE ClearNonPaged(t)
  <2>1. Moves(t, "clear.freeNonPaged")
    BY <1>5 DEF ClearNonPaged, Moves, Hold, OrderInv, TypeInv, TypeOK
  <2> QED BY <1>5, <1>a, <2>1 DEF ClearNonPaged
<1>6. CASE ClearFreeNonPaged(t)
  <2>1. Moves(t, "clear.paged") /\ Free(ToSet(held[t]))
    BY <1>6 DEF ClearFreeNonPaged, Moves, Hold, OrderInv, TypeInv, TypeOK
  <2>2. \A q \in Requests : mem'[q] = "unused" => mem[q] = "unused"
    BY <2>1 DEF Free
  <2> QED BY <1>6, <1>a, <2>1, <2>2 DEF ClearFreeNonPaged
<1>7. CASE ClearPaged(t)
  <2>1. Moves(t, "clear.freePaged")
    BY <1>7 DEF ClearPaged, Moves, Hold, OrderInv, TypeInv, TypeOK
  <2> QED BY <1>7, <1>a, <2>1 DEF ClearPaged
<1>8. CASE ClearFreePaged(t)
  <2>1. Moves(t, "idle") /\ Free(ToSet(held[t]))
    BY <1>8 DEF ClearFreePaged, Moves, Hold, OrderInv, TypeInv, TypeOK
  <2>2. \A q \in Requests : mem'[q] = "unused" => mem[q] = "unused"
    BY <2>1 DEF Free
  <2> QED BY <1>8, <1>a, <2>1, <2>2 DEF ClearFreePaged
<1> QED BY <1>1, <1>2, <1>3, <1>4, <1>5, <1>6, <1>7, <1>8 DEF DisconnectStep

LEMMA OrderGet ==
  ASSUME OneReader, OrderInv, TypeInv', OnePlace', NEW t \in Getters, GetBegin(t) \/ GetStep(t)
  PROVE  OrderInv'
<1> USE DEF lists, ids
<1> t \in Threads
  BY QueueAssumption DEF Threads
<1>a. ASSUME NEW l \in {"get.acquire", "get.remove", "get.release", "idle"},
             Moves(t, l), UNCHANGED <<lists, ids>>,
             \A q \in Requests : mem'[q] = "unused" => mem[q] = "unused"
      PROVE  OrderInv'
  <2>1. Fresh(t)' = {}
    BY <1>a, OthersKeep DEF OrderInv, Fresh
  <2> QED BY <1>a, <2>1, QuietMove DEF QuietLabel
<1>1. CASE GetBegin(t)
  BY <1>1, <1>a DEF GetBegin, Moves
<1>2. CASE GetAcquire(t)
  BY <1>2, <1>a DEF GetAcquire, Moves
<1>3. CASE GetRefused(t)
  BY <1>3, <1>a DEF GetRefused, Moves
<1>4. CASE GetRemove(t)
  BY <1>4, TakeHeadMove
<1>5. CASE GetNoMore(t)
  BY <1>5, <1>a DEF GetNoMore, Moves
<1>6. CASE GetDeliver(t)
  <2>1. Moves(t, "get.release") /\ UNCHANGED <<lists, ids>> /\ pc[t] = "get.size"
          /\ mem' = [mem EXCEPT ![Head(held[t])] = "client"]
    BY <1>6 DEF GetDeliver, Moves, Hold, OrderInv, TypeInv, TypeOK
  <2>2. Head(held[t]) \in Requests
    BY <2>1, HandsSingle DEF OrderInv
  <2>3. \A q \in Requests : mem'[q] = "unused" => mem[q] = "unused"
    BY <2>1, <2>2 DEF OrderInv, TypeInv, TypeOK
  <2> QED BY <1>a, <2>1, <2>3
<1>7. CASE GetPutBack(t)
  BY <1>7, PutBackMove
<1>8. CASE GetCount(t)
  <2>1. Moves(t, "get.release")
    BY <1>8 DEF GetCount, Moves, Hold, OrderInv, TypeInv, TypeOK
  <2> QED BY <1>8, <1>a, <2>1 DEF GetCount
<1>9. CASE GetRelease(t)
  BY <1>9, <1>a DEF GetRelease, Moves
<1> QED BY <1>1, <1>2, <1>3, <1>4, <1>5, <1>6, <1>7, <1>8, <1>9 DEF GetStep

LEMMA OrderStep ==
  ASSUME OneReader, OrderInv, [Next]_vars
  PROVE  OrderInv'
<1>1. TypeInv' /\ OnePlace'
  BY TypeInvStep, OnePlaceStep DEF OrderInv
<1>2. CASE SettingsSet \/ UNCHANGED vars
  <2>1. UNCHANGED <<paged, npaged, pc, held, mem, lastId, id, preds>>
    BY <1>2 DEF SettingsSet, vars, lists, ids
  <2>2. /\ Queued' = Queued /\ InReadersHand' = InReadersHand
        /\ \A t \in Threads : Fresh(t)' = Fresh(t) /\ Announced(t)' = Announced(t)
    BY <2>1 DEF Queued, InReadersHand, Fresh, Announced
  <2>3. IdsOK' /\ FreshOK' /\ AnnouncedOK' /\ HandFirst'
    BY <2>1, <2>2 DEF OrderInv, IdsOK, FreshOK, AnnouncedOK, HandFirst, Before
  <2>4. Ordered(paged)' /\ Ordered(npaged)'
    BY <2>1 DEF OrderInv, Ordered, Before
  <2> QED BY <1>1, <2>3, <2>4 DEF OrderInv
<1> QED BY <1>1, <1>2, OrderInsert, OrderConnect, OrderDisconnect, OrderGet DEF Next

LEMMA OrderInit ==
  ASSUME Init
  PROVE  OrderInv
<1>1. TypeInv /\ OnePlace
  BY TypeInvInit, OnePlaceInit
<1>2. Queued = {}
  BY EmptySingle DEF Init, Queued
<1>3. InReadersHand = {} /\ \A t \in Threads : Fresh(t) = {} /\ Announced(t) = {}
  BY QueueAssumption DEF Init, InReadersHand, Fresh, Announced, Threads
<1>4. IdsOK /\ FreshOK /\ AnnouncedOK /\ HandFirst
  BY <1>2, <1>3 DEF Init, IdsOK, FreshOK, AnnouncedOK, HandFirst
<1>5. Ordered(paged) /\ Ordered(npaged)
  BY OrderedEmpty DEF Init
<1> QED BY <1>1, <1>4, <1>5 DEF OrderInv

\* The only step that removes a record is the removal by that reader.
LEMMA RemovesIs ==
  ASSUME TypeInv, [Next]_vars, NEW g \in Getters, NEW r, Removes(g, r)
  PROVE  Queued # {} /\ r = Chosen
<1> g \in Threads /\ g \in Clients /\ \A p \in Producers : p # g
  BY QueueAssumption DEF Threads
<1>1. pc[g] = "get.remove" /\ pc'[g] = "get.size" /\ held'[g] = <<r>>
  BY DEF Removes
<1>2. \A t \in Threads \ {g} : \A l : Go(t, l) => pc'[g] = pc[g]
  BY DEF Go, TypeInv, TypeOK
<1>3. \A l : Go(g, l) => l = "get.size"
  BY <1>1 DEF Go, TypeInv, TypeOK
<1>4. ~UNCHANGED pc
  BY <1>1
<1>5. GetRemove(g)
  <2>1. ~SettingsSet /\ ~UNCHANGED vars
    BY <1>4 DEF SettingsSet, vars
  <2>2. ASSUME NEW p \in Producers, (\E q \in Requests : InsertBegin(p, q)) \/ InsertStep(p)
        PROVE  FALSE
    <3>1. \E l : Go(p, l)
      BY <2>2 DEF InsertBegin, InsertStep, InsertAcquire, InsertRefused, InsertId, InsertLink,
                  InsertCount, InsertRelease, InsertCallback
    <3> QED BY <1>1, <1>2, <3>1 DEF Threads
  <2>3. ASSUME NEW c \in Clients, ConnectBegin(c) \/ ConnectStep(c)
        PROVE  FALSE
    <3>1. (\E l : Go(c, l)) /\ pc[c] # "get.remove"
      BY <2>3 DEF ConnectBegin, ConnectStep, ConnectList, ConnectFail, ConnectId, ConnectLink,
                  ConnectCount, ConnectDone, ConnectDisable
    <3> QED BY <1>1, <1>2, <3>1 DEF Threads
  <2>4. ASSUME NEW c \in Clients, DisconnectBegin(c) \/ ClearNonPaged(c) \/ DisconnectStep(c)
        PROVE  FALSE
    <3>1. (\E l : Go(c, l)) /\ pc[c] # "get.remove"
      BY <2>4 DEF DisconnectBegin, DisconnectStep, DisconnectWait, DisconnectUnset,
                  DisconnectKeep, ClearNonPaged, ClearFreeNonPaged, ClearPaged, ClearFreePaged
    <3> QED BY <1>1, <1>2, <3>1 DEF Threads
  <2>5. ASSUME NEW h \in Getters, GetBegin(h) \/ GetStep(h)
        PROVE  GetRemove(g)
    <3> h \in Threads
      BY QueueAssumption DEF Threads
    <3>1. \E l : Go(h, l)
      BY <2>5 DEF GetBegin, GetStep, GetAcquire, GetRefused, GetRemove, GetNoMore, GetDeliver,
                  GetPutBack, GetCount, GetRelease
    <3>2. h = g
      BY <1>1, <1>2, <3>1
    <3> QED BY <1>1, <1>3, <2>5, <3>2 DEF GetBegin, GetStep, GetAcquire, GetRefused, GetNoMore,
               GetDeliver, GetPutBack, GetCount, GetRelease
  <2> QED BY <2>1, <2>2, <2>3, <2>4, <2>5 DEF Next
<1>6. held'[g] = <<Chosen>>
  BY <1>5 DEF GetRemove, Hold, Chosen, TypeInv, TypeOK
<1> QED BY <1>1, <1>5, <1>6 DEF GetRemove

\* NoOvertaking, for any numbers of records, inserting threads and clients of
\* which one reads: RequestQueueGet never delivers a record while one that was
\* queued before it got its Id is still on one of the two lists.
THEOREM QueueNoOvertaking ==
  ASSUME OneReader
  PROVE  Spec => NoOvertaking
<1> DEFINE Step == \A g \in Getters, r \in Requests :
                     Removes(g, r) => preds[r] \cap Queued = {}
<1>1. Init => OrderInv
  BY OrderInit
<1>2. OrderInv /\ [Next]_vars => OrderInv'
  BY OrderStep
<1>3. OrderInv /\ [Next]_vars => [Step]_vars
  BY RemovesIs, ChosenFirst DEF OrderInv
<1> QED BY <1>1, <1>2, <1>3, PTL DEF Spec, NoOvertaking

-----------------------------------------------------------------------------
(* The refinement of EventQueue.                                           *)

\* One client connects, reads, clears and disconnects.  With two, a reader of
\* the first session may still deliver while a second client connects.
OneClient == \A c, d \in Clients : c = d

ClearLabels == {"clear.freePaged", "clear.freeNonPaged"}

InClearHand == BeingCleared("clear.freePaged") \cup BeingCleared("clear.freeNonPaged")

\* The one client reads while it is connected.
ReadConnected ==
  \A c \in Clients :
    pc[c] \in {"get.acquire", "get.remove", "get.size", "get.count", "get.release"} => connected

RefInv == OrderInv /\ ReadConnected

\* The stage of a record, from its memory, its place and its Id.
StageFacts(r) ==
  /\ mem[r] = "unused" => Stage(r) = "new"
  /\ mem[r] = "client" => Stage(r) = "taken"
  /\ mem[r] = "logged" => Stage(r) = "diverted"
  /\ mem[r] = "freed" => Stage(r) = "discarded"
  /\ mem[r] = "live" /\ r \in Waiting => Stage(r) = "queued"
  /\ mem[r] = "live" /\ r \in InClearHand => Stage(r) = "discarded"
  /\ mem[r] = "live" /\ r \notin Waiting /\ r \notin InClearHand
       => Stage(r) = IF id[r] # 0 THEN "announced" ELSE "new"

\* What a clear has taken over does not wait any more.
LEMMA ClearApart ==
  ASSUME TypeInv, OnePlace
  PROVE  InClearHand \cap Waiting = {} /\ InClearHand \subseteq Requests
<1>1. ASSUME NEW c \in Clients, pc[c] \in ClearLabels, NEW r \in ToSet(held[c])
      PROVE  r \notin Waiting /\ r \in Requests
  <2>1. c \in Threads
    BY DEF Threads
  <2>2. pc[c] \notin CountLabels /\ pc[c] # "get.size"
    BY <1>1 DEF ClearLabels, CountLabels
  <2>3. held[c] \in Seq(Requests)
    BY <2>1 DEF TypeInv, TypeOK
  <2>4. r \in Requests
    BY <2>3 DEF ToSet
  <2> QED BY <2>1, <2>2, <2>4, HandsApart
<1> QED BY <1>1 DEF InClearHand, BeingCleared, ClearLabels

LEMMA StageIs ==
  ASSUME TypeInv, OnePlace
  PROVE  \A r \in Requests : StageFacts(r)
<1> SUFFICES ASSUME NEW r \in Requests PROVE StageFacts(r)
  OBVIOUS
<1>1. ~(r \in InClearHand /\ r \in Waiting)
  BY ClearApart
<1> QED BY <1>1 DEF StageFacts, Stage, Waiting, InClearHand, InClearersHand

ClearIsApart == InClearHand \cap Waiting = {}

\* The same after a step.
LEMMA ClearApartAfter == TypeInv' /\ OnePlace' => ClearIsApart'
<1>1. TypeInv /\ OnePlace => ClearIsApart
  BY ClearApart DEF ClearIsApart
<1> QED BY <1>1, PTL

StagesOK == \A r \in Requests : StageFacts(r)

\* The same after a step.
LEMMA StageIsAfter == TypeInv' /\ OnePlace' => StagesOK'
<1>1. TypeInv /\ OnePlace => StagesOK
  BY StageIs DEF StagesOK
<1> QED BY <1>1, PTL

-----------------------------------------------------------------------------
(* How the places change.                                                  *)

LEMMA ClearHandKept ==
  ASSUME TypeInv, NEW t \in Threads, NEW l, Moves(t, l),
         pc[t] \notin ClearLabels, l \notin ClearLabels
  PROVE  InClearHand' = InClearHand
<1>1. \A c \in Clients : pc'[c] \in ClearLabels \/ pc[c] \in ClearLabels =>
        c # t /\ pc'[c] = pc[c] /\ held'[c] = held[c]
  BY DEF Moves, Go, TypeInv, TypeOK, Threads
<1> QED BY <1>1 DEF InClearHand, BeingCleared, ClearLabels

\* What a thread has in hand, no clear has, if it is none itself.
LEMMA NotCleared ==
  ASSUME TypeInv, OnePlace, NEW t \in Threads, pc[t] \notin ClearLabels \cup CountLabels,
         NEW r \in ToSet(held[t])
  PROVE  r \notin InClearHand
<1>1. ASSUME NEW c \in Clients, pc[c] \in ClearLabels
      PROVE  r \notin ToSet(held[c])
  <2>1. c \in Threads /\ c # t /\ Owned(c) = held[c] /\ Owned(t) = held[t]
    BY <1>1 DEF Threads, Owned, ClearLabels, CountLabels
  <2> QED BY <2>1 DEF OnePlace
<1> QED BY <1>1 DEF InClearHand, BeingCleared, ClearLabels

\* Nothing is linked, taken, taken over or freed.
LEMMA WaitingKept ==
  ASSUME TypeInv, NEW t \in Threads, NEW l, Moves(t, l), UNCHANGED lists,
         pc[t] # "get.size", l # "get.size"
  PROVE  Waiting' = Waiting
<1>1. InReadersHand' = InReadersHand /\ Queued' = Queued
  BY ReadersHandMove DEF lists, Queued
<1> QED BY <1>1 DEF Waiting

\* What waits is live; what was never used is nowhere.
LEMMA WaitingLive ==
  ASSUME TypeInv, OnePlace
  PROVE  /\ Waiting \subseteq Requests
         /\ \A r \in Waiting : mem[r] = "live"
         /\ \A r \in InClearHand : mem[r] = "live"
<1>1. Waiting \subseteq Requests
  <2>1. Queued \subseteq Requests
    BY DEF TypeInv, TypeOK, Queued, ToSet
  <2> QED BY <2>1, InReadersHandType DEF Waiting
<1>2. ASSUME NEW t \in Threads, pc[t] \notin CountLabels, NEW r \in ToSet(held[t])
      PROVE  r \in Requests /\ mem[r] = "live"
  <2>1. r \in Requests
    BY DEF TypeInv, TypeOK, ToSet
  <2> QED BY <1>2, <2>1 DEF OnePlace, Owned
<1>3. \A r \in InReadersHand : mem[r] = "live"
  BY <1>2, QueueAssumption DEF InReadersHand, Threads, CountLabels
<1>4. \A r \in InClearHand : mem[r] = "live"
  BY <1>2 DEF InClearHand, BeingCleared, Threads, CountLabels
<1> QED BY <1>1, <1>3, <1>4 DEF Waiting, OnePlace

\* A stage that the memory, the places and the Ids do not change.
LEMMA StageKept ==
  ASSUME RefInv, RefInv', NEW r \in Requests, mem'[r] = mem[r],
         r \in Waiting' <=> r \in Waiting, r \in InClearHand' <=> r \in InClearHand,
         id'[r] = id[r]
  PROVE  Stage(r)' = Stage(r)
<1>1. StageFacts(r) /\ StageFacts(r)'
  BY StageIs, StageIsAfter DEF StagesOK, RefInv, OrderInv
<1>2. mem[r] \in {"unused", "live", "freed", "client", "logged"}
  BY DEF RefInv, OrderInv, TypeInv, TypeOK
<1> QED BY <1>1, <1>2 DEF StageFacts

-----------------------------------------------------------------------------
(* Steps of the queue as steps of EventQueue.                              *)

LEMMA Stutters ==
  ASSUME \A r \in Requests : Stage(r)' = Stage(r), preds' = preds, connected' = connected
  PROVE  UNCHANGED Abstract!vars
  BY DEF Abstract!vars

LEMMA Switches ==
  ASSUME \A r \in Requests : Stage(r)' = Stage(r), preds' = preds,
         connected \in BOOLEAN, connected' \in BOOLEAN
  PROVE  [Abstract!Next]_(Abstract!vars)
<1>1. CASE connected' = connected
  BY <1>1, Stutters
<1>2. CASE connected' # connected
  <2>1. connected' = ~connected
    BY <1>2
  <2>2. Abstract!Switch
    BY <2>1 DEF Abstract!Switch
  <2> QED BY <2>2 DEF Abstract!Next
<1> QED BY <1>1, <1>2

LEMMA Refuses ==
  ASSUME NEW S \in SUBSET Requests, \A r \in S : Stage(r) = "new",
         \A r \in Requests : Stage(r)' = IF r \in S THEN "discarded" ELSE Stage(r),
         preds' = preds, connected' = connected
  PROVE  Abstract!Next
<1>1. Abstract!Refuse
  BY DEF Abstract!Refuse, Abstract!Move
<1> QED BY <1>1 DEF Abstract!Next

LEMMA Clears ==
  ASSUME NEW S \in SUBSET Requests, \A r \in S : Stage(r) = "queued",
         \A r \in Requests : Stage(r)' = IF r \in S THEN "discarded" ELSE Stage(r),
         preds' = preds, connected' = connected
  PROVE  Abstract!Next
<1>1. Abstract!Clear
  BY DEF Abstract!Clear, Abstract!Move, Abstract!Queued
<1> QED BY <1>1 DEF Abstract!Next

\* What is queued in the abstract is what waits.
LEMMA QueuedIsWaiting ==
  ASSUME RefInv
  PROVE  Abstract!Queued = Waiting
<1>1. \A r \in Requests : StageFacts(r)
  BY StageIs DEF RefInv, OrderInv
<1>2. \A r \in Requests : mem[r] \in {"unused", "live", "freed", "client", "logged"}
  BY DEF RefInv, OrderInv, TypeInv, TypeOK
<1>3. Waiting \subseteq Requests /\ \A r \in Waiting : mem[r] = "live"
  BY WaitingLive DEF RefInv, OrderInv
<1>4. \A r \in Requests : Stage(r) = "queued" <=> r \in Waiting
  BY <1>1, <1>2, <1>3 DEF StageFacts
<1> QED BY <1>3, <1>4 DEF Abstract!Queued

-----------------------------------------------------------------------------

LEMMA PlacesKept ==
  ASSUME RefInv, NEW t \in Threads, NEW l, Moves(t, l), UNCHANGED lists,
         pc[t] \notin ClearLabels \cup {"get.size"}, l \notin ClearLabels \cup {"get.size"}
  PROVE  Waiting' = Waiting /\ InClearHand' = InClearHand
  BY WaitingKept, ClearHandKept DEF RefInv, OrderInv

\* A step that changes only where the thread is, and perhaps whether the
\* queue is connected.
LEMMA RefQuiet ==
  ASSUME RefInv, RefInv', NEW t \in Threads, NEW l, Moves(t, l),
         UNCHANGED <<lists, ids, mem>>,
         pc[t] \notin ClearLabels \cup {"get.size"}, l \notin ClearLabels \cup {"get.size"}
  PROVE  [Abstract!Next]_(Abstract!vars)
<1>1. Waiting' = Waiting /\ InClearHand' = InClearHand
  BY PlacesKept
<1>2. \A r \in Requests : Stage(r)' = Stage(r)
  BY <1>1, StageKept DEF ids
<1>3. connected \in BOOLEAN /\ connected' \in BOOLEAN
  BY DEF RefInv, OrderInv, TypeInv, TypeOK
<1> QED BY <1>2, <1>3, Switches DEF ids

\* The thread gets records that nobody has used.
LEMMA RefNew ==
  ASSUME RefInv, RefInv', NEW t \in Threads, NEW l, Moves(t, l),
         UNCHANGED <<lists, ids, connected>>,
         pc[t] \notin ClearLabels \cup {"get.size"}, l \notin ClearLabels \cup {"get.size"},
         NEW S \in SUBSET Unused,
         \A r \in Requests : mem'[r] = IF r \in S THEN "live" ELSE mem[r]
  PROVE  [Abstract!Next]_(Abstract!vars)
<1> USE DEF ids
<1>1. Waiting' = Waiting /\ InClearHand' = InClearHand
  BY PlacesKept
<1>2. ASSUME NEW r \in S
      PROVE  Stage(r)' = Stage(r)
  <2>1. r \in Requests /\ mem[r] = "unused" /\ mem'[r] = "live"
    BY DEF Unused
  <2>2. id'[r] = 0
    BY <2>1 DEF RefInv, OrderInv, IdsOK
  <2>3. r \notin Waiting' /\ r \notin InClearHand'
    BY <1>1, <2>1, WaitingLive DEF RefInv, OrderInv
  <2>4. StageFacts(r) /\ StageFacts(r)'
    BY <2>1, StageIs, StageIsAfter DEF StagesOK, RefInv, OrderInv
  <2> QED BY <2>1, <2>2, <2>3, <2>4 DEF StageFacts
<1>3. \A r \in Requests \ S : Stage(r)' = Stage(r)
  BY <1>1, StageKept
<1> QED BY <1>2, <1>3, Stutters

\* Records that were never queued are freed.
LEMMA RefRefuse ==
  ASSUME RefInv, RefInv', NEW t \in Threads, NEW l, Moves(t, l),
         UNCHANGED <<lists, ids, connected>>,
         pc[t] \notin ClearLabels \cup {"get.size"}, l \notin ClearLabels \cup {"get.size"},
         NEW S \in SUBSET Requests, \A r \in S : Stage(r) = "new", Free(S)
  PROVE  [Abstract!Next]_(Abstract!vars)
<1> USE DEF ids
<1>1. Waiting' = Waiting /\ InClearHand' = InClearHand
  BY PlacesKept
<1>2. \A r \in S : Stage(r)' = "discarded"
  BY StageIsAfter DEF StagesOK, StageFacts, RefInv, OrderInv, Free
<1>3. \A r \in Requests \ S : Stage(r)' = Stage(r)
  BY <1>1, StageKept DEF Free
<1> QED BY <1>2, <1>3, Refuses

\* A thread's fresh records are new, and its announced record is announced.
LEMMA HandStage ==
  ASSUME RefInv, NEW t \in Threads, NEW r \in ToSet(held[t]),
         pc[t] \notin ClearLabels \cup CountLabels \cup {"get.size"}
  PROVE  /\ r \in Requests /\ r \notin Waiting /\ r \notin InClearHand /\ mem[r] = "live"
         /\ Stage(r) = IF id[r] # 0 THEN "announced" ELSE "new"
<1>1. r \in Requests
  BY DEF RefInv, OrderInv, TypeInv, TypeOK, ToSet
<1>2. r \notin Waiting /\ r \notin InClearHand
  BY HandsApart, NotCleared DEF RefInv, OrderInv
<1>3. mem[r] = "live"
  BY <1>1 DEF RefInv, OrderInv, OnePlace, Owned
<1>4. StageFacts(r)
  BY <1>1, StageIs DEF RefInv, OrderInv
<1> QED BY <1>1, <1>2, <1>3, <1>4 DEF StageFacts

LEMMA RefAnnounce ==
  ASSUME RefInv, RefInv', NEW t \in Threads, NEW l, Moves(t, l),
         UNCHANGED <<lists, held, mem, connected>>, held[t] # <<>>, AssignId(Head(held[t])),
         pc[t] \in {"insert.id", "connect.id"}, l \in {"insert.link", "connect.link"}
  PROVE  Abstract!Next
<1>0. PICK r : r = Head(held[t])
  OBVIOUS
<1>1. r \in ToSet(held[t]) /\ r \in Fresh(t)
  <2>1. r \in ToSet(held[t])
    BY <1>0, HeadTailSet DEF RefInv, OrderInv, TypeInv, TypeOK
  <2> QED BY <2>1 DEF Fresh
<1>2. /\ r \in Requests /\ r \notin Waiting /\ r \notin InClearHand /\ mem[r] = "live"
      /\ Stage(r) = "new"
  <2>1. id[r] = 0
    BY <1>1 DEF RefInv, OrderInv, FreshOK
  <2> QED BY <1>1, <2>1, HandStage DEF ClearLabels, CountLabels
<1>3. Waiting' = Waiting /\ InClearHand' = InClearHand
  BY PlacesKept DEF ClearLabels
<1>4. /\ id' = [id EXCEPT ![r] = lastId + 1] /\ preds' = [preds EXCEPT ![r] = Waiting]
      /\ id \in [Requests -> Nat] /\ lastId \in Nat
  BY <1>0 DEF AssignId, Waiting, RefInv, OrderInv, TypeInv, TypeOK
<1>5. id'[r] # 0 /\ \A q \in Requests \ {r} : id'[q] = id[q]
  BY <1>2, <1>4
<1>6. Stage(r)' = "announced"
  <2>1. StageFacts(r)'
    BY <1>2, StageIsAfter DEF StagesOK, RefInv, OrderInv
  <2> QED BY <1>2, <1>3, <1>5, <2>1 DEF StageFacts
<1>7. \A q \in Requests \ {r} : Stage(q)' = Stage(q)
  BY <1>3, <1>5, StageKept
<1>8. Abstract!Announce(r)
  BY <1>2, <1>4, <1>6, <1>7, QueuedIsWaiting DEF Abstract!Announce, Abstract!Move
<1> QED BY <1>2, <1>8 DEF Abstract!Next

LEMMA RefPut ==
  ASSUME RefInv, RefInv', NEW t \in Threads, NEW l, Go(t, l),
         UNCHANGED <<held, ids, mem, connected>>, Link(Head(held[t]), FALSE),
         pc[t] \in {"insert.link", "connect.link"}, l \in {"insert.count", "connect.count"}
  PROVE  Abstract!Next
<1> USE DEF ids
<1>0. PICK r : r = Head(held[t])
  OBVIOUS
<1>1. r \in ToSet(held[t]) /\ r \in Announced(t)
  <2>1. r \in ToSet(held[t])
    BY <1>0, HandsHeld, HeadTailSet DEF RefInv, OrderInv, TypeInv, TypeOK
  <2> QED BY <1>0, <2>1 DEF Announced
<1>2. /\ r \in Requests /\ r \notin Waiting /\ r \notin InClearHand /\ mem[r] = "live"
      /\ Stage(r) = "announced"
  <2>1. id[r] # 0
    BY <1>1 DEF RefInv, OrderInv, AnnouncedOK
  <2> QED BY <1>1, <2>1, HandStage DEF ClearLabels, CountLabels
<1>3. Moves(t, l)
  BY DEF Moves
<1>4. InReadersHand' = InReadersHand /\ InClearHand' = InClearHand
  BY <1>3, ReadersHandMove, ClearHandKept DEF RefInv, OrderInv, ClearLabels
<1>5. Queued' = Queued \cup {r}
  BY <1>0, <1>2, LinkSets DEF RefInv, OrderInv, Waiting
<1>6. Waiting' = Waiting \cup {r}
  BY <1>4, <1>5 DEF Waiting
<1>7. Stage(r)' = "queued"
  <2>1. StageFacts(r)'
    BY <1>2, StageIsAfter DEF StagesOK, RefInv, OrderInv
  <2> QED BY <1>2, <1>6, <2>1 DEF StageFacts
<1>8. \A q \in Requests \ {r} : Stage(q)' = Stage(q)
  BY <1>4, <1>6, StageKept
<1>9. Abstract!Put(r)
  BY <1>2, <1>7, <1>8 DEF Abstract!Put, Abstract!Move
<1> QED BY <1>2, <1>9 DEF Abstract!Next

LEMMA RefDivert ==
  ASSUME RefInv, RefInv', NEW t \in Producers, InsertCallback(t), bootLog
  PROVE  Abstract!Next
<1> USE DEF lists, ids
<1>0. PICK r : r = Head(held[t])
  OBVIOUS
<1> t \in Threads
  BY DEF Threads
<1>1. /\ Moves(t, "idle") /\ pc[t] = "insert.callback" /\ UNCHANGED <<lists, connected>>
      /\ AssignId(r) /\ mem' = [mem EXCEPT ![r] = "logged"]
  BY <1>0 DEF InsertCallback, Moves, Hold, RefInv, OrderInv, TypeInv, TypeOK
<1>2. r \in ToSet(held[t]) /\ r \in Fresh(t)
  <2>1. r \in ToSet(held[t])
    BY <1>0, <1>1, HandsHeld, HeadTailSet DEF RefInv, OrderInv, TypeInv, TypeOK
  <2> QED BY <1>1, <2>1 DEF Fresh
<1>3. r \in Requests /\ Stage(r) = "new"
  <2>1. id[r] = 0
    BY <1>2 DEF RefInv, OrderInv, FreshOK
  <2> QED BY <1>1, <1>2, <2>1, HandStage DEF ClearLabels, CountLabels
<1>4. Waiting' = Waiting /\ InClearHand' = InClearHand
  BY <1>1, PlacesKept DEF ClearLabels
<1>5. /\ \A q \in Requests \ {r} : id'[q] = id[q] /\ mem'[q] = mem[q]
      /\ mem'[r] = "logged" /\ preds' = [preds EXCEPT ![r] = Waiting]
  BY <1>1, <1>3 DEF AssignId, Waiting, RefInv, OrderInv, TypeInv, TypeOK
<1>6. Stage(r)' = "diverted"
  <2>1. StageFacts(r)'
    BY <1>3, StageIsAfter DEF StagesOK, RefInv, OrderInv
  <2> QED BY <1>5, <2>1 DEF StageFacts
<1>7. \A q \in Requests \ {r} : Stage(q)' = Stage(q)
  BY <1>4, <1>5, StageKept
<1>8. Waiting \in SUBSET Requests
  BY WaitingLive DEF RefInv, OrderInv
<1>9. Abstract!Divert(r)
  BY <1>1, <1>3, <1>5, <1>6, <1>7, <1>8 DEF Abstract!Divert, Abstract!Move
<1> QED BY <1>3, <1>9 DEF Abstract!Next

\* A clear takes over a whole list.
LEMMA RefClear ==
  ASSUME RefInv, RefInv', NEW t \in Clients, NEW l \in ClearLabels, NEW s \in Seq(Requests),
         pc[t] \notin ClearLabels \cup {"get.size"}, Go(t, l), Hold(t, s),
         Queued' \cup ToSet(s) = Queued, UNCHANGED <<ids, mem, connected>>
  PROVE  Abstract!Next
<1> USE DEF ids
<1> t \in Threads
  BY DEF Threads
<1>1. Moves(t, l) /\ l # "get.size"
  BY DEF Moves, Hold, RefInv, OrderInv, TypeInv, TypeOK, ClearLabels
<1>2. InReadersHand' = InReadersHand
  BY <1>1, ReadersHandMove DEF RefInv, OrderInv
<1>3. InClearHand' = InClearHand \cup ToSet(s)
  <2>1. pc'[t] = l /\ held'[t] = s
    BY DEF Go, Hold, RefInv, OrderInv, TypeInv, TypeOK
  <2>2. \A c \in Clients \ {t} : pc'[c] = pc[c] /\ held'[c] = held[c]
    BY DEF Go, Hold, RefInv, OrderInv, TypeInv, TypeOK, Threads
  <2> QED BY <2>1, <2>2 DEF InClearHand, BeingCleared, ClearLabels
<1>4. ToSet(s) \subseteq Waiting /\ Waiting \subseteq Requests
  BY WaitingLive DEF Waiting, RefInv, OrderInv
<1>5. \A r \in Waiting : mem[r] = "live" /\ r \notin InClearHand
  BY WaitingLive, ClearApart DEF RefInv, OrderInv
<1>6. InClearHand' \cap Waiting' = {}
  BY ClearApartAfter DEF ClearIsApart, RefInv, OrderInv
<1>7. Waiting' \cup ToSet(s) = Waiting
  BY <1>2 DEF Waiting
<1>8. \A r \in ToSet(s) : Stage(r) = "queued" /\ Stage(r)' = "discarded"
  <2> SUFFICES ASSUME NEW r \in ToSet(s) PROVE Stage(r) = "queued" /\ Stage(r)' = "discarded"
    OBVIOUS
  <2>1. r \in Requests /\ StageFacts(r) /\ StageFacts(r)'
    BY <1>4, StageIs, StageIsAfter DEF StagesOK, RefInv, OrderInv
  <2> QED BY <1>3, <1>4, <1>5, <2>1 DEF StageFacts
<1>9. \A r \in Requests \ ToSet(s) : Stage(r)' = Stage(r)
  BY <1>3, <1>7, StageKept
<1>10. ToSet(s) \in SUBSET Requests
  BY <1>4
<1> QED BY <1>8, <1>9, <1>10, Clears

\* A clear frees what it has taken over: it was discarded already.
LEMMA RefFree ==
  ASSUME RefInv, RefInv', NEW t \in Clients, NEW l, pc[t] \in ClearLabels,
         l \notin ClearLabels \cup {"get.size"}, Go(t, l), Hold(t, <<>>), Free(ToSet(held[t])),
         UNCHANGED <<lists, ids, connected>>
  PROVE  [Abstract!Next]_(Abstract!vars)
<1> USE DEF ids, lists
<1> t \in Threads
  BY DEF Threads
<1>1. Moves(t, l) /\ pc[t] # "get.size"
  BY DEF Moves, Hold, RefInv, OrderInv, TypeInv, TypeOK, ClearLabels
<1>2. Waiting' = Waiting
  BY <1>1, WaitingKept DEF RefInv, OrderInv
<1>3. ToSet(held[t]) \subseteq InClearHand
  BY DEF InClearHand, BeingCleared, ClearLabels
<1>4. \A r \in Requests \ ToSet(held[t]) : r \in InClearHand' <=> r \in InClearHand
  <2>1. pc'[t] = l
    BY DEF Go, RefInv, OrderInv, TypeInv, TypeOK
  <2>2. \A c \in Clients \ {t} : pc'[c] = pc[c] /\ held'[c] = held[c]
    BY DEF Go, Hold, RefInv, OrderInv, TypeInv, TypeOK, Threads
  <2> QED BY <2>1, <2>2 DEF InClearHand, BeingCleared, ClearLabels
<1>5. ASSUME NEW r \in Requests
      PROVE  Stage(r)' = Stage(r)
  <2>1. StageFacts(r) /\ StageFacts(r)'
    BY StageIs, StageIsAfter DEF StagesOK, RefInv, OrderInv
  <2>2. CASE r \in ToSet(held[t])
    <3>1. mem[r] = "live" /\ r \in InClearHand /\ mem'[r] = "freed"
      BY <1>3, <2>2, WaitingLive DEF Free, RefInv, OrderInv
    <3> QED BY <2>1, <3>1 DEF StageFacts
  <2>3. CASE r \notin ToSet(held[t])
    <3>1. mem'[r] = mem[r]
      BY <2>3 DEF Free
    <3> QED BY <1>2, <1>4, <2>3, <3>1, StageKept
  <2> QED BY <2>2, <2>3
<1> QED BY <1>5, Stutters

\* Taking a record off its list and putting it back: it stays queued.
LEMMA RefHand ==
  ASSUME OneReader, RefInv, RefInv', NEW t \in Getters, GetRemove(t) \/ GetPutBack(t)
  PROVE  [Abstract!Next]_(Abstract!vars)
<1> USE DEF ids
<1> t \in Threads
  BY QueueAssumption DEF Threads
<1>1. \A h \in Getters : h = t
  BY DEF OneReader
<1>2. Waiting' = Waiting
  <2>1. CASE GetRemove(t)
    <3>0. PICK c : c = Chosen
      OBVIOUS
    <3>1. pc'[t] = "get.size" /\ held'[t] = <<c>> /\ pc[t] = "get.remove" /\ Queued # {}
      BY <2>1, <3>0 DEF GetRemove, Go, Hold, RefInv, OrderInv, TypeInv, TypeOK, Chosen
    <3>2. InReadersHand = {} /\ InReadersHand' = {c}
      <4>1. InReadersHand' = ToSet(held'[t])
        BY <1>1, <3>1 DEF InReadersHand
      <4>2. InReadersHand = {}
        BY <3>1, <1>1 DEF InReadersHand
      <4> QED BY <3>1, <4>1, <4>2, EmptySingle
    <3>3. Queued = Queued' \cup {c}
      <4>1. paged \in Seq(Requests) /\ npaged \in Seq(Requests)
        BY DEF RefInv, OrderInv, TypeInv, TypeOK
      <4>2. CASE NonPagedFirst
        <5>1. npaged # <<>> /\ npaged' = Tail(npaged) /\ paged' = paged /\ c = Head(npaged)
          BY <2>1, <3>0, <4>2 DEF GetRemove, NonPagedFirst, Chosen
        <5> QED BY <4>1, <5>1, HeadTailSet DEF Queued
      <4>3. CASE ~NonPagedFirst
        <5>1. paged # <<>>
          BY <3>1, <4>3, EmptySingle DEF NonPagedFirst, Queued
        <5>2. paged' = Tail(paged) /\ npaged' = npaged /\ c = Head(paged)
          BY <2>1, <3>0, <4>3 DEF GetRemove, Chosen
        <5> QED BY <4>1, <5>1, <5>2, HeadTailSet DEF Queued
      <4> QED BY <4>2, <4>3
    <3> QED BY <3>2, <3>3 DEF Waiting
  <2>2. CASE GetPutBack(t)
    <3>0. PICK r : r = Head(held[t])
      OBVIOUS
    <3>1. pc'[t] = "get.count" /\ pc[t] = "get.size" /\ Link(r, TRUE)
      BY <2>2, <3>0 DEF GetPutBack, Go, RefInv, OrderInv, TypeInv, TypeOK
    <3>2. InReadersHand = {r} /\ InReadersHand' = {}
      BY <1>1, <3>0, <3>1, ReadersHand DEF InReadersHand, RefInv, OrderInv
    <3>3. r \in Requests /\ r \notin Queued
      <4>1. r \in ToSet(held[t]) /\ r \in Requests
        BY <3>0, <3>1, HandsSingle DEF RefInv, OrderInv
      <4> QED BY <3>1, <4>1 DEF RefInv, OrderInv, OnePlace, Owned, CountLabels
    <3>4. Queued' = Queued \cup {r}
      BY <3>1, <3>3, LinkSets DEF RefInv, OrderInv
    <3> QED BY <3>2, <3>4 DEF Waiting
  <2> QED BY <2>1, <2>2
<1>3. InClearHand' = InClearHand
  <2>1. PICK l \in {"get.size", "get.count"} : Moves(t, l)
    BY DEF GetRemove, GetPutBack, Moves, Hold, RefInv, OrderInv, TypeInv, TypeOK
  <2>2. pc[t] \notin ClearLabels
    BY DEF GetRemove, GetPutBack, ClearLabels
  <2> QED BY <2>1, <2>2, ClearHandKept DEF RefInv, OrderInv, ClearLabels
<1>4. mem' = mem /\ id' = id /\ preds' = preds /\ connected' = connected
  BY DEF GetRemove, GetPutBack
<1>5. \A r \in Requests : Stage(r)' = Stage(r)
  BY <1>2, <1>3, <1>4, StageKept
<1> QED BY <1>4, <1>5, Stutters

\* The reader delivers the record: nothing that was queued before it waits.
LEMMA RefDeliver ==
  ASSUME OneReader, RefInv, RefInv', NEW t \in Getters, GetDeliver(t)
  PROVE  Abstract!Next
<1> USE DEF ids, lists
<1> t \in Threads /\ t \in Clients
  BY QueueAssumption DEF Threads
<1>0. PICK r : r = Head(held[t])
  OBVIOUS
<1>1. /\ Moves(t, "get.release") /\ pc[t] = "get.size" /\ pc'[t] = "get.release"
      /\ UNCHANGED <<lists, ids, connected>> /\ mem' = [mem EXCEPT ![r] = "client"]
  BY <1>0 DEF GetDeliver, Moves, Go, Hold, RefInv, OrderInv, TypeInv, TypeOK
<1>2. InReadersHand = {r} /\ InReadersHand' = {} /\ r \in Requests
  <2>1. \A h \in Getters : h = t
    BY DEF OneReader
  <2>2. InReadersHand' = {}
    BY <1>1, <2>1 DEF InReadersHand
  <2> QED BY <1>0, <1>1, <2>2, ReadersHand, HandsSingle DEF RefInv, OrderInv
<1>3. Queued' = Queued
  BY <1>1 DEF Queued
<1>4. InClearHand' = InClearHand
  BY <1>1, ClearHandKept DEF RefInv, OrderInv, ClearLabels
<1>5. \A q \in Requests \ {r} : Stage(q)' = Stage(q)
  <2> SUFFICES ASSUME NEW q \in Requests, q # r PROVE Stage(q)' = Stage(q)
    OBVIOUS
  <2>1. mem'[q] = mem[q] /\ id'[q] = id[q]
    BY <1>1 DEF RefInv, OrderInv, TypeInv, TypeOK
  <2>2. q \in Waiting' <=> q \in Waiting
    BY <1>2, <1>3 DEF Waiting
  <2> QED BY <1>4, <2>1, <2>2, StageKept
<1>6. Stage(r) = "queued" /\ Stage(r)' = "taken"
  <2>1. StageFacts(r) /\ StageFacts(r)'
    BY <1>2, StageIs, StageIsAfter DEF StagesOK, RefInv, OrderInv
  <2>2. r \in Waiting /\ mem[r] = "live"
    BY <1>2, WaitingLive DEF Waiting, RefInv, OrderInv
  <2>3. mem'[r] = "client"
    BY <1>1, <1>2 DEF RefInv, OrderInv, TypeInv, TypeOK
  <2> QED BY <2>1, <2>2, <2>3 DEF StageFacts
<1>7. connected
  BY <1>1 DEF RefInv, ReadConnected
<1>8. preds[r] \cap Waiting = {}
  <2>1. preds[r] \cap Queued = {}
    BY <1>2 DEF RefInv, OrderInv, HandFirst
  <2>2. r \notin preds[r]
    BY <1>2 DEF RefInv, OrderInv, IdsOK, TypeInv, TypeOK
  <2> QED BY <1>2, <2>1, <2>2 DEF Waiting
<1>9. Abstract!Take(r)
  BY <1>1, <1>2, <1>5, <1>6, <1>7, <1>8, QueuedIsWaiting DEF Abstract!Take, Abstract!Move
<1> QED BY <1>2, <1>9 DEF Abstract!Next

-----------------------------------------------------------------------------
(* The steps.                                                              *)

ReadLabels == {"get.acquire", "get.remove", "get.size", "get.count", "get.release"}

LEMMA ReadConnectedStep ==
  ASSUME OneClient, RefInv, [Next]_vars
  PROVE  ReadConnected'
<1>a. ASSUME NEW t \in Clients, NEW l, Go(t, l),
             l \in ReadLabels => connected'
      PROVE  ReadConnected'
  <2>1. \A c \in Clients : c = t /\ pc'[c] = l
    BY <1>a DEF OneClient, Go, RefInv, OrderInv, TypeInv, TypeOK, Threads
  <2> QED BY <1>a, <2>1 DEF ReadConnected, ReadLabels
<1>1. CASE SettingsSet \/ UNCHANGED vars
  BY <1>1 DEF SettingsSet, vars, RefInv, ReadConnected
<1>2. ASSUME NEW p \in Producers, (\E r \in Requests : InsertBegin(p, r)) \/ InsertStep(p)
      PROVE  ReadConnected'
  <2>1. connected' = connected /\ \E l : Go(p, l)
    BY <1>2 DEF InsertBegin, InsertStep, InsertAcquire, InsertRefused, InsertId, InsertLink,
                InsertCount, InsertRelease, InsertCallback
  <2>2. \A c \in Clients : pc'[c] = pc[c]
    BY <2>1, QueueAssumption DEF Go, RefInv, OrderInv, TypeInv, TypeOK, Threads
  <2> QED BY <2>1, <2>2 DEF RefInv, ReadConnected
<1>3. ASSUME NEW c \in Clients, ConnectBegin(c) \/ ConnectStep(c)
      PROVE  ReadConnected'
  <2>1. PICK l \in Labels \ ReadLabels : Go(c, l)
    BY <1>3 DEF ConnectBegin, ConnectStep, ConnectList, ConnectFail, ConnectId, ConnectLink,
                ConnectCount, ConnectDone, ConnectDisable, Labels, ReadLabels
  <2> QED BY <1>a, <2>1
<1>4. ASSUME NEW c \in Clients, DisconnectBegin(c) \/ ClearNonPaged(c) \/ DisconnectStep(c)
      PROVE  ReadConnected'
  <2>1. PICK l \in Labels \ ReadLabels : Go(c, l)
    BY <1>4 DEF DisconnectBegin, DisconnectStep, DisconnectWait, DisconnectUnset,
                DisconnectKeep, ClearNonPaged, ClearFreeNonPaged, ClearPaged, ClearFreePaged,
                Labels, ReadLabels
  <2> QED BY <1>a, <2>1
<1>5. ASSUME NEW c \in Getters, GetBegin(c) \/ GetStep(c)
      PROVE  ReadConnected'
  <2> c \in Clients
    BY QueueAssumption
  <2>1. connected' = connected /\ (connected \/ pc[c] \in ReadLabels) /\ \E l : Go(c, l)
    BY <1>5 DEF GetBegin, GetStep, GetAcquire, GetRefused, GetRemove, GetNoMore, GetDeliver,
                GetPutBack, GetCount, GetRelease, ReadLabels
  <2>2. connected'
    BY <2>1 DEF RefInv, ReadConnected, ReadLabels
  <2> QED BY <1>a, <2>1, <2>2
<1> QED BY <1>1, <1>2, <1>3, <1>4, <1>5 DEF Next

LEMMA OneClientReads ==
  ASSUME OneClient
  PROVE  OneReader
  BY QueueAssumption DEF OneClient, OneReader

LEMMA RefInvStep ==
  ASSUME OneClient, RefInv, [Next]_vars
  PROVE  RefInv'
  BY OneClientReads, OrderStep, ReadConnectedStep DEF RefInv

LEMMA RefInvInit ==
  ASSUME Init
  PROVE  RefInv
<1>1. ReadConnected
  BY DEF Init, ReadConnected, Threads
<1> QED BY <1>1, OrderInit DEF RefInv

LEMMA RefInsert ==
  ASSUME RefInv, RefInv', NEW t \in Producers,
         (\E r \in Requests : InsertBegin(t, r)) \/ InsertStep(t)
  PROVE  [Abstract!Next]_(Abstract!vars)
<1> USE DEF lists, ids
<1> t \in Threads
  BY DEF Threads
<1>a. ASSUME pc[t] \in {"insert.acquire", "insert.callback"}
      PROVE  ToSet(held[t]) \in SUBSET Requests /\ \A r \in ToSet(held[t]) : Stage(r) = "new"
  <2>1. \A r \in ToSet(held[t]) : id[r] = 0
    BY <1>a DEF RefInv, OrderInv, FreshOK, Fresh
  <2> QED BY <1>a, <2>1, HandStage DEF ClearLabels, CountLabels
<1>1. ASSUME NEW r \in Requests, InsertBegin(t, r)
      PROVE  [Abstract!Next]_(Abstract!vars)
  <2>1. PICK l \in {"insert.acquire", "insert.callback"} : Go(t, l)
    BY <1>1 DEF InsertBegin
  <2>2. Moves(t, l) /\ pc[t] = "idle" /\ UNCHANGED <<lists, ids, connected>>
    BY <1>1, <2>1 DEF InsertBegin, Moves, Hold, RefInv, OrderInv, TypeInv, TypeOK
  <2>3. {r} \in SUBSET Unused /\ \A q \in Requests : mem'[q] = IF q \in {r} THEN "live" ELSE mem[q]
    BY <1>1 DEF InsertBegin, Unused, RefInv, OrderInv, TypeInv, TypeOK
  <2> QED BY <2>2, <2>3, RefNew DEF ClearLabels
<1>2. CASE InsertAcquire(t)
  <2>1. Moves(t, "insert.id") /\ UNCHANGED <<lists, ids, mem>> /\ pc[t] = "insert.acquire"
    BY <1>2 DEF InsertAcquire, Moves
  <2> QED BY <2>1, RefQuiet DEF ClearLabels
<1>3. CASE InsertRefused(t)
  <2>1. /\ Moves(t, "idle") /\ UNCHANGED <<lists, ids, connected>> /\ pc[t] = "insert.acquire"
        /\ Free(ToSet(held[t]))
    BY <1>3 DEF InsertRefused, Moves, Hold, RefInv, OrderInv, TypeInv, TypeOK
  <2> QED BY <1>a, <2>1, RefRefuse DEF ClearLabels
<1>4. CASE InsertId(t)
  <2>1. /\ Moves(t, "insert.link") /\ UNCHANGED <<lists, held, mem, connected>>
        /\ AssignId(Head(held[t])) /\ pc[t] = "insert.id"
    BY <1>4 DEF InsertId, Moves
  <2>2. held[t] # <<>>
    BY <2>1, HandsHeld DEF RefInv, OrderInv
  <2> QED BY <2>1, <2>2, RefAnnounce
<1>5. CASE InsertLink(t)
  BY <1>5, RefPut DEF InsertLink
<1>6. CASE InsertCount(t)
  <2>1. Moves(t, "insert.release") /\ UNCHANGED <<lists, ids, mem>> /\ pc[t] = "insert.count"
    BY <1>6 DEF InsertCount, Moves, Hold, RefInv, OrderInv, TypeInv, TypeOK
  <2> QED BY <2>1, RefQuiet DEF ClearLabels
<1>7. CASE InsertRelease(t)
  <2>1. Moves(t, "idle") /\ UNCHANGED <<lists, ids, mem>> /\ pc[t] = "insert.release"
    BY <1>7 DEF InsertRelease, Moves
  <2> QED BY <2>1, RefQuiet DEF ClearLabels
<1>8. CASE InsertCallback(t)
  <2>1. CASE bootLog
    BY <1>8, <2>1, RefDivert
  <2>2. CASE ~bootLog
    <3>1. /\ Moves(t, "idle") /\ UNCHANGED <<lists, ids, connected>> /\ pc[t] = "insert.callback"
          /\ Free(ToSet(held[t]))
      BY <1>8, <2>2 DEF InsertCallback, Moves, Hold, RefInv, OrderInv, TypeInv, TypeOK
    <3> QED BY <1>a, <3>1, RefRefuse DEF ClearLabels
  <2> QED BY <2>1, <2>2
<1> QED BY <1>1, <1>2, <1>3, <1>4, <1>5, <1>6, <1>7, <1>8 DEF InsertStep

LEMMA RefConnect ==
  ASSUME RefInv, RefInv', NEW t \in Clients, ConnectBegin(t) \/ ConnectStep(t)
  PROVE  [Abstract!Next]_(Abstract!vars)
<1> USE DEF lists, ids
<1> t \in Threads
  BY DEF Threads
<1>1. CASE ConnectBegin(t)
  <2>1. Moves(t, "connect.list") /\ UNCHANGED <<lists, ids, mem>> /\ pc[t] = "idle"
    BY <1>1 DEF ConnectBegin, Moves
  <2> QED BY <2>1, RefQuiet DEF ClearLabels
<1>2. CASE ConnectList(t)
  <2>1. PICK s \in SeqOf(Unused, MaxSnapshot) :
          Hold(t, s) /\ mem' = [r \in Requests |-> IF r \in ToSet(s) THEN "live" ELSE mem[r]]
    BY <1>2 DEF ConnectList
  <2>2. ToSet(s) \in SUBSET Unused
    BY <2>1 DEF SeqOf, ToSet
  <2>3. Moves(t, "connect.id") /\ UNCHANGED <<lists, ids, connected>> /\ pc[t] = "connect.list"
    BY <1>2, <2>1 DEF ConnectList, Moves, Hold, RefInv, OrderInv, TypeInv, TypeOK
  <2> QED BY <2>1, <2>2, <2>3, RefNew DEF ClearLabels
<1>3. CASE ConnectFail(t)
  <2>1. PICK S \in SUBSET Unused : Free(S)
    BY <1>3 DEF ConnectFail
  <2>2. S \in SUBSET Requests /\ \A r \in S : Stage(r) = "new"
    BY StageIs DEF Unused, StageFacts, RefInv, OrderInv
  <2>3. Moves(t, "idle") /\ UNCHANGED <<lists, ids, connected>> /\ pc[t] = "connect.list"
    BY <1>3 DEF ConnectFail, Moves
  <2> QED BY <2>1, <2>2, <2>3, RefRefuse DEF ClearLabels
<1>4. CASE ConnectId(t)
  <2>1. /\ Moves(t, "connect.link") /\ UNCHANGED <<lists, held, mem, connected>>
        /\ AssignId(Head(held[t])) /\ pc[t] = "connect.id" /\ held[t] # <<>>
    BY <1>4 DEF ConnectId, Moves
  <2> QED BY <2>1, RefAnnounce
<1>5. CASE ConnectLink(t)
  BY <1>5, RefPut DEF ConnectLink
<1>6. CASE ConnectCount(t)
  <2>1. Moves(t, "connect.id") /\ UNCHANGED <<lists, ids, mem>> /\ pc[t] = "connect.count"
    BY <1>6 DEF ConnectCount, Moves, Hold, RefInv, OrderInv, TypeInv, TypeOK
  <2> QED BY <2>1, RefQuiet DEF ClearLabels
<1>7. CASE ConnectDone(t)
  <2>1. Moves(t, "connect.disable") /\ UNCHANGED <<lists, ids, mem>> /\ pc[t] = "connect.id"
    BY <1>7 DEF ConnectDone, Moves
  <2> QED BY <2>1, RefQuiet DEF ClearLabels
<1>8. CASE ConnectDisable(t)
  <2>1. Moves(t, "idle") /\ UNCHANGED <<lists, ids, mem>> /\ pc[t] = "connect.disable"
    BY <1>8 DEF ConnectDisable, Moves
  <2> QED BY <2>1, RefQuiet DEF ClearLabels
<1> QED BY <1>1, <1>2, <1>3, <1>4, <1>5, <1>6, <1>7, <1>8 DEF ConnectStep

LEMMA RefDisconnect ==
  ASSUME RefInv, RefInv', NEW t \in Clients,
         DisconnectBegin(t) \/ ClearNonPaged(t) \/ DisconnectStep(t)
  PROVE  [Abstract!Next]_(Abstract!vars)
<1> USE DEF lists, ids
<1> t \in Threads
  BY DEF Threads
<1>1. CASE DisconnectBegin(t)
  <2>1. PICK l \in {"disconnect.wait", "disconnect.unset"} : Go(t, l)
    BY <1>1 DEF DisconnectBegin
  <2>2. Moves(t, l) /\ UNCHANGED <<lists, ids, mem>> /\ pc[t] = "idle"
    BY <1>1, <2>1 DEF DisconnectBegin, Moves
  <2> QED BY <2>2, RefQuiet DEF ClearLabels
<1>2. CASE DisconnectWait(t)
  <2>1. Moves(t, "disconnect.unset") /\ UNCHANGED <<lists, ids, mem>> /\ pc[t] = "disconnect.wait"
    BY <1>2 DEF DisconnectWait, Moves
  <2> QED BY <2>1, RefQuiet DEF ClearLabels
<1>3. CASE DisconnectUnset(t)
  <2>1. Moves(t, "disconnect.clear") /\ UNCHANGED <<lists, ids, mem>> /\ pc[t] = "disconnect.unset"
    BY <1>3 DEF DisconnectUnset, Moves
  <2> QED BY <2>1, RefQuiet DEF ClearLabels
<1>4. CASE DisconnectKeep(t)
  <2>1. Moves(t, "idle") /\ UNCHANGED <<lists, ids, mem>> /\ pc[t] = "disconnect.clear"
    BY <1>4 DEF DisconnectKeep, Moves
  <2> QED BY <2>1, RefQuiet DEF ClearLabels
<1>b. paged \in Seq(Requests) /\ npaged \in Seq(Requests)
  BY DEF RefInv, OrderInv, TypeInv, TypeOK
<1>5. CASE ClearNonPaged(t)
  <2>1. Queued' \cup ToSet(npaged) = Queued
    BY <1>5, EmptySingle DEF ClearNonPaged, Queued
  <2> QED BY <1>5, <1>b, <2>1, RefClear DEF ClearNonPaged, ClearLabels
<1>6. CASE ClearFreeNonPaged(t)
  BY <1>6, RefFree DEF ClearFreeNonPaged, ClearLabels
<1>7. CASE ClearPaged(t)
  <2>1. Queued' \cup ToSet(paged) = Queued
    BY <1>7, EmptySingle DEF ClearPaged, Queued
  <2> QED BY <1>7, <1>b, <2>1, RefClear DEF ClearPaged, ClearLabels
<1>8. CASE ClearFreePaged(t)
  BY <1>8, RefFree DEF ClearFreePaged, ClearLabels
<1> QED BY <1>1, <1>2, <1>3, <1>4, <1>5, <1>6, <1>7, <1>8 DEF DisconnectStep

LEMMA RefGet ==
  ASSUME OneReader, RefInv, RefInv', NEW t \in Getters, GetBegin(t) \/ GetStep(t)
  PROVE  [Abstract!Next]_(Abstract!vars)
<1> USE DEF lists, ids
<1> t \in Threads
  BY QueueAssumption DEF Threads
<1>a. ASSUME NEW l \in {"get.acquire", "get.remove", "get.release", "idle"}, Moves(t, l),
             UNCHANGED <<lists, ids, mem>>,
             pc[t] \in {"idle", "get.acquire", "get.remove", "get.count", "get.release"}
      PROVE  [Abstract!Next]_(Abstract!vars)
  BY <1>a, RefQuiet DEF ClearLabels
<1>1. CASE GetBegin(t)
  BY <1>1, <1>a DEF GetBegin, Moves
<1>2. CASE GetAcquire(t)
  BY <1>2, <1>a DEF GetAcquire, Moves
<1>3. CASE GetRefused(t)
  BY <1>3, <1>a DEF GetRefused, Moves
<1>4. CASE GetRemove(t)
  BY <1>4, RefHand
<1>5. CASE GetNoMore(t)
  BY <1>5, <1>a DEF GetNoMore, Moves
<1>6. CASE GetDeliver(t)
  BY <1>6, RefDeliver
<1>7. CASE GetPutBack(t)
  BY <1>7, RefHand
<1>8. CASE GetCount(t)
  <2>1. Moves(t, "get.release")
    BY <1>8 DEF GetCount, Moves, Hold, RefInv, OrderInv, TypeInv, TypeOK
  <2> QED BY <1>8, <1>a, <2>1 DEF GetCount
<1>9. CASE GetRelease(t)
  BY <1>9, <1>a DEF GetRelease, Moves
<1> QED BY <1>1, <1>2, <1>3, <1>4, <1>5, <1>6, <1>7, <1>8, <1>9 DEF GetStep

LEMMA RefStep ==
  ASSUME OneClient, RefInv, RefInv', [Next]_vars
  PROVE  [Abstract!Next]_(Abstract!vars)
<1>1. CASE SettingsSet \/ UNCHANGED vars
  <2>1. UNCHANGED <<paged, npaged, pc, held, mem, id, preds, connected>>
    BY <1>1 DEF SettingsSet, vars, lists, ids
  <2>2. Waiting' = Waiting /\ InClearHand' = InClearHand
    BY <2>1 DEF Waiting, Queued, InReadersHand, InClearHand, BeingCleared
  <2>3. \A r \in Requests : Stage(r)' = Stage(r)
    BY <2>1, <2>2, StageKept
  <2> QED BY <2>1, <2>3, Stutters
<1> QED BY <1>1, OneClientReads, RefInsert, RefConnect, RefDisconnect, RefGet DEF Next

LEMMA RefInit ==
  ASSUME Init
  PROVE  Abstract!Init
<1>1. \A r \in Requests : mem[r] = "unused" /\ preds[r] = {}
  BY DEF Init
<1>2. \A r \in Requests : Stage(r) = "new"
  BY <1>1, StageIs, TypeInvInit, OnePlaceInit DEF StageFacts
<1> QED BY <1>2 DEF Init, Abstract!Init

\* ImplementsEventQueue, for any numbers of records and inserting threads and
\* one client: every behaviour of RequestQueueInsert, -Connect, -Disconnect,
\* -Get and -Clear is one of the abstract queue.  A record gets its Id and is
\* queued once, or is refused, or goes to the callbacks; it is taken or
\* cleared at most once, only while the queue is connected, and never before
\* a record that was queued when it got its Id.
THEOREM QueueImplementsEventQueue ==
  ASSUME OneClient
  PROVE  Spec => ImplementsEventQueue
<1>1. Init => RefInv /\ Abstract!Init
  BY RefInvInit, RefInit
<1>2. RefInv /\ [Next]_vars => RefInv'
  BY RefInvStep
<1>3. RefInv /\ RefInv' /\ [Next]_vars => [Abstract!Next]_(Abstract!vars)
  BY RefStep
<1> QED BY <1>1, <1>2, <1>3, PTL DEF Spec, ImplementsEventQueue, Abstract!Spec
=============================================================================
