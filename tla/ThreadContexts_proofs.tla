------------------------ MODULE ThreadContexts_proofs -----------------------
(***************************************************************************)
(* The contexts of threads: the chain of a thread and its captures hold    *)
(* exactly the references there are, and a thread walks its stack once at  *)
(* a time however deep its captures nest, for any number of threads.       *)
(***************************************************************************)
EXTENDS ThreadContexts, FiniteSetTheorems, SequenceTheorems, TLAPS

Spots == {"get", "allocate", "start", "walk", "end"}

FrameType == [at : Spots, context : Places \cup {Nobody}, walks : BOOLEAN]

Context == [thread : Threads \cup {Nobody}, refs : Int, inProgress : Int]

TypeOK ==
  /\ loaded \in BOOLEAN /\ alive \subseteq Threads /\ nested \subseteq Threads
  /\ stack \in [Threads -> Seq(FrameType)]
  /\ table \in [Threads -> Seq(Places)]
  /\ context \in [Places -> Context]

-----------------------------------------------------------------------------
(* One thread.                                                             *)

\* What a capture has at each place.
FrameOK(q) ==
  /\ q.at \in {"get", "allocate"} <=> q.context = Nobody
  /\ q.at = "walk" <=> q.walks

\* Captures are interrupted where they allocate or walk.  One that walks is
\* interrupted by one that does not, and that by none.  Who has a context has
\* the latest one of the thread.
StackOK(t) ==
  LET s == stack[t] IN
  /\ s # <<>> => loaded /\ t \in alive
  /\ Len(s) <= MaxDepth
  /\ \A i \in 1 .. Len(s) :
       /\ FrameOK(s[i])
       /\ s[i].context # Nobody => table[t] # <<>> /\ s[i].context = Head(table[t])
       /\ i > 1 => s[i].at \in {"allocate", "walk"}
       /\ i > 2 => s[i].at = "allocate"
       /\ i = 2 /\ s[i].at = "walk" => s[1].at \in {"get", "start", "end"}

\* The chain has contexts of the thread, none twice.
TableOK(t) ==
  \A i \in 1 .. Len(table[t]) :
    /\ context[table[t][i]].thread = t
    /\ \A j \in 1 .. Len(table[t]) : table[t][i] = table[t][j] => i = j

NestOK(t) ==
  t \notin nested =>
    /\ Len(table[t]) <= 1
    /\ t \notin alive => table[t] = <<>>
    /\ \A i \in 1 .. Len(stack[t]) :
         stack[t][i].at = "allocate" => i = 1 /\ table[t] = <<>>

ThreadOK(t) == StackOK(t) /\ TableOK(t) /\ NestOK(t)

-----------------------------------------------------------------------------
(* One context.                                                            *)

Bit(b) == IF b THEN 1 ELSE 0

\* The captures of a thread that have a context, and those that have counted
\* themselves in StackTraceInProgress.
Held(s) == Bit(Len(s) >= 1 /\ s[1].at \in {"start", "walk", "end"})
             + Bit(Len(s) >= 2 /\ s[2].at = "walk")
Busy(s) == Bit(Len(s) >= 1 /\ s[1].at \in {"walk", "end"})
             + Bit(Len(s) >= 2 /\ s[2].at = "walk")

\* A context is free, or in the chain of its thread; captures have the latest.
PlaceOK(x) ==
  \/ context[x] = Freed
  \/ LET t == context[x].thread IN
     /\ t \in Threads
     /\ \E i \in 1 .. Len(table[t]) : table[t][i] = x
     /\ context[x].refs = 1 + (IF x = Head(table[t]) THEN Held(stack[t]) ELSE 0)
     /\ context[x].inProgress = IF x = Head(table[t]) THEN Busy(stack[t]) ELSE 0

UnloadOK == ~loaded => \A t \in Threads : table[t] = <<>>

Inv ==
  /\ TypeOK
  /\ \A t \in Threads : ThreadOK(t)
  /\ \A x \in Places : PlaceOK(x)
  /\ UnloadOK

-----------------------------------------------------------------------------
(* Sequences, at their front.                                              *)

LEMMA PushFacts ==
  ASSUME NEW S, NEW s \in Seq(S), NEW f \in S
  PROVE  /\ <<f>> \o s \in Seq(S) /\ Len(<<f>> \o s) = Len(s) + 1
         /\ Len(s) \in Nat /\ <<f>> \o s # <<>>
         /\ Head(<<f>> \o s) = f /\ (<<f>> \o s)[1] = f
         /\ \A i \in 1 .. Len(s) : (<<f>> \o s)[i + 1] = s[i]
  OBVIOUS

LEMMA TopFacts ==
  ASSUME NEW S, NEW s \in Seq(S), s # <<>>, NEW f \in S
  PROVE  /\ [s EXCEPT ![1] = f] \in Seq(S) /\ Len([s EXCEPT ![1] = f]) = Len(s)
         /\ Len(s) \in Nat /\ Len(s) >= 1 /\ [s EXCEPT ![1] = f] # <<>>
         /\ [s EXCEPT ![1] = f][1] = f
         /\ \A i \in 2 .. Len(s) : [s EXCEPT ![1] = f][i] = s[i]
  OBVIOUS

LEMMA PopFacts ==
  ASSUME NEW S, NEW s \in Seq(S), s # <<>>
  PROVE  /\ Tail(s) \in Seq(S) /\ Len(Tail(s)) = Len(s) - 1
         /\ Len(s) \in Nat /\ Len(s) >= 1 /\ Head(s) = s[1] /\ s[1] \in S
         /\ \A i \in 1 .. Len(s) - 1 : Tail(s)[i] = s[i + 1]
  OBVIOUS

-----------------------------------------------------------------------------
(* Steps of one thread.                                                    *)

\* What thread t does is nothing to other threads and to their contexts.
LEMMA OthersKept ==
  ASSUME Inv, NEW t \in Threads, TypeOK', UNCHANGED loaded, UnloadOK', ThreadOK(t)',
         \A u \in Threads \ {t} :
           /\ stack'[u] = stack[u] /\ table'[u] = table[u]
           /\ u \in alive' <=> u \in alive
           /\ u \in nested' <=> u \in nested,
         \A x \in Places : context[x].thread \in Threads \ {t} => context'[x] = context[x],
         \A x \in Places : PlaceOK(x)' \/ (context'[x] = context[x] /\ context[x].thread # t)
  PROVE  Inv'
<1> USE DEF Inv
<1>1. ASSUME NEW u \in Threads, u # t
      PROVE  ThreadOK(u)'
  <2>1. /\ stack'[u] = stack[u] /\ table'[u] = table[u] /\ ThreadOK(u)
        /\ u \in alive' <=> u \in alive
        /\ u \in nested' <=> u \in nested
    BY <1>1
  <2>2. StackOK(u)'
    BY <2>1 DEF ThreadOK, StackOK, FrameOK
  <2>3. TableOK(u)'
    <3>1. \A i \in 1 .. Len(table[u]) : table[u][i] \in Places
      BY DEF TypeOK
    <3> QED BY <1>1, <2>1, <3>1 DEF ThreadOK, TableOK
  <2>4. NestOK(u)'
    BY <2>1 DEF ThreadOK, NestOK
  <2> QED BY <2>2, <2>3, <2>4 DEF ThreadOK
<1>2. ASSUME NEW x \in Places
      PROVE  PlaceOK(x)'
  <2>1. CASE PlaceOK(x)'
    BY <2>1
  <2>2. CASE context'[x] = context[x] /\ context[x].thread # t
    <3>1. PlaceOK(x)
      OBVIOUS
    <3>2. CASE context[x] = Freed
      BY <2>2, <3>2 DEF PlaceOK, Freed
    <3>3. CASE context[x] # Freed
      <4>1. PICK u \in Threads : u = context[x].thread
        BY <3>1, <3>3 DEF PlaceOK
      <4>2. stack'[u] = stack[u] /\ table'[u] = table[u] /\ context'[x].thread = u
        BY <2>2, <4>1
      <4> QED BY <2>2, <3>1, <3>3, <4>1, <4>2 DEF PlaceOK
    <3> QED BY <3>2, <3>3
  <2> QED BY <2>1, <2>2
<1> QED BY <1>1, <1>2

\* The innermost capture goes on.
LEMMA TopStep ==
  ASSUME Inv, NEW t \in Threads, stack[t] # <<>>,
         NEW f \in FrameType, stack' = [stack EXCEPT ![t][1] = f],
         UNCHANGED <<loaded, alive, table, nested>>,
         context' \in [Places -> Context],
         \A x \in Places : context'[x].thread = context[x].thread,
         FrameOK(f),
         f.context # Nobody => table[t] # <<>> /\ f.context = Head(table[t]),
         f.at = "allocate" => table[t] = <<>>,
         Len(stack[t]) >= 2 /\ stack[t][2].at = "walk" => f.at \in {"get", "start", "end"}
  PROVE  /\ TypeOK' /\ UnloadOK' /\ ThreadOK(t)'
         /\ \A u \in Threads \ {t} : stack'[u] = stack[u]
         /\ stack'[t][1] = f /\ Len(stack'[t]) = Len(stack[t])
         /\ Len(stack[t]) >= 2 => stack'[t][2] = stack[t][2]
<1> DEFINE s == stack[t]
           r == [s EXCEPT ![1] = f]
<1>1. /\ s \in Seq(FrameType) /\ s # <<>> /\ ThreadOK(t) /\ UnloadOK
      /\ stack \in [Threads -> Seq(FrameType)]
      /\ loaded \in BOOLEAN /\ alive \subseteq Threads /\ nested \subseteq Threads
      /\ table \in [Threads -> Seq(Places)]
  BY DEF Inv, TypeOK
<1>2. /\ r \in Seq(FrameType) /\ Len(r) = Len(s) /\ Len(s) \in Nat /\ Len(s) >= 1
      /\ r # <<>> /\ r[1] = f /\ \A i \in 2 .. Len(s) : r[i] = s[i]
  BY <1>1, TopFacts
<1>3. stack'[t] = r /\ \A u \in Threads \ {t} : stack'[u] = stack[u]
  BY <1>1
<1>4. TypeOK'
  BY <1>1, <1>2, <1>3 DEF TypeOK
<1>5. StackOK(t)'
  <2> SUFFICES ASSUME NEW i \in 1 .. Len(r)
               PROVE  /\ FrameOK(r[i])
                      /\ r[i].context # Nobody
                           => table[t] # <<>> /\ r[i].context = Head(table[t])
                      /\ i > 1 => r[i].at \in {"allocate", "walk"}
                      /\ i > 2 => r[i].at = "allocate"
                      /\ i = 2 /\ r[i].at = "walk" => r[1].at \in {"get", "start", "end"}
    <3>1. s # <<>> => loaded /\ t \in alive
      BY <1>1 DEF ThreadOK, StackOK
    <3>2. Len(s) <= MaxDepth
      BY <1>1 DEF ThreadOK, StackOK
    <3> QED BY <1>1, <1>2, <1>3, <3>1, <3>2 DEF StackOK, FrameOK
  <2>1. CASE i = 1
    BY <1>2, <2>1
  <2>2. CASE i # 1
    <3>1. i \in 2 .. Len(s) /\ r[i] = s[i]
      BY <1>2, <2>2
    <3>2. i = 2 /\ r[i].at = "walk" => f.at \in {"get", "start", "end"}
      BY <3>1
    <3> QED BY <1>1, <1>2, <3>1, <3>2 DEF ThreadOK, StackOK
  <2> QED BY <2>1, <2>2
<1>6. TableOK(t)'
  <2>1. \A i \in 1 .. Len(table[t]) : table[t][i] \in Places
    BY <1>1
  <2> QED BY <1>1, <2>1 DEF ThreadOK, TableOK
<1>7. NestOK(t)'
  <2> SUFFICES ASSUME t \notin nested, NEW i \in 1 .. Len(r), r[i].at = "allocate"
               PROVE  i = 1 /\ table[t] = <<>>
    BY <1>1, <1>3 DEF ThreadOK, NestOK
  <2>1. CASE i = 1
    BY <1>2, <2>1
  <2>2. CASE i # 1
    BY <1>1, <1>2, <2>2 DEF ThreadOK, NestOK
  <2> QED BY <2>1, <2>2
<1> QED BY <1>1, <1>2, <1>3, <1>4, <1>5, <1>6, <1>7 DEF ThreadOK, UnloadOK

\* The latest context of a thread, if it has one.
LEMMA LatestFacts ==
  ASSUME ThreadAssumption, TypeOK, NEW t \in Threads, ThreadOK(t), table[t] # <<>>
  PROVE  /\ Head(table[t]) \in Places /\ Head(table[t]) = table[t][1]
         /\ 1 \in 1 .. Len(table[t])
         /\ context[Head(table[t])].thread = t /\ context[Head(table[t])] # Freed
<1>1. table[t] \in Seq(Places)
  BY DEF TypeOK
<1>2. /\ Head(table[t]) = table[t][1] /\ table[t][1] \in Places
      /\ 1 \in 1 .. Len(table[t])
  BY <1>1, PopFacts
<1>3. context[table[t][1]].thread = t
  BY <1>2 DEF ThreadOK, TableOK
<1> QED BY <1>2, <1>3 DEF ThreadAssumption, Freed

LEMMA CountTypes ==
  ASSUME NEW s
  PROVE  Held(s) \in Int /\ Busy(s) \in Int
BY DEF Held, Busy, Bit

\* Captures that come and go without the chain: only the latest context of
\* the thread counts them.
LEMMA SameChain ==
  ASSUME ThreadAssumption, Inv, NEW t \in Threads, TypeOK', UnloadOK', ThreadOK(t)',
         UNCHANGED <<loaded, alive, table>>,
         \A u \in Threads \ {t} : stack'[u] = stack[u] /\ (u \in nested' <=> u \in nested),
         \A x \in Places : table[t] = <<>> \/ x # Head(table[t]) => context'[x] = context[x],
         table[t] # <<>> =>
           LET c == context[Head(table[t])]
               d == context'[Head(table[t])]
           IN  /\ d.thread = c.thread
               /\ d.refs = c.refs + Held(stack'[t]) - Held(stack[t])
               /\ d.inProgress = c.inProgress + Busy(stack'[t]) - Busy(stack[t])
  PROVE  Inv'
<1>1. /\ ThreadOK(t) /\ TypeOK /\ \A x \in Places : PlaceOK(x)
      /\ context \in [Places -> Context]
  BY DEF Inv, TypeOK
<1>2. ASSUME NEW x \in Places, context[x].thread \in Threads \ {t}
      PROVE  context'[x] = context[x]
  BY <1>1, <1>2, LatestFacts
<1>3. ASSUME NEW x \in Places
      PROVE  PlaceOK(x)' \/ (context'[x] = context[x] /\ context[x].thread # t)
  <2>1. CASE table[t] # <<>> /\ x = Head(table[t])
    <3>1. /\ context[x].thread = t /\ context[x] # Freed
          /\ \E i \in 1 .. Len(table[t]) : table[t][i] = x
      BY <1>1, <2>1, LatestFacts
    <3>2. /\ context[x].refs = 1 + Held(stack[t])
          /\ context[x].inProgress = Busy(stack[t])
      BY <1>1, <2>1, <3>1 DEF PlaceOK
    <3>3. /\ Held(stack[t]) \in Int /\ Busy(stack[t]) \in Int
          /\ Held(stack'[t]) \in Int /\ Busy(stack'[t]) \in Int
      BY CountTypes
    <3>4. /\ context'[x].refs = 1 + Held(stack'[t])
          /\ context'[x].inProgress = Busy(stack'[t])
      BY <2>1, <3>2, <3>3
    <3> QED BY <2>1, <3>1, <3>4 DEF PlaceOK
  <2>2. CASE table[t] = <<>> \/ x # Head(table[t])
    <3>1. context'[x] = context[x] /\ PlaceOK(x)
      BY <1>1, <2>2
    <3>2. CASE context[x] = Freed
      BY <3>1, <3>2 DEF PlaceOK, Freed
    <3>3. CASE context[x] # Freed /\ context[x].thread = t
      BY <2>2, <3>1, <3>3 DEF PlaceOK
    <3> QED BY <3>1, <3>2, <3>3
  <2> QED BY <2>1, <2>2
<1> QED BY <1>2, <1>3, OthersKept

-----------------------------------------------------------------------------
(* The actions.                                                            *)

\* What is known of the innermost capture.
LEMMA TopKnown ==
  ASSUME ThreadAssumption, Inv, NEW t \in Threads, stack[t] # <<>>
  PROVE  /\ loaded /\ t \in alive
         /\ Len(stack[t]) \in Nat /\ Len(stack[t]) >= 1
         /\ Top(t) \in FrameType /\ FrameOK(Top(t))
         /\ Top(t).context # Nobody => table[t] # <<>> /\ Top(t).context = Head(table[t])
         /\ Len(stack[t]) >= 2 /\ stack[t][2].at = "walk" =>
              /\ Top(t).at \in {"get", "start", "end"}
              /\ table[t] # <<>> /\ stack[t][2].context = Head(table[t])
<1>1. stack[t] \in Seq(FrameType) /\ ThreadOK(t)
  BY DEF Inv, TypeOK
<1>2. Len(stack[t]) \in Nat /\ Len(stack[t]) >= 1 /\ stack[t][1] \in FrameType
  BY <1>1, PopFacts
<1>3. ASSUME Len(stack[t]) >= 2, stack[t][2].at = "walk"
      PROVE  /\ Top(t).at \in {"get", "start", "end"}
             /\ table[t] # <<>> /\ stack[t][2].context = Head(table[t])
  <2>1. 2 \in 1 .. Len(stack[t]) /\ FrameOK(stack[t][2])
    BY <1>1, <1>2, <1>3 DEF ThreadOK, StackOK
  <2>2. stack[t][2].context # Nobody
    BY <1>3, <2>1 DEF FrameOK
  <2> QED BY <1>1, <1>3, <2>1, <2>2 DEF ThreadOK, StackOK, Top
<1>4. 1 \in 1 .. Len(stack[t])
  BY <1>2
<1> QED BY <1>1, <1>2, <1>3, <1>4 DEF ThreadOK, StackOK, Top

LEMMA GetStep ==
  ASSUME ThreadAssumption, Inv, NEW t \in Threads, Get(t)
  PROVE  Inv'
<1>1. /\ stack[t] # <<>> /\ Top(t).at = "get"
      /\ UNCHANGED <<loaded, alive, table, nested>>
  BY DEF Get, At
<1>2. /\ TypeOK /\ ThreadOK(t) /\ \A x \in Places : PlaceOK(x)
      /\ context \in [Places -> Context]
  BY DEF Inv, TypeOK
<1>3. CASE table[t] = <<>>
  <2> DEFINE f == Frame("allocate", Nobody, FALSE)
  <2>1. stack' = [stack EXCEPT ![t][1] = f] /\ context' = context
    BY <1>3 DEF Get, Found, Step
  <2>2. f \in FrameType /\ FrameOK(f) /\ f.at = "allocate" /\ f.context = Nobody
    BY DEF Frame, FrameType, Spots, FrameOK
  <2>3. Len(stack[t]) >= 2 => stack[t][2].at # "walk"
    BY <1>1, <1>3, TopKnown
  <2>4. /\ TypeOK' /\ UnloadOK' /\ ThreadOK(t)'
        /\ \A u \in Threads \ {t} : stack'[u] = stack[u]
    <3> HIDE DEF f
    <3> QED BY <1>1, <1>2, <1>3, <2>1, <2>2, <2>3, TopStep
  <2> QED BY <1>1, <1>3, <2>1, <2>4, SameChain
<1>4. CASE table[t] # <<>>
  <2> DEFINE x == Head(table[t])
             f == Frame("start", x, FALSE)
  <2>1. x \in Places /\ x # Nobody
    BY <1>2, <1>4, LatestFacts DEF ThreadAssumption
  <2>2. /\ stack' = [stack EXCEPT ![t][1] = f]
        /\ context' = [context EXCEPT ![x].refs = @ + 1]
    BY <1>4, <2>1 DEF Get, Found, Step, Referenced
  <2>3. f \in FrameType /\ FrameOK(f) /\ f.at = "start" /\ f.context = x
    BY <2>1 DEF Frame, FrameType, Spots, FrameOK
  <2>4. /\ context' \in [Places -> Context]
        /\ \A y \in Places : /\ context'[y].thread = context[y].thread
                             /\ y # x => context'[y] = context[y]
        /\ context'[x].refs = context[x].refs + 1
        /\ context'[x].inProgress = context[x].inProgress
        /\ context[x].refs \in Int /\ context[x].inProgress \in Int
    BY <1>2, <2>1, <2>2 DEF Context
  <2>5. /\ TypeOK' /\ UnloadOK' /\ ThreadOK(t)'
        /\ \A u \in Threads \ {t} : stack'[u] = stack[u]
        /\ stack'[t][1] = f /\ Len(stack'[t]) = Len(stack[t])
        /\ Len(stack[t]) >= 2 => stack'[t][2] = stack[t][2]
    <3> HIDE DEF f
    <3> QED BY <1>1, <1>2, <1>4, <2>2, <2>3, <2>4, TopStep
  <2>6. /\ Held(stack'[t]) = Held(stack[t]) + 1
        /\ Busy(stack'[t]) = Busy(stack[t])
    <3>1. Len(stack[t]) \in Nat /\ Len(stack[t]) >= 1 /\ stack[t][1].at = "get"
      BY <1>1, TopKnown DEF Top
    <3> HIDE DEF f
    <3> QED BY <2>3, <2>5, <3>1 DEF Held, Busy, Bit
  <2>7. Held(stack[t]) \in Int /\ Busy(stack[t]) \in Int
    BY CountTypes
  <2> QED BY <1>1, <1>4, <2>1, <2>4, <2>5, <2>6, <2>7, SameChain
<1> QED BY <1>3, <1>4

\* What is counted of the latest context.
LEMMA LatestCounts ==
  ASSUME ThreadAssumption, Inv, NEW t \in Threads, table[t] # <<>>
  PROVE  /\ context[Head(table[t])].refs = 1 + Held(stack[t])
         /\ context[Head(table[t])].inProgress = Busy(stack[t])
         /\ Held(stack[t]) \in Int /\ Busy(stack[t]) \in Int
<1>1. /\ Head(table[t]) \in Places /\ context[Head(table[t])].thread = t
      /\ context[Head(table[t])] # Freed
  BY LatestFacts DEF Inv
<1>2. PlaceOK(Head(table[t]))
  BY <1>1 DEF Inv
<1> QED BY <1>1, <1>2, CountTypes DEF PlaceOK

LEMMA StartStep ==
  ASSUME ThreadAssumption, Inv, NEW t \in Threads, Start(t)
  PROVE  Inv'
<1> DEFINE x == Top(t).context
           f == IF context[x].inProgress = 0 THEN Frame("walk", x, TRUE)
                                             ELSE Frame("end", x, FALSE)
<1>1. /\ stack[t] # <<>> /\ Top(t).at = "start"
      /\ UNCHANGED <<loaded, alive, table, nested>>
      /\ stack' = [stack EXCEPT ![t][1] = f]
      /\ context' = [context EXCEPT ![x].inProgress = @ + 1]
  BY DEF Start, At, Step
<1>2. /\ TypeOK /\ ThreadOK(t) /\ context \in [Places -> Context]
  BY DEF Inv, TypeOK
<1>3. /\ table[t] # <<>> /\ x = Head(table[t])
      /\ Len(stack[t]) \in Nat /\ Len(stack[t]) >= 1
  <2>1. FrameOK(Top(t))
    BY <1>1, TopKnown
  <2>2. Top(t).context # Nobody
    BY <1>1, <2>1 DEF FrameOK
  <2> QED BY <1>1, <2>2, TopKnown
<1>4. x \in Places /\ x # Nobody
  BY <1>2, <1>3, LatestFacts DEF ThreadAssumption
<1>5. f \in FrameType /\ FrameOK(f) /\ f.at \in {"walk", "end"} /\ f.context = x
  BY <1>4 DEF Frame, FrameType, Spots, FrameOK
<1>6. Len(stack[t]) >= 2 /\ stack[t][2].at = "walk" => f.at = "end"
  <2>1. SUFFICES ASSUME Len(stack[t]) >= 2, stack[t][2].at = "walk"
                 PROVE  f.at = "end"
    OBVIOUS
  <2>2. Busy(stack[t]) = 1
    BY <1>1, <1>3, <2>1 DEF Busy, Bit, Top
  <2>3. context[x].inProgress = 1
    BY <1>3, <2>2, LatestCounts
  <2> QED BY <2>3 DEF Frame
<1>7. /\ context' \in [Places -> Context]
      /\ \A y \in Places : /\ context'[y].thread = context[y].thread
                           /\ y # x => context'[y] = context[y]
      /\ context'[x].refs = context[x].refs
      /\ context'[x].inProgress = context[x].inProgress + 1
      /\ context[x].refs \in Int /\ context[x].inProgress \in Int
  <2> HIDE DEF x, f
  <2> QED BY <1>1, <1>2, <1>4 DEF Context
<1>8. /\ TypeOK' /\ UnloadOK' /\ ThreadOK(t)'
      /\ \A u \in Threads \ {t} : stack'[u] = stack[u]
      /\ stack'[t][1] = f /\ Len(stack'[t]) = Len(stack[t])
      /\ Len(stack[t]) >= 2 => stack'[t][2] = stack[t][2]
  <2> HIDE DEF f, x
  <2> QED BY <1>1, <1>2, <1>3, <1>5, <1>6, <1>7, TopStep
<1>9. /\ Held(stack'[t]) = Held(stack[t])
      /\ Busy(stack'[t]) = Busy(stack[t]) + 1
  <2>1. stack[t][1].at = "start"
    BY <1>1 DEF Top
  <2> HIDE DEF f, x
  <2> QED BY <1>3, <1>5, <1>8, <2>1 DEF Held, Busy, Bit
<1>10. Held(stack[t]) \in Int /\ Busy(stack[t]) \in Int
  BY CountTypes
<1>11. /\ context'[x].thread = context[x].thread
       /\ context'[x].refs = context[x].refs + Held(stack'[t]) - Held(stack[t])
       /\ context'[x].inProgress
            = context[x].inProgress + Busy(stack'[t]) - Busy(stack[t])
  <2> HIDE DEF x, f
  <2> QED BY <1>4, <1>7, <1>9, <1>10
<1> HIDE DEF x, f
<1> QED BY <1>1, <1>3, <1>7, <1>8, <1>11, SameChain

LEMMA WalkedStep ==
  ASSUME ThreadAssumption, Inv, NEW t \in Threads, Walked(t)
  PROVE  Inv'
<1> DEFINE x == Top(t).context
           f == Frame("end", x, FALSE)
<1>1. /\ stack[t] # <<>> /\ Top(t).at = "walk"
      /\ UNCHANGED <<loaded, alive, table, nested, context>>
      /\ stack' = [stack EXCEPT ![t][1] = f]
  BY DEF Walked, At, Step
<1>2. /\ TypeOK /\ ThreadOK(t) /\ context \in [Places -> Context]
  BY DEF Inv, TypeOK
<1>3. /\ table[t] # <<>> /\ x = Head(table[t])
      /\ Len(stack[t]) \in Nat /\ Len(stack[t]) >= 1
  <2>1. FrameOK(Top(t))
    BY <1>1, TopKnown
  <2>2. Top(t).context # Nobody
    BY <1>1, <2>1 DEF FrameOK
  <2> QED BY <1>1, <2>2, TopKnown
<1>4. x \in Places /\ x # Nobody
  BY <1>2, <1>3, LatestFacts DEF ThreadAssumption
<1>5. f \in FrameType /\ FrameOK(f) /\ f.at = "end" /\ f.context = x
  BY <1>4 DEF Frame, FrameType, Spots, FrameOK
<1>6. /\ TypeOK' /\ UnloadOK' /\ ThreadOK(t)'
      /\ \A u \in Threads \ {t} : stack'[u] = stack[u]
      /\ stack'[t][1] = f /\ Len(stack'[t]) = Len(stack[t])
      /\ Len(stack[t]) >= 2 => stack'[t][2] = stack[t][2]
  <2> HIDE DEF f, x
  <2> QED BY <1>1, <1>2, <1>3, <1>5, TopStep
<1>7. /\ Held(stack'[t]) = Held(stack[t])
      /\ Busy(stack'[t]) = Busy(stack[t])
  <2>1. stack[t][1].at = "walk"
    BY <1>1 DEF Top
  <2> HIDE DEF f, x
  <2> QED BY <1>3, <1>5, <1>6, <2>1 DEF Held, Busy, Bit
<1>8. /\ Held(stack[t]) \in Int /\ Busy(stack[t]) \in Int
      /\ context[x].refs \in Int /\ context[x].inProgress \in Int
  BY <1>3, LatestCounts, CountTypes
<1>9. /\ context'[x].thread = context[x].thread
      /\ context'[x].refs = context[x].refs + Held(stack'[t]) - Held(stack[t])
      /\ context'[x].inProgress
           = context[x].inProgress + Busy(stack'[t]) - Busy(stack[t])
  <2> HIDE DEF x, f
  <2> QED BY <1>1, <1>7, <1>8
<1>10. \A y \in Places : context'[y] = context[y]
  BY <1>1
<1> HIDE DEF x, f
<1> QED BY <1>1, <1>3, <1>6, <1>9, <1>10, SameChain

LEMMA CaptureStep ==
  ASSUME ThreadAssumption, Inv, NEW t \in Threads, Capture(t)
  PROVE  Inv'
<1> DEFINE s == stack[t]
           f == Frame("get", Nobody, FALSE)
           r == <<f>> \o s
<1>1. /\ loaded /\ t \in alive /\ Len(s) < MaxDepth
      /\ s # <<>> => s[1].at \in {"allocate", "walk"}
      /\ UNCHANGED <<loaded, alive, table, context>>
      /\ stack' = [stack EXCEPT ![t] = r]
  BY DEF Capture, Top
<1>2. /\ TypeOK /\ ThreadOK(t) /\ UnloadOK /\ s \in Seq(FrameType)
      /\ stack \in [Threads -> Seq(FrameType)] /\ table \in [Threads -> Seq(Places)]
      /\ context \in [Places -> Context]
      /\ loaded \in BOOLEAN /\ alive \subseteq Threads /\ nested \subseteq Threads
  BY DEF Inv, TypeOK
<1>3. /\ f \in FrameType /\ FrameOK(f) /\ f.at = "get" /\ f.context = Nobody
  BY DEF Frame, FrameType, Spots, FrameOK
<1>4. /\ r \in Seq(FrameType) /\ Len(r) = Len(s) + 1 /\ Len(s) \in Nat /\ r # <<>>
      /\ r[1] = f /\ \A i \in 1 .. Len(s) : r[i + 1] = s[i]
  <2> HIDE DEF f
  <2> QED BY <1>2, <1>3, PushFacts
<1>5. /\ \A i \in 2 .. Len(r) : i - 1 \in 1 .. Len(s) /\ r[i] = s[i - 1]
      /\ 1 .. Len(r) = {1} \cup 2 .. Len(r)
  <2>1. ASSUME NEW i \in 2 .. Len(r)
        PROVE  i - 1 \in 1 .. Len(s) /\ r[i] = s[i - 1]
    <3>1. i - 1 \in 1 .. Len(s) /\ (i - 1) + 1 = i
      BY <1>4
    <3> HIDE DEF r
    <3> QED BY <1>4, <3>1
  <2> QED BY <1>4, <2>1
<1>6. /\ stack'[t] = r /\ \A u \in Threads \ {t} : stack'[u] = stack[u]
      /\ stack' \in [Threads -> Seq(FrameType)]
  <2> HIDE DEF r
  <2> QED BY <1>1, <1>2, <1>4
<1>7. /\ nested' \subseteq Threads
      /\ \A u \in Threads \ {t} : u \in nested' <=> u \in nested
      /\ t \notin nested' => t \notin nested /\ (s # <<>> => s[1].at # "allocate")
  BY <1>1, <1>2 DEF Capture, At, Top
\* The one that was interrupted is the only one that may walk.
<1>8. s # <<>> =>
        /\ Len(s) >= 2 => s[2].at = "allocate"
        /\ s[1].at = "walk" => s[1].context # Nobody
  <2>1. SUFFICES ASSUME s # <<>>
                 PROVE  /\ Len(s) >= 2 => s[2].at = "allocate"
                        /\ s[1].at = "walk" => s[1].context # Nobody
    OBVIOUS
  <2>2. 1 \in 1 .. Len(s) /\ FrameOK(s[1])
    BY <1>2, <2>1 DEF ThreadOK, StackOK
  <2>3. ASSUME Len(s) >= 2
        PROVE  s[2].at = "allocate"
    <3>1. 2 \in 1 .. Len(s) /\ 2 > 1
      BY <1>4, <2>3
    <3>2. s[2].at \in {"allocate", "walk"}
      BY <1>2, <3>1 DEF ThreadOK, StackOK
    <3>3. s[2].at = "walk" => s[1].at \in {"get", "start", "end"}
      BY <2>1, <2>3, TopKnown DEF Top
    <3> QED BY <1>1, <2>1, <3>2, <3>3
  <2> QED BY <2>2, <2>3 DEF FrameOK
<1>9. TypeOK' /\ UnloadOK'
  <2> HIDE DEF r, f
  <2> QED BY <1>1, <1>2, <1>6, <1>7 DEF TypeOK, UnloadOK
<1>10. StackOK(t)'
  <2> HIDE DEF f, r
  <2>1. ASSUME NEW i \in 2 .. Len(r)
        PROVE  /\ FrameOK(r[i])
               /\ r[i].context # Nobody
                    => table[t] # <<>> /\ r[i].context = Head(table[t])
               /\ r[i].at \in {"allocate", "walk"}
               /\ i > 2 => r[i].at = "allocate"
    <3>1. i - 1 \in 1 .. Len(s) /\ r[i] = s[i - 1] /\ s # <<>>
      BY <1>2, <1>5
    <3>2. i - 1 = 1 => s[i - 1].at \in {"allocate", "walk"}
      BY <1>1, <3>1
    <3>3. i - 1 = 2 => s[i - 1].at = "allocate"
      BY <1>8, <3>1
    <3>4. i - 1 > 2 => s[i - 1].at = "allocate"
      BY <1>2, <3>1 DEF ThreadOK, StackOK
    <3>5. /\ FrameOK(s[i - 1])
          /\ s[i - 1].context # Nobody
               => table[t] # <<>> /\ s[i - 1].context = Head(table[t])
      BY <1>2, <3>1 DEF ThreadOK, StackOK
    <3> QED BY <1>4, <3>1, <3>2, <3>3, <3>4, <3>5
  <2>2. \A i \in 1 .. Len(r) :
          /\ FrameOK(r[i])
          /\ r[i].context # Nobody => table[t] # <<>> /\ r[i].context = Head(table[t])
          /\ i > 1 => r[i].at \in {"allocate", "walk"}
          /\ i > 2 => r[i].at = "allocate"
          /\ i = 2 /\ r[i].at = "walk" => r[1].at \in {"get", "start", "end"}
    <3> SUFFICES ASSUME NEW i \in 1 .. Len(r)
                 PROVE  /\ FrameOK(r[i])
                        /\ r[i].context # Nobody
                             => table[t] # <<>> /\ r[i].context = Head(table[t])
                        /\ i > 1 => r[i].at \in {"allocate", "walk"}
                        /\ i > 2 => r[i].at = "allocate"
                        /\ i = 2 /\ r[i].at = "walk" => r[1].at \in {"get", "start", "end"}
      OBVIOUS
    <3>1. CASE i = 1
      BY <1>3, <1>4, <3>1
    <3>2. CASE i \in 2 .. Len(r)
      BY <1>3, <1>4, <2>1, <3>2
    <3> QED BY <1>4, <3>1, <3>2
  <2>3. Len(r) <= MaxDepth
    BY <1>1, <1>4 DEF ThreadAssumption
  <2> QED BY <1>1, <1>6, <2>2, <2>3 DEF StackOK, FrameOK
<1>11. TableOK(t)'
  BY <1>1, <1>2 DEF ThreadOK, TableOK
<1>12. NestOK(t)'
  <2> HIDE DEF f, r
  <2> SUFFICES ASSUME t \notin nested'
               PROVE  /\ Len(table[t]) <= 1
                      /\ \A i \in 1 .. Len(r) : r[i].at # "allocate"
    BY <1>1, <1>6 DEF NestOK
  <2>1. NestOK(t) /\ t \notin nested /\ (s # <<>> => s[1].at # "allocate")
    BY <1>2, <1>7 DEF ThreadOK
  <2>2. \A i \in 1 .. Len(s) : s[i].at # "allocate"
    BY <1>2, <2>1 DEF NestOK
  <2>3. ASSUME NEW i \in 1 .. Len(r)
        PROVE  r[i].at # "allocate"
    <3>1. CASE i = 1
      BY <1>3, <1>4, <3>1
    <3>2. CASE i \in 2 .. Len(r)
      BY <1>5, <2>2, <3>2
    <3> QED BY <1>4, <3>1, <3>2
  <2> QED BY <2>1, <2>3 DEF NestOK
<1>13. Held(r) = Held(s) /\ Busy(r) = Busy(s)
  <2> HIDE DEF f, r
  <2>1. CASE s = <<>>
    BY <1>3, <1>4, <2>1 DEF Held, Busy, Bit
  <2>2. CASE s # <<>>
    <3>1. Len(s) >= 1 /\ r[2] = s[1] /\ Len(r) >= 2
      BY <1>2, <1>4, <2>2
    <3> QED BY <1>1, <1>3, <1>4, <1>8, <2>2, <3>1 DEF Held, Busy, Bit
  <2> QED BY <2>1, <2>2
<1>14. table[t] # <<>> => /\ context[Head(table[t])].refs \in Int
                          /\ context[Head(table[t])].inProgress \in Int
  BY LatestCounts, CountTypes
<1>15. Held(s) \in Int /\ Busy(s) \in Int
  BY CountTypes
<1> HIDE DEF r, f
<1> QED BY <1>1, <1>6, <1>7, <1>9, <1>10, <1>11, <1>12, <1>13, <1>14, <1>15, SameChain
           DEF ThreadOK

\* The innermost capture ends.
LEMMA PopStep ==
  ASSUME ThreadAssumption, Inv, NEW t \in Threads, stack[t] # <<>>,
         stack[t][1].at \in {"allocate", "end"},
         stack' = [stack EXCEPT ![t] = Tail(@)],
         UNCHANGED <<loaded, alive, table, nested>>,
         context' \in [Places -> Context],
         \A x \in Places : context'[x].thread = context[x].thread
  PROVE  /\ TypeOK' /\ UnloadOK' /\ ThreadOK(t)'
         /\ \A u \in Threads \ {t} : stack'[u] = stack[u]
         /\ Held(stack'[t]) = Held(stack[t]) - Bit(stack[t][1].at = "end")
         /\ Busy(stack'[t]) = Busy(stack[t]) - Bit(stack[t][1].at = "end")
<1> DEFINE s == stack[t]
           r == Tail(s)
<1>1. /\ TypeOK /\ ThreadOK(t) /\ UnloadOK /\ s \in Seq(FrameType)
      /\ stack \in [Threads -> Seq(FrameType)] /\ table \in [Threads -> Seq(Places)]
      /\ loaded \in BOOLEAN /\ alive \subseteq Threads /\ nested \subseteq Threads
  BY DEF Inv, TypeOK
<1>2. /\ r \in Seq(FrameType) /\ Len(r) = Len(s) - 1 /\ Len(s) \in Nat /\ Len(s) >= 1
      /\ \A i \in 1 .. Len(r) : r[i] = s[i + 1]
  BY <1>1, PopFacts
<1>3. \A i \in 1 .. Len(r) : i + 1 \in 1 .. Len(s) /\ i + 1 > 1 /\ r[i] = s[i + 1]
  BY <1>2
<1>4. /\ stack'[t] = r /\ \A u \in Threads \ {t} : stack'[u] = stack[u]
      /\ stack' \in [Threads -> Seq(FrameType)]
  BY <1>1, <1>2
<1>5. TypeOK' /\ UnloadOK'
  BY <1>1, <1>4 DEF TypeOK, UnloadOK
<1>6. \A i \in 1 .. Len(s) :
        /\ FrameOK(s[i])
        /\ s[i].context # Nobody => table[t] # <<>> /\ s[i].context = Head(table[t])
        /\ i > 1 => s[i].at \in {"allocate", "walk"}
        /\ i > 2 => s[i].at = "allocate"
  BY <1>1 DEF ThreadOK, StackOK
<1>7. StackOK(t)'
  <2> HIDE DEF r
  <2>1. \A i \in 1 .. Len(r) :
          /\ FrameOK(r[i])
          /\ r[i].context # Nobody => table[t] # <<>> /\ r[i].context = Head(table[t])
          /\ r[i].at \in {"allocate", "walk"}
          /\ i > 1 => r[i].at = "allocate"
    BY <1>3, <1>6
  <2>2. (r # <<>> => loaded /\ t \in alive) /\ Len(r) <= MaxDepth
    BY <1>1, <1>2 DEF ThreadOK, StackOK, ThreadAssumption
  <2>3. \A i \in 1 .. Len(r) :
          /\ FrameOK(r[i])
          /\ r[i].context # Nobody => table[t] # <<>> /\ r[i].context = Head(table[t])
          /\ i > 1 => r[i].at \in {"allocate", "walk"}
          /\ i > 2 => r[i].at = "allocate"
          /\ i = 2 /\ r[i].at = "walk" => r[1].at \in {"get", "start", "end"}
    BY <2>1
  <2> QED BY <1>1, <1>4, <2>2, <2>3 DEF StackOK, FrameOK
<1>8. TableOK(t)'
  <2>1. \A i \in 1 .. Len(table[t]) : table[t][i] \in Places
    BY <1>1
  <2> QED BY <1>1, <2>1 DEF ThreadOK, TableOK
<1>9. NestOK(t)'
  <2> HIDE DEF r
  <2> SUFFICES ASSUME t \notin nested
               PROVE  /\ Len(table[t]) <= 1 /\ (t \notin alive => table[t] = <<>>)
                      /\ \A i \in 1 .. Len(r) : r[i].at # "allocate"
    BY <1>4 DEF NestOK
  <2>1. /\ Len(table[t]) <= 1 /\ (t \notin alive => table[t] = <<>>)
        /\ \A i \in 1 .. Len(s) : s[i].at = "allocate" => i = 1
    BY <1>1 DEF ThreadOK, NestOK
  <2>2. \A i \in 1 .. Len(r) : i + 1 # 1
    BY <1>2
  <2> QED BY <1>3, <2>1, <2>2
<1>10. /\ Held(r) = Held(s) - Bit(s[1].at = "end")
       /\ Busy(r) = Busy(s) - Bit(s[1].at = "end")
  <2> HIDE DEF r
  <2>1. Len(r) >= 2 => r[2].at = "allocate"
    BY <1>2, <1>3, <1>6
  <2>2. Len(s) >= 2 => r[1] = s[2] /\ s[2].at \in {"allocate", "walk"}
    BY <1>2, <1>3, <1>6
  <2>3. s[1].at = "allocate" => ~(Len(s) >= 2 /\ s[2].at = "walk")
    BY TopKnown DEF Top
  <2> QED BY <1>2, <2>1, <2>2, <2>3 DEF Held, Busy, Bit
<1> HIDE DEF r
<1> QED BY <1>4, <1>5, <1>7, <1>8, <1>9, <1>10 DEF ThreadOK

LEMMA NoMemoryStep ==
  ASSUME ThreadAssumption, Inv, NEW t \in Threads, NoMemory(t)
  PROVE  Inv'
<1>1. /\ stack[t] # <<>> /\ stack[t][1].at = "allocate"
      /\ UNCHANGED <<loaded, alive, table, nested, context>>
      /\ stack' = [stack EXCEPT ![t] = Tail(@)]
  BY DEF NoMemory, At, Top
<1>2. context \in [Places -> Context]
  BY DEF Inv, TypeOK
<1>3. /\ TypeOK' /\ UnloadOK' /\ ThreadOK(t)'
      /\ \A u \in Threads \ {t} : stack'[u] = stack[u]
      /\ Held(stack'[t]) = Held(stack[t]) - Bit(stack[t][1].at = "end")
      /\ Busy(stack'[t]) = Busy(stack[t]) - Bit(stack[t][1].at = "end")
  BY <1>1, <1>2, PopStep
<1>4. Bit(stack[t][1].at = "end") = 0
  BY <1>1 DEF Bit
<1>5. Held(stack[t]) \in Int /\ Busy(stack[t]) \in Int
  BY CountTypes
<1>6. table[t] # <<>> => /\ context[Head(table[t])].refs \in Int
                         /\ context[Head(table[t])].inProgress \in Int
  BY LatestCounts, CountTypes
<1>7. /\ Held(stack'[t]) = Held(stack[t])
      /\ Busy(stack'[t]) = Busy(stack[t])
  BY <1>3, <1>4, <1>5
<1> QED BY <1>1, <1>3, <1>5, <1>6, <1>7, SameChain

LEMMA EndStep ==
  ASSUME ThreadAssumption, Inv, NEW t \in Threads, End(t)
  PROVE  Inv'
<1> DEFINE x == Top(t).context
           c == [context EXCEPT ![x].inProgress = @ - 1]
<1>1. /\ stack[t] # <<>> /\ Top(t).at = "end" /\ stack[t][1].at = "end"
      /\ UNCHANGED <<loaded, alive, table, nested>>
      /\ stack' = [stack EXCEPT ![t] = Tail(@)]
      /\ context' = Dropped(c, x)
  BY DEF End, At, Top
<1>2. /\ TypeOK /\ ThreadOK(t) /\ context \in [Places -> Context]
  BY DEF Inv, TypeOK
<1>3. /\ table[t] # <<>> /\ x = Head(table[t])
      /\ Len(stack[t]) \in Nat /\ Len(stack[t]) >= 1
  <2>1. FrameOK(Top(t))
    BY <1>1, TopKnown
  <2>2. Top(t).context # Nobody
    BY <1>1, <2>1 DEF FrameOK
  <2> QED BY <1>1, <2>2, TopKnown
<1>4. x \in Places
  BY <1>2, <1>3, LatestFacts
<1>5. /\ context[x].refs = 1 + Held(stack[t]) /\ Held(stack[t]) \in {1, 2}
      /\ context[x].inProgress = Busy(stack[t]) /\ Busy(stack[t]) \in Int
  <2>1. Held(stack[t]) \in {1, 2}
    BY <1>1, <1>3 DEF Held, Bit
  <2> QED BY <1>3, <2>1, LatestCounts
\* The chain has its reference still: it is not freed here.
<1>6. context' = [c EXCEPT ![x].refs = @ - 1]
  <2> HIDE DEF x
  <2>1. c[x].refs = context[x].refs
    BY <1>2, <1>4
  <2> HIDE DEF c
  <2> QED BY <1>1, <1>5, <2>1 DEF Dropped
<1>7. /\ context' \in [Places -> Context]
      /\ \A y \in Places : /\ context'[y].thread = context[y].thread
                           /\ y # x => context'[y] = context[y]
      /\ context'[x].refs = context[x].refs - 1
      /\ context'[x].inProgress = context[x].inProgress - 1
  <2> HIDE DEF x
  <2> QED BY <1>2, <1>4, <1>5, <1>6 DEF Context
<1>8. /\ TypeOK' /\ UnloadOK' /\ ThreadOK(t)'
      /\ \A u \in Threads \ {t} : stack'[u] = stack[u]
      /\ Held(stack'[t]) = Held(stack[t]) - Bit(stack[t][1].at = "end")
      /\ Busy(stack'[t]) = Busy(stack[t]) - Bit(stack[t][1].at = "end")
  BY <1>1, <1>7, PopStep
<1>9. Bit(stack[t][1].at = "end") = 1
  BY <1>1 DEF Bit
<1>10. /\ context'[x].thread = context[x].thread
       /\ context'[x].refs = context[x].refs + Held(stack'[t]) - Held(stack[t])
       /\ context'[x].inProgress
            = context[x].inProgress + Busy(stack'[t]) - Busy(stack[t])
  <2> HIDE DEF x
  <2> QED BY <1>4, <1>5, <1>7, <1>8, <1>9
<1> HIDE DEF x, c
<1> QED BY <1>1, <1>3, <1>7, <1>8, <1>10, SameChain

\* The thread gets a context of its own: no capture of it has one yet.
LEMMA InsertStep ==
  ASSUME ThreadAssumption, Inv, NEW t \in Threads, Insert(t)
  PROVE  Inv'
<1>1. PICK x \in Places :
        /\ context[x] = Freed
        /\ context' = [context EXCEPT ![x] = [thread |-> t, refs |-> 2, inProgress |-> 0]]
        /\ table' = [table EXCEPT ![t] = <<x>> \o @]
        /\ stack' = [stack EXCEPT ![t][1] = Frame("start", x, FALSE)]
  BY DEF Insert, Step
<1> DEFINE s == stack[t]
           f == Frame("start", x, FALSE)
           r == [s EXCEPT ![1] = f]
           c == <<x>> \o table[t]
<1>2. /\ s # <<>> /\ Top(t).at = "allocate" /\ s[1].at = "allocate"
      /\ UNCHANGED <<loaded, alive, nested>>
  BY DEF Insert, At, Top
<1>3. /\ TypeOK /\ ThreadOK(t) /\ UnloadOK /\ s \in Seq(FrameType)
      /\ stack \in [Threads -> Seq(FrameType)] /\ table \in [Threads -> Seq(Places)]
      /\ context \in [Places -> Context] /\ \A y \in Places : PlaceOK(y)
      /\ loaded \in BOOLEAN /\ alive \subseteq Threads /\ nested \subseteq Threads
      /\ loaded /\ t \in alive
  BY <1>2, TopKnown DEF Inv, TypeOK
<1>4. x # Nobody /\ t # Nobody
  BY DEF ThreadAssumption
<1>5. f \in FrameType /\ FrameOK(f) /\ f.at = "start" /\ f.context = x
  BY <1>4 DEF Frame, FrameType, Spots, FrameOK
<1>6. /\ r \in Seq(FrameType) /\ Len(r) = Len(s) /\ Len(s) \in Nat /\ Len(s) >= 1
      /\ r # <<>> /\ r[1] = f /\ \A i \in 2 .. Len(s) : r[i] = s[i]
  <2> HIDE DEF f
  <2> QED BY <1>2, <1>3, <1>5, TopFacts
<1>7. /\ c \in Seq(Places) /\ Len(c) = Len(table[t]) + 1 /\ Len(table[t]) \in Nat
      /\ c # <<>> /\ Head(c) = x /\ c[1] = x
      /\ \A i \in 1 .. Len(table[t]) : c[i + 1] = table[t][i]
  BY <1>3, PushFacts
<1>8. \A i \in 2 .. Len(c) : i - 1 \in 1 .. Len(table[t]) /\ c[i] = table[t][i - 1]
  <2> SUFFICES ASSUME NEW i \in 2 .. Len(c)
               PROVE  i - 1 \in 1 .. Len(table[t]) /\ c[i] = table[t][i - 1]
    OBVIOUS
  <2>1. i - 1 \in 1 .. Len(table[t]) /\ (i - 1) + 1 = i
    BY <1>7
  <2> HIDE DEF c
  <2> QED BY <1>7, <2>1
<1>9. /\ stack'[t] = r /\ \A u \in Threads \ {t} : stack'[u] = stack[u]
      /\ stack' \in [Threads -> Seq(FrameType)]
  <2> HIDE DEF r
  <2>1. stack' = [stack EXCEPT ![t] = r]
    BY <1>1 DEF r
  <2> QED BY <1>3, <1>6, <2>1
<1>10. /\ table'[t] = c /\ \A u \in Threads \ {t} : table'[u] = table[u]
       /\ table' \in [Threads -> Seq(Places)]
  <2> HIDE DEF c
  <2>1. table' = [table EXCEPT ![t] = c]
    BY <1>1 DEF c
  <2> QED BY <1>3, <1>7, <2>1
<1>11. /\ context' \in [Places -> Context]
       /\ context'[x] = [thread |-> t, refs |-> 2, inProgress |-> 0]
       /\ \A y \in Places : y # x => context'[y] = context[y]
  BY <1>1, <1>3 DEF Context
<1>12. TypeOK'
  <2> HIDE DEF r, c, f
  <2> QED BY <1>2, <1>3, <1>9, <1>10, <1>11 DEF TypeOK
<1>13. UnloadOK'
  BY <1>2, <1>3 DEF UnloadOK
<1>14. \A i \in 2 .. Len(s) : s[i].at = "allocate" /\ s[i].context = Nobody /\ FrameOK(s[i])
  <2> SUFFICES ASSUME NEW i \in 2 .. Len(s)
               PROVE  s[i].at = "allocate" /\ s[i].context = Nobody /\ FrameOK(s[i])
    OBVIOUS
  <2>1. /\ i \in 1 .. Len(s) /\ i > 1
    BY <1>6
  <2>2. /\ s[i].at \in {"allocate", "walk"} /\ (i > 2 => s[i].at = "allocate")
        /\ FrameOK(s[i])
    BY <1>3, <2>1 DEF ThreadOK, StackOK
  <2>3. i = 2 => s[i].at # "walk"
    BY <1>2, <1>6, <2>1, TopKnown
  <2> QED BY <1>6, <2>1, <2>2, <2>3 DEF FrameOK
<1>15. StackOK(t)'
  <2> HIDE DEF f, r, c
  <2>1. \A i \in 1 .. Len(r) :
          /\ FrameOK(r[i])
          /\ r[i].context # Nobody => c # <<>> /\ r[i].context = Head(c)
          /\ i > 1 => r[i].at \in {"allocate", "walk"}
          /\ i > 2 => r[i].at = "allocate"
          /\ i = 2 /\ r[i].at = "walk" => r[1].at \in {"get", "start", "end"}
    <3> SUFFICES ASSUME NEW i \in 1 .. Len(r)
                 PROVE  /\ FrameOK(r[i])
                        /\ r[i].context # Nobody => c # <<>> /\ r[i].context = Head(c)
                        /\ i > 1 => r[i].at = "allocate"
      OBVIOUS
    <3>1. CASE i = 1
      BY <1>5, <1>6, <1>7, <3>1
    <3>2. CASE i \in 2 .. Len(s)
      BY <1>6, <1>14, <3>2
    <3> QED BY <1>6, <3>1, <3>2
  <2>2. Len(r) <= MaxDepth
    BY <1>3, <1>6 DEF ThreadOK, StackOK
  <2> QED BY <1>2, <1>3, <1>9, <1>10, <2>1, <2>2 DEF StackOK, FrameOK
\* What was in the chain was not free.
<1>16. \A i \in 1 .. Len(table[t]) :
         /\ table[t][i] \in Places /\ table[t][i] # x
         /\ context[table[t][i]].thread = t
         /\ \A j \in 1 .. Len(table[t]) : table[t][i] = table[t][j] => i = j
  <2>1. \A i \in 1 .. Len(table[t]) : context[table[t][i]].thread = t
    BY <1>3 DEF ThreadOK, TableOK
  <2>2. context[x].thread # t
    BY <1>1, <1>4 DEF Freed
  <2> QED BY <1>3, <2>1, <2>2 DEF ThreadOK, TableOK
<1>17. TableOK(t)'
  <2> HIDE DEF c
  <2>1. \A i \in 1 .. Len(c) :
          /\ context'[c[i]].thread = t
          /\ \A j \in 1 .. Len(c) : c[i] = c[j] => i = j
    <3> SUFFICES ASSUME NEW i \in 1 .. Len(c)
                 PROVE  /\ context'[c[i]].thread = t
                        /\ \A j \in 1 .. Len(c) : c[i] = c[j] => i = j
      OBVIOUS
    <3>1. CASE i = 1
      <4>1. \A j \in 2 .. Len(c) : c[j] # x
        BY <1>8, <1>16
      <4> QED BY <1>7, <1>11, <3>1, <4>1
    <3>2. CASE i \in 2 .. Len(c)
      <4> DEFINE k == i - 1
      <4>1. k \in 1 .. Len(table[t]) /\ c[i] = table[t][k]
        BY <1>8, <3>2
      <4> HIDE DEF k
      <4>2. c[i] \in Places /\ c[i] # x /\ context[c[i]].thread = t
        BY <1>16, <4>1
      <4>3. context'[c[i]].thread = t
        BY <1>11, <4>2
      <4>4. ASSUME NEW j \in 2 .. Len(c), c[i] = c[j]
            PROVE  i = j
        <5>1. i - 1 = j - 1
          BY <1>8, <1>16, <3>2, <4>4
        <5> QED BY <5>1
      <4> QED BY <1>7, <4>2, <4>3, <4>4
    <3> QED BY <1>7, <3>1, <3>2
  <2> QED BY <1>10, <2>1 DEF TableOK
<1>18. NestOK(t)'
  <2> HIDE DEF r, c, f
  <2> SUFFICES ASSUME t \notin nested
               PROVE  Len(c) <= 1 /\ \A i \in 1 .. Len(r) : r[i].at # "allocate"
    BY <1>2, <1>3, <1>9, <1>10 DEF NestOK
  <2>1. /\ \A i \in 1 .. Len(s) : s[i].at = "allocate" => i = 1 /\ table[t] = <<>>
    BY <1>3 DEF ThreadOK, NestOK
  <2>2. table[t] = <<>> /\ Len(table[t]) = 0
    BY <1>2, <1>6, <2>1
  <2>3. \A i \in 2 .. Len(s) : FALSE
    BY <1>14, <2>1
  <2>4. 1 .. Len(r) = {1}
    BY <1>6, <2>3
  <2> QED BY <1>5, <1>6, <1>7, <2>2, <2>4
<1>19. ThreadOK(t)'
  BY <1>15, <1>17, <1>18 DEF ThreadOK
<1>20. /\ Held(s) = 0 /\ Busy(s) = 0 /\ Held(r) = 1 /\ Busy(r) = 0
  <2> HIDE DEF r, f
  <2>1. Len(s) >= 2 => s[2].at = "allocate" /\ r[2].at = "allocate"
    BY <1>6, <1>14
  <2> QED BY <1>2, <1>5, <1>6, <2>1 DEF Held, Busy, Bit
<1>21. ASSUME NEW y \in Places
       PROVE  PlaceOK(y)' \/ (context'[y] = context[y] /\ context[y].thread # t)
  <2> HIDE DEF r, c, f
  <2>1. CASE y = x
    <3>1. 1 \in 1 .. Len(c) /\ c[1] = y /\ y = Head(c)
      BY <1>7, <2>1
    <3> QED BY <1>9, <1>10, <1>11, <1>20, <2>1, <3>1 DEF PlaceOK
  <2>2. CASE y # x /\ context[y].thread = t
    <3>1. context'[y] = context[y] /\ PlaceOK(y) /\ context[y] # Freed
      BY <1>3, <1>4, <1>11, <2>2 DEF Freed
    <3>2. /\ \E i \in 1 .. Len(table[t]) : table[t][i] = y
          /\ context[y].refs = 1 /\ context[y].inProgress = 0
      BY <1>20, <2>2, <3>1 DEF PlaceOK
    <3>3. PICK i \in 1 .. Len(table[t]) : table[t][i] = y
      BY <3>2
    <3>4. i + 1 \in 1 .. Len(c) /\ c[i + 1] = y
      BY <1>7, <3>3
    <3>5. y # Head(c)
      BY <1>7, <2>2
    <3> QED BY <1>9, <1>10, <2>2, <3>1, <3>2, <3>4, <3>5 DEF PlaceOK
  <2> QED BY <1>11, <2>1, <2>2
<1>22. \A y \in Places : context[y].thread \in Threads \ {t} => context'[y] = context[y]
  <2>1. context[x].thread \notin Threads
    BY <1>1 DEF Freed, ThreadAssumption
  <2> QED BY <1>11, <2>1
<1> HIDE DEF r, c, f
<1> QED BY <1>2, <1>9, <1>10, <1>12, <1>13, <1>19, <1>21, <1>22, OthersKept

LEMMA BeginStep ==
  ASSUME Inv, NEW t \in Threads, Begin(t)
  PROVE  Inv'
<1>1. /\ alive' = alive \cup {t} /\ t \notin alive
      /\ UNCHANGED <<loaded, stack, table, context, nested>>
  BY DEF Begin
<1>2. /\ TypeOK /\ ThreadOK(t) /\ UnloadOK /\ \A x \in Places : PlaceOK(x)
      /\ alive \subseteq Threads
  BY DEF Inv, TypeOK
<1>3. TypeOK' /\ UnloadOK'
  BY <1>1, <1>2 DEF TypeOK, UnloadOK
<1>4. ThreadOK(t)'
  <2>1. StackOK(t)'
    BY <1>1, <1>2 DEF ThreadOK, StackOK, FrameOK
  <2>2. TableOK(t)'
    BY <1>1, <1>2 DEF ThreadOK, TableOK
  <2>3. NestOK(t)'
    BY <1>1, <1>2 DEF ThreadOK, NestOK
  <2> QED BY <2>1, <2>2, <2>3 DEF ThreadOK
<1>5. \A x \in Places : PlaceOK(x)'
  BY <1>1, <1>2 DEF PlaceOK
<1> QED BY <1>1, <1>3, <1>4, <1>5, OthersKept

\* The latest context of a thread has the reference of the chain when nothing
\* captures.
LEMMA Unused ==
  ASSUME NEW s, s = <<>>
  PROVE  Held(s) = 0 /\ Busy(s) = 0
BY DEF Held, Busy, Bit

LEMMA ExitStep ==
  ASSUME ThreadAssumption, Inv, NEW t \in Threads, Exit(t)
  PROVE  Inv'
<1>1. /\ t \in alive /\ stack[t] = <<>> /\ alive' = alive \ {t}
      /\ UNCHANGED <<loaded, stack, nested>>
  BY DEF Exit
<1>2. /\ TypeOK /\ ThreadOK(t) /\ UnloadOK /\ \A x \in Places : PlaceOK(x)
      /\ alive \subseteq Threads /\ context \in [Places -> Context]
      /\ table \in [Threads -> Seq(Places)]
  BY DEF Inv, TypeOK
<1>3. Len(stack[t]) = 0
  BY <1>1
<1>4. CASE table[t] = <<>>
  <2>1. UNCHANGED <<table, context>>
    BY <1>4 DEF Exit, Found
  <2>2. TypeOK' /\ UnloadOK'
    BY <1>1, <1>2, <2>1 DEF TypeOK, UnloadOK
  <2>3. ThreadOK(t)'
    <3>1. StackOK(t)'
      BY <1>1, <1>2, <1>3, <2>1 DEF ThreadOK, StackOK
    <3>2. TableOK(t)'
      BY <1>2, <2>1 DEF ThreadOK, TableOK
    <3>3. NestOK(t)'
      BY <1>1, <1>2, <1>3, <1>4, <2>1 DEF ThreadOK, NestOK
    <3> QED BY <3>1, <3>2, <3>3 DEF ThreadOK
  <2>4. \A x \in Places : PlaceOK(x)'
    BY <1>1, <1>2, <2>1 DEF PlaceOK
  <2> QED BY <1>1, <2>1, <2>2, <2>3, <2>4, OthersKept
<1>5. CASE table[t] # <<>>
  <2> DEFINE x == Head(table[t])
             c == Tail(table[t])
  <2>1. x \in Places /\ x # Nobody /\ x = table[t][1] /\ context[x].thread = t
    BY <1>2, <1>5, LatestFacts DEF ThreadAssumption
  <2>2. loaded /\ Found(t) = x
    BY <1>2, <1>5 DEF UnloadOK, Found
  <2>3. table' = [table EXCEPT ![t] = Tail(@)] /\ context' = Dropped(context, x)
    BY <2>1, <2>2 DEF Exit
  <2>4. context[x].refs = 1 /\ context[x].inProgress = 0
    BY <1>1, <1>5, LatestCounts, Unused
  <2>5. context' = [context EXCEPT ![x] = Freed]
    BY <2>3, <2>4 DEF Dropped
  <2>6. /\ c \in Seq(Places) /\ Len(c) = Len(table[t]) - 1 /\ Len(table[t]) \in Nat
        /\ \A i \in 1 .. Len(c) : i + 1 \in 1 .. Len(table[t]) /\ c[i] = table[t][i + 1]
    BY <1>2, <1>5, PopFacts
  <2>7. /\ table'[t] = c /\ \A u \in Threads \ {t} : table'[u] = table[u]
        /\ table' \in [Threads -> Seq(Places)]
    BY <1>2, <2>3, <2>6
  <2>8. /\ context' \in [Places -> Context] /\ context'[x] = Freed
        /\ \A y \in Places : y # x => context'[y] = context[y]
    <3> HIDE DEF x
    <3>1. Freed \in Context
      BY DEF Freed, Context
    <3> QED BY <1>2, <2>1, <2>5, <3>1
  <2>9. TypeOK' /\ UnloadOK'
    <3> HIDE DEF x, c
    <3> QED BY <1>1, <1>2, <2>2, <2>7, <2>8 DEF TypeOK, UnloadOK
\* No context is twice in the chain.
  <2>10. \A i \in 1 .. Len(c) :
           /\ c[i] \in Places /\ c[i] # x /\ context[c[i]].thread = t
           /\ \A j \in 1 .. Len(c) : c[i] = c[j] => i = j
    <3>1. \A i \in 1 .. Len(table[t]) :
            /\ table[t][i] \in Places /\ context[table[t][i]].thread = t
            /\ \A j \in 1 .. Len(table[t]) : table[t][i] = table[t][j] => i = j
      BY <1>2 DEF ThreadOK, TableOK
    <3>2. 1 \in 1 .. Len(table[t])
      BY <1>5, <1>2, LatestFacts
    <3> HIDE DEF x, c
    <3>3. ASSUME NEW i \in 1 .. Len(c)
          PROVE  c[i] \in Places /\ c[i] # x /\ context[c[i]].thread = t
      BY <2>1, <2>6, <3>1, <3>2
    <3>4. ASSUME NEW i \in 1 .. Len(c), NEW j \in 1 .. Len(c), c[i] = c[j]
          PROVE  i = j
      <4>1. i + 1 = j + 1
        BY <2>6, <3>1, <3>4
      <4> QED BY <4>1
    <3> QED BY <3>3, <3>4
  <2>11. ThreadOK(t)'
    <3> HIDE DEF x, c
    <3>1. StackOK(t)'
      BY <1>1, <1>2, <1>3 DEF ThreadOK, StackOK
    <3>2. TableOK(t)'
      BY <2>7, <2>8, <2>10 DEF TableOK
    <3>3. NestOK(t)'
      <4>1. SUFFICES ASSUME t \notin nested
                     PROVE  c = <<>>
        BY <1>1, <1>3, <2>7 DEF NestOK
      <4>2. Len(table[t]) <= 1
        BY <1>2, <4>1 DEF ThreadOK, NestOK
      <4> QED BY <2>6, <4>2, EmptySeq
    <3> QED BY <3>1, <3>2, <3>3 DEF ThreadOK
  <2>12. ASSUME NEW y \in Places
         PROVE  PlaceOK(y)' \/ (context'[y] = context[y] /\ context[y].thread # t)
    <3> HIDE DEF x, c
    <3>1. CASE y = x
      BY <2>8, <3>1 DEF PlaceOK, Freed
    <3>2. CASE y # x /\ context[y].thread = t
      <4>1. context'[y] = context[y] /\ PlaceOK(y) /\ context[y] # Freed
        BY <1>2, <2>8, <3>2 DEF Freed, ThreadAssumption
      <4>2. /\ \E i \in 1 .. Len(table[t]) : table[t][i] = y
            /\ context[y].refs = 1 /\ context[y].inProgress = 0
        BY <3>2, <4>1 DEF PlaceOK, x
      <4>3. PICK i \in 1 .. Len(table[t]) : table[t][i] = y
        BY <4>2
      <4>4. i # 1
        BY <2>1, <3>2, <4>3
      <4>5. i - 1 \in 1 .. Len(c) /\ c[i - 1] = y
        BY <2>6, <4>3, <4>4
      <4>6. Held(stack'[t]) = 0 /\ Busy(stack'[t]) = 0
        BY <1>1, Unused
      <4> QED BY <2>7, <3>2, <4>1, <4>2, <4>5, <4>6 DEF PlaceOK
    <3> QED BY <2>8, <3>1, <3>2
  <2>13. \A y \in Places : context[y].thread \in Threads \ {t} => context'[y] = context[y]
    <3> HIDE DEF x
    <3> QED BY <2>1, <2>8
  <2> HIDE DEF x, c
  <2> QED BY <1>1, <2>7, <2>9, <2>11, <2>12, <2>13, OthersKept
<1> QED BY <1>4, <1>5

\* Nothing captures any more: every context of a chain has one reference.
LEMMA FinitStep ==
  ASSUME ThreadAssumption, Inv, Finit
  PROVE  Inv'
<1>1. /\ loaded' = FALSE /\ table' = [t \in Threads |-> <<>>]
      /\ context' = [x \in Places |-> IF Entries(x) = {} THEN context[x]
                                                         ELSE Dropped(context, x)[x]]
      /\ UNCHANGED <<alive, stack, nested>>
      /\ \A t \in Threads : stack[t] = <<>>
  BY DEF Finit
<1>2. /\ TypeOK /\ \A t \in Threads : ThreadOK(t)
      /\ \A x \in Places : PlaceOK(x)
      /\ table \in [Threads -> Seq(Places)] /\ context \in [Places -> Context]
  BY DEF Inv, TypeOK
<1>3. ASSUME NEW x \in Places
      PROVE  context'[x] = Freed
  <2>1. CASE context[x] = Freed
    <3>1. ASSUME NEW t \in Threads, NEW i \in DOMAIN table[t], table[t][i] = x
          PROVE  FALSE
      <4>1. i \in 1 .. Len(table[t])
        BY <1>2
      <4>2. context[x].thread = t
        BY <1>2, <3>1, <4>1 DEF ThreadOK, TableOK
      <4> QED BY <2>1, <4>2 DEF Freed, ThreadAssumption
    <3>2. Entries(x) = {}
      BY <3>1 DEF Entries
    <3> QED BY <1>1, <2>1, <3>2
  <2>2. CASE context[x] # Freed
    <3>1. PlaceOK(x)
      BY <1>2
    <3>2. PICK t \in Threads : t = context[x].thread /\ \E i \in 1 .. Len(table[t]) : table[t][i] = x
      BY <2>2, <3>1 DEF PlaceOK
    <3>3. Held(stack[t]) = 0
      BY <1>1, Unused
    <3>4. context[x].refs = 1
      BY <2>2, <3>1, <3>2, <3>3 DEF PlaceOK
    <3>5. Entries(x) # {}
      <4>1. \E i \in DOMAIN table[t] : table[t][i] = x
        BY <1>2, <3>2
      <4> QED BY <4>1 DEF Entries
    <3> QED BY <1>1, <1>2, <3>4, <3>5 DEF Dropped
  <2> QED BY <2>1, <2>2
<1>4. Freed \in Context
  BY DEF Freed, Context
<1>5. context' \in [Places -> Context] /\ table' \in [Threads -> Seq(Places)]
  BY <1>1, <1>3, <1>4
<1>6. TypeOK' /\ UnloadOK'
  BY <1>1, <1>2, <1>5 DEF TypeOK, UnloadOK
<1>7. \A x \in Places : PlaceOK(x)'
  BY <1>3 DEF PlaceOK
<1>8. ASSUME NEW t \in Threads
      PROVE  ThreadOK(t)'
  <2>1. /\ Len(stack[t]) = 0 /\ table'[t] = <<>> /\ Len(table'[t]) = 0
        /\ stack'[t] = stack[t]
    BY <1>1
  <2>2. StackOK(t)'
    BY <1>1, <1>2, <2>1 DEF ThreadOK, StackOK
  <2> QED BY <2>1, <2>2 DEF ThreadOK, TableOK, NestOK
<1> QED BY <1>6, <1>7, <1>8 DEF Inv

LEMMA InitInv ==
  ASSUME ThreadAssumption, Init
  PROVE  Inv
<1>1. TypeOK /\ UnloadOK
  <2>1. Freed \in Context
    BY DEF Freed, Context
  <2> QED BY <2>1 DEF Init, TypeOK, UnloadOK
<1>2. \A x \in Places : PlaceOK(x)
  BY DEF Init, PlaceOK
<1>3. ASSUME NEW t \in Threads
      PROVE  ThreadOK(t)
  <2>1. /\ stack[t] = <<>> /\ table[t] = <<>> /\ Len(stack[t]) = 0 /\ Len(table[t]) = 0
    BY DEF Init
  <2>2. StackOK(t)
    BY <2>1 DEF StackOK, ThreadAssumption
  <2> QED BY <2>1, <2>2 DEF ThreadOK, TableOK, NestOK
<1> QED BY <1>1, <1>2, <1>3 DEF Inv

LEMMA StepInv ==
  ASSUME ThreadAssumption, Inv, [Next]_vars
  PROVE  Inv'
<1>1. CASE UNCHANGED vars
  BY <1>1 DEF vars, Inv, TypeOK, UnloadOK, ThreadOK, StackOK, FrameOK, TableOK, NestOK,
              PlaceOK
<1>2. ASSUME NEW t \in Threads,
             \/ Capture(t) \/ Get(t) \/ Insert(t) \/ NoMemory(t)
             \/ Start(t) \/ Walked(t) \/ End(t) \/ Begin(t) \/ Exit(t)
      PROVE  Inv'
  BY <1>2, CaptureStep, GetStep, InsertStep, NoMemoryStep, StartStep, WalkedStep, EndStep,
     BeginStep, ExitStep
<1>3. CASE Finit
  BY <1>3, FinitStep
<1> QED BY <1>1, <1>2, <1>3 DEF Next

-----------------------------------------------------------------------------
(* From what is kept of one thread and one context to what ContextsSound   *)
(* counts.                                                                 *)

LEMMA SmallSets ==
  /\ \A S : S = {} => Cardinality(S) = 0
  /\ \A S, a : S = {a} => Cardinality(S) = 1
  /\ \A S, a : S \subseteq {a} => Cardinality(S) <= 1
<1>1. \A S : S = {} => Cardinality(S) = 0
  BY FS_EmptySet
<1>2. \A S, a : S = {a} => Cardinality(S) = 1
  BY FS_Singleton
<1>3. ASSUME NEW S, NEW a, S \subseteq {a}
      PROVE  Cardinality(S) <= 1
  <2>1. S = {} \/ S = {a}
    BY <1>3
  <2> QED BY <2>1, <1>1, <1>2
<1> QED BY <1>1, <1>2, <1>3

LEMMA PairSize ==
  ASSUME NEW a, NEW b, a # b
  PROVE  Cardinality({a, b}) = 2
<1>1. IsFiniteSet({a}) /\ Cardinality({a}) = 1 /\ b \notin {a} /\ {a, b} = {a} \cup {b}
  BY FS_Singleton
<1> QED BY <1>1, FS_AddElement

\* The captures that have x are the first and the second of its thread.
LEMMA CapturesOf ==
  ASSUME ThreadAssumption, Inv, NEW x \in Places, context[x] # Freed
  PROVE  LET t == context[x].thread IN
         Cardinality(Captures(x)) = IF x = Head(table[t]) THEN Held(stack[t]) ELSE 0
<1> DEFINE t == context[x].thread
           s == stack[t]
<1>1. /\ t \in Threads /\ table[t] # <<>>
      /\ \A u \in Threads : ThreadOK(u)
      /\ stack \in [Threads -> Seq(FrameType)] /\ table \in [Threads -> Seq(Places)]
  <2>1. /\ PlaceOK(x) /\ TypeOK
    BY DEF Inv
  <2>2. t \in Threads /\ \E i \in 1 .. Len(table[t]) : table[t][i] = x
    BY <2>1 DEF PlaceOK
  <2>3. table[t] # <<>>
    BY <2>2
  <2> QED BY <2>1, <2>2, <2>3 DEF Inv, TypeOK
<1>2. ASSUME NEW u \in Threads, NEW i \in 1 .. Len(stack[u]), stack[u][i].context = x
      PROVE  /\ u = t /\ x = Head(table[t])
             /\ \/ i = 1 /\ stack[u][1].at \in {"start", "walk", "end"}
                \/ i = 2 /\ stack[u][2].at = "walk"
  <2>1. stack[u] \in Seq(FrameType) /\ Len(stack[u]) \in Nat /\ stack[u][i] \in FrameType
    BY <1>1
  <2>2. x # Nobody /\ StackOK(u) /\ FrameOK(stack[u][i])
    BY <1>1, <1>2 DEF ThreadOK, StackOK, ThreadAssumption
  <2>3. table[u] # <<>> /\ x = Head(table[u])
    BY <1>2, <2>2 DEF StackOK
  <2>4. u = t
    BY <1>1, <2>3, LatestFacts DEF Inv
  <2>5. stack[u][i].at \in {"start", "walk", "end"}
    BY <1>2, <2>1, <2>2 DEF FrameOK, FrameType, Spots
  <2>6. /\ i > 1 => stack[u][i].at \in {"allocate", "walk"}
        /\ i > 2 => stack[u][i].at = "allocate"
    BY <2>2 DEF StackOK
  <2>7. i = 1 \/ i = 2
    BY <2>1, <2>5, <2>6
  <2>8. CASE i = 1
    BY <2>3, <2>4, <2>5, <2>8
  <2>9. CASE i = 2
    <3>1. stack[u][2].at = "walk"
      BY <2>5, <2>6, <2>9
    <3> QED BY <2>3, <2>4, <2>9, <3>1
  <2> QED BY <2>7, <2>8, <2>9
<1>3. CASE x # Head(table[t])
  <2>1. ASSUME NEW p \in Threads \X (1 .. MaxDepth),
               p[2] <= Len(stack[p[1]]), stack[p[1]][p[2]].context = x
        PROVE  FALSE
    <3>1. p[1] \in Threads /\ p[2] \in 1 .. MaxDepth
      BY <2>1
    <3>2. p[2] \in 1 .. Len(stack[p[1]])
      BY <1>1, <2>1, <3>1 DEF ThreadAssumption
    <3> QED BY <1>2, <1>3, <2>1, <3>1, <3>2
  <2>2. Captures(x) = {}
    BY <2>1 DEF Captures
  <2> QED BY <1>3, <2>2, SmallSets
<1>4. CASE x = Head(table[t])
  <2> DEFINE first  == Len(s) >= 1 /\ s[1].at \in {"start", "walk", "end"}
             second == Len(s) >= 2 /\ s[2].at = "walk"
  <2>1. s \in Seq(FrameType) /\ Len(s) \in Nat /\ Len(s) <= MaxDepth /\ StackOK(t)
    BY <1>1 DEF ThreadOK, StackOK
  <2>2. x # Nobody
    BY DEF ThreadAssumption
  <2>3. first => s[1].context = x
    <3>1. SUFFICES ASSUME first PROVE s[1].context = x
      OBVIOUS
    <3>2. 1 \in 1 .. Len(s) /\ FrameOK(s[1])
      BY <2>1, <3>1 DEF StackOK
    <3> QED BY <1>4, <2>1, <3>1, <3>2 DEF StackOK, FrameOK
  <2>4. second => s[2].context = x
    <3>1. SUFFICES ASSUME second PROVE s[2].context = x
      OBVIOUS
    <3>2. 2 \in 1 .. Len(s) /\ FrameOK(s[2])
      BY <2>1, <3>1 DEF StackOK
    <3> QED BY <1>4, <2>1, <3>1, <3>2 DEF StackOK, FrameOK
  <2>5. ASSUME NEW p \in Captures(x)
        PROVE  (p = <<t, 1>> /\ first) \/ (p = <<t, 2>> /\ second)
    <3>1. /\ p \in Threads \X (1 .. MaxDepth) /\ p[2] <= Len(stack[p[1]])
          /\ stack[p[1]][p[2]].context = x
      BY DEF Captures
    <3>2. /\ p = <<p[1], p[2]>> /\ p[1] \in Threads /\ p[2] \in 1 .. MaxDepth
      BY <3>1
    <3>3. p[2] \in 1 .. Len(stack[p[1]])
      BY <1>1, <3>1, <3>2 DEF ThreadAssumption
    <3>4. /\ p[1] = t
          /\ \/ p[2] = 1 /\ s[1].at \in {"start", "walk", "end"}
             \/ p[2] = 2 /\ s[2].at = "walk"
      BY <1>2, <3>1, <3>2, <3>3
    <3> QED BY <2>1, <3>2, <3>3, <3>4
  <2>6. first => <<t, 1>> \in Captures(x)
    BY <1>1, <2>1, <2>3 DEF Captures, ThreadAssumption
  <2>7. second => <<t, 2>> \in Captures(x)
    BY <1>1, <2>1, <2>4 DEF Captures, ThreadAssumption
  <2>8. <<t, 1>> # <<t, 2>>
    OBVIOUS
  <2>9. Held(s) = Bit(first) + Bit(second)
    BY DEF Held
  <2> HIDE DEF first, second, s, t
  <2>10. CASE first /\ second
    <3>1. Captures(x) = {<<t, 1>>, <<t, 2>>}
      BY <2>5, <2>6, <2>7, <2>10
    <3>2. Cardinality(Captures(x)) = 2
      BY <2>8, <3>1, PairSize
    <3>3. Held(s) = 2
      BY <2>9, <2>10 DEF Bit
    <3> QED BY <1>4, <3>2, <3>3 DEF s, t
  <2>11. CASE first /\ ~second
    <3>1. Captures(x) = {<<t, 1>>}
      BY <2>5, <2>6, <2>11
    <3>2. Cardinality(Captures(x)) = 1
      BY <3>1, SmallSets
    <3>3. Held(s) = 1
      BY <2>9, <2>11 DEF Bit
    <3> QED BY <1>4, <3>2, <3>3 DEF s, t
  <2>12. CASE ~first /\ second
    <3>1. Captures(x) = {<<t, 2>>}
      BY <2>5, <2>7, <2>12
    <3>2. Cardinality(Captures(x)) = 1
      BY <3>1, SmallSets
    <3>3. Held(s) = 1
      BY <2>9, <2>12 DEF Bit
    <3> QED BY <1>4, <3>2, <3>3 DEF s, t
  <2>13. CASE ~first /\ ~second
    <3>1. Captures(x) = {}
      BY <2>5, <2>13
    <3>2. Cardinality(Captures(x)) = 0
      BY <3>1, SmallSets
    <3>3. Held(s) = 0
      BY <2>9, <2>13 DEF Bit
    <3> QED BY <1>4, <3>2, <3>3 DEF s, t
  <2> QED BY <2>10, <2>11, <2>12, <2>13
<1> QED BY <1>3, <1>4

\* The thread whose chain has x.
LEMMA EntriesOf ==
  ASSUME ThreadAssumption, Inv, NEW x \in Places
  PROVE  Cardinality(Entries(x)) = IF context[x] = Freed THEN 0 ELSE 1
<1>1. ASSUME NEW t \in Threads, NEW i \in DOMAIN table[t], table[t][i] = x
      PROVE  context[x].thread = t
  BY <1>1 DEF Inv, TypeOK, ThreadOK, TableOK
<1>2. CASE context[x] = Freed
  <2>1. Entries(x) = {}
    BY <1>1, <1>2 DEF Entries, Freed, ThreadAssumption
  <2> QED BY <1>2, <2>1, SmallSets
<1>3. CASE context[x] # Freed
  <2>1. /\ context[x].thread \in Threads
        /\ \E i \in 1 .. Len(table[context[x].thread]) : table[context[x].thread][i] = x
    BY <1>3 DEF Inv, PlaceOK
  <2>2. context[x].thread \in Entries(x)
    BY <2>1 DEF Entries, Inv, TypeOK
  <2>3. Entries(x) = {context[x].thread}
    BY <1>1, <2>2 DEF Entries
  <2> QED BY <1>3, <2>3, SmallSets
<1> QED BY <1>2, <1>3

LEMMA RefsCounted ==
  ASSUME ThreadAssumption, Inv, NEW x \in Places
  PROVE  context[x].refs = Cardinality(Entries(x)) + Cardinality(Captures(x))
<1>1. CASE context[x] = Freed
  <2>1. ASSUME NEW p \in Threads \X (1 .. MaxDepth),
               p[2] <= Len(stack[p[1]]), stack[p[1]][p[2]].context = x
        PROVE  FALSE
    <3>1. /\ p[1] \in Threads /\ p[2] \in 1 .. Len(stack[p[1]])
          /\ ThreadOK(p[1]) /\ TypeOK
      BY <2>1 DEF Inv, TypeOK, ThreadAssumption
    <3>2. table[p[1]] # <<>> /\ x = Head(table[p[1]])
      BY <2>1, <3>1 DEF ThreadOK, StackOK, ThreadAssumption
    <3>3. context[x] # Freed
      BY <3>1, <3>2, LatestFacts
    <3> QED BY <1>1, <3>3
  <2>2. Captures(x) = {}
    BY <2>1 DEF Captures
  <2>3. Cardinality(Captures(x)) = 0 /\ Cardinality(Entries(x)) = 0
    BY <1>1, <2>2, SmallSets, EntriesOf
  <2> QED BY <1>1, <2>3 DEF Freed
<1>2. CASE context[x] # Freed
  <2>1. PlaceOK(x)
    BY DEF Inv
  <2> QED BY <1>2, <2>1, CapturesOf, EntriesOf DEF PlaceOK
<1> QED BY <1>1, <1>2

LEMMA OneWalk ==
  ASSUME ThreadAssumption, Inv, NEW t \in Threads
  PROVE  Cardinality({i \in DOMAIN stack[t] : stack[t][i].walks}) <= 1
<1> DEFINE s == stack[t]
           W == {i \in DOMAIN s : s[i].walks}
<1>1. /\ StackOK(t) /\ s \in Seq(FrameType) /\ Len(s) \in Nat /\ DOMAIN s = 1 .. Len(s)
  BY DEF Inv, ThreadOK, TypeOK
<1>2. ASSUME NEW i \in W
      PROVE  i \in 1 .. Len(s) /\ s[i].at = "walk" /\ (i = 1 \/ i = 2)
  <2>1. i \in 1 .. Len(s) /\ s[i].walks
    BY <1>1
  <2>2. s[i].at = "walk" /\ (i > 2 => s[i].at = "allocate")
    BY <1>1, <2>1 DEF StackOK, FrameOK
  <2> QED BY <1>1, <2>1, <2>2
<1>3. ~(1 \in W /\ 2 \in W)
  BY <1>1, <1>2 DEF StackOK
<1>4. W \subseteq {1} \/ W \subseteq {2}
  <2> HIDE DEF W
  <2> QED BY <1>2, <1>3
<1> QED BY <1>4, SmallSets

LEMMA OneContext ==
  ASSUME ThreadAssumption, Inv, NEW t \in Threads, t \notin nested
  PROVE  Cardinality({x \in Places : context[x].thread = t})
           <= (IF t \in alive THEN 1 ELSE 0)
<1> DEFINE C == {x \in Places : context[x].thread = t}
<1>1. /\ NestOK(t) /\ table \in [Threads -> Seq(Places)] /\ Len(table[t]) \in Nat
  BY DEF Inv, ThreadOK, TypeOK
<1>2. ASSUME NEW x \in C
      PROVE  \E i \in 1 .. Len(table[t]) : table[t][i] = x
  <2>1. PlaceOK(x) /\ context[x] # Freed
    BY DEF Inv, Freed, ThreadAssumption
  <2> QED BY <2>1 DEF PlaceOK
<1>3. CASE t \in alive
  <2>1. Len(table[t]) <= 1
    BY <1>1 DEF NestOK
  <2>2. C \subseteq {table[t][1]}
    BY <1>1, <1>2, <2>1
  <2>3. Cardinality(C) <= 1
    <3> HIDE DEF C
    <3> QED BY <2>2, SmallSets
  <2> QED BY <1>3, <2>3
<1>4. CASE t \notin alive
  <2>1. table[t] = <<>> /\ Len(table[t]) = 0
    BY <1>1, <1>4 DEF NestOK
  <2>2. C = {}
    BY <1>2, <2>1
  <2>3. Cardinality(C) = 0
    <3> HIDE DEF C
    <3> QED BY <2>2, SmallSets
  <2> QED BY <1>4, <2>3
<1> QED BY <1>3, <1>4

LEMMA InvSound ==
  ASSUME ThreadAssumption, Inv
  PROVE  ContextsSound
<1>1. ASSUME ~loaded, NEW x \in Places
      PROVE  context[x] = Freed
  <2>1. PlaceOK(x) /\ \A t \in Threads : table[t] = <<>>
    BY <1>1 DEF Inv, UnloadOK
  <2> QED BY <2>1 DEF PlaceOK
<1> QED BY <1>1, RefsCounted, OneWalk, OneContext DEF ContextsSound

\* The references of a context are the chain and the captures that have it, so
\* that it is freed with the last of them; a thread walks its stack once at a
\* time; it has one context and leaves none behind unless it captured while it
\* allocated one; nothing is left after the unload (thread-context.c,
\* UtilsCaptureStackTrace): for any threads and captures within one another.
THEOREM ThreadsSound ==
  ASSUME ThreadAssumption
  PROVE  Spec => []ContextsSound
<1>1. Init => Inv
  BY InitInv
<1>2. Inv /\ [Next]_vars => Inv'
  BY StepInv
<1>3. Inv => ContextsSound
  BY InvSound
<1> QED BY <1>1, <1>2, <1>3, PTL DEF Spec
=============================================================================
