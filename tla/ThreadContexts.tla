--------------------------- MODULE ThreadContexts ---------------------------
(***************************************************************************)
(* The contexts of threads (thread-context.c) and the capturing of stack   *)
(* traces that uses them (UtilsCaptureStackTrace, utils.c).  Capturing a    *)
(* stack, or allocating a context for it, can fault a page in, and that     *)
(* read can reach a hook handler in the same thread, which captures again:  *)
(* each thread has a stack of captures, innermost first.                    *)
(***************************************************************************)
EXTENDS Integers, Sequences, FiniteSets

CONSTANTS
  Threads,   \* thread ids; one is used again after the thread exited
  Places,    \* places in memory for contexts
  MaxDepth,  \* captures within one another
  Nobody

VARIABLES
  loaded,    \* the module is initialised
  alive,     \* the threads there are
  stack,     \* captures of each thread: where it is, its context, its walk
  table,     \* _contextTable: the contexts of a thread id, the latest first, as
             \* they follow one another in the chain of their bucket
  context,   \* contexts: whose, references, StackTraceInProgress
  nested     \* history: threads that captured while they allocated

vars == <<loaded, alive, stack, table, context, nested>>

Freed == [thread |-> Nobody, refs |-> 0, inProgress |-> 0]

\* Nothing is called Nobody.
ThreadAssumption ==
  /\ IsFiniteSet(Threads) /\ MaxDepth \in Nat
  /\ Nobody \notin Threads \cup Places

Init ==
  /\ loaded = TRUE /\ alive = {} /\ nested = {}
  /\ stack = [t \in Threads |-> <<>>]
  /\ table = [t \in Threads |-> <<>>]
  /\ context = [x \in Places |-> Freed]

-----------------------------------------------------------------------------
\* ThreadContextReference and ThreadContextDereference.
Referenced(x) == [context EXCEPT ![x].refs = @ + 1]
Dropped(c, x) == IF c[x].refs = 1 THEN [c EXCEPT ![x] = Freed]
                                  ELSE [c EXCEPT ![x].refs = @ - 1]

\* HashTableGet: the first of the chain that is the thread's, or Nobody.
Found(t) == IF table[t] = <<>> THEN Nobody ELSE Head(table[t])

\* The threads in whose chain x is.
Entries(x) == {t \in Threads : \E i \in DOMAIN table[t] : table[t][i] = x}

Top(t) == stack[t][1]
At(t, place) == loaded /\ stack[t] # <<>> /\ Top(t).at = place
Step(t, frame) == stack' = [stack EXCEPT ![t][1] = frame]
Frame(at, x, walks) == [at |-> at, context |-> x, walks |-> walks]

\* At PASSIVE_LEVEL and called from user mode: ThreadContextGet is next.
Capture(t) ==
  /\ loaded /\ t \in alive /\ Len(stack[t]) < MaxDepth
  /\ stack[t] # <<>> => Top(t).at \in {"allocate", "walk"}
  /\ nested' = IF At(t, "allocate") THEN nested \cup {t} ELSE nested
  /\ stack' = [stack EXCEPT ![t] = <<Frame("get", Nobody, FALSE)>> \o @]
  /\ UNCHANGED <<loaded, alive, table, context>>

\* ThreadContextGet: the lookup under the shared lock, the allocation under
\* none, the insertion under the exclusive one.
Get(t) ==
  /\ At(t, "get")
  /\ IF Found(t) = Nobody
     THEN Step(t, Frame("allocate", Nobody, FALSE)) /\ UNCHANGED context
     ELSE /\ context' = Referenced(Found(t))
          /\ Step(t, Frame("start", Found(t), FALSE))
  /\ UNCHANGED <<loaded, alive, table, nested>>

Insert(t) ==
  /\ At(t, "allocate")
  /\ \E x \in Places :
       /\ context[x] = Freed
       /\ context' = [context EXCEPT ![x] = [thread |-> t, refs |-> 2, inProgress |-> 0]]
       /\ table' = [table EXCEPT ![t] = <<x>> \o @]
       /\ Step(t, Frame("start", x, FALSE))
  /\ UNCHANGED <<loaded, alive, nested>>

\* Without memory there is no stack trace.
NoMemory(t) ==
  /\ At(t, "allocate")
  /\ stack' = [stack EXCEPT ![t] = Tail(@)]
  /\ UNCHANGED <<loaded, alive, table, context, nested>>

\* Mutant: every capture walks.
StartAlways(t) ==
  /\ At(t, "start")
  /\ context' = [context EXCEPT ![Top(t).context].inProgress = @ + 1]
  /\ Step(t, Frame("walk", Top(t).context, TRUE))
  /\ UNCHANGED <<loaded, alive, table, nested>>

\* UtilsCaptureStackTrace walks the stack unless a capture that has not
\* ended yet does.
Start(t) ==
  /\ At(t, "start")
  /\ LET x == Top(t).context IN
     /\ context' = [context EXCEPT ![x].inProgress = @ + 1]
     /\ Step(t, IF context[x].inProgress = 0 THEN Frame("walk", x, TRUE)
                                             ELSE Frame("end", x, FALSE))
  /\ UNCHANGED <<loaded, alive, table, nested>>

Walked(t) ==
  /\ At(t, "walk")
  /\ Step(t, Frame("end", Top(t).context, FALSE))
  /\ UNCHANGED <<loaded, alive, table, context, nested>>

End(t) ==
  /\ At(t, "end")
  /\ LET x == Top(t).context IN
     context' = Dropped([context EXCEPT ![x].inProgress = @ - 1], x)
  /\ stack' = [stack EXCEPT ![t] = Tail(@)]
  /\ UNCHANGED <<loaded, alive, table, nested>>

-----------------------------------------------------------------------------
Begin(t) ==
  /\ t \notin alive
  /\ alive' = alive \cup {t}
  /\ UNCHANGED <<loaded, stack, table, context, nested>>

\* _ThreadNotify and ThreadContextDelete, in the thread that exits: one
\* context of the thread leaves the table.
Exit(t) ==
  /\ t \in alive /\ stack[t] = <<>>
  /\ alive' = alive \ {t}
  /\ IF ~loaded \/ Found(t) = Nobody THEN UNCHANGED <<table, context>>
     ELSE /\ table' = [table EXCEPT ![t] = Tail(@)]
          /\ context' = Dropped(context, Found(t))
  /\ UNCHANGED <<loaded, stack, nested>>

\* ThreadContextModuleFinit: the notify routine goes first, no handler runs
\* any more, and HashTableDestroy drops every context of the table.
Finit ==
  /\ loaded /\ \A t \in Threads : stack[t] = <<>>
  /\ loaded' = FALSE
  /\ table' = [t \in Threads |-> <<>>]
  /\ context' = [x \in Places |-> IF Entries(x) = {} THEN context[x]
                                                   ELSE Dropped(context, x)[x]]
  /\ UNCHANGED <<alive, stack, nested>>

Next ==
  \/ \E t \in Threads :
       \/ Capture(t) \/ Get(t) \/ Insert(t) \/ NoMemory(t)
       \/ Start(t) \/ Walked(t) \/ End(t) \/ Begin(t) \/ Exit(t)
  \/ Finit
Spec == Init /\ [][Next]_vars

-----------------------------------------------------------------------------
\* The captures that have a reference to x.
Captures(x) == {p \in Threads \X (1 .. MaxDepth) :
                  p[2] <= Len(stack[p[1]]) /\ stack[p[1]][p[2]].context = x}

\* A context is freed with its last reference, which table and captures hold;
\* one walk of a thread's stack at a time; a thread has one context and
\* leaves none behind, unless it captured while it allocated one; nothing is
\* left after the unload.
ContextsSound ==
  /\ \A x \in Places : context[x].refs = Cardinality(Entries(x)) + Cardinality(Captures(x))
  /\ \A t \in Threads :
       /\ Cardinality({i \in DOMAIN stack[t] : stack[t][i].walks}) <= 1
       /\ t \notin nested =>
            Cardinality({x \in Places : context[x].thread = t})
              <= (IF t \in alive THEN 1 ELSE 0)
  /\ ~loaded => \A x \in Places : context[x] = Freed
=============================================================================
