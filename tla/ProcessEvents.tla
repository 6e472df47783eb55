----------------------------- MODULE ProcessEvents -----------------------------
(***************************************************************************)
(* The table of running processes (process-context-table.c), the notify    *)
(* routines that keep it and report processes and images                   *)
(* (process-events.c, image-load.c), and the snapshot of it that a client  *)
(* gets when it connects (ListProcessesByEvents, from RequestQueueConnect).*)
(*                                                                         *)
(* The system calls the notify routine of a process in order: creation,    *)
(* its images, exit; those of different processes run at the same time.    *)
(***************************************************************************)
EXTENDS Integers, FiniteSets

CONSTANTS
  Processes,  \* process ids; one is used again after the process exited
  Places,     \* places in memory for contexts
  MaxImages,  \* images a process loads
  Nobody

VARIABLES
  module,     \* "enumerate", "fill", "register", "on", "finit", "off"
  alive,      \* the processes there are
  loaded,     \* images each has loaded
  notify,     \* where the notify routine of each process is, or "none"
  holds,      \* the context it holds, if any
  table,      \* _processTable
  context,    \* contexts: whose, references, images in the DLL list
  client,     \* "off", "listing", "on"
  todo,       \* contexts the client's snapshot, or the filling, still holds
  view,       \* what the client was told: processes, and images of each
  missed,     \* history: processes the table or the client cannot know
  twice       \* history: image loads that met a snapshot

vars == <<module, alive, loaded, notify, holds, table, context, client, todo,
          view, missed, twice>>

Freed == [process |-> Nobody, refs |-> 0, images |-> 0]
NoView == [processes |-> {}, images |-> [p \in Processes |-> 0]]

Init ==
  /\ module = "enumerate"
  /\ alive \in SUBSET Processes
  /\ loaded = [p \in Processes |-> 0]
  /\ notify = [p \in Processes |-> "none"]
  /\ holds = [p \in Processes |-> Nobody]
  /\ table = [p \in Processes |-> Nobody]
  /\ context = [x \in Places |-> Freed]
  /\ client = "off" /\ todo = {} /\ view = NoView
  /\ missed = {} /\ twice = {}

-----------------------------------------------------------------------------
(* The table.                                                               *)

\* PsContextDereference.
Dereference(c, x) == IF c[x].refs = 1 THEN [c EXCEPT ![x] = Freed]
                                      ELSE [c EXCEPT ![x].refs = @ - 1]

\* PsTableInsert: the context is freed again if the table has one of the
\* process, or no memory for its entry.
PsTableInsert(p) ==
  \/ \E x \in Places :
       /\ context[x] = Freed /\ table[p] = Nobody
       /\ table' = [table EXCEPT ![p] = x]
       /\ context' = [context EXCEPT ![x] = [process |-> p, refs |-> 1, images |-> 0]]
       /\ UNCHANGED missed
  \/ missed' = missed \cup {p} /\ UNCHANGED <<table, context>>

\* Mutant: the reference of the table is forgotten.
PsTableDeleteKept(p) ==
  table' = [table EXCEPT ![p] = Nobody] /\ UNCHANGED context

\* PsTableDeleteNoReturn.
PsTableDelete(p) ==
  /\ table' = [table EXCEPT ![p] = Nobody]
  /\ context' = IF table[p] = Nobody THEN context ELSE Dereference(context, table[p])

\* PsTableGet.
PsTableGet(p) ==
  /\ holds' = [holds EXCEPT ![p] = table[p]]
  /\ context' = IF table[p] = Nobody THEN context
                ELSE [context EXCEPT ![table[p]].refs = @ + 1]

\* PsTableEnum: every context, referenced, under the table's lock.
Enumerated == {table[p] : p \in Processes} \ {Nobody}
PsTableEnum ==
  /\ todo' = Enumerated
  /\ context' = [x \in Places |-> IF x \in Enumerated
                   THEN [context[x] EXCEPT !.refs = @ + 1] ELSE context[x]]

\* PsTableFinit.
PsTableFinit ==
  /\ table' = [p \in Processes |-> Nobody]
  /\ context' = [x \in Places |->
       IF \E p \in Processes : table[p] = x THEN Dereference(context, x)[x] ELSE context[x]]

-----------------------------------------------------------------------------
(* ProcessEventsModuleInit: the processes there are, then the notify        *)
(* routine.  Those that start or end in between it does not see.            *)

FillProcessTable ==
  /\ module = "enumerate"
  /\ todo' = alive /\ module' = "fill"
  /\ UNCHANGED <<alive, loaded, notify, holds, table, context, client, view, missed, twice>>
FillOne(p) ==
  /\ module = "fill" /\ p \in todo
  /\ \/ PsTableInsert(p)
     \/ missed' = missed \cup {p} /\ UNCHANGED <<table, context>>
  /\ todo' = todo \ {p}
  /\ UNCHANGED <<module, alive, loaded, notify, holds, client, view, twice>>
Register ==
  /\ module = "fill" /\ todo = {}
  /\ module' = "on"
  /\ UNCHANGED <<alive, loaded, notify, holds, table, context, client, todo, view, missed, twice>>

\* ProcessEventsModuleFinit: no routine runs when it was removed, and the
\* clients are gone.
Finit ==
  /\ module = "on" /\ client = "off"
  /\ \A p \in Processes : notify[p] = "none"
  /\ PsTableFinit
  /\ module' = "off"
  /\ UNCHANGED <<alive, loaded, notify, holds, client, todo, view, missed, twice>>

-----------------------------------------------------------------------------
(* _ProcessNotifyEx and _ImageNotify.  The client is told of an event if it *)
(* is connected when the event is inserted and there was memory for it.     *)

Told(p, seen) ==
  /\ view' = IF client = "on" THEN seen ELSE view
  /\ missed' = IF client = "listing" THEN missed \cup {p} ELSE missed
NoMemory(p) == view' = view /\ missed' = missed \cup {p}

\* The system creates a process: nobody is notified before the registration.
\* A creation whose event finds no memory does not reach the table either.
Start(p) ==
  /\ p \notin alive /\ notify[p] = "none"
  /\ alive' = alive \cup {p}
  /\ loaded' = [loaded EXCEPT ![p] = 0]
  /\ notify' = [notify EXCEPT ![p] = IF module = "on" THEN "created" ELSE "none"]
  /\ missed' = IF module \in {"enumerate", "on"} THEN missed ELSE missed \cup {p}
  /\ twice' = twice \ {p}
  /\ UNCHANGED <<module, holds, table, context, client, todo, view>>
CreatedEvent(p) ==
  /\ notify[p] = "created"
  /\ \/ /\ Told(p, [processes |-> view.processes \cup {p},
                    images |-> [view.images EXCEPT ![p] = 0]])
        /\ notify' = [notify EXCEPT ![p] = "insert"]
     \/ NoMemory(p) /\ notify' = [notify EXCEPT ![p] = "none"]
  /\ UNCHANGED <<module, alive, loaded, holds, table, context, client, todo, twice>>
\* A client that connects in between was told nothing, and finds nothing.
CreatedInsert(p) ==
  /\ notify[p] = "insert"
  /\ PsTableInsert(p)
  /\ notify' = [notify EXCEPT ![p] = "none"]
  /\ UNCHANGED <<module, alive, loaded, holds, client, todo, view, twice>>

End(p) ==
  /\ p \in alive /\ notify[p] = "none"
  /\ alive' = alive \ {p}
  /\ notify' = [notify EXCEPT ![p] = IF module = "on" THEN "exited" ELSE "none"]
  /\ missed' = IF module \in {"enumerate", "on"} THEN missed ELSE missed \cup {p}
  /\ UNCHANGED <<module, loaded, holds, table, context, client, todo, view, twice>>
ExitedEvent(p) ==
  /\ notify[p] = "exited"
  /\ Told(p, [view EXCEPT !.processes = @ \ {p}]) \/ NoMemory(p)
  /\ notify' = [notify EXCEPT ![p] = "delete"]
  /\ UNCHANGED <<module, alive, loaded, holds, table, context, client, todo, twice>>
ExitedDelete(p) ==
  /\ notify[p] = "delete"
  /\ PsTableDelete(p)
  /\ notify' = [notify EXCEPT ![p] = "none"]
  /\ UNCHANGED <<module, alive, loaded, holds, client, todo, view, missed, twice>>

\* RecordImageLoad: the context is looked up, the image added to its list.
Load(p) ==
  /\ module = "on" /\ p \in alive /\ notify[p] = "none" /\ loaded[p] < MaxImages
  /\ view.images[p] < 2 * MaxImages
  /\ \A x \in Places : context[x].images < 2 * MaxImages
  /\ loaded' = [loaded EXCEPT ![p] = @ + 1]
  /\ PsTableGet(p)
  /\ notify' = [notify EXCEPT ![p] = "record"]
  /\ UNCHANGED <<module, alive, table, client, todo, view, missed, twice>>
Record(p) ==
  /\ notify[p] = "record"
  /\ \/ /\ holds[p] # Nobody
        /\ context' = [context EXCEPT ![holds[p]].images = @ + 1]
        /\ UNCHANGED missed
     \/ missed' = missed \cup {p} /\ UNCHANGED context
  /\ notify' = [notify EXCEPT ![p] = "release"]
  /\ UNCHANGED <<module, alive, loaded, holds, table, client, todo, view, twice>>
Release(p) ==
  /\ notify[p] = "release"
  /\ context' = IF holds[p] = Nobody THEN context ELSE Dereference(context, holds[p])
  /\ holds' = [holds EXCEPT ![p] = Nobody]
  /\ notify' = [notify EXCEPT ![p] = "image"]
  /\ UNCHANGED <<module, alive, loaded, table, client, todo, view, missed, twice>>
ImageEvent(p) ==
  /\ notify[p] = "image"
  /\ Told(p, [view EXCEPT !.images[p] = @ + 1]) \/ NoMemory(p)
  /\ notify' = [notify EXCEPT ![p] = "none"]
  /\ UNCHANGED <<module, alive, loaded, holds, table, context, client, todo, twice>>

-----------------------------------------------------------------------------
(* RequestQueueConnect and ListProcessesByEvents.                           *)

\* Whose notification is under way, the client may hear of twice or not at all.
UnderWay == {p \in Processes : notify[p] # "none"}
Connect ==
  /\ module = "on" /\ client = "off"
  /\ PsTableEnum
  /\ client' = "listing" /\ view' = NoView
  /\ missed' = missed \cup {p \in UnderWay : notify[p] \in {"insert", "delete"}}
  /\ twice' = twice \cup UnderWay
  /\ UNCHANGED <<module, alive, loaded, notify, holds, table>>

\* One context: the process and its images, under the lock of its DLL list.
List(x) ==
  /\ client = "listing" /\ x \in todo
  /\ LET p == context[x].process IN
     view' = [processes |-> view.processes \cup {p},
              images |-> [view.images EXCEPT ![p] = context[x].images]]
  /\ context' = Dereference(context, x)
  /\ twice' = twice \cup (UnderWay \cap {context[x].process})
  /\ todo' = todo \ {x}
  /\ UNCHANGED <<module, alive, loaded, notify, holds, table, client, missed>>
\* An image that finds no memory is left out if another one follows.
ListLess(x) ==
  /\ client = "listing" /\ x \in todo /\ context[x].images > 1
  /\ LET p == context[x].process IN
     /\ view' = [processes |-> view.processes \cup {p},
                 images |-> [view.images EXCEPT ![p] = context[x].images - 1]]
     /\ missed' = missed \cup {p}
  /\ context' = Dereference(context, x)
  /\ todo' = todo \ {x}
  /\ UNCHANGED <<module, alive, loaded, notify, holds, table, client, twice>>
\* No memory: the rest is only dereferenced, and the connect fails.
ListFail ==
  /\ client = "listing" /\ todo # {}
  /\ client' = "failing"
  /\ UNCHANGED <<module, alive, loaded, notify, holds, table, context, todo, view, missed, twice>>
ListDrop(x) ==
  /\ client = "failing" /\ x \in todo
  /\ context' = Dereference(context, x)
  /\ todo' = todo \ {x}
  /\ UNCHANGED <<module, alive, loaded, notify, holds, table, client, view, missed, twice>>
Listed ==
  /\ client \in {"listing", "failing"} /\ todo = {}
  /\ client' = IF client = "listing" THEN "on" ELSE "off"
  /\ UNCHANGED <<module, alive, loaded, notify, holds, table, context, todo, view, missed, twice>>
Disconnect ==
  /\ client = "on"
  /\ client' = "off" /\ view' = NoView
  /\ UNCHANGED <<module, alive, loaded, notify, holds, table, context, todo, missed, twice>>

Next ==
  \/ FillProcessTable \/ Register \/ Finit
  \/ Connect \/ ListFail \/ Listed \/ Disconnect
  \/ \E p \in Processes :
       \/ FillOne(p) \/ Start(p) \/ CreatedEvent(p) \/ CreatedInsert(p)
       \/ End(p) \/ ExitedEvent(p) \/ ExitedDelete(p)
       \/ Load(p) \/ Record(p) \/ Release(p) \/ ImageEvent(p)
  \/ \E x \in Places : List(x) \/ ListLess(x) \/ ListDrop(x)
Spec == Init /\ [][Next]_vars

-----------------------------------------------------------------------------
\* A context is referenced by the table, by who looked it up and by a listing.
ContextRefsExact ==
  \A x \in Places :
    context[x].refs =
      Cardinality({p \in Processes : table[p] = x})
        + Cardinality({p \in Processes : holds[p] = x})
        + (IF module = "on" /\ x \in todo THEN 1 ELSE 0)

\* Between notifications the table has the processes there are, and a
\* connected client knows them and has heard of every image: once, if the
\* image did not meet the listing.
TableComplete(p) == p \notin missed => (table[p] # Nobody <=> p \in alive)
ViewComplete(p) ==
  p \notin missed =>
    /\ p \in view.processes <=> p \in alive
    /\ p \in alive => /\ view.images[p] >= loaded[p]
                      /\ p \notin twice => view.images[p] = loaded[p]

ProcessesKnown ==
  /\ ContextRefsExact
  /\ \A p \in Processes :
       /\ module = "on" /\ notify[p] = "none" => TableComplete(p)
       /\ client = "on" /\ notify[p] = "none" => ViewComplete(p)
  /\ module = "off" => \A x \in Places : context[x] = Freed
=============================================================================
