---------------------------- MODULE FileContexts ----------------------------
(***************************************************************************)
(* Who opened a file: the contexts of file objects (fo-context-table.c) as *)
(* the hook handlers keep them (HookHandlerIRPDispatch, its completion      *)
(* routine, _CreateFastIoRequest; hook-handlers.c).  An opened file object  *)
(* gets its opener's client information, the requests on it take it, and    *)
(* the clean-up removes it, if these requests are caught.                   *)
(***************************************************************************)
EXTENDS Integers, FiniteSets

CONSTANTS
  FileObjects,  \* addresses of file objects, used again when a file closed
  Requests,     \* requests on their way through the hook handlers
  Clients,      \* who opens files
  Places,       \* places in memory for contexts
  Nobody

VARIABLES
  loaded,   \* the module is initialised
  file,     \* the file object at an address: its opener, and its state:
            \* "none", "opening", "open", "cleaned"
  table,    \* _foTable: the context of a file object, or Nobody
  context,  \* contexts: the opener they tell, references, a name is set
  req,      \* requests: where, kind, file, caught, client information,
            \* the context held, the outcome
  stale,    \* history: addresses whose context outlived its file
  unknown   \* history: files whose opening was not caught, or had no memory

vars == <<loaded, file, table, context, req, stale, unknown>>

\* Nothing is called Nobody.
FileAssumption ==
  /\ IsFiniteSet(FileObjects) /\ IsFiniteSet(Requests)
  /\ Nobody \notin FileObjects \cup Clients \cup Places

Freed == [opener |-> Nobody, refs |-> 0, named |-> FALSE]
NoFile == [opener |-> Nobody, state |-> "none"]
NoRequest == [at |-> "none", kind |-> "none", file |-> Nobody, caught |-> FALSE,
              client |-> Nobody, holds |-> Nobody, success |-> FALSE]

Init ==
  /\ loaded = TRUE
  /\ file = [f \in FileObjects |-> NoFile]
  /\ table = [f \in FileObjects |-> Nobody]
  /\ context = [x \in Places |-> Freed]
  /\ req = [r \in Requests |-> NoRequest]
  /\ stale = {} /\ unknown = {}

-----------------------------------------------------------------------------
(* The table.                                                               *)

\* FoContextDereference.
Dereference(c, x) == IF c[x].refs = 1 THEN [c EXCEPT ![x] = Freed]
                                      ELSE [c EXCEPT ![x].refs = @ - 1]

\* FoTableInsert: a file object that has a context keeps it.
FoTableInsert(f, client) ==
  \/ /\ table[f] # Nobody
     /\ UNCHANGED <<table, context, unknown>>
  \/ \E x \in Places :
       /\ context[x] = Freed /\ table[f] = Nobody
       /\ table' = [table EXCEPT ![f] = x]
       /\ context' = [context EXCEPT ![x] = [opener |-> client, refs |-> 1, named |-> FALSE]]
       /\ UNCHANGED unknown
  \/ unknown' = unknown \cup {f} /\ UNCHANGED <<table, context>>

\* Mutant: the context is used without a reference.
FoTableGetBare(r, f) ==
  /\ req' = [req EXCEPT ![r].holds = table[f], ![r].at = "info"]
  /\ UNCHANGED context

\* FoTableGet.
FoTableGet(r, f) ==
  /\ req' = [req EXCEPT ![r].holds = table[f], ![r].at = "info"]
  /\ context' = IF table[f] = Nobody THEN context
                ELSE [context EXCEPT ![table[f]].refs = @ + 1]

\* FoTableDeleteNoReturn.
FoTableDelete(f) ==
  /\ table' = [table EXCEPT ![f] = Nobody]
  /\ context' = IF table[f] = Nobody THEN context ELSE Dereference(context, table[f])

-----------------------------------------------------------------------------
(* Opening.                                                                 *)

\* A context that is still there at the address is that of an earlier file.
Create(r, f, c, caught) ==
  /\ loaded /\ req[r].at = "none" /\ file[f].state = "none"
  /\ file' = [file EXCEPT ![f] = [opener |-> c, state |-> "opening"]]
  /\ req' = [req EXCEPT ![r] = [NoRequest EXCEPT !.at = "original", !.kind = "create",
               !.file = f, !.caught = caught, !.client = IF caught THEN c ELSE Nobody]]
  /\ stale' = IF table[f] = Nobody THEN stale \ {f} ELSE stale \cup {f}
  /\ unknown' = IF caught THEN unknown \ {f} ELSE unknown \cup {f}
  /\ UNCHANGED <<loaded, table, context>>

\* The original routine completes the request, now or after STATUS_PENDING.
\* The completion routine runs if one was set; without it nobody hears of an
\* opening that was pending.
Original(r, outcome, routine) ==
  /\ req[r].at = "original" /\ req[r].kind = "create"
  /\ routine => req[r].caught
  /\ req' = [req EXCEPT ![r].success = (outcome # "failed"),
       ![r].at = IF routine /\ outcome # "failed" THEN
                   (IF outcome = "pending" THEN "late" ELSE "completion")
                 ELSE IF outcome = "success" /\ req[r].caught THEN "returned"
                 ELSE "end"]
  /\ unknown' = IF outcome = "pending" /\ ~routine
                THEN unknown \cup {req[r].file} ELSE unknown
  /\ UNCHANGED <<loaded, file, table, context, stale>>

\* _HookHandlerIRPCompletion of a successful opening; a request that was not
\* pending returns to HookHandlerIRPDispatch afterwards.
Completion(r) ==
  /\ req[r].at \in {"late", "completion"}
  /\ FoTableInsert(req[r].file, req[r].client)
  /\ req' = [req EXCEPT ![r].at = IF @ = "late" THEN "end" ELSE "returned"]
  /\ UNCHANGED <<loaded, file, stale>>

\* HookHandlerIRPDispatch after the original routine; a new context gets the
\* file's name.  With a name neither before nor after the opening nothing is
\* inserted.
Returned(r) ==
  /\ req[r].at = "returned"
  /\ LET f == req[r].file IN
     \/ /\ FoTableInsert(f, req[r].client)
        /\ req' = [req EXCEPT ![r].at = IF table'[f] # table[f] THEN "name" ELSE "end"]
     \/ /\ unknown' = IF table[f] = Nobody THEN unknown \cup {f} ELSE unknown
        /\ req' = [req EXCEPT ![r].at = "end"]
        /\ UNCHANGED <<table, context>>
  /\ UNCHANGED <<loaded, file, stale>>

\* FoTableGet of the context it has just inserted, FoContextSetFileName.
Name(r) ==
  /\ req[r].at = "name"
  /\ context' = [context EXCEPT ![table[req[r].file]].named = TRUE]
  /\ req' = [req EXCEPT ![r].at = "end"]
  /\ UNCHANGED <<loaded, file, table, stale, unknown>>

Opened(r) ==
  /\ req[r].at = "end" /\ req[r].kind = "create"
  /\ file' = [file EXCEPT ![req[r].file] =
                IF req[r].success THEN [@ EXCEPT !.state = "open"] ELSE NoFile]
  /\ req' = [req EXCEPT ![r] = NoRequest]
  /\ UNCHANGED <<loaded, table, context, stale, unknown>>

-----------------------------------------------------------------------------
(* Requests on an open file, its clean-up, its closing.  A file that was    *)
(* cleaned up still has requests: paged reads and writes.                   *)

Arrive(r, f, kind, caught) ==
  /\ loaded /\ req[r].at = "none"
  /\ \/ kind = "request" /\ file[f].state \in {"open", "cleaned"} /\ file' = file
     \/ /\ kind = "cleanup" /\ file[f].state = "open"
        /\ file' = [file EXCEPT ![f].state = "cleaned"]
  /\ req' = [req EXCEPT ![r] = [NoRequest EXCEPT !.kind = kind, !.file = f,
               !.caught = caught, !.at = IF caught THEN "get" ELSE "end"]]
  /\ UNCHANGED <<loaded, table, context, stale, unknown>>

Get(r) ==
  /\ req[r].at = "get"
  /\ FoTableGet(r, req[r].file)
  /\ UNCHANGED <<loaded, file, table, stale, unknown>>

\* The client information is copied and the context dropped.
Info(r) ==
  /\ req[r].at = "info"
  /\ LET x == req[r].holds IN
     /\ req' = [req EXCEPT ![r].client = IF x = Nobody THEN Nobody ELSE context[x].opener,
                  ![r].holds = Nobody,
                  ![r].at = IF req[r].kind = "cleanup" THEN "delete" ELSE "end"]
     /\ context' = IF x = Nobody THEN context ELSE Dereference(context, x)
  /\ UNCHANGED <<loaded, file, table, stale, unknown>>

Cleanup(r) ==
  /\ req[r].at = "delete"
  /\ FoTableDelete(req[r].file)
  /\ req' = [req EXCEPT ![r].at = "end"]
  /\ UNCHANGED <<loaded, file, stale, unknown>>

Done(r) ==
  /\ req[r].at = "end" /\ req[r].kind # "create"
  /\ req' = [req EXCEPT ![r] = NoRequest]
  /\ UNCHANGED <<loaded, file, table, context, stale, unknown>>

\* The last reference to a file object goes with its last request.
Close(f) ==
  /\ file[f].state = "cleaned" /\ \A r \in Requests : req[r].file # f
  /\ file' = [file EXCEPT ![f] = NoFile]
  /\ UNCHANGED <<loaded, table, context, req, stale, unknown>>

\* HookHandlerModuleFinit: the handlers are through, FoTableFinit drops all.
Finit ==
  /\ loaded /\ \A r \in Requests : req[r].at = "none"
  /\ loaded' = FALSE
  /\ table' = [f \in FileObjects |-> Nobody]
  /\ context' = [x \in Places |->
       IF \E f \in FileObjects : table[f] = x THEN Dereference(context, x)[x] ELSE context[x]]
  /\ UNCHANGED <<file, req, stale, unknown>>

Next ==
  \/ \E r \in Requests :
       \/ Completion(r) \/ Returned(r) \/ Name(r) \/ Opened(r)
       \/ Get(r) \/ Info(r) \/ Cleanup(r) \/ Done(r)
       \/ \E o \in {"success", "pending", "failed"}, x \in BOOLEAN : Original(r, o, x)
       \/ \E f \in FileObjects, caught \in BOOLEAN :
            \/ \E c \in Clients : Create(r, f, c, caught)
            \/ \E k \in {"request", "cleanup"} : Arrive(r, f, k, caught)
  \/ \E f \in FileObjects : Close(f)
  \/ Finit
Spec == Init /\ [][Next]_vars

-----------------------------------------------------------------------------
\* Table and requests hold all the references there are; a request tells of
\* nobody but the opener of its file, unless the context of an earlier file
\* outlived that file, and knows him while the file is open, if its opening
\* was caught; nothing is left after the unload.
ContextsSound ==
  /\ \A x \in Places :
       context[x].refs = Cardinality({f \in FileObjects : table[f] = x})
                           + Cardinality({r \in Requests : req[r].holds = x})
  /\ \A r \in Requests :
       req[r].caught /\ req[r].at = "end" /\ req[r].file \notin stale =>
         /\ req[r].client \in {Nobody, file[req[r].file].opener}
         /\ file[req[r].file].state = "open" /\ req[r].file \notin unknown
              => req[r].client # Nobody
  /\ ~loaded => \A x \in Places : context[x] = Freed
=============================================================================
