---------------------------- MODULE IrpCompletion ---------------------------
(***************************************************************************)
(* How one IRP that reaches a hooked driver is reported (hook-handlers.c): *)
(* HookHandlerIRPDisptach passes it to the original handler and inserts a  *)
(* request record, _HookHandlerIRPCompletion runs when the IRP is          *)
(* completed, on any processor, before or after the original handler has   *)
(* returned, and prepares a completion record.  A context they share       *)
(* counts them; the last one inserts the completion record.  The rundown   *)
(* lock keeps the module loaded until every completion routine returned.   *)
(* The records about file objects that creates and cleanups add, and the   *)
(* table of file objects, are FileObjects'.                                *)
(*                                                                         *)
(* "Faulted" is a thread that has followed a null or dangling pointer.     *)
(***************************************************************************)
EXTENDS Integers, Sequences, FiniteSets, SequencesExt

CONSTANTS
  Irps,            \* the IRPs, each handled once
  RequestKinds,    \* subset of BOOLEAN: whether a request record is made
  ContextKinds,    \* subset of BOOLEAN: whether the context can be allocated
  CompletionKinds  \* subset of BOOLEAN: whether a completion record is made

ASSUME CompletionAssumption ==
  /\ IsFiniteSet(Irps)
  /\ RequestKinds \subseteq BOOLEAN /\ RequestKinds # {}
  /\ ContextKinds \subseteq BOOLEAN /\ ContextKinds # {}
  /\ CompletionKinds \subseteq BOOLEAN /\ CompletionKinds # {}

VARIABLES
  handler,     \* where HookHandlerIRPDisptach is, for each IRP
  completion,  \* where _HookHandlerIRPCompletion is, for each IRP
  request,     \* the request record: "none" "live" "queued"
  answer,      \* the completion record: "none" "live" "queued"
  context,     \* the IRP_COMPLETION_CONTEXT: "none" "live" "freed"
  refs,        \* its ReferenceCount
  rundown,     \* _rundownLock.IoCount
  unload,      \* HookHandlerModuleFinit: "no" "waiting" "done"
  queue        \* what RequestQueueInsert was given, in order

vars == <<handler, completion, request, answer, context, refs, rundown, unload,
          queue>>

Record(kind, i) == [kind |-> kind, irp |-> i]

Insert(kind, i) == queue' = Append(queue, Record(kind, i))

At(pc, i, l) == pc' = [pc EXCEPT ![i] = l]

Init ==
  /\ handler = [i \in Irps |-> "idle"]
  /\ completion = [i \in Irps |-> "none"]
  /\ request = [i \in Irps |-> "none"]
  /\ answer = [i \in Irps |-> "none"]
  /\ context = [i \in Irps |-> "none"]
  /\ refs = [i \in Irps |-> 0]
  /\ rundown = 2
  /\ unload = "no"
  /\ queue = <<>>

-----------------------------------------------------------------------------
(* HookHandlerIRPDisptach.                                                 *)

\* The request record is made unless MonitorIRP is off or memory is short.
HandlerBegin(i) ==
  /\ handler[i] = "idle"
  /\ \E made \in RequestKinds :
       request' = [request EXCEPT ![i] = IF made THEN "live" ELSE "none"]
  /\ At(handler, i, "hook")
  /\ UNCHANGED <<completion, answer, context, refs, rundown, unload, queue>>

\* Mutant: the rundown lock is not taken.
HandlerHookNoLock(i) ==
  /\ handler[i] = "hook"
  /\ unload = "no"
  /\ \E made \in ContextKinds :
       /\ context' = [context EXCEPT ![i] = IF made THEN "live" ELSE "none"]
       /\ refs' = [refs EXCEPT ![i] = IF made THEN 1 ELSE 0]
       /\ At(handler, i, IF made THEN "refer" ELSE "call")
  /\ UNCHANGED <<completion, request, answer, rundown, unload, queue>>

\* Mutant: without a context the rundown lock is kept.
HandlerHookKeepsLock(i) ==
  /\ handler[i] = "hook"
  /\ unload = "no"
  /\ \E made \in ContextKinds :
       /\ context' = [context EXCEPT ![i] = IF made THEN "live" ELSE "none"]
       /\ refs' = [refs EXCEPT ![i] = IF made THEN 1 ELSE 0]
       /\ At(handler, i, IF made THEN "refer" ELSE "call")
  /\ rundown' = rundown + 1
  /\ UNCHANGED <<completion, request, answer, unload, queue>>

\* _HookIRPCompletionRoutine: the rundown lock is taken for the completion
\* routine, and given back if there is no memory for the context.
HandlerHook(i) ==
  /\ handler[i] = "hook"
  /\ unload = "no"
  /\ \E made \in ContextKinds :
       IF made
         THEN /\ context' = [context EXCEPT ![i] = "live"]
              /\ refs' = [refs EXCEPT ![i] = 1]
              /\ rundown' = rundown + 1
              /\ At(handler, i, "refer")
         ELSE /\ At(handler, i, "call")
              /\ UNCHANGED <<context, refs, rundown>>
  /\ UNCHANGED <<completion, request, answer, unload, queue>>

\* The rundown lock is no longer to be had: the IRP is passed on unhooked.
HandlerHookRefused(i) ==
  /\ handler[i] = "hook"
  /\ unload # "no"
  /\ At(handler, i, "call")
  /\ UNCHANGED <<completion, request, answer, context, refs, rundown, unload,
                 queue>>

\* Mutant: the handler never counts itself in.
HandlerReferNot(i) ==
  /\ handler[i] = "refer"
  /\ At(handler, i, "call")
  /\ UNCHANGED <<completion, request, answer, context, refs, rundown, unload,
                 queue>>

\* Only a handler that has a request record counts itself in.
HandlerRefer(i) ==
  /\ handler[i] = "refer"
  /\ refs' = [refs EXCEPT ![i] = IF request[i] = "live" THEN @ + 1 ELSE @]
  /\ At(handler, i, "call")
  /\ UNCHANGED <<completion, request, answer, context, rundown, unload, queue>>

\* The original handler is called; from now on the IRP can be completed.
HandlerCall(i) ==
  /\ handler[i] = "call"
  /\ At(handler, i, "inside")
  /\ UNCHANGED <<completion, request, answer, context, refs, rundown, unload,
                 queue>>

\* It returns and the request record, with its status, is inserted.
HandlerReport(i) ==
  /\ handler[i] = "inside"
  /\ IF request[i] = "live"
       THEN /\ Insert("irp", i)
            /\ request' = [request EXCEPT ![i] = "queued"]
       ELSE UNCHANGED <<queue, request>>
  /\ At(handler, i, IF context[i] = "none" THEN "done" ELSE "release")
  /\ UNCHANGED <<completion, answer, context, refs, rundown, unload>>

\* Mutant: the handler inserts what the completion routine will insert.
HandlerReleaseInserts(i) ==
  /\ handler[i] = "release"
  /\ context[i] = "live"
  /\ refs' = [refs EXCEPT ![i] = @ - 1]
  /\ IF answer[i] # "none" THEN Insert("completion", i) ELSE UNCHANGED queue
  /\ At(handler, i, IF refs[i] = 1 THEN "last" ELSE "done")
  /\ UNCHANGED <<completion, request, answer, context, rundown, unload>>

\* InterlockedDecrement(&compContext->ReferenceCount), whoever is counted.
HandlerRelease(i) ==
  /\ handler[i] = "release"
  /\ context[i] = "live"
  /\ refs' = [refs EXCEPT ![i] = @ - 1]
  /\ At(handler, i, IF refs[i] = 1 THEN "last" ELSE "done")
  /\ UNCHANGED <<completion, request, answer, context, rundown, unload, queue>>

\* The last one inserts compContext->CompRequest and frees the context.
HandlerLast(i) ==
  /\ handler[i] = "last"
  /\ answer[i] = "live"
  /\ Insert("completion", i)
  /\ answer' = [answer EXCEPT ![i] = "queued"]
  /\ context' = [context EXCEPT ![i] = "freed"]
  /\ At(handler, i, "done")
  /\ UNCHANGED <<completion, request, refs, rundown, unload>>

HandlerFault(i) ==
  /\ \/ handler[i] = "release" /\ context[i] = "freed"
     \/ handler[i] = "last" /\ answer[i] = "none"
  /\ At(handler, i, "faulted")
  /\ UNCHANGED <<completion, request, answer, context, refs, rundown, unload,
                 queue>>

-----------------------------------------------------------------------------
(* _HookHandlerIRPCompletion, called by whoever completes the IRP.         *)

CompletionBegin(i) ==
  /\ handler[i] \notin {"idle", "hook", "refer", "call"}
  /\ context[i] # "none"
  /\ completion[i] = "none"
  /\ At(completion, i, "record")
  /\ UNCHANGED <<handler, request, answer, context, refs, rundown, unload, queue>>

\* Mutant: the record is not attached, the routine inserts it itself.
CompletionRecordAtOnce(i) ==
  /\ completion[i] = "record"
  /\ answer' = [answer EXCEPT ![i] = "queued"]
  /\ Insert("completion", i)
  /\ At(completion, i, "release")
  /\ UNCHANGED <<handler, request, context, refs, rundown, unload>>

\* The completion record, if there is memory for it, is attached to the
\* context; then the original completion routine is called.
CompletionRecord(i) ==
  /\ completion[i] = "record"
  /\ \E made \in CompletionKinds :
       answer' = [answer EXCEPT ![i] = IF made THEN "live" ELSE "none"]
  /\ At(completion, i, "release")
  /\ UNCHANGED <<handler, request, context, refs, rundown, unload, queue>>

\* Mutant: the routine forgets to insert the record.
CompletionReleaseSilently(i) ==
  /\ completion[i] = "release"
  /\ context[i] = "live"
  /\ refs' = [refs EXCEPT ![i] = @ - 1]
  /\ context' = [context EXCEPT ![i] = IF refs[i] = 1 THEN "freed" ELSE @]
  /\ At(completion, i, "leave")
  /\ UNCHANGED <<handler, request, answer, rundown, unload, queue>>

CompletionRelease(i) ==
  /\ completion[i] = "release"
  /\ context[i] = "live"
  /\ refs' = [refs EXCEPT ![i] = @ - 1]
  /\ context' = [context EXCEPT ![i] = IF refs[i] = 1 THEN "freed" ELSE @]
  /\ At(completion, i, IF refs[i] = 1 /\ answer[i] = "live" THEN "insert" ELSE "leave")
  /\ UNCHANGED <<handler, request, answer, rundown, unload, queue>>

\* Mutant: the rundown lock is given back before the record is inserted.
CompletionInsertLate(i) ==
  /\ completion[i] = "insert"
  /\ rundown' = rundown - 1
  /\ Insert("completion", i)
  /\ answer' = [answer EXCEPT ![i] = "queued"]
  /\ At(completion, i, "leave")
  /\ UNCHANGED <<handler, request, context, refs, unload>>

CompletionInsert(i) ==
  /\ completion[i] = "insert"
  /\ Insert("completion", i)
  /\ answer' = [answer EXCEPT ![i] = "queued"]
  /\ At(completion, i, "leave")
  /\ UNCHANGED <<handler, request, context, refs, rundown, unload>>

CompletionLeave(i) ==
  /\ completion[i] = "leave"
  /\ rundown' = rundown - 1
  /\ At(completion, i, "done")
  /\ UNCHANGED <<handler, request, answer, context, refs, unload, queue>>

\* The context was freed under the routine's hands.
CompletionFault(i) ==
  /\ completion[i] = "release"
  /\ context[i] = "freed"
  /\ At(completion, i, "faulted")
  /\ UNCHANGED <<handler, request, answer, context, refs, rundown, unload, queue>>

-----------------------------------------------------------------------------
(* HookHandlerModuleFinit: IoReleaseRemoveLockAndWait.                     *)

UnloadBegin ==
  /\ unload = "no"
  /\ unload' = "waiting"
  /\ rundown' = rundown - 2
  /\ UNCHANGED <<handler, completion, request, answer, context, refs, queue>>

UnloadEnd ==
  /\ unload = "waiting"
  /\ rundown = 0
  /\ unload' = "done"
  /\ UNCHANGED <<handler, completion, request, answer, context, refs, rundown,
                 queue>>

HandlerStep(i) ==
  \/ HandlerHook(i) \/ HandlerHookRefused(i) \/ HandlerRefer(i) \/ HandlerCall(i)
  \/ HandlerReport(i) \/ HandlerRelease(i) \/ HandlerLast(i) \/ HandlerFault(i)

CompletionStep(i) ==
  \/ CompletionRecord(i) \/ CompletionRelease(i) \/ CompletionInsert(i)
  \/ CompletionLeave(i) \/ CompletionFault(i)

Next ==
  \/ \E i \in Irps : HandlerBegin(i) \/ HandlerStep(i)
                     \/ CompletionBegin(i) \/ CompletionStep(i)
  \/ UnloadBegin \/ UnloadEnd

Spec == Init /\ [][Next]_vars

(* The threads of the handlers and of the completion routines run on, and  *)
(* the unloading thread wakes up.  That an IRP is completed at all is up   *)
(* to the driver that got it: each one that returns completes its IRP.     *)
Fairness ==
  /\ \A i \in Irps : /\ WF_vars(HandlerStep(i)) /\ WF_vars(CompletionStep(i))
                     /\ WF_vars(CompletionBegin(i))
  /\ WF_vars(UnloadEnd)

FairSpec == Spec /\ Fairness

-----------------------------------------------------------------------------
TypeOK ==
  /\ handler \in [Irps -> {"idle", "hook", "refer", "call", "inside", "release",
                           "last", "done", "faulted"}]
  /\ completion \in [Irps -> {"none", "record", "release", "insert", "leave",
                              "done", "faulted"}]
  /\ request \in [Irps -> {"none", "live", "queued"}]
  /\ answer \in [Irps -> {"none", "live", "queued"}]
  /\ context \in [Irps -> {"none", "live", "freed"}]
  /\ refs \in [Irps -> Int]
  /\ rundown \in Nat
  /\ unload \in {"no", "waiting", "done"}
  /\ queue \in Seq([kind : {"irp", "completion"}, irp : Irps])

Reported(kind, i) == Record(kind, i) \in ToSet(queue)

\* Neither of the IRP's two records is missing for want of memory or because
\* it is not monitored.
BothMade(i) ==
  request[i] # "none" /\ (completion[i] \in {"none", "record"} \/ answer[i] # "none")

Faulted(i) == handler[i] = "faulted" \/ completion[i] = "faulted"

\* When both records are made, neither thread of an IRP touches the context
\* after the other one has freed it, and none finds CompRequest missing when it
\* is left to insert it.
ContextOutlivesUse == \A i \in Irps : BothMade(i) => ~Faulted(i)

\* A reader of the queue learns of the IRP before it learns of its completion,
\* although the completion may run first.
CompletionAfterRequest ==
  \A k \in 1..Len(queue) :
    queue[k].kind = "completion" =>
      \/ request[queue[k].irp] = "none"
      \/ \E j \in 1..(k - 1) : queue[j] = Record("irp", queue[k].irp)

\* Each of an IRP's records is inserted once.
ReportedOnce ==
  \A j, k \in 1..Len(queue) : queue[j] = queue[k] => j = k

\* When the IRP's two threads are through, its records have been inserted and
\* the context is gone: nothing leaks, whoever came last.
NothingLeft ==
  \A i \in Irps :
    /\ BothMade(i)
    /\ handler[i] = "done" /\ (completion[i] = "done" \/ context[i] = "none")
    => request[i] # "live" /\ answer[i] # "live" /\ context[i] # "live"

\* The module is not finalised while a completion routine can still be called.
UnloadWaits ==
  unload = "done" =>
    \A i \in Irps : context[i] # "none" => completion[i] = "done"

\* A completion record that was made is reported if the request was.
AnswersInserted ==
  \A i \in Irps :
    answer[i] = "live" /\ request[i] # "none" ~> Reported("completion", i)

\* A completion that was hooked is reported once the IRP is completed
\* (general-types.h: "Report IRP completions").
CompletionsReported ==
  \A i \in Irps : completion[i] = "record" ~> Reported("completion", i)

\* The unloading thread is not left waiting, unless a thread has faulted.
UnloadEnds ==
  unload = "waiting" ~> unload = "done" \/ \E i \in Irps : Faulted(i)
=============================================================================
