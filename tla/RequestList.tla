------------------------------ MODULE RequestList ------------------------------
(***************************************************************************)
(* Captured requests on their way into the list of the graphical client.  *)
(* The request thread reads records into a list of buffers, which it posts *)
(* to the main thread when the list is long enough or nothing came for a   *)
(* second.  The main thread builds a request of every buffer, tells whose  *)
(* process it was by the process events among the records, keeps what the  *)
(* filters accept, and frees the buffers.  Requests and process entries    *)
(* count their references.                                                 *)
(***************************************************************************)
EXTENDS Integers, Sequences, FiniteSets, SequencesExt

CONSTANTS
  MaxRecords,  \* records that are read, and loaded from a file
  Batch,       \* a list of so many buffers is posted at once (200)
  LogFile,     \* the kinds of the records in a log file, in order
  Filters,     \* each the set of kinds that some filter settings accept
  MaxClicks    \* operations of the user on the list

VARIABLES
  reader,  \* the request thread: where it is, its buffers, FConnected
  stop,    \* its FEvent is signalled
  capture, \* CaptureEventsMenuItem: "off", "on", or waiting for the thread
  opened,  \* IRPMonDllConnect less IRPMonDllDisconnect
  posted,  \* messages with lists that the main thread has not seen
  buffers, \* the records whose buffers are allocated
  list,    \* TRequestList, with its requests and process entries
  tab,     \* FProcesses, the entries the process tab shows
  wanted,  \* the kinds that the filters accept
  clicks,
  seen     \* history: records processed, dropped, accepted all along; a file

vars == <<reader, stop, capture, opened, posted, buffers, list, tab, wanted,
          clicks, seen>>

\* All events are about one process id, which is used again after an exit.
Kinds == {"create", "exit", "load", "irp"}
None == 0
Numbers == DOMAIN list.req

NoReader == [at |-> "none", held |-> <<>>, connected |-> FALSE]

Init ==
  /\ reader = NoReader /\ stop = FALSE /\ capture = "off" /\ opened = 0
  /\ posted = <<>> /\ buffers = {}
  /\ list = [req |-> <<>>, entry |-> <<>>, process |-> None,
             display |-> FALSE, all |-> <<>>, shown |-> <<>>]
  /\ tab = <<>>
  /\ wanted = Kinds /\ clicks = 0
  /\ seen = [done |-> <<>>, dropped |-> {}, steady |-> Kinds, mixed |-> FALSE]

-----------------------------------------------------------------------------
(* References.  A request that is freed gives up its process.               *)

Times(x, s) == Cardinality({i \in DOMAIN s : s[i] = x})

Refer(l, e, n) ==
  IF e = None THEN l ELSE [l EXCEPT !.entry[e].refs = @ + n]

\* TRefObjectList.Notify for every request of s that is added, or removed.
Take(l, s) ==
  [l EXCEPT !.req = [r \in DOMAIN @ |-> [@[r] EXCEPT !.refs = @ + Times(r, s)]]]
Drop(l, s) ==
  LET dead == {r \in DOMAIN l.req : l.req[r].refs > 0 /\ l.req[r].refs = Times(r, s)}
      kept(r) == [l.req[r] EXCEPT !.refs = @ - Times(r, s)]
      freed(e) == Cardinality({r \in dead : l.req[r].process = e})
  IN [l EXCEPT !.req = [r \in DOMAIN @ |->
                          IF r \in dead THEN [kept(r) EXCEPT !.process = None] ELSE kept(r)],
               !.entry = [e \in DOMAIN @ |-> [@[e] EXCEPT !.refs = @ - freed(e)]]]

Accepted(l, w, s) == SelectSeq(s, LAMBDA r : l.req[r].kind \in w)

-----------------------------------------------------------------------------
(* The list.                                                                *)

\* Mutant: the entry of an id that is used again stays, only not terminated.
ProcessesReused(l, r) ==
  CASE l.req[r].kind = "create" /\ l.process # None ->
         [l EXCEPT !.entry[l.process].ended = FALSE]
    [] l.req[r].kind = "create" /\ l.process = None ->
         [l EXCEPT !.entry = Append(@, [refs |-> 1, ended |-> FALSE, images |-> {}]),
                   !.process = Len(l.entry) + 1]
    [] OTHER -> l

\* What ProcessBuffer does to the map of processes.
Processes(l, r) ==
  CASE l.req[r].kind = "create" ->
         Refer([l EXCEPT
                  !.entry = Append(@, [refs |-> 1, ended |-> FALSE, images |-> {}]),
                  !.process = Len(l.entry) + 1],
               l.process, -1)
    [] l.req[r].kind = "exit" /\ l.process # None ->
         [l EXCEPT !.entry[l.process].ended = TRUE]
    [] l.req[r].kind = "load" /\ l.process # None ->
         [l EXCEPT !.entry[l.process].images = @ \cup {r}]
    [] OTHER -> l

\* ProcessBuffer for one record.  A creation is reported in the context of
\* the creator, of which no creation was reported.
ProcessBuffer(l, w, r) ==
  LET known == Processes(l, r)
      by == IF l.req[r].kind = "create" THEN None ELSE known.process
      built == [Refer(known, by, 1) EXCEPT !.req[r].refs = 1, !.req[r].process = by]
      all == IF l.display THEN [Take(built, <<r>>) EXCEPT !.all = Append(@, r)] ELSE built
      kept == IF l.req[r].kind \in w
              THEN [Take(all, <<r>>) EXCEPT !.shown = Append(@, r)] ELSE all
  IN Drop(kept, <<r>>)

ProcessAll(l, w, s) == FoldLeft(LAMBDA m, r : ProcessBuffer(m, w, r), l, s)

\* The main thread is not in the middle of something else.
Free == capture # "joining"

Click == Free /\ clicks < MaxClicks /\ clicks' = clicks + 1

\* OnRequest: the buffers are freed when all have been processed.
OnRequest ==
  /\ Free /\ posted # <<>>
  /\ list' = ProcessAll(list, wanted, Head(posted))
  /\ buffers' = buffers \ ToSet(Head(posted))
  /\ posted' = Tail(posted)
  /\ seen' = [seen EXCEPT !.done = @ \o Head(posted)]
  /\ UNCHANGED <<reader, stop, capture, opened, tab, wanted, clicks>>

NewRequest(kind) == [kind |-> kind, refs |-> 0, process |-> None]

\* LoadFromFile: the file's process events change the same map.
LoadFromFile ==
  LET new == [i \in DOMAIN LogFile |-> Len(list.req) + i]
      with == [list EXCEPT !.req = @ \o [i \in DOMAIN LogFile |-> NewRequest(LogFile[i])]]
  IN /\ Click /\ Len(list.req) + Len(LogFile) <= MaxRecords
     /\ list' = ProcessAll(with, wanted, new)
     /\ seen' = [seen EXCEPT !.done = @ \o new, !.mixed = TRUE]
     /\ UNCHANGED <<reader, stop, capture, opened, posted, buffers, tab, wanted>>

\* The map of processes is kept.
Clear ==
  /\ Click
  /\ list' = [Drop(Drop(list, list.shown), list.all) EXCEPT !.shown = <<>>, !.all = <<>>]
  /\ seen' = [seen EXCEPT !.done = <<>>, !.steady = wanted]
  /\ UNCHANGED <<reader, stop, capture, opened, posted, buffers, tab, wanted>>

SetFilterDisplayOnly ==
  LET emptied == [Drop(list, list.all) EXCEPT !.all = <<>>]
  IN /\ Click
     /\ list' = IF list.display THEN [emptied EXCEPT !.display = FALSE]
                ELSE [Take(emptied, list.shown) EXCEPT !.display = TRUE, !.all = list.shown]
     /\ UNCHANGED <<reader, stop, capture, opened, posted, buffers, tab, wanted, seen>>

\* Without FFilterDisplayOnly a request that is not accepted is gone for good.
Reevaluate(l, w) ==
  LET shown == Accepted(l, w, IF l.display THEN l.all ELSE l.shown)
  IN IF l.display
     THEN [Take(Drop(l, l.shown), shown) EXCEPT !.shown = shown]
     ELSE [Drop(l, SelectSeq(l.shown, LAMBDA r : l.req[r].kind \notin w))
             EXCEPT !.shown = shown]

ChangeFilters(w) ==
  /\ Click /\ w # wanted
  /\ wanted' = w
  /\ list' = Reevaluate(list, w)
  /\ seen' = [seen EXCEPT !.steady = @ \cap w]
  /\ UNCHANGED <<reader, stop, capture, opened, posted, buffers, tab>>

\* ProcessTabSheetShow
ShowProcesses ==
  LET now == IF list.process = None THEN <<>> ELSE <<list.process>>
      emptied == FoldLeft(LAMBDA l, e : Refer(l, e, -1), list, tab)
  IN /\ Click
     /\ list' = FoldLeft(LAMBDA l, e : Refer(l, e, 1), emptied, now)
     /\ tab' = now
     /\ UNCHANGED <<reader, stop, capture, opened, posted, buffers, wanted, seen>>

-----------------------------------------------------------------------------
(* The request thread.                                                      *)

StartCapture ==
  /\ capture = "off" /\ clicks < MaxClicks /\ clicks' = clicks + 1
  /\ capture' = "on" /\ opened' = opened + 1
  /\ reader' = [at |-> "read", held |-> <<>>, connected |-> TRUE]
  /\ stop' = FALSE
  /\ UNCHANGED <<posted, buffers, list, tab, wanted, seen>>

\* IRPMonDllGetRequest gives a record and says whether there are more.
Read(kind, more) ==
  LET n == Len(list.req) + 1
      held == Append(reader.held, n)
  IN /\ reader.at = "read" /\ n <= MaxRecords
     /\ list' = [list EXCEPT !.req = Append(@, NewRequest(kind))]
     /\ buffers' = buffers \cup {n}
     /\ reader' = [reader EXCEPT !.held = held,
                     !.at = IF more /\ Len(held) < Batch THEN "read" ELSE "check"]
     /\ UNCHANGED <<stop, capture, opened, posted, tab, wanted, clicks, seen>>

\* It has none, or fails: the buffer is freed.
ReadNothing ==
  /\ reader.at = "read"
  /\ reader' = [reader EXCEPT !.at = "check"]
  /\ UNCHANGED <<stop, capture, opened, posted, buffers, list, tab, wanted, clicks, seen>>

Post(place) ==
  /\ posted' = Append(posted, reader.held)
  /\ reader' = [reader EXCEPT !.held = <<>>, !.at = place]
Go(place) ==
  /\ reader' = [reader EXCEPT !.at = place]
  /\ UNCHANGED posted

Check ==
  /\ reader.at = "check"
  /\ IF Len(reader.held) >= Batch THEN Post("wait") ELSE Go("wait")
  /\ UNCHANGED <<stop, capture, opened, buffers, list, tab, wanted, clicks, seen>>

Timeout ==
  /\ reader.at = "wait" /\ ~stop
  /\ IF reader.held # <<>> THEN Post("read") ELSE Go("read")
  /\ UNCHANGED <<stop, capture, opened, buffers, list, tab, wanted, clicks, seen>>

\* WAIT_OBJECT_0: what is held is neither posted nor freed.
Leave ==
  /\ reader.at = "wait" /\ stop
  /\ stop' = FALSE
  /\ opened' = opened - 1
  /\ reader' = [at |-> "gone", held |-> <<>>, connected |-> FALSE]
  /\ seen' = [seen EXCEPT !.dropped = @ \cup ToSet(reader.held)]
  /\ UNCHANGED <<capture, posted, buffers, list, tab, wanted, clicks>>

\* SignalTerminate, then WaitFor.
StopCapture ==
  /\ capture = "on"
  /\ capture' = "joining" /\ stop' = TRUE
  /\ reader' = [reader EXCEPT !.connected = FALSE]
  /\ UNCHANGED <<opened, posted, buffers, list, tab, wanted, clicks, seen>>

\* WaitFor returns; the destructor disconnects a thread that is connected.
Joined ==
  /\ capture = "joining" /\ reader.at = "gone"
  /\ capture' = "off" /\ reader' = NoReader
  /\ opened' = IF reader.connected THEN opened - 1 ELSE opened
  /\ UNCHANGED <<stop, posted, buffers, list, tab, wanted, clicks, seen>>

Next ==
  \/ OnRequest \/ LoadFromFile \/ Clear \/ SetFilterDisplayOnly
  \/ \E w \in Filters : ChangeFilters(w)
  \/ ShowProcesses
  \/ StartCapture \/ StopCapture \/ Joined
  \/ \E kind \in Kinds, more \in BOOLEAN : Read(kind, more)
  \/ ReadNothing \/ Check \/ Timeout \/ Leave

Spec == Init /\ [][Next]_vars

-----------------------------------------------------------------------------
(* What must hold.                                                          *)

\* A request is alive while a list has it, a process entry while the map, the
\* process tab or a request has it: nothing is freed early and nothing leaks
\* (RefObject.pas, TRequestList, TGeneralRequest.SetProcess).
RefsExact ==
  /\ \A r \in Numbers : list.req[r].refs = Times(r, list.all) + Times(r, list.shown)
  /\ \A e \in DOMAIN list.entry :
       list.entry[e].refs = (IF list.process = e THEN 1 ELSE 0) + Times(e, tab)
                            + Cardinality({r \in Numbers : list.req[r].process = e})

\* Every buffer is with the thread or in one message, unless the thread was
\* told to stop while it held it; the thread connects and disconnects in
\* pairs (RequestThread.pas, OnRequest).
BuffersSound ==
  LET held == FoldLeft(LAMBDA a, s : a \o s, <<>>, posted) \o reader.held
  IN /\ IsInjective(held)
     /\ buffers = ToSet(held) \cup seen.dropped
     /\ ToSet(held) \cap seen.dropped = {}
     /\ opened = IF reader.at \in {"read", "check", "wait"} THEN 1 ELSE 0

\* The list shows requests that the filters accept, each once and in the order
\* they were captured, among them every one that was acceptable all the time;
\* hidden ones can come back if the list keeps them (ProcessBuffer, Reevaluate,
\* SetFilterDisplayOnly).
ListSound ==
  /\ list.shown = Accepted(list, wanted, IF list.display THEN list.all ELSE list.shown)
  /\ ~list.display => list.all = <<>>
  /\ Accepted(list, seen.steady, seen.done) = Accepted(list, seen.steady, list.shown)
  /\ ToSet(list.all) \subseteq ToSet(seen.done)
  /\ ~seen.mixed =>
       \A i, j \in DOMAIN list.shown : i < j => list.shown[i] < list.shown[j]

\* The creation that was captured last before a record, 0 if none was.
Creation(r) ==
  LET before == {c \in 1..r : list.req[c].kind = "create"}
  IN IF before = {} THEN None ELSE CHOOSE c \in before : \A d \in before : d <= c

\* The entry that was made for a creation that has been processed.
EntryOf(c) == Cardinality({d \in 1..c : list.req[d].kind = "create" /\ d \notin seen.dropped})

\* A request is attributed to the process that had the process id when it was
\* captured, an image is listed with that process, and an exit ends only that
\* one, however late the records are processed and though the id is used
\* again - unless the record of a creation was dropped, or the processes of a
\* log file are among those of the system (ProcessBuffer).
ProcessesSound ==
  ~seen.mixed =>
    \A r \in Numbers : Creation(r) \notin seen.dropped /\ list.req[r].kind # "create" =>
      LET e == IF Creation(r) = None THEN None ELSE EntryOf(Creation(r))
      IN /\ list.req[r].refs > 0 => list.req[r].process = e
         /\ \A f \in DOMAIN list.entry : r \in list.entry[f].images => f = e
         /\ list.req[r].kind = "exit" /\ r \in ToSet(seen.done) /\ e # None =>
              list.entry[e].ended

RequestListSound == RefsExact /\ BuffersSound /\ ListSound /\ ProcessesSound
=============================================================================
