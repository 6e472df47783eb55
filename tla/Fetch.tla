--------------------------------- MODULE Fetch ---------------------------------
(***************************************************************************)
(* How records get from the queue of the driver to a reader.  One request  *)
(* of the reader is answered with as many records as fit its buffer, each  *)
(* copied and freed before the next is taken (UMGetRequestRecord); the     *)
(* reader doubles a buffer that is too small for a single record and asks  *)
(* again (irpmonc.cpp).  Meanwhile records are reported, and another       *)
(* client of the driver disconnects the queue or connects it.              *)
(***************************************************************************)
EXTENDS Integers, Sequences, SequencesExt

CONSTANTS
  MaxRecords,  \* records that are reported
  Sizes        \* how large they may be; a header is the smallest size

VARIABLES
  queue,      \* the records in the queue, oldest first
  size,       \* of each record that has been reported
  connected,  \* ReqQueueConnected
  call,       \* the request: where it is, the room left, the records copied
  reader,     \* the reader: the size of its buffer, what it has read
  lost,       \* history: taken from the queue and freed, but not read
  excused     \* history: a copy faulted, or the queue was disconnected midway

vars == <<queue, size, connected, call, reader, lost, excused>>

Reported == DOMAIN size
Idle == [at |-> "idle", room |-> 0, copied |-> <<>>, ended |-> FALSE, hand |-> 0]

Init ==
  /\ queue = <<>> /\ size = <<>>
  /\ connected = TRUE
  /\ call = Idle
  /\ reader = [buffer |-> CHOOSE s \in Sizes : \A t \in Sizes : s <= t, read |-> <<>>,
               last |-> "none"]
  /\ lost = {} /\ excused = {}

At(place) == call.at = place

\* The oldest record fits what is left of the buffer.
Fits == queue # <<>> /\ size[Head(queue)] <= call.room

\* RequestQueueInsert; the queue is not collecting while nobody is connected.
Report(s) ==
  /\ connected /\ Len(size) < MaxRecords
  /\ size' = Append(size, s)
  /\ queue' = Append(queue, Len(size) + 1)
  /\ UNCHANGED <<connected, call, reader, lost, excused>>

\* RequestQueueDisconnect, by whoever: the queue is cleared.
Disconnect ==
  /\ connected
  /\ connected' = FALSE /\ queue' = <<>>
  /\ UNCHANGED <<size, call, reader, lost, excused>>
Connect ==
  /\ ~connected
  /\ connected' = TRUE
  /\ UNCHANGED <<queue, size, call, reader, lost, excused>>

-----------------------------------------------------------------------------
(* The request.                                                             *)

GetRequest ==
  /\ At("idle")
  /\ call' = [Idle EXCEPT !.at = "get", !.room = reader.buffer]
  /\ UNCHANGED <<queue, size, connected, reader, lost, excused>>

\* RequestQueueGet, when it has a record to give.
Take ==
  /\ At("get") /\ connected /\ Fits
  /\ call' = [call EXCEPT !.at = "copy", !.hand = Head(queue)]
  /\ queue' = Tail(queue)
  /\ UNCHANGED <<size, connected, reader, lost, excused>>

Return(status) ==
  /\ call' = [call EXCEPT !.at = status]
  /\ UNCHANGED <<queue, size, connected, reader, lost>>

\* Copied behind the record before, whose link leads to it; then freed.
Copy ==
  /\ At("copy")
  /\ call' = [call EXCEPT !.at = "get", !.room = @ - size[call.hand],
                          !.copied = Append(@, call.hand), !.hand = 0]
  /\ UNCHANGED <<queue, size, connected, reader, lost, excused>>

\* The reader's memory has gone: the records copied before are not told of.
CopyFault ==
  /\ At("copy")
  /\ call' = [Idle EXCEPT !.at = "failed"]
  /\ lost' = lost \cup ToSet(call.copied) \cup {call.hand}
  /\ excused' = excused \cup ToSet(call.copied) \cup {call.hand}
  /\ UNCHANGED <<queue, size, connected, reader>>

\* Mutant: the record that does not fit is freed.
DropTooLarge ==
  /\ At("get") /\ connected /\ call.copied # <<>>
  /\ ~Fits
  /\ call' = [call EXCEPT !.at = "success", !.ended = TRUE]
  /\ queue' = IF queue = <<>> THEN queue ELSE Tail(queue)
  /\ lost' = IF queue = <<>> THEN lost ELSE lost \cup {Head(queue)}
  /\ UNCHANGED <<size, connected, reader, excused>>

\* No more, or none that fits, once some were copied: the last link is cut.
Enough ==
  /\ At("get") /\ connected /\ call.copied # <<>>
  /\ ~Fits
  /\ call' = [call EXCEPT !.at = "success", !.ended = TRUE]
  /\ UNCHANGED <<queue, size, connected, reader, lost, excused>>

Nothing ==
  /\ At("get") /\ connected /\ call.copied = <<>> /\ ~Fits
  /\ Return(IF queue = <<>> THEN "no more" ELSE "too small")
  /\ UNCHANGED excused

\* STATUS_CONNECTION_DISCONNECTED is not replaced by success.
Disconnected ==
  /\ At("get") /\ ~connected
  /\ call' = [Idle EXCEPT !.at = "failed"]
  /\ lost' = lost \cup ToSet(call.copied)
  /\ excused' = excused \cup ToSet(call.copied)
  /\ UNCHANGED <<queue, size, connected, reader>>

-----------------------------------------------------------------------------
(* The reader.                                                              *)

\* The records of the buffer from link to link.
ReadAll ==
  /\ At("success")
  /\ reader' = [reader EXCEPT !.read = @ \o call.copied, !.last = "success"]
  /\ call' = Idle
  /\ UNCHANGED <<queue, size, connected, lost, excused>>
Enlarge ==
  /\ At("too small")
  /\ reader' = [reader EXCEPT !.buffer = 2 * @, !.last = "too small"]
  /\ call' = Idle
  /\ UNCHANGED <<queue, size, connected, lost, excused>>
Wait ==
  /\ call.at \in {"no more", "failed"}
  /\ reader' = [reader EXCEPT !.last = call.at]
  /\ call' = Idle
  /\ UNCHANGED <<queue, size, connected, lost, excused>>

-----------------------------------------------------------------------------
Next ==
  \/ \E s \in Sizes : Report(s)
  \/ Disconnect \/ Connect
  \/ GetRequest \/ Take \/ Copy \/ CopyFault \/ Enough \/ Nothing \/ Disconnected
  \/ ReadAll \/ Enlarge \/ Wait
Spec == Init /\ [][Next]_vars

Used(ids) == FoldLeft(LAMBDA sum, r : sum + size[r], 0, ids)

\* Records are read once and in the order they were queued; a record that was
\* taken has been read or is on its way, unless copying it or one after it
\* faulted, or the queue was disconnected meanwhile (um-services.c:433);
\* the reader's walk ends within what was copied, and that is within the
\* buffer; the buffer grows to less than twice the largest record.
FetchSound ==
  /\ \A i, j \in DOMAIN reader.read : i < j => reader.read[i] < reader.read[j]
  /\ lost \subseteq excused
  /\ ToSet(reader.read) \cap lost = {}
  /\ \A r \in ToSet(call.copied) \cup ToSet(queue) :
       /\ r \notin lost
       /\ \A old \in ToSet(reader.read) : old < r
  /\ call.at = "success" => call.ended /\ call.copied # <<>>
  /\ call.at # "idle" =>
       Used(call.copied) + (IF call.at = "copy" THEN size[call.hand] ELSE 0) <= reader.buffer
  /\ \E s \in Sizes : reader.buffer < 2 * s
=============================================================================
