----------------------------- MODULE EventQueue -----------------------------
(***************************************************************************)
(* What the event queue promises to the hook handlers that report requests *)
(* and to the one client that reads them.  A record is announced when it   *)
(* gets its Id and queued a moment later; whatever was queued before its   *)
(* announcement is read before it.  Reading needs an open queue.           *)
(***************************************************************************)
CONSTANTS Requests

VARIABLES
  stage,   \* "new" "announced" "queued" "taken" "discarded" "diverted"
  order,   \* what was queued when the record was announced
  open     \* a client is connected

vars == <<stage, order, open>>

Queued == {r \in Requests : stage[r] = "queued"}

Move(S, to) == stage' = [r \in Requests |-> IF r \in S THEN to ELSE stage[r]]

Init ==
  /\ stage = [r \in Requests |-> "new"]
  /\ order = [r \in Requests |-> {}]
  /\ open = FALSE

Announce(r) ==
  /\ stage[r] = "new"
  /\ Move({r}, "announced")
  /\ order' = [order EXCEPT ![r] = Queued]
  /\ UNCHANGED open

Put(r) ==
  /\ stage[r] = "announced"
  /\ Move({r}, "queued")
  /\ UNCHANGED <<order, open>>

\* Not accepted: the queue is closed, or the record is of no use any more.
Refuse ==
  /\ \E S \in SUBSET {r \in Requests : stage[r] = "new"} : Move(S, "discarded")
  /\ UNCHANGED <<order, open>>

\* Nobody reads: the record goes to the callbacks instead.
Divert(r) ==
  /\ stage[r] = "new"
  /\ Move({r}, "diverted")
  /\ \E S \in SUBSET Requests : order' = [order EXCEPT ![r] = S]
  /\ UNCHANGED open

Take(r) ==
  /\ open
  /\ stage[r] = "queued"
  /\ order[r] \cap Queued = {}
  /\ Move({r}, "taken")
  /\ UNCHANGED <<order, open>>

Clear ==
  /\ \E S \in SUBSET Queued : Move(S, "discarded")
  /\ UNCHANGED <<order, open>>

Switch == open' = ~open /\ UNCHANGED <<stage, order>>

Next ==
  \/ Switch \/ Refuse \/ Clear
  \/ \E r \in Requests : Announce(r) \/ Put(r) \/ Divert(r) \/ Take(r)

Spec == Init /\ [][Next]_vars
=============================================================================
