------------------------------- MODULE EventInbox -------------------------------
(***************************************************************************)
(* The inbox of signed engine events (messaging.event_receipt) and the     *)
(* processors that apply what it recorded: one processor per replica of    *)
(* the Control Plane, all over one table.                                  *)
(*                                                                         *)
(* An event stands for its delivery identity and content; a delivery that  *)
(* is not authentic, not accepted, or names a known identity with other    *)
(* content is refused without a write and is not a step. Attempts, reasons *)
(* and back-off are left out: an event may be due at any time.             *)
(***************************************************************************)
CONSTANT Processors

VARIABLES pending,    \* receipts by status
          applied,
          dead,
          processor   \* what each processor's pass holds in memory

inboxVars == <<pending, applied, dead, processor>>

NoPass == [pc |-> "idle"]

InboxInit ==
  /\ pending = {} /\ applied = {} /\ dead = {}
  /\ processor = [q \in Processors |-> NoPass]

\* Accept: a receipt for an event that has none. A redelivery is a DUPLICATE.
Accept(e) ==
  /\ e \notin pending \cup applied \cup dead
  /\ pending' = pending \cup {e}
  /\ UNCHANGED <<applied, dead, processor>>

\* A pass reads the events that are due. Nothing is claimed: another processor
\* may read the same ones.
Due(q) ==
  /\ processor[q].pc = "idle"
  /\ \E batch \in SUBSET pending :
       processor' = [processor EXCEPT ![q] =
         IF batch = {} THEN [pc |-> "purge"] ELSE [pc |-> "batch", batch |-> batch]]
  /\ UNCHANGED <<pending, applied, dead>>

\* The handler of one event of the batch has returned: without error, with a
\* permanent error, or with one that a retry may change.
Handled(q, e, result) ==
  /\ processor[q].pc = "batch" /\ e \in processor[q].batch
  /\ processor' = [processor EXCEPT ![q] =
       [pc |-> "mark", event |-> e, result |-> result, batch |-> processor[q].batch \ {e}]]
  /\ UNCHANGED <<pending, applied, dead>>

\* The pass goes on with the rest of its batch, and ends by purging.
Continue(q) ==
  processor' = [processor EXCEPT ![q] =
    IF @.batch = {} THEN [pc |-> "purge"] ELSE [pc |-> "batch", batch |-> @.batch]]

\* MarkApplied: only a pending receipt is marked.
MarkApplied(q) ==
  LET e == processor[q].event
  IN /\ processor[q].pc = "mark" /\ processor[q].result = "applied"
     /\ applied' = IF e \in pending THEN applied \cup {e} ELSE applied
     /\ pending' = pending \ {e}
     /\ Continue(q)
     /\ UNCHANGED dead

\* MarkDeadLetter: the error is permanent, or the event is older than its
\* policy's age.
MarkDeadLetter(q) ==
  LET e == processor[q].event
  IN /\ processor[q].pc = "mark" /\ processor[q].result \in {"permanent", "error"}
     /\ dead' = IF e \in pending THEN dead \cup {e} ELSE dead
     /\ pending' = pending \ {e}
     /\ Continue(q)
     /\ UNCHANGED applied

\* MarkRetry: the event stays pending.
MarkRetry(q) ==
  /\ processor[q].pc = "mark" /\ processor[q].result = "error"
  /\ Continue(q)
  /\ UNCHANGED <<pending, applied, dead>>

\* Processed receipts past their retention are forgotten.
Purge(q) ==
  /\ processor[q].pc = "purge"
  /\ \E old \in SUBSET (applied \cup dead) :
       applied' = applied \ old /\ dead' = dead \ old
  /\ processor' = [processor EXCEPT ![q] = NoPass]
  /\ UNCHANGED pending

\* The store fails a statement of the pass, or the replica stops.
PassEnds(q) ==
  /\ processor[q].pc # "idle"
  /\ processor' = [processor EXCEPT ![q] = NoPass]
  /\ UNCHANGED <<pending, applied, dead>>

Mark(q) == MarkApplied(q) \/ MarkDeadLetter(q) \/ MarkRetry(q)
=============================================================================
