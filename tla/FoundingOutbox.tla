--------------------------- MODULE FoundingOutbox ---------------------------
(***************************************************************************)
(* The relay that delivers founding lifecycle events to the subscriptions  *)
(* service.                                                                *)
(*                                                                         *)
(* A governance command inserts its event in the transaction that makes    *)
(* the change.  A relay claims the oldest due row, holding it locked while *)
(* it calls the receiver, and marks it published only when the answer      *)
(* attests that this very event is in the receiver's durable inbox.  A     *)
(* failed send backs the row off; a lost answer or a relay that stops      *)
(* between the answer and its commit leaves the row to be sent again.      *)
(***************************************************************************)
EXTENDS Naturals, FiniteSets, Sequences

CONSTANTS
  Relays,       \* control-plane processes running the relay
  MaxEvents,    \* bound on events inserted
  MaxMishaps,   \* bound on failed, misanswered and lost exchanges and stops
  BatchLimit    \* rows one tick delivers at most

ASSUME OutboxAssumption == MaxEvents \in Nat /\ MaxMishaps \in Nat /\ BatchLimit \in Nat \ {0}

VARIABLES
  outboxRows,   \* the rows in order: [published, resting]
  inbox,        \* the events in the receiver's durable inbox
  relays,       \* [relay -> what it is doing]
  mishaps

outVars == <<outboxRows, inbox, relays, mishaps>>

Between == [step |-> "between"]

OutboxInit ==
  /\ outboxRows = <<>>
  /\ inbox = {}
  /\ relays = [r \in Relays |-> Between]
  /\ mishaps = 0

\* a lifecycle change and its event commit together
publishFoundingLifecycle ==
  /\ Len(outboxRows) < MaxEvents
  /\ outboxRows' = Append(outboxRows, [published |-> FALSE, resting |-> FALSE])
  /\ UNCHANGED <<inbox, relays, mishaps>>

-----------------------------------------------------------------------------
Claimed == {relays[r].row : r \in {q \in Relays : relays[q].step = "sending" \/ relays[q].step = "sent"}}

\* unpublished, not backing off, not locked by another relay
DueRows == {i \in DOMAIN outboxRows : ~outboxRows[i].published /\ ~outboxRows[i].resting /\ i \notin Claimed}

OldestDue(rows) == CHOOSE i \in rows : \A j \in rows : i <= j

\* FOR UPDATE SKIP LOCKED; the tick goes on to the next row after a delivery
Claim(r) ==
  /\ relays[r].step \in {"between", "next"} /\ DueRows # {}
  /\ relays' = [relays EXCEPT ![r] = [step |-> "sending", row |-> OldestDue(DueRows),
                                      done |-> IF @.step = "next" THEN @.done ELSE 0]]
  /\ UNCHANGED <<outboxRows, inbox, mishaps>>

\* the receiver commits the event to its inbox, where a second copy is a
\* replay, and attests it
Received(r) ==
  /\ relays[r].step = "sending"
  /\ inbox' = inbox \cup {relays[r].row}
  /\ relays' = [relays EXCEPT ![r] = [step |-> "sent", row |-> @.row, done |-> @.done, ack |-> [event |-> @.row, durable |-> TRUE]]]
  /\ UNCHANGED <<outboxRows, mishaps>>

\* the receiver accepts without having kept the event, or answers for another
Misanswered(r) ==
  /\ relays[r].step = "sending" /\ mishaps < MaxMishaps
  /\ \E ack \in {[event |-> relays[r].row, durable |-> FALSE]} \cup {[event |-> i, durable |-> TRUE] : i \in DOMAIN outboxRows \ {relays[r].row}} :
       relays' = [relays EXCEPT ![r] = [step |-> "sent", row |-> @.row, done |-> @.done, ack |-> ack]]
  /\ mishaps' = mishaps + 1
  /\ UNCHANGED <<outboxRows, inbox>>

\* the exchange fails, before or after the receiver kept the event
SendFails(r) ==
  /\ relays[r].step = "sending" /\ mishaps < MaxMishaps
  /\ inbox' \in {inbox, inbox \cup {relays[r].row}}
  /\ relays' = [relays EXCEPT ![r] = [step |-> "sent", row |-> @.row, done |-> @.done, ack |-> [event |-> 0, durable |-> FALSE]]]
  /\ mishaps' = mishaps + 1
  /\ UNCHANGED outboxRows

send(row, ack) == ack.durable /\ ack.event = row

\* the tick ends on a failure and after BatchLimit rows
DeliverOne(r) ==
  /\ relays[r].step = "sent"
  /\ LET row == relays[r].row
         ok == send(row, relays[r].ack)
     IN /\ outboxRows' = [outboxRows EXCEPT ![row] = IF ok THEN [published |-> TRUE, resting |-> FALSE]
                                                    ELSE [published |-> FALSE, resting |-> TRUE]]
        /\ relays' = [relays EXCEPT ![r] = IF ok /\ @.done + 1 < BatchLimit
                                           THEN [step |-> "next", done |-> @.done + 1] ELSE Between]
  /\ UNCHANGED <<inbox, mishaps>>

\* no row was due: the tick ends
TickEnds(r) ==
  /\ relays[r].step = "next" /\ DueRows = {}
  /\ relays' = [relays EXCEPT ![r] = Between]
  /\ UNCHANGED <<outboxRows, inbox, mishaps>>

\* the process stops: its transaction rolls back and the row is free again
RelayStops(r) ==
  /\ relays[r].step \in {"sending", "sent"} /\ mishaps < MaxMishaps
  /\ relays' = [relays EXCEPT ![r] = Between]
  /\ mishaps' = mishaps + 1
  /\ UNCHANGED <<outboxRows, inbox>>

\* Mutant: a row that failed is not tried again.
RestsForGood(i) == FALSE

BackoffOver(i) == outboxRows[i].resting

\* next_attempt_at passes: at most five minutes later
Backoff(i) ==
  /\ BackoffOver(i)
  /\ outboxRows' = [outboxRows EXCEPT ![i].resting = FALSE]
  /\ UNCHANGED <<inbox, relays, mishaps>>

OutboxNext ==
  \/ publishFoundingLifecycle
  \/ \E r \in Relays :
       \/ Claim(r) \/ Received(r) \/ Misanswered(r) \/ SendFails(r)
       \/ DeliverOne(r) \/ TickEnds(r) \/ RelayStops(r)
  \/ \E i \in DOMAIN outboxRows : Backoff(i)

OutboxSpec == OutboxInit /\ [][OutboxNext]_outVars

\* the relay's ticker keeps running, an exchange ends within the client's three
\* seconds, and a back-off passes; the receiver answers in the end because
\* mishaps are bounded
OutboxFairness ==
  /\ \A r \in Relays : WF_outVars(Claim(r)) /\ WF_outVars(Received(r)) /\ WF_outVars(DeliverOne(r)) /\ WF_outVars(TickEnds(r))
  /\ \A i \in 1..MaxEvents : WF_outVars(i \in DOMAIN outboxRows /\ Backoff(i))

-----------------------------------------------------------------------------
(* Properties                                                              *)

(* An event is marked published only when the receiver has it in its       *)
(* durable inbox, whatever was answered, lost or repeated, and by whichever *)
(* relay (send, DeliverOne).                                               *)
PublishedWasReceived == \A i \in DOMAIN outboxRows : outboxRows[i].published => i \in inbox

(* Every event is published in the end: neither a failing older event nor  *)
(* a relay that stopped while it held the row keeps it back for ever       *)
(* (DeliverOne's back-off and lock, Run).                                  *)
EventsArePublished == []<>(\A i \in DOMAIN outboxRows : outboxRows[i].published)

\* The founding outbox: what is marked published was received, and every
\* event is published in the end.
OutboxPromises ==
  /\ []PublishedWasReceived
  /\ EventsArePublished
=============================================================================
