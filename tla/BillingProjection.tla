-------------------------- MODULE BillingProjection --------------------------
(***************************************************************************)
(* How a classified product subscription reaches the billing engine.       *)
(*                                                                         *)
(* Every control plane process runs a projector.  A pass lists the         *)
(* subscriptions whose sync row is behind, asks the engine to ensure the   *)
(* projection of the listed revision, applies the lifecycle command that   *)
(* the listed status calls for, and records what was synced.  Nothing is   *)
(* locked between the list and the record: the subscription moves on, and  *)
(* another process works on the same or on a newer revision.               *)
(*                                                                         *)
(* One subscription: no rule relates two of them.  The engine is external: *)
(* it never goes back to an older revision, it answers a request it has    *)
(* seen (per revision and action) as it answered the first time, and it    *)
(* establishes and winds up billing at its own pace.                       *)
(***************************************************************************)
EXTENDS Naturals, FiniteSets

CONSTANTS
  Projectors,    \* control plane processes
  MaxVersion,    \* bound on the subscription's revisions
  MaxOutages     \* how often the engine, an answer or a process is lost

ASSUME BillingAssumption == MaxVersion \in Nat /\ MaxOutages \in Nat

VARIABLES
  subscription,  \* the row: [version, type, status]
  syncRow,       \* billing_projection_sync: [rev, status, charged, backoff]
  engine,        \* the engine's projection: [rev, type, state]
  replies,       \* [request key -> the engine's first answer]
  projecting,    \* [projector -> its work item and where it is]
  outages

billVars == <<subscription, syncRow, engine, replies, projecting, outages>>

Resting == [step |-> "idle"]
NeverSynced == [rev |-> 0, status |-> "NONE", charged |-> FALSE, backoff |-> FALSE]
NoProjection == [rev |-> 0, type |-> "NONE", state |-> "NONE"]
NoReply == [rev |-> 0, type |-> "NONE", state |-> "NONE", charges |-> FALSE]
Actions == {"ensure", "command"}

BillingInit ==
  /\ subscription = [version |-> 1, type |-> "NONE", status |-> "ACTIVE"]
  /\ syncRow = NeverSynced
  /\ engine = NoProjection
  /\ replies = [k \in (1..MaxVersion) \X Actions |-> NoReply]
  /\ projecting = [p \in Projectors |-> Resting]
  /\ outages = 0

-----------------------------------------------------------------------------
(* The subscription moves                                                  *)

\* a classification is committed: one revision later, another type
MakeClassificationCurrent(type) ==
  /\ subscription.version < MaxVersion
  /\ type # subscription.type
  /\ subscription' = [subscription EXCEPT !.version = @ + 1, !.type = type]
  /\ UNCHANGED <<syncRow, engine, replies, projecting, outages>>

Reclassified == \E type \in {"COMMERCIAL", "INTERNAL"} : MakeClassificationCurrent(type)

\* whoever governs the subscription's lifecycle changes status and version
\* together; a cancelled subscription stays cancelled
StatusMoves ==
  /\ subscription.version < MaxVersion
  /\ subscription.status # "CANCELLED"
  /\ \E s \in {"ACTIVE", "SUSPENDED", "CANCELLED"} \ {subscription.status} :
       subscription' = [subscription EXCEPT !.version = @ + 1, !.status = s]
  /\ UNCHANGED <<syncRow, engine, replies, projecting, outages>>

-----------------------------------------------------------------------------
(* A pass                                                                  *)

At(p, step) == projecting[p].step = step
Behind == syncRow.rev < subscription.version \/ syncRow.status # subscription.status

Due == Behind /\ ~syncRow.backoff

ListBillingProjectionWork(p) ==
  /\ At(p, "idle")
  /\ subscription.type # "NONE"
  /\ Due
  /\ projecting' = [projecting EXCEPT ![p] =
       [step |-> "ensure", rev |-> subscription.version, type |-> subscription.type,
        status |-> subscription.status, reply |-> NoReply]]
  /\ UNCHANGED <<subscription, syncRow, engine, replies, outages>>

verifyProjection(w, reply) ==
  /\ reply.rev = w.rev /\ reply.type = w.type
  /\ w.type = "INTERNAL" => ~reply.charges

\* the engine's answer to a request it has not seen: none when the revision
\* is older than its own
Fresh(w) == w.rev >= engine.rev
Answer(w, state, charges) == [rev |-> w.rev, type |-> w.type, state |-> state, charges |-> charges]
Seen(key) == replies[key] # NoReply

FailsWith(p) == projecting' = [projecting EXCEPT ![p].step = "failed"]

Lost(p) == outages < MaxOutages /\ outages' = outages + 1 /\ FailsWith(p)

\* a verified answer leads to the next step
Accepted(p, reply, next) ==
  projecting' = [projecting EXCEPT ![p].reply = reply,
                                   ![p].step = IF verifyProjection(projecting[p], reply) THEN next ELSE "failed"]

Charged(w) == w.type # "INTERNAL"

\* billing for an INTERNAL subscription needs no configuration; for another
\* it stays unestablished until pricing, account and provider are there
Established(type) ==
  IF type = "INTERNAL" THEN {"ACTIVE"} ELSE {"PENDING_CONFIGURATION", "PROVISIONING", "ACTIVE"}

WoundUp == {"TERMINATING", "TERMINATED"}

\* the states the engine may answer an ensure of this type with: a
\* suspension may or may not outlive it, a termination does
EnsuredStates(type) ==
  CASE engine.state \in WoundUp -> {engine.state}
    [] engine.state = "SUSPENDED" -> {"SUSPENDED"} \cup Established(type)
    [] OTHER -> Established(type)

\* the engine goes on by itself
EngineProceeds ==
  /\ \/ /\ engine.state \in {"PENDING_CONFIGURATION", "PROVISIONING"}
        /\ \E s \in {"PROVISIONING", "ACTIVE"} \ {engine.state} : engine' = [engine EXCEPT !.state = s]
     \/ engine.state = "TERMINATING" /\ engine' = [engine EXCEPT !.state = "TERMINATED"]
  /\ UNCHANGED <<subscription, syncRow, replies, projecting, outages>>

Ensure(p) ==
  LET w == projecting[p]
      key == <<w.rev, "ensure">>
  IN /\ At(p, "ensure")
     /\ \/ Seen(key) /\ Accepted(p, replies[key], "command") /\ UNCHANGED <<engine, replies, outages>>
        \/ ~Seen(key) /\ ~Fresh(w) /\ FailsWith(p) /\ UNCHANGED <<engine, replies, outages>>
        \/ /\ ~Seen(key) /\ Fresh(w)
           /\ \E state \in EnsuredStates(w.type) :
                /\ engine' = [rev |-> w.rev, type |-> w.type, state |-> state]
                /\ replies' = [replies EXCEPT ![key] = Answer(w, state, Charged(w))]
           /\ \/ Accepted(p, replies'[key], "command") /\ UNCHANGED outages
              \/ Lost(p)
        \/ Lost(p) /\ UNCHANGED <<engine, replies>>
     /\ UNCHANGED <<subscription, syncRow>>

\* an engine misconfigured for a while would charge for an INTERNAL
\* subscription: its answer is well formed, and it is not trusted
EnsureMisanswered(p) ==
  LET w == projecting[p]
  IN /\ At(p, "ensure") /\ w.type = "INTERNAL" /\ Fresh(w) /\ ~Seen(<<w.rev, "ensure">>)
     /\ outages < MaxOutages /\ outages' = outages + 1
     /\ \E state \in EnsuredStates(w.type) :
          /\ engine' = [rev |-> w.rev, type |-> w.type, state |-> state]
          /\ Accepted(p, Answer(w, state, TRUE), "command")
     /\ UNCHANGED <<subscription, syncRow, replies>>

\* the command the listed status asks for, given the answered state
Wanted(w) ==
  CASE w.status \in {"CANCELLED", "EXPIRED"} /\ w.reply.state # "TERMINATED" -> "terminate"
    [] w.status = "SUSPENDED" /\ w.reply.state \notin {"SUSPENDED", "TERMINATED"} -> "suspend"
    [] w.status \in {"ACTIVE", "PENDING"} /\ w.reply.state = "SUSPENDED" -> "resume"
    [] OTHER -> "none"

CommandedStates(w) ==
  CASE Wanted(w) = "terminate" -> WoundUp
    [] Wanted(w) = "suspend" -> {"SUSPENDED"}
    [] OTHER -> Established(w.type)

Command(p) ==
  LET w == projecting[p]
      key == <<w.rev, "command">>
  IN /\ At(p, "command") /\ Wanted(w) # "none"
     /\ \/ Seen(key) /\ Accepted(p, replies[key], "record") /\ UNCHANGED <<engine, replies, outages>>
        \/ /\ ~Seen(key) /\ (~Fresh(w) \/ engine.state = "TERMINATED")
           /\ FailsWith(p) /\ UNCHANGED <<engine, replies, outages>>
        \/ /\ ~Seen(key) /\ Fresh(w) /\ engine.state # "TERMINATED"
           /\ \E state \in CommandedStates(w) :
                /\ engine' = [engine EXCEPT !.state = state]
                /\ replies' = [replies EXCEPT ![key] = Answer(w, state, Charged(w))]
           /\ \/ Accepted(p, replies'[key], "record") /\ UNCHANGED outages
              \/ Lost(p)
        \/ Lost(p) /\ UNCHANGED <<engine, replies>>
     /\ UNCHANGED <<subscription, syncRow>>

NoCommand(p) ==
  /\ At(p, "command") /\ Wanted(projecting[p]) = "none"
  /\ projecting' = [projecting EXCEPT ![p].step = "record"]
  /\ UNCHANGED <<subscription, syncRow, engine, replies, outages>>

\* Mutant: an older revision overwrites the recorded one.
Overwrites(w) == TRUE

\* a revision older than the recorded one never overwrites it
NotOlder(w) == syncRow.rev <= w.rev

RecordBillingProjectionSynced(p) ==
  /\ At(p, "record")
  /\ LET w == projecting[p]
     IN syncRow' = IF NotOlder(w)
                   THEN [rev |-> w.rev, status |-> w.status, charged |-> w.reply.charges, backoff |-> FALSE]
                   ELSE syncRow
  /\ projecting' = [projecting EXCEPT ![p] = Resting]
  /\ UNCHANGED <<subscription, engine, replies, outages>>

Failed(p) == [syncRow EXCEPT !.backoff = TRUE]

RecordBillingProjectionFailure(p) ==
  /\ At(p, "failed")
  /\ syncRow' = Failed(p)
  /\ projecting' = [projecting EXCEPT ![p] = Resting]
  /\ UNCHANGED <<subscription, engine, replies, outages>>

\* the process restarts in the middle of a pass
ProjectorRestarts(p) ==
  /\ projecting[p] # Resting /\ outages < MaxOutages
  /\ outages' = outages + 1
  /\ projecting' = [projecting EXCEPT ![p] = Resting]
  /\ UNCHANGED <<subscription, syncRow, engine, replies>>

backoff ==
  /\ syncRow.backoff
  /\ syncRow' = [syncRow EXCEPT !.backoff = FALSE]
  /\ UNCHANGED <<subscription, engine, replies, projecting, outages>>

SyncPending(p) ==
  \/ ListBillingProjectionWork(p) \/ Ensure(p) \/ Command(p) \/ NoCommand(p)
  \/ RecordBillingProjectionSynced(p) \/ RecordBillingProjectionFailure(p)

BillingNext ==
  \/ Reclassified \/ StatusMoves \/ backoff \/ EngineProceeds
  \/ \E p \in Projectors : SyncPending(p) \/ EnsureMisanswered(p) \/ ProjectorRestarts(p)

BillingSpec == BillingInit /\ [][BillingNext]_billVars

\* every process ticks (Run), and a backoff is at most an hour
BillingFairness == WF_billVars(backoff) /\ \A p \in Projectors : WF_billVars(SyncPending(p))

-----------------------------------------------------------------------------
(* Properties                                                              *)

\* the billing states that carry out a status; which of those of a live
\* subscription it is, is the engine's matter
StatesFor(status) ==
  CASE status = "CANCELLED" -> WoundUp
    [] status = "SUSPENDED" -> {"SUSPENDED"}
    [] OTHER -> {"PENDING_CONFIGURATION", "PROVISIONING", "ACTIVE"}

(* A sync row that says the current revision and status are projected is   *)
(* right about the engine: it holds that revision and that type, and       *)
(* billing is suspended, or wound up, exactly when the status asks for it, *)
(* whatever other processes and lost answers did meanwhile (sync,          *)
(* verifyProjection).                                                      *)
SyncedIsProjected ==
  (subscription.type # "NONE" /\ ~Behind) =>
    /\ engine.rev = subscription.version /\ engine.type = subscription.type
    /\ engine.state \in StatesFor(subscription.status)

(* No INTERNAL revision is recorded as converged on an answer that would   *)
(* charge for it (verifyProjection's INTERNAL policy).                     *)
InternalNeverCharged ==
  (subscription.type = "INTERNAL" /\ syncRow.rev = subscription.version) => ~syncRow.charged

(* What is recorded as synced never goes back to an older revision, also   *)
(* when a slow process records its pass after a faster one (the guard of   *)
(* RecordBillingProjectionSynced).                                         *)
SyncNeverRegresses == [][syncRow'.rev >= syncRow.rev]_billVars

\* a termination in progress was answered, ended before the command came,
\* and the engine takes no command for what is terminated
TerminationOutran ==
  /\ subscription.status = "CANCELLED" /\ engine.state = "TERMINATED"
  /\ replies[<<subscription.version, "ensure">>].state = "TERMINATING"

(* Once the subscription no longer moves and the engine is up, its         *)
(* projection is recorded at its last revision and status for good: "a     *)
(* failure is retried with backoff rather than lost" (Projector).  The one *)
(* exception is a cancelled subscription whose termination ended between   *)
(* the ensure, which is replayed as TERMINATING, and the command: billing  *)
(* is wound up, and the projector keeps retrying.                          *)
BillingConverges == <>[](subscription.type # "NONE" => ~Behind \/ TerminationOutran)

\* Billing projection: a synced row is right about the engine, internal use
\* is never charged, the sync row never regresses, and the engine catches up
\* in the end.
BillingPromises ==
  /\ [](SyncedIsProjected /\ InternalNeverCharged)
  /\ SyncNeverRegresses
  /\ BillingConverges
=============================================================================
