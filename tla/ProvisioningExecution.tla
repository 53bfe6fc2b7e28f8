----------------------- MODULE ProvisioningExecution -----------------------
(***************************************************************************)
(* One tenant provisioning planned from desired state: its row, its        *)
(* current plan and decision, the durable operations that execute it, the  *)
(* commands of operators (convergenceHandler, operationCommands) and the   *)
(* executors (apply.Executor over provisioning.Orchestrator).              *)
(*                                                                         *)
(* A command reads the row, evaluates the plan, and then runs its          *)
(* transaction: Load... and the commit are two steps. An If-Match revision *)
(* is one the row has shown, so a commit succeeds only on the revision     *)
(* loaded. Replays of an idempotency key write nothing and are not steps.  *)
(* Reporting columns (blocked_reason, problem, phase, result), audit       *)
(* records and outbox events are left out: no guard reads them.            *)
(***************************************************************************)
EXTENDS Integers, FiniteSets
LOCAL INSTANCE TLC

CONSTANTS Workers,        \* executors, one per replica of the Control Plane
          Clients,        \* requests that can be in flight
          Ops,            \* identifiers of operations
          Worlds,         \* authoritative states, as far as planning tells them apart
          BlockedWorlds,  \* those a plan of which has blockers
          MaxAttempts,    \* maxAttempts of the executor (5 in the code)
          MaxPlans,       \* bound: plans generated
          AttemptBound    \* bound: attempts after which an operation is neither
                          \* retried nor interrupted

\* The operations of a tenant can be counted, which is all the rest needs of
\* their being finitely many.
ASSUME ExecutionAssumption ==
  /\ MaxAttempts \in Nat /\ MaxPlans \in Nat \ {0} /\ AttemptBound \in Nat
  /\ BlockedWorlds \subseteq Worlds
  /\ \A some \in SUBSET Ops : Cardinality(some) \in Nat

VARIABLES row,       \* tenant_provisioning: legacy status, canonical state, version
          plan,      \* the plan not superseded
          decision,  \* the decision on that plan
          world,     \* the authoritative state the planner reads
          op,        \* operations.execution_operation
          worker,    \* what each executor holds in memory
          request,   \* what each command holds between its read and its transaction
          approved,  \* history: the plans approved
          done       \* history: the plans whose APPLY phase completed

vars == <<row, plan, decision, world, op, worker, request, approved, done>>

-----------------------------------------------------------------------------
(* Tables *)

\* provisioningTransitions.
TransitionProvisioning(from, to) ==
  \/ from = "PLAN" /\ to \in {"APPLY", "CANCELLED", "FAILED"}
  \/ from = "APPLY" /\ to \in {"RECONCILE", "CANCELLED", "FAILED"}
  \/ from = "RECONCILE" /\ to \in {"READY", "APPLY", "CANCELLED", "FAILED"}
  \/ from = "READY" /\ to \in {"ACTIVE", "CANCELLED", "FAILED"}
  \/ from = "FAILED" /\ to \in {"APPLY", "CANCELLED"}

Statuses == {"PLAN", "APPLY", "RECONCILE", "READY", "ACTIVE", "FAILED", "CANCELLED"}

\* The projection tenant_provisioning_state_sync gives a status.
Canonical(status) ==
  CASE status = "PLAN" -> "PLANNED"
    [] status = "APPLY" -> "REGISTERING"
    [] status = "RECONCILE" -> "VERIFYING_READINESS"
    [] OTHER -> status

States == {"PLANNED", "REGISTERING", "VERIFYING_READINESS", "READY", "ACTIVE", "FAILED",
           "CANCELLED", "BLOCKED", "REMEDIATING", "PROVISIONING_PROVIDERS"}

ActiveStatuses == {"QUEUED", "RUNNING", "CANCEL_REQUESTED"}

OpStatuses == ActiveStatuses \cup {"", "SUCCEEDED", "FAILED", "BLOCKED", "CANCELLED"}

Active == \E o \in Ops : op[o].status \in ActiveStatuses

Blockers(p) == p.world \in BlockedWorlds

\* What the planner makes of the plan's desired state now is not the plan's
\* material, or the plan has expired.
Stale == plan.expired \/ plan.world # world

-----------------------------------------------------------------------------
(* Initial state: CreateConvergedProvisioning *)

Idle == [pc |-> "idle"]

NoOp == [status |-> "", attempt |-> 0, retryable |-> FALSE, lapsed |-> FALSE, plan |-> 0]

Init ==
  /\ world \in Worlds
  /\ plan = [version |-> 1, world |-> world, expired |-> FALSE]
  /\ row = [status |-> "PLAN", state |-> IF Blockers(plan) THEN "BLOCKED" ELSE "PLANNED",
            version |-> 1]
  /\ decision = ""
  /\ op = [o \in Ops |-> NoOp]
  /\ worker = [w \in Workers |-> Idle]
  /\ request = [c \in Clients |-> Idle]
  /\ approved = {}
  /\ done = {}

-----------------------------------------------------------------------------
(* The environment *)

\* Tenants, contracts, topology and capabilities change under the plan.
WorldChanges ==
  /\ \E v \in Worlds \ {world} : world' = v
  /\ UNCHANGED <<row, plan, decision, op, worker, request, approved, done>>

\* The plan's validity window closes.
PlanExpires ==
  /\ ~plan.expired
  /\ plan' = [plan EXCEPT !.expired = TRUE]
  /\ UNCHANGED <<row, decision, world, op, worker, request, approved, done>>

\* The clock passes lease_expires_at of an operation being executed.
LeaseLapses(o) ==
  /\ op[o].status \in {"RUNNING", "CANCEL_REQUESTED"} /\ ~op[o].lapsed
  /\ op[o].attempt < AttemptBound
  /\ op' = [op EXCEPT ![o].lapsed = TRUE]
  /\ UNCHANGED <<row, plan, decision, world, worker, request, approved, done>>

-----------------------------------------------------------------------------
(* Commands *)

\* The conditions each handler checks on what it loaded.
MayDecline == row.state \in {"PLANNED", "BLOCKED"}

MayApprove == MayDecline /\ ~Blockers(plan) /\ ~Stale

MayApply == row.state = "PLANNED" /\ decision = "APPROVED" /\ ~Stale

MayRemediate == row.state = "BLOCKED" /\ ~Blockers(plan) /\ decision = "APPROVED" /\ ~Stale

MayReplan == row.state \in {"PLANNED", "BLOCKED", "FAILED"} /\ ~Active

MayWithdraw == row.state \in {"PLANNED", "BLOCKED", "FAILED"} /\ ~Active

MayRetry(o) ==
  /\ op[o].status # ""
  /\ op[o].retryable =>
       row.state \in {"FAILED", "BLOCKED"} /\ ~Stale /\ plan.version = op[o].plan

\* A handler reads the provisioning and evaluates (or, to replan, generates)
\* its plan.
Load(c, kind) ==
  /\ request[c].pc = "idle"
  /\ request' = [request EXCEPT ![c] =
       [pc |-> kind, version |-> row.version, world |-> world]]
  /\ UNCHANGED <<row, plan, decision, world, op, worker, approved, done>>

\* The retry handler checks the provisioning only of an operation it reads as
\* retryable.
LoadRetry(c, o) ==
  /\ request[c].pc = "idle"
  /\ MayRetry(o)
  /\ request' = [request EXCEPT ![c] = [pc |-> "RETRY", op |-> o]]
  /\ UNCHANGED <<row, plan, decision, world, op, worker, approved, done>>

\* The repository refuses the command, or the request is lost with its replica.
Refused(c) ==
  /\ request[c].pc # "idle"
  /\ request' = [request EXCEPT ![c] = Idle]
  /\ UNCHANGED <<row, plan, decision, world, op, worker, approved, done>>

\* lockRevision, for a command of this kind.
Locked(c, kind) ==
  /\ request[c].pc = kind
  /\ request[c].version = row.version
  /\ request' = [request EXCEPT ![c] = Idle]

\* RecordPlanDecision; plan_approval_plan_uq allows a plan one decision.
RecordPlanDecision(c, kind, value) ==
  /\ Locked(c, kind)
  /\ decision = ""
  /\ decision' = value
  /\ approved' = IF value = "APPROVED" THEN approved \cup {plan.version} ELSE approved
  /\ row' = [row EXCEPT !.version = @ + 1]
  /\ UNCHANGED <<plan, world, op, worker, done>>

\* AcceptApply and AcceptRemediation.
AcceptOperation(c, kind, state) ==
  /\ Locked(c, kind)
  /\ ~Active
  /\ \E o \in Ops :
       /\ op[o].status = ""
       /\ op' = [op EXCEPT ![o] = [status |-> "QUEUED", attempt |-> 1, retryable |-> FALSE,
                                   lapsed |-> FALSE, plan |-> plan.version]]
  /\ row' = [row EXCEPT !.state = state, !.version = @ + 1]
  /\ UNCHANGED <<plan, decision, world, worker, approved, done>>

Replan(c) ==
  /\ Locked(c, "REPLAN")
  /\ ~Active
  /\ plan.version < MaxPlans
  /\ plan' = [version |-> plan.version + 1, world |-> request[c].world, expired |-> FALSE]
  /\ decision' = ""
  /\ row' = [row EXCEPT !.state = IF Blockers(plan') THEN "BLOCKED" ELSE "PLANNED",
                        !.version = @ + 1]
  /\ UNCHANGED <<world, op, worker, approved, done>>

Withdraw(c) ==
  /\ Locked(c, "WITHDRAW")
  /\ ~Active
  /\ row' = [status |-> "CANCELLED", state |-> "CANCELLED", version |-> row.version + 1]
  /\ UNCHANGED <<plan, decision, world, op, worker, approved, done>>

\* RetryOperation looks at the operation alone.
RetryOperation(c) ==
  LET o == request[c].op
  IN /\ request[c].pc = "RETRY"
     /\ op[o].retryable /\ op[o].status \in {"FAILED", "BLOCKED"}
     /\ op[o].attempt < AttemptBound
     /\ op' = [op EXCEPT ![o].status = "QUEUED", ![o].attempt = @ + 1,
                         ![o].retryable = FALSE, ![o].lapsed = FALSE]
     /\ row' = [row EXCEPT !.version = @ + 1]
     /\ request' = [request EXCEPT ![c] = Idle]
     /\ UNCHANGED <<plan, decision, world, worker, approved, done>>

\* blockCancelled, and MarkProvisioningBlocked: both whatever the state is.
BlockedRow == [row EXCEPT !.state = "BLOCKED", !.version = @ + 1]

\* CancelOperation of a queued operation.
CancelQueued(o) ==
  /\ op[o].status = "QUEUED"
  /\ op' = [op EXCEPT ![o].status = "CANCELLED", ![o].retryable = FALSE]
  /\ row' = BlockedRow
  /\ UNCHANGED <<plan, decision, world, worker, request, approved, done>>

\* CancelOperation of a running operation.
CancelRunning(o) ==
  /\ op[o].status = "RUNNING"
  /\ op' = [op EXCEPT ![o].status = "CANCEL_REQUESTED"]
  /\ UNCHANGED <<row, plan, decision, world, worker, request, approved, done>>

Command(c) ==
  \/ MayApprove /\ Load(c, "APPROVE")
  \/ MayDecline /\ Load(c, "DECLINE")
  \/ MayApply /\ Load(c, "APPLY")
  \/ MayRemediate /\ Load(c, "REMEDIATE")
  \/ MayReplan /\ Load(c, "REPLAN")
  \/ MayWithdraw /\ Load(c, "WITHDRAW")
  \/ \E o \in Ops : LoadRetry(c, o)
  \/ Refused(c)
  \/ RecordPlanDecision(c, "APPROVE", "APPROVED")
  \/ RecordPlanDecision(c, "DECLINE", "DECLINED")
  \/ AcceptOperation(c, "APPLY", row.state)
  \/ AcceptOperation(c, "REMEDIATE", "REMEDIATING")
  \/ Replan(c)
  \/ Withdraw(c)
  \/ RetryOperation(c)

-----------------------------------------------------------------------------
(* Executors: RunOnce, execute, and the orchestrator's Run and Retry *)

\* The executor w moves to pc, keeping the claim it holds.
Goto(w, pc) ==
  worker' = [worker EXCEPT ![w] =
    [pc |-> pc, op |-> worker[w].op, attempt |-> worker[w].attempt]]

\* It has an outcome to record.
Ends(w, outcome, retryable) ==
  worker' = [worker EXCEPT ![w] =
    [pc |-> "complete", op |-> worker[w].op, attempt |-> worker[w].attempt,
     outcome |-> outcome, retryable |-> retryable]]

\* It runs the pipeline with the manifest of plan p.
Runs(w, pc, p) ==
  worker' = [worker EXCEPT ![w] =
    [pc |-> pc, op |-> worker[w].op, attempt |-> worker[w].attempt, plan |-> p]]

\* It holds the row at a status and version, and will save it (as it is) or
\* advance it. A save is followed by the advance to another status, if any.
Writes(w, pc, status, version, to) ==
  worker' = [worker EXCEPT ![w] =
    [pc |-> pc, op |-> worker[w].op, attempt |-> worker[w].attempt,
     plan |-> worker[w].plan, status |-> status, version |-> version, to |-> to]]

\* Mutant: nobody looks for operations asked to stop and then abandoned.
NoneAbandoned == {}

Abandoned == {o \in Ops : op[o].status = "CANCEL_REQUESTED" /\ op[o].lapsed}

\* RunOnce begins: every operation asked to stop whose lease lapsed is
\* CANCELLED and its provisioning BLOCKED.
FinishAbandonedCancellations(w) ==
  /\ worker[w].pc = "idle"
  /\ op' = [o \in Ops |->
       IF o \in Abandoned
         THEN [op[o] EXCEPT !.status = "CANCELLED", !.retryable = FALSE, !.lapsed = FALSE]
         ELSE op[o]]
  /\ row' = [row EXCEPT !.state = IF Abandoned = {} THEN @ ELSE "BLOCKED",
                        !.version = @ + Cardinality(Abandoned)]
  /\ worker' = [worker EXCEPT ![w] = [pc |-> "claim"]]
  /\ UNCHANGED <<plan, decision, world, request, approved, done>>

Claimable(o) == op[o].status = "QUEUED" \/ (op[o].status = "RUNNING" /\ op[o].lapsed)

\* Mutant: a resumed operation keeps its attempt.
ClaimedAttemptKept(o) == op[o].attempt

\* A queued operation has its attempt already; a resumed one is a new attempt.
ClaimedAttempt(o) == op[o].attempt + IF op[o].status = "QUEUED" THEN 0 ELSE 1

\* claimOperation. SKIP LOCKED passes over a row another transaction holds,
\* so any claimable operation may be the one taken.
Claim(w, o) ==
  /\ worker[w].pc = "claim"
  /\ Claimable(o)
  /\ op' = [op EXCEPT ![o].status = "RUNNING", ![o].attempt = ClaimedAttempt(o),
                      ![o].lapsed = FALSE]
  /\ worker' = [worker EXCEPT ![w] = [pc |-> "load", op |-> o, attempt |-> ClaimedAttempt(o)]]
  /\ UNCHANGED <<row, plan, decision, world, request, approved, done>>

NothingToClaim(w) ==
  /\ worker[w].pc = "claim"
  /\ \A o \in Ops : ~Claimable(o)
  /\ worker' = [worker EXCEPT ![w] = Idle]
  /\ UNCHANGED <<row, plan, decision, world, op, request, approved, done>>

\* Mutant: the executor trusts the check the command made.
BoundWhenAccepted(w) == TRUE

\* The operation applies the current plan, and that plan is approved.
Bound(w) == decision = "APPROVED" /\ plan.version = op[worker[w].op].plan

\* execute up to the pipeline: the binding the apply command checked, the
\* plan's validity on a first attempt, its material, and the manifest.
LoadExecuted(w) ==
  LET current == (worker[w].attempt = 1 => ~plan.expired) /\ plan.world = world
  IN /\ worker[w].pc = "load"
     /\ IF worker[w].attempt > MaxAttempts THEN Ends(w, "FAILED", TRUE)
        ELSE IF ~Bound(w) \/ ~current THEN Ends(w, "FAILED", FALSE)
        ELSE Runs(w, IF row.status = "FAILED" THEN "retry" ELSE "run", plan.version)
     /\ UNCHANGED <<row, plan, decision, world, op, request, approved, done>>

\* ExecutionManifest: the approved plan does not resolve to a manifest.
PlanNotExecutable(w) ==
  /\ worker[w].pc = "load"
  /\ Ends(w, "FAILED", FALSE)
  /\ UNCHANGED <<row, plan, decision, world, op, request, approved, done>>

\* The store fails a read or write of the attempt. Whatever status the
\* orchestrator returns with the error, the outcome is a retryable failure.
Unavailable(w) ==
  /\ worker[w].pc \in {"load", "retry", "run", "save", "advance", "block"}
  /\ Ends(w, "FAILED", TRUE)
  /\ UNCHANGED <<row, plan, decision, world, op, request, approved, done>>

\* What execute makes of the status the orchestrator stops at without error.
Returned(w, status) ==
  CASE status = "ACTIVE" -> Ends(w, "SUCCEEDED", FALSE)
    [] status \in {"RECONCILE", "READY"} -> Goto(w, "block")
    [] OTHER -> Ends(w, "FAILED", TRUE)

\* Orchestrator.Retry: a row no longer FAILED is an error, which execute
\* ignores when the row is ACTIVE.
Retry(w) ==
  /\ worker[w].pc = "retry"
  /\ CASE row.status = "FAILED" -> Writes(w, "advance", row.status, row.version, "APPLY")
       [] row.status = "ACTIVE" -> Ends(w, "SUCCEEDED", FALSE)
       [] OTHER -> Ends(w, "FAILED", TRUE)
  /\ UNCHANGED <<row, plan, decision, world, op, request, approved, done>>

\* A phase worker's result: an error fails the provisioning, convergence
\* advances it, and blockers (not of APPLY) leave it where it is.
PhaseResults(status) ==
  CASE status = "PLAN" -> {<<"advance", "APPLY">>}
    [] status = "APPLY" -> {<<"save", "RECONCILE">>, <<"advance", "FAILED">>}
    [] status = "RECONCILE" ->
         {<<"save", "READY">>, <<"save", "RECONCILE">>, <<"advance", "FAILED">>}
    [] status = "READY" ->
         {<<"advance", "ACTIVE">>, <<"save", "READY">>, <<"advance", "FAILED">>}
    [] OTHER -> {}

\* One turn of Orchestrator.Run: the row is read and its phase worker runs.
\* The writes of the turn follow.
Run(w) ==
  /\ worker[w].pc = "run"
  /\ \/ \E r \in PhaseResults(row.status) : Writes(w, r[1], row.status, row.version, r[2])
     \/ PhaseResults(row.status) = {} /\ Returned(w, row.status)
  /\ UNCHANGED <<row, plan, decision, world, op, request, approved, done>>

\* The APPLY phase of the turn, where ERP is configured, moves the state on by
\* itself and leaves the version alone. Where the state is none it allows, the
\* phase fails.
EnterProviderProvisioning(w) ==
  /\ worker[w].pc \in {"save", "advance"}
  /\ worker[w].status = "APPLY" /\ (worker[w].pc = "advance" => worker[w].to = "FAILED")
  /\ row.state = "REGISTERING"
  /\ row' = [row EXCEPT !.state = "PROVISIONING_PROVIDERS"]
  /\ UNCHANGED <<plan, decision, world, op, worker, request, approved, done>>

\* UpdateTenantProvisioning finds the version the caller read.
AtVersion(w) == worker[w].version = row.version

\* save: the status stays.
Save(w) ==
  LET me == worker[w]
  IN /\ me.pc = "save"
     /\ AtVersion(w)
     /\ row' = [row EXCEPT !.version = @ + 1]
     /\ IF me.to = me.status THEN Returned(w, me.status)
                             ELSE Writes(w, "advance", me.status, me.version + 1, me.to)
     /\ UNCHANGED <<plan, decision, world, op, request, approved, done>>

\* advance: the trigger carries the change of status into the state.
Advance(w) ==
  LET me == worker[w]
  IN /\ me.pc = "advance"
     /\ AtVersion(w)
     /\ row' = [status |-> me.to, state |-> Canonical(me.to), version |-> row.version + 1]
     /\ done' = IF me.to = "RECONCILE" THEN done \cup {me.plan} ELSE done
     /\ IF me.to \in {"FAILED", "ACTIVE"} THEN Returned(w, me.to) ELSE Runs(w, "run", me.plan)
     /\ UNCHANGED <<plan, decision, world, op, request, approved>>

\* The row has changed since it was read: the orchestrator returns the error.
VersionConflict(w) ==
  /\ worker[w].pc \in {"save", "advance"}
  /\ ~AtVersion(w)
  /\ Ends(w, "FAILED", TRUE)
  /\ UNCHANGED <<row, plan, decision, world, op, request, approved, done>>

\* MarkProvisioningBlocked after reconciliation or readiness found blockers.
Block(w) ==
  /\ worker[w].pc = "block"
  /\ row' = BlockedRow
  /\ Ends(w, "BLOCKED", TRUE)
  /\ UNCHANGED <<plan, decision, world, op, request, approved, done>>

\* Mutant: whoever executed the operation records its outcome.
HeldByAnyAttempt(w) == op[worker[w].op].status # ""

Held(w) ==
  /\ op[worker[w].op].attempt = worker[w].attempt
  /\ op[worker[w].op].status \in {"RUNNING", "CANCEL_REQUESTED"}

\* CompleteOperation records the outcome of the attempt that holds the
\* operation, and nothing once it has been resumed or finished.
CompleteOperation(w) ==
  LET me == worker[w]
      o == me.op
      asked == op[o].status = "CANCEL_REQUESTED"
      recorded == IF asked /\ me.outcome # "SUCCEEDED" THEN "CANCELLED" ELSE me.outcome
  IN /\ me.pc = "complete"
     /\ op' = IF Held(w)
                THEN [op EXCEPT ![o].status = recorded, ![o].lapsed = FALSE,
                                ![o].retryable = me.retryable /\ ~asked]
                ELSE op
     /\ worker' = [worker EXCEPT ![w] =
          IF Held(w) /\ recorded \in {"CANCELLED", "FAILED"}
            THEN [pc |-> "mark", op |-> o, attempt |-> me.attempt, outcome |-> recorded,
                  retryable |-> me.retryable]
            ELSE Idle]
     /\ UNCHANGED <<row, plan, decision, world, request, approved, done>>

\* MarkProvisioningBlocked after a cancellation; MarkExecutionFailed after a
\* failure. No row is APPLYING: tenant_provisioning_state_ck forbids it.
Mark(w) ==
  LET me == worker[w]
  IN /\ me.pc = "mark"
     /\ row' = CASE me.outcome = "CANCELLED" -> BlockedRow
                 [] me.outcome = "FAILED" /\ row.state = "REMEDIATING" ->
                      [row EXCEPT !.state = IF me.retryable THEN "FAILED" ELSE "BLOCKED",
                                  !.version = @ + 1]
                 [] OTHER -> row
     /\ worker' = [worker EXCEPT ![w] = Idle]
     /\ UNCHANGED <<plan, decision, world, op, request, approved, done>>

\* The executor's process ends, or its context does; what is left to record
\* is not recorded.
Crash(w) ==
  /\ worker[w].pc \notin {"idle", "claim"}
  /\ worker[w].attempt < AttemptBound
  /\ worker' = [worker EXCEPT ![w] = Idle]
  /\ UNCHANGED <<row, plan, decision, world, op, request, approved, done>>

Execute(w) ==
  \/ FinishAbandonedCancellations(w)
  \/ \E o \in Ops : Claim(w, o)
  \/ NothingToClaim(w)
  \/ LoadExecuted(w)
  \/ PlanNotExecutable(w)
  \/ Unavailable(w)
  \/ Retry(w)
  \/ Run(w)
  \/ EnterProviderProvisioning(w)
  \/ Save(w)
  \/ Advance(w)
  \/ VersionConflict(w)
  \/ Block(w)
  \/ CompleteOperation(w)
  \/ Mark(w)

Next ==
  \/ WorldChanges
  \/ PlanExpires
  \/ \E o \in Ops : LeaseLapses(o) \/ CancelQueued(o) \/ CancelRunning(o)
  \/ \E c \in Clients : Command(c)
  \/ \E w \in Workers : Execute(w) \/ Crash(w)

Spec == Init /\ [][Next]_vars

\* A running executor takes its next step, every executor polls, and the
\* clock passes a lease that nobody releases.
FairSpec ==
  /\ Spec
  /\ \A w \in Workers : WF_vars(Execute(w))
  /\ \A o \in Ops : WF_vars(LeaseLapses(o))

\* Executors, requests and operations not yet created are interchangeable.
Interchangeable == Permutations(Workers) \cup Permutations(Clients) \cup Permutations(Ops)

-----------------------------------------------------------------------------
(* Properties *)

Holds(w) == worker[w].pc \notin {"idle", "claim"}
Executing(w) == worker[w].pc \in {"retry", "run", "save", "advance"}

TypeOK ==
  /\ row.status \in Statuses /\ row.state \in States /\ row.version \in Nat
  /\ plan.version \in 1..MaxPlans /\ plan.world \in Worlds /\ plan.expired \in BOOLEAN
  /\ decision \in {"", "APPROVED", "DECLINED"}
  /\ world \in Worlds
  /\ op \in [Ops -> [status : OpStatuses, attempt : Nat, retryable : BOOLEAN,
                     lapsed : BOOLEAN, plan : Nat]]
  /\ \A w \in Workers : Holds(w) => worker[w].op \in Ops /\ worker[w].attempt \in Nat
  /\ \A c \in Clients : request[c].pc = "RETRY" => request[c].op \in Ops

\* No two executors work on one attempt of one operation, whatever leases
\* lapse and whoever crashes: claimOperation numbers each resumption.
OneExecutorPerAttempt ==
  \A v, w \in Workers :
    /\ Holds(v) /\ Holds(w)
    /\ worker[v].op = worker[w].op /\ worker[v].attempt = worker[w].attempt
    => v = w

\* The pipeline runs only manifests of plans that were approved, although a
\* retry queues an operation whose plan may have been superseded.
ExecutesOnlyApprovedPlans ==
  \A w \in Workers : Executing(w) => worker[w].plan \in approved

\* A recorded outcome is final: only a retry, as the next attempt, follows a
\* retryable one, and nothing follows any other. An executor whose attempt was
\* resumed, cancelled or retried records nothing (CompleteOperation).
OutcomeIsFinal ==
  [][\A o \in Ops :
       op[o].status \in {"SUCCEEDED", "CANCELLED", "FAILED", "BLOCKED"} /\ op'[o] # op[o] =>
         /\ op[o].retryable /\ op[o].status \in {"FAILED", "BLOCKED"}
         /\ op'[o].status = "QUEUED" /\ op'[o].attempt = op[o].attempt + 1]_vars

\* An operation asked to stop is CANCELLED unless its work was done: it never
\* fails, blocks or is resumed.
AskedToStopStops ==
  [][\A o \in Ops :
       op[o].status = "CANCEL_REQUESTED" =>
         op'[o].status \in {"CANCEL_REQUESTED", "CANCELLED", "SUCCEEDED"}]_vars

\* Whatever executors of lapsed leases still do, the status moves along
\* provisioningTransitions, except that an operator may withdraw.
StatusFollowsTransitions ==
  [][row'.status # row.status =>
       row'.status = "CANCELLED" \/ TransitionProvisioning(row.status, row'.status)]_vars

\* What one provisioning and its operations promise together, whatever leases
\* lapse: well-formed rows, outcomes that stay, a stop that is obeyed and a
\* status that follows its transitions.
ExecutionPromises ==
  []TypeOK /\ OutcomeIsFinal /\ AskedToStopStops /\ StatusFollowsTransitions

\* An operation accepted is finished: executors poll, leases lapse, and an
\* operation interrupted too often is failed.
OperationsFinish ==
  \A o \in Ops : op[o].status \in ActiveStatuses ~> op[o].status \notin ActiveStatuses

-----------------------------------------------------------------------------
(* What comments and contracts say, and the code does not keep *)

Quiet == (\A w \in Workers : ~Holds(w)) /\ ~Active

\* executor.go: a failure "must not leave the provisioning APPLYING or
\* REMEDIATING, where no command reaches it". With no operation active, an
\* unfinished provisioning is in a state some command accepts.
SomeCommandReachesIt ==
  Quiet => row.state \in {"PLANNED", "BLOCKED", "FAILED", "ACTIVE", "CANCELLED"}

\* execute, of an operation that SUCCEEDED: "The approved plan was applied and
\* the tenant is ACTIVE."
SucceededPlanWasApplied ==
  \A o \in Ops : op[o].status = "SUCCEEDED" => op[o].plan \in done
=============================================================================
