------------------------------ MODULE Changeset ------------------------------
(***************************************************************************)
(* Governed changes: a changeset is drafted, submitted (validated and      *)
(* planned against its target), decided on its exact plan, and applied in  *)
(* one local transaction, or cancelled.                                    *)
(*                                                                         *)
(* Commands are PostgreSQL READ COMMITTED transactions.  One that reads    *)
(* its target is three steps: Begin (row lock on the changeset, read of    *)
(* the target row), ReadLocks (the later statements of readTarget), and    *)
(* Commit.  Between them everything those locks do not exclude may happen. *)
(* A command that touches only the changeset's own row is one step.        *)
(***************************************************************************)
EXTENDS Naturals, FiniteSets

CONSTANTS
  Changesets,         \* changeset ids; their order is (created_at, changeset_id)
  Targets,            \* the resources changesets name
  TargetType,         \* [Targets -> target type]
  Changes,            \* the desired changes requests carry
  Principals,         \* requesters and approvers
  Keys,               \* (requester, idempotency key) pairs of apply requests
  Grants, NoGrant,    \* administrative grants an issuance may replace
  Clients,            \* concurrent requests
  MaxRevision,        \* bound: revisions of one changeset
  MaxTargetRevision   \* bound: revisions of one target

TargetTypes == {"TENANT", "MARKET", "MAPPING", "PROVIDER", "ENGINE_RELEASE",
                "ENGINE_INSTANCE", "ADMINISTRATIVE_PRINCIPAL", "ADMINISTRATIVE_GRANT"}

\* A kind with to = "" changes something other than its target's status.
Kinds == [
  TENANT_SUSPENSION    |-> [target |-> "TENANT",   from |-> {"active"},    to |-> "suspended"],
  TENANT_REINSTATEMENT |-> [target |-> "TENANT",   from |-> {"suspended"}, to |-> "active"],
  MARKET_ACTIVATION    |-> [target |-> "MARKET",   from |-> {"VALIDATED"}, to |-> "ACTIVE"],
  MAPPING_ACTIVATION   |-> [target |-> "MAPPING",  from |-> {"VALIDATED"}, to |-> "ACTIVE"],
  PROVIDER_ACTIVATION  |-> [target |-> "PROVIDER", from |-> {"DRAFT"},     to |-> "ACTIVE"],
  ENGINE_RELEASE_APPROVAL |->
    [target |-> "ENGINE_RELEASE", from |-> {"CANDIDATE"}, to |-> "APPROVED"],
  ENGINE_INSTANCE_DESIRED_RELEASE |->
    [target |-> "ENGINE_INSTANCE",
     from |-> {"PROVISIONING", "ACTIVE", "DRAINING", "MAINTENANCE", "FAILED"}, to |-> ""],
  ADMINISTRATIVE_GRANT_ISSUANCE |->
    [target |-> "ADMINISTRATIVE_PRINCIPAL", from |-> {"ACTIVE"}, to |-> ""],
  ADMINISTRATIVE_GRANT_DELEGATION |->
    [target |-> "ADMINISTRATIVE_GRANT", from |-> {"ACTIVE"}, to |-> ""]]

DesiredChange == [kind : DOMAIN Kinds, target : Targets, replaces : Grants \cup {NoGrant}]

ASSUME ChangesetsAssumption == Changesets \subseteq Nat
ASSUME TargetTypeAssumption == TargetType \in [Targets -> TargetTypes]
ASSUME ChangesAssumption ==
  /\ Changes \subseteq DesiredChange
  /\ \A d \in Changes : Kinds[d.kind].target = TargetType[d.target]
  /\ \A d \in Changes : d.replaces # NoGrant => d.kind = "ADMINISTRATIVE_GRANT_ISSUANCE"
ASSUME NoGrantAssumption == NoGrant \notin Grants
ASSUME BoundsAssumption == MaxRevision \in Nat /\ MaxTargetRevision \in Nat

\* The kinds with plan_checks.
HasPlanChecks(kind) == Kinds[kind].target \notin {"TENANT", "MARKET", "MAPPING"}

\* An apply moves the target to its next revision; a release and a principal
\* have none (always 1), and a delegation leaves its source grant's version.
BumpsRevision(kind) ==
  Kinds[kind].target \in {"TENANT", "MARKET", "MAPPING", "PROVIDER", "ENGINE_INSTANCE"}

TerminalStates == {"INVALID", "REJECTED", "COMPLETED", "CANCELLED"}
States == {"NONE", "DRAFT", "BLOCKED", "AWAITING_APPROVAL", "CHANGES_REQUESTED", "APPROVED"}
            \cup TerminalStates

\* The states each command may be taken from, of the states that are ever
\* stored: VALIDATING, PLANNING, PLANNED, APPLYING and VERIFYING begin and end
\* inside one transaction.
From == [submit |-> {"DRAFT", "BLOCKED", "CHANGES_REQUESTED", "APPROVED"},
         cancel |-> {"DRAFT", "BLOCKED", "AWAITING_APPROVAL", "CHANGES_REQUESTED", "APPROVED"},
         decide |-> {"AWAITING_APPROVAL"},
         apply  |-> {"APPROVED"}]

Allows(s, command) == s \in From[command]

\* Mutant: only an approved or blocked changeset holds the lock.
OpenStatesNotAwaiting == {"BLOCKED", "CHANGES_REQUESTED", "APPROVED"}

\* The stored states that hold the semantic lock: submitted and not ended.
OpenStates == {"BLOCKED", "AWAITING_APPROVAL", "CHANGES_REQUESTED", "APPROVED"}

Decisions == {"APPROVED", "REJECTED", "CHANGES_REQUESTED"}
Codes == {"TARGET_NOT_FOUND", "TARGET_STATE_CONFLICT", "TARGET_LOCKED", "CHECK_FAILED"}

\* What the routes outside changesets do to a target, by its type: register it,
\* move its status, edit it.  bump is what they add to the revision a plan binds.
TenantRoute(from, to, bump) ==
  /\ bump = 1
  /\ \/ from = "" /\ to = "provisioning"
     \/ from # "" /\ to \in {"active", "suspended", "decommissioned"}

MarketRoute(from, to, bump) ==
  /\ bump = 1
  /\ \/ from \in {"", "DRAFT", "VALIDATED"} /\ to \in {"DRAFT", "VALIDATED"}
     \/ from = "VALIDATED" /\ to = "ACTIVE"

MappingRoute(from, to, bump) ==
  /\ bump = 1
  /\ \/ from \in {"", "DRAFT"} /\ to = "DRAFT"
     \/ from = "DRAFT" /\ to = "VALIDATED"
     \/ from = "VALIDATED" /\ to = "ACTIVE"
     \/ from = "ACTIVE" /\ to = "RETIRED"

ProviderRoute(from, to, bump) ==
  /\ bump = 1
  /\ \/ from = "" /\ to = "DRAFT"
     \/ from # "" /\ to = from

ReleaseRoute(from, to, bump) ==
  \/ from = "" /\ to = "CANDIDATE" /\ bump = 1
  \/ from = "APPROVED" /\ to = "DEPRECATED" /\ bump = 0
  \/ from \in {"CANDIDATE", "APPROVED", "DEPRECATED"} /\ to = "REVOKED" /\ bump = 0

InstanceRoute(from, to, bump) ==
  \/ from = "" /\ to = "PROVISIONING" /\ bump = 1
  \/ from = "PROVISIONING" /\ to = "ACTIVE" /\ bump = 0
  \/ from # "" /\ to = from /\ bump = 1

PrincipalRoute(from, to, bump) ==
  \/ from = "" /\ to = "ACTIVE" /\ bump = 1
  \/ from = "ACTIVE" /\ to \in {"DISABLED", "ARCHIVED"} /\ bump = 0

GrantRoute(from, to, bump) ==
  /\ bump = 1
  /\ \/ from = "" /\ to \in {"PENDING", "ACTIVE"}
     \/ from \in {"PENDING", "SUSPENDED"} /\ to \in {"ACTIVE", "REVOKED"}
     \/ from = "ACTIVE" /\ to \in {"SUSPENDED", "REVOKED", "EXPIRED"}

Route(type, from, to, bump) ==
  \/ type = "TENANT" /\ TenantRoute(from, to, bump)
  \/ type = "MARKET" /\ MarketRoute(from, to, bump)
  \/ type = "MAPPING" /\ MappingRoute(from, to, bump)
  \/ type = "PROVIDER" /\ ProviderRoute(from, to, bump)
  \/ type = "ENGINE_RELEASE" /\ ReleaseRoute(from, to, bump)
  \/ type = "ENGINE_INSTANCE" /\ InstanceRoute(from, to, bump)
  \/ type = "ADMINISTRATIVE_PRINCIPAL" /\ PrincipalRoute(from, to, bump)
  \/ type = "ADMINISTRATIVE_GRANT" /\ GrantRoute(from, to, bump)

Statuses == {"", "provisioning", "active", "suspended", "decommissioned", "DRAFT", "VALIDATED",
             "ACTIVE", "RETIRED", "CANDIDATE", "APPROVED", "DEPRECATED", "REVOKED",
             "PROVISIONING", "DISABLED", "ARCHIVED", "PENDING", "SUSPENDED", "EXPIRED"}

VARIABLES
  state,      \* [Changesets -> States]
  revision,   \* [Changesets -> Nat]: the optimistic version, bumped by every save
  desired,    \* [Changesets -> Changes or None]
  requester,  \* [Changesets -> Principals or None]
  base,       \* [Changesets -> Nat]: base_revision, read when drafted
  plan,       \* [Changesets -> plan or None]: the current plan
  approval,   \* [Changesets -> Nat]: plan version of approval_id's decision, 0 if NULL
  reasons,    \* [Changesets -> SUBSET Codes]: blocking_reasons
  outcome,    \* [Changesets -> States]: final_state of the outcome row, NONE if no row
  decisions,  \* rows of changeset.approval
  operations, \* rows of CHANGESET_APPLY operations
  target,     \* [Targets -> record]: the row a target query reads
  failing,    \* Targets whose plan checks fail for reasons outside changesets
  superseded, \* Grants no longer live because an applied issuance replaced them
  tx,         \* [Clients -> transaction or None]
  applied,    \* history: what every committed apply found and did
  consumed    \* history: [Changesets -> SUBSET Nat], the revisions commands named

vars == <<state, revision, desired, requester, base, plan, approval, reasons, outcome,
          decisions, operations, target, failing, superseded, tx, applied, consumed>>

None == [none |-> TRUE]

Plan == [version : Nat, revision : Nat, status : Statuses, blockers : SUBSET Codes,
         expired : BOOLEAN]
Tx == [op : {"submit", "approve", "apply"}, cs : Changesets, by : Principals \cup {None},
       key : Keys \cup {None}, expected : Nat, late : BOOLEAN, status : Statuses,
       revision : Nat, locked : BOOLEAN, failed : BOOLEAN, ready : BOOLEAN]

-----------------------------------------------------------------------------
(* Planning *)

Max1(n) == IF n > 1 THEN n ELSE 1

\* Validate: why the target, as read, stands in the change's way.
Validate(d, t) ==
  IF t.status = "" THEN {"TARGET_NOT_FOUND"}
  ELSE {code \in Codes :
          \/ code = "TARGET_STATE_CONFLICT" /\ t.status \notin Kinds[d.kind].from
          \/ code = "TARGET_LOCKED" /\ t.locked
          \/ code = "CHECK_FAILED" /\ t.failed}

\* Generate: base revision, from-status and blocker codes are what a plan's
\* material can differ in between two plans of one changeset.
Generate(d, t, version) ==
  [version |-> version, revision |-> Max1(t.revision), status |-> t.status,
   blockers |-> Validate(d, t), expired |-> FALSE]

Material(p) == <<p.revision, p.status, p.blockers>>

\* Mutant: only the validity window is looked at.
StaleByTimeOnly(approved, fresh, late) == late

\* Stale: late says whether the request's clock had reached expires_at.
Stale(approved, fresh, late) == late \/ Material(approved) # Material(fresh)

-----------------------------------------------------------------------------
(* Reads *)

TargetOf(c) == desired[c].target

\* LockedBy: the earlier open changesets on the target.
LockedBy(c) ==
  {o \in Changesets : o < c /\ state[o] \in OpenStates /\ TargetOf(o) = TargetOf(c)}

\* replacedGrantFailure: the replaced grant is gone, or any other open change
\* replaces it too.
ReplacedGrantFailure(c) ==
  LET g == desired[c].replaces IN
  /\ g # NoGrant
  /\ \/ g \in superseded
     \/ \E o \in Changesets \ {c} : state[o] \in OpenStates /\ desired[o].replaces = g

CheckFailures(c) ==
  HasPlanChecks(desired[c].kind) /\ (TargetOf(c) \in failing \/ ReplacedGrantFailure(c))

\* The target as a transaction that ran entirely now would read it.
ReadNow(c) ==
  [status |-> target[TargetOf(c)].status, revision |-> target[TargetOf(c)].revision,
   locked |-> LockedBy(c) # {}, failed |-> CheckFailures(c)]

\* freshlyStale for a request made now.
FreshlyStale(c) == Stale(plan[c], Generate(desired[c], ReadNow(c), 0), plan[c].expired)

\* Row locks of the transactions in flight.
RowLocked(c) == \E p \in Clients : tx[p] # None /\ tx[p].cs = c
TargetRowLocked(t) ==
  \E p \in Clients : tx[p] # None /\ tx[p].op = "apply" /\ TargetOf(tx[p].cs) = t

\* Mutant: submissions of one target are not serialised.
SubmitsUnlocked(t) == FALSE

\* The advisory lock that submissions of one target take.
SubmitLocked(t) ==
  \E p \in Clients : tx[p] # None /\ tx[p].op = "submit" /\ TargetOf(tx[p].cs) = t

\* lockChangeset: the row is free and at the revision the caller names.
LockChangeset(c, expected) == revision[c] = expected /\ ~RowLocked(c)

-----------------------------------------------------------------------------
(* Writes *)

\* saveChangeset, and the revision the command named.
Save(c, expected, s) ==
  /\ state' = [state EXCEPT ![c] = s]
  /\ revision' = [revision EXCEPT ![c] = @ + 1]
  /\ consumed' = [consumed EXCEPT ![c] = @ \cup {expected}]

\* recordOutcome, when the state ends the changeset.
RecordOutcome(c, s) ==
  outcome' = IF s \in TerminalStates THEN [outcome EXCEPT ![c] = s] ELSE outcome

-----------------------------------------------------------------------------
(* Commands *)

Init ==
  /\ state = [c \in Changesets |-> "NONE"]
  /\ revision = [c \in Changesets |-> 0]
  /\ desired = [c \in Changesets |-> None]
  /\ requester = [c \in Changesets |-> None]
  /\ base = [c \in Changesets |-> 0]
  /\ plan = [c \in Changesets |-> None]
  /\ approval = [c \in Changesets |-> 0]
  /\ reasons = [c \in Changesets |-> {}]
  /\ outcome = [c \in Changesets |-> "NONE"]
  /\ decisions = {}
  /\ operations = {}
  /\ target = [t \in Targets |-> [status |-> "", revision |-> 0]]
  /\ failing = {}
  /\ superseded = {}
  /\ tx = [p \in Clients |-> None]
  /\ applied = {}
  /\ consumed = [c \in Changesets |-> {}]

\* create: the handler reads the base revision and its clock before the
\* INSERT, so changesets may appear in another order than they are created in.
Create(c, d, by) ==
  /\ state[c] = "NONE"
  /\ state' = [state EXCEPT ![c] = "DRAFT"]
  /\ revision' = [revision EXCEPT ![c] = 1]
  /\ desired' = [desired EXCEPT ![c] = d]
  /\ requester' = [requester EXCEPT ![c] = by]
  /\ base' = [base EXCEPT ![c] = Max1(target[d.target].revision)]
  /\ UNCHANGED <<plan, approval, reasons, outcome, decisions, operations, target, failing,
                 superseded, tx, applied, consumed>>

\* The start of a transaction that reads the target: the locks are taken and
\* the target row is read.
Begin(p, op, c, by, key, expected, late) ==
  /\ tx[p] = None
  /\ revision[c] < MaxRevision
  /\ tx' = [tx EXCEPT ![p] =
       [op |-> op, cs |-> c, by |-> by, key |-> key, expected |-> expected, late |-> late,
        status |-> target[TargetOf(c)].status, revision |-> target[TargetOf(c)].revision,
        locked |-> FALSE, failed |-> FALSE, ready |-> FALSE]]
  /\ UNCHANGED <<state, revision, desired, requester, base, plan, approval, reasons, outcome,
                 decisions, operations, target, failing, superseded, applied, consumed>>

BeginSubmit(p, c, expected) ==
  /\ LockChangeset(c, expected)
  /\ Allows(state[c], "submit")
  /\ ~SubmitLocked(TargetOf(c))
  /\ Begin(p, "submit", c, None, None, expected, FALSE)

\* Mutant: the requester may decide.
BeginApproveByAnyone(p, c, by, expected) ==
  /\ LockChangeset(c, expected)
  /\ Allows(state[c], "decide")
  /\ Begin(p, "approve", c, by, None, expected, plan[c].expired)

\* The request names the plan the caller read with that revision.  Its clock is
\* read here, so the plan may expire before the commit.
BeginApprove(p, c, by, expected) ==
  /\ LockChangeset(c, expected)
  /\ Allows(state[c], "decide")
  /\ by # requester[c]
  /\ Begin(p, "approve", c, by, None, expected, plan[c].expired)

\* priorApply, then the changeset row, the approval row and the target row.  A
\* key that already has an operation is a replay or a refusal: nothing changes.
BeginApply(p, c, key, expected) ==
  /\ \A o \in operations : o.key # key
  /\ LockChangeset(c, expected)
  /\ Allows(state[c], "apply")
  /\ \E d \in decisions : /\ d.cs = c /\ d.version = approval[c]
                          /\ d.decision = "APPROVED" /\ d.version = plan[c].version
  /\ ~TargetRowLocked(TargetOf(c))
  /\ Begin(p, "apply", c, None, key, expected, plan[c].expired)

\* readTarget after its first statement: the open changesets, the plan checks.
ReadLocks(p) ==
  /\ tx[p] # None
  /\ ~tx[p].ready
  /\ tx' = [tx EXCEPT ![p].ready = TRUE, ![p].locked = LockedBy(tx[p].cs) # {},
                      ![p].failed = CheckFailures(tx[p].cs)]
  /\ UNCHANGED <<state, revision, desired, requester, base, plan, approval, reasons, outcome,
                 decisions, operations, target, failing, superseded, applied, consumed>>

\* A refusal, an error or a lost connection rolls the transaction back.
Rollback(p) ==
  /\ tx[p] # None
  /\ tx' = [tx EXCEPT ![p] = None]
  /\ UNCHANGED <<state, revision, desired, requester, base, plan, approval, reasons, outcome,
                 decisions, operations, target, failing, superseded, applied, consumed>>

Ready(p, op) == tx[p] # None /\ tx[p].op = op /\ tx[p].ready
Finish(p) == tx' = [tx EXCEPT ![p] = None]

NextVersion(c) == IF plan[c] = None THEN 1 ELSE plan[c].version + 1

SubmittedState(v) == IF v = {} THEN "AWAITING_APPROVAL"
                     ELSE IF "TARGET_NOT_FOUND" \in v THEN "INVALID" ELSE "BLOCKED"

SubmitChangeset(p) ==
  LET c == tx[p].cs
      v == Validate(desired[c], tx[p])
      s == SubmittedState(v) IN
  /\ Ready(p, "submit")
  /\ Save(c, tx[p].expected, s)
  /\ approval' = [approval EXCEPT ![c] = 0]
  /\ reasons' = [reasons EXCEPT ![c] = v]
  /\ plan' = IF s = "INVALID" THEN plan
             ELSE [plan EXCEPT ![c] = Generate(desired[c], tx[p], NextVersion(c))]
  /\ RecordOutcome(c, s)
  /\ Finish(p)
  /\ UNCHANGED <<desired, requester, base, decisions, operations, target, failing, superseded,
                 applied>>

Undecided(c) == \A d \in decisions : d.cs # c \/ d.version # plan[c].version

Decision(c, by, decision) ==
  [cs |-> c, version |-> plan[c].version, decision |-> decision, by |-> by]

ApproveChangeset(p) ==
  LET c == tx[p].cs IN
  /\ Ready(p, "approve")
  /\ ~Stale(plan[c], Generate(desired[c], tx[p], 0), tx[p].late)
  /\ Undecided(c)
  /\ decisions' = decisions \cup {Decision(c, tx[p].by, "APPROVED")}
  /\ approval' = [approval EXCEPT ![c] = plan[c].version]
  /\ Save(c, tx[p].expected, "APPROVED")
  /\ Finish(p)
  /\ UNCHANGED <<desired, requester, base, plan, reasons, outcome, operations, target, failing,
                 superseded, applied>>

\* A rejection or a request for changes reads no target: one step.
DeclineChangeset(c, by, expected, decision) ==
  /\ revision[c] < MaxRevision
  /\ LockChangeset(c, expected)
  /\ Allows(state[c], "decide")
  /\ by # requester[c]
  /\ Undecided(c)
  /\ decisions' = decisions \cup {Decision(c, by, decision)}
  /\ Save(c, expected, decision)
  /\ RecordOutcome(c, decision)
  /\ UNCHANGED <<desired, requester, base, plan, approval, reasons, operations, target, failing,
                 superseded, tx, applied>>

\* applyToTarget's own conditions: the guarded UPDATE at the planned revision
\* and from-status; a market or mapping is validated, and a grant change
\* checked, once more.
TargetAccepts(c) ==
  LET d == desired[c]
      t == target[d.target] IN
  /\ BumpsRevision(d.kind) \/ Kinds[d.kind].target = "ADMINISTRATIVE_GRANT"
       => t.revision = plan[c].revision
  /\ Kinds[d.kind].target \notin {"TENANT", "ADMINISTRATIVE_PRINCIPAL", "ADMINISTRATIVE_GRANT"}
       => t.status \in Kinds[d.kind].from
  /\ Kinds[d.kind].target \in {"MARKET", "MAPPING"} => d.target \notin failing
  /\ Kinds[d.kind].target \in {"ADMINISTRATIVE_PRINCIPAL", "ADMINISTRATIVE_GRANT"}
       => ~CheckFailures(c)

\* The target row after the change.
ApplyToTarget(d, t) ==
  [status |-> IF Kinds[d.kind].to = "" THEN t.status ELSE Kinds[d.kind].to,
   revision |-> IF BumpsRevision(d.kind) THEN t.revision + 1 ELSE t.revision]

ApplyChangeset(p) ==
  LET c == tx[p].cs
      d == desired[c] IN
  /\ Ready(p, "apply")
  /\ ~Stale(plan[c], Generate(d, tx[p], 0), tx[p].late)
  /\ TargetAccepts(c)
  /\ \A o \in operations : o.key # tx[p].key
  /\ target' = [target EXCEPT ![d.target] = ApplyToTarget(d, @)]
  /\ superseded' = IF d.replaces = NoGrant THEN superseded ELSE superseded \cup {d.replaces}
  /\ operations' = operations \cup {[key |-> tx[p].key, cs |-> c, expected |-> tx[p].expected]}
  /\ applied' = applied \cup {[cs |-> c, key |-> tx[p].key, plan |-> plan[c],
                               found |-> target[d.target]]}
  /\ Save(c, tx[p].expected, "COMPLETED")
  /\ RecordOutcome(c, "COMPLETED")
  /\ Finish(p)
  /\ UNCHANGED <<desired, requester, base, plan, approval, reasons, decisions, failing>>

CancelChangeset(c, expected) ==
  /\ revision[c] < MaxRevision
  /\ LockChangeset(c, expected)
  /\ Allows(state[c], "cancel")
  /\ Save(c, expected, "CANCELLED")
  /\ reasons' = [reasons EXCEPT ![c] = {}]
  /\ RecordOutcome(c, "CANCELLED")
  /\ UNCHANGED <<desired, requester, base, plan, approval, decisions, operations, target,
                 failing, superseded, tx, applied>>

\* The clock passes expires_at.
PlanExpires(c) ==
  /\ plan[c] # None
  /\ ~plan[c].expired
  /\ plan' = [plan EXCEPT ![c].expired = TRUE]
  /\ UNCHANGED <<state, revision, desired, requester, base, approval, reasons, outcome,
                 decisions, operations, target, failing, superseded, tx, applied, consumed>>

\* Another route writes the target row, waiting for an apply that holds it.
DirectChange(t, to, bump) ==
  /\ Route(TargetType[t], target[t].status, to, bump)
  /\ ~TargetRowLocked(t)
  /\ target[t].revision + bump <= MaxTargetRevision
  /\ target' = [target EXCEPT ![t] = [status |-> to, revision |-> @.revision + bump]]
  /\ UNCHANGED <<state, revision, desired, requester, base, plan, approval, reasons, outcome,
                 decisions, operations, failing, superseded, tx, applied, consumed>>

\* What the plan checks read outside the target row changes.
ChecksChange(t) ==
  /\ TargetType[t] # "TENANT"
  /\ failing' = IF t \in failing THEN failing \ {t} ELSE failing \cup {t}
  /\ UNCHANGED <<state, revision, desired, requester, base, plan, approval, reasons, outcome,
                 decisions, operations, target, superseded, tx, applied, consumed>>

Command(p) ==
  \/ \E c \in Changesets, expected \in 1..MaxRevision : BeginSubmit(p, c, expected)
  \/ \E c \in Changesets, expected \in 1..MaxRevision, by \in Principals :
       BeginApprove(p, c, by, expected)
  \/ \E c \in Changesets, expected \in 1..MaxRevision, key \in Keys :
       BeginApply(p, c, key, expected)
  \/ ReadLocks(p)
  \/ Rollback(p)
  \/ SubmitChangeset(p)
  \/ ApproveChangeset(p)
  \/ ApplyChangeset(p)

Next ==
  \/ \E c \in Changesets, d \in Changes, by \in Principals : Create(c, d, by)
  \/ \E p \in Clients : Command(p)
  \/ \E c \in Changesets, expected \in 1..MaxRevision :
       \/ CancelChangeset(c, expected)
       \/ \E by \in Principals, decision \in {"REJECTED", "CHANGES_REQUESTED"} :
            DeclineChangeset(c, by, expected, decision)
  \/ \E c \in Changesets : PlanExpires(c)
  \/ \E t \in Targets :
       \/ ChecksChange(t)
       \/ \E to \in Statuses, bump \in {0, 1} : DirectChange(t, to, bump)

Spec == Init /\ [][Next]_vars

-----------------------------------------------------------------------------
(* Properties *)

AppliedRecord == [cs : Changesets, key : Keys, plan : Plan,
                  found : [status : Statuses, revision : Nat]]

\* Every variable holds what its column or table can hold.
TypeOK ==
  /\ state \in [Changesets -> States]
  /\ revision \in [Changesets -> Nat]
  /\ desired \in [Changesets -> Changes \cup {None}]
  /\ requester \in [Changesets -> Principals \cup {None}]
  /\ base \in [Changesets -> Nat]
  /\ plan \in [Changesets -> Plan \cup {None}]
  /\ approval \in [Changesets -> Nat]
  /\ reasons \in [Changesets -> SUBSET Codes]
  /\ outcome \in [Changesets -> States]
  /\ decisions \subseteq [cs : Changesets, version : Nat, decision : Decisions, by : Principals]
  /\ operations \subseteq [key : Keys, cs : Changesets, expected : Nat]
  /\ target \in [Targets -> [status : Statuses, revision : Nat]]
  /\ failing \subseteq Targets
  /\ superseded \subseteq Grants
  /\ tx \in [Clients -> Tx \cup {None}]
  /\ applied \subseteq AppliedRecord
  /\ consumed \in [Changesets -> SUBSET Nat]

\* Four eyes on the exact plan: whatever was applied is a plan somebody other
\* than the requester approved, by its version, and it is still the last plan
\* the changeset ever had (DecideChangeset, ApplyChangeset).
AppliedAsApproved ==
  \A a \in applied :
    /\ \E d \in decisions : /\ d.cs = a.cs /\ d.version = a.plan.version
                            /\ d.decision = "APPROVED" /\ d.by # requester[a.cs]
    /\ a.plan.version = plan[a.cs].version

\* What is applied is what was reviewed: however direct routes and other
\* changesets interleave, an apply finds the target in exactly the status and
\* revision its approved plan was computed from, a status the kind starts from
\* (freshlyStale under the row lock, applyToTarget's guarded UPDATE).
AppliedToThePlannedTarget ==
  \A a \in applied :
    /\ a.plan.status = a.found.status
    /\ a.plan.revision = a.found.revision
    /\ a.plan.blockers = {}
    /\ a.found.status \in Kinds[desired[a.cs].kind].from

\* No lost update: a revision of a revisioned target is the basis of at most
\* one applied plan, and the target has moved past every such revision.
OnePlanPerRevision ==
  \A a \in applied :
    BumpsRevision(desired[a.cs].kind) =>
      /\ a.plan.revision < target[TargetOf(a.cs)].revision
      /\ \A b \in applied : TargetOf(a.cs) = TargetOf(b.cs)
                              => a = b \/ a.plan.revision # b.plan.revision

\* A changeset is COMPLETED exactly when it was applied, and it was applied
\* once, under one idempotency key: retries with the same or another key never
\* apply it again (priorApply, the state and the revision checks).
CompletedIffAppliedOnce ==
  /\ \A c \in Changesets : state[c] = "COMPLETED" <=> \E a \in applied : a.cs = c
  /\ \A a, b \in applied : a.cs = b.cs \/ a.key = b.key => a = b

\* No administrative grant is replaced by two applied issuances
\* (replacedGrantFailure, re-run by applyGrantChange).
GrantReplacedOnce ==
  \A a, b \in applied :
    /\ desired[a.cs].replaces # NoGrant
    /\ desired[a.cs].replaces = desired[b.cs].replaces
    => a = b

\* At most one changeset of a target is ready to go at a time: of two that
\* await approval or are approved, at least one has a plan that a decision or
\* an apply made now would refuse (the semantic lock of readTarget).
OneLivePlanPerTarget ==
  \A c, o \in Changesets :
    /\ c # o
    /\ {state[c], state[o]} \subseteq {"AWAITING_APPROVAL", "APPROVED"}
    /\ TargetOf(c) = TargetOf(o)
    => FreshlyStale(c) \/ FreshlyStale(o)

\* The CHECK constraints of the changeset table, and the outcome row that goes
\* with a terminal state, hold after every commit: no command can fail on them.
RowConstraints ==
  \A c \in Changesets :
    /\ state[c] \in {"INVALID", "BLOCKED"} <=> reasons[c] # {}
    /\ state[c] \in {"APPROVED", "COMPLETED"} => approval[c] # 0
    /\ state[c] = "COMPLETED" => \E o \in operations : o.cs = c
    /\ outcome[c] = IF state[c] \in TerminalStates THEN state[c] ELSE "NONE"

\* If-Match: every revision of a changeset was named by exactly one command
\* that took effect, so a duplicated or delayed command never takes effect on
\* a changeset its caller has not seen (lockChangeset).
EveryRevisionNamedOnce ==
  \A c \in Changesets : consumed[c] = {n \in 1..MaxRevision : n < revision[c]}

\* A changeset that ends stays as it ended: its state, plan, approval, outcome
\* and decisions never change again.
EndedIsFinal ==
  [][\A c \in Changesets : state[c] \in TerminalStates =>
       /\ state'[c] = state[c] /\ revision'[c] = revision[c] /\ approval'[c] = approval[c]
       /\ outcome'[c] = outcome[c]
       /\ \A d \in decisions' : d.cs = c => d \in decisions]_vars

\* What the changeset tables promise together, in whatever order commands,
\* direct routes and clocks interleave: what is applied is what was reviewed,
\* once; no update is lost and no grant replaced twice; the rows meet their
\* CHECK constraints; a revision is named by one command; an end is final.
ChangesetPromises ==
  /\ [](TypeOK /\ AppliedToThePlannedTarget /\ OnePlanPerRevision /\ CompletedIffAppliedOnce
         /\ GrantReplacedOnce /\ RowConstraints /\ EveryRevisionNamedOnce)
  /\ EndedIsFinal

Awaits(c) == state[c] \in {"AWAITING_APPROVAL", "APPROVED"}

\* Submitting a changeset leaves the plan of one created earlier fresh.
KeepsEarlierPlan ==
  \A c, o \in Changesets :
    /\ o < c
    /\ plan'[c] # plan[c] /\ revision'[c] # revision[c]
    /\ Awaits(o) /\ ~FreshlyStale(o)
    => ~FreshlyStale(o)'

\* A changeset comes to await approval only when no earlier one is open for its
\* target at that moment, although its transaction looked some statements before
\* (the advisory lock of SubmitChangeset, LockedBy).
AwaitsBehindNone ==
  [][\A c \in Changesets :
       state[c] # "AWAITING_APPROVAL" /\ state'[c] = "AWAITING_APPROVAL" => LockedBy(c) = {}]_vars

-----------------------------------------------------------------------------
(* What the safety invariants rest on *)

\* A changeset that exists has a desired change and a requester.
Created ==
  \A c \in Changesets :
    state[c] # "NONE" => desired[c] \in Changes /\ requester[c] \in Principals

\* A transaction in flight has its changeset to itself, at the revision it
\* named and in a state its command starts from.
Underway ==
  \A p \in Clients : tx[p] # None =>
    /\ tx[p].expected = revision[tx[p].cs] /\ revision[tx[p].cs] < MaxRevision
    /\ tx[p].op = "submit" => Allows(state[tx[p].cs], "submit")
    /\ tx[p].op = "approve" => /\ Allows(state[tx[p].cs], "decide")
                               /\ tx[p].by \in Principals /\ tx[p].by # requester[tx[p].cs]
    /\ tx[p].op = "apply" => Allows(state[tx[p].cs], "apply") /\ tx[p].key \in Keys
    /\ \A q \in Clients : tx[q] # None /\ tx[q].cs = tx[p].cs => q = p

\* What awaits a decision, is approved or was applied has a plan without
\* blockers.
Planned ==
  \A c \in Changesets : state[c] \in {"AWAITING_APPROVAL", "APPROVED", "COMPLETED"} =>
    plan[c] # None /\ plan[c].blockers = {}

\* Plans are numbered from one, so an approval's plan version is never NULL.
PlansNumbered == \A c \in Changesets : plan[c] # None => plan[c].version >= 1

\* A registered target has a revision.
Registered == \A t \in Targets : target[t].status # "" => target[t].revision >= 1

\* An apply in flight holds its target's row, which is as it read it.
TargetHeld ==
  \A p \in Clients : tx[p] # None /\ tx[p].op = "apply" =>
    /\ tx[p].status = target[TargetOf(tx[p].cs)].status
    /\ tx[p].revision = target[TargetOf(tx[p].cs)].revision
    /\ \A q \in Clients : tx[q] # None /\ tx[q].op = "apply"
                           /\ TargetOf(tx[q].cs) = TargetOf(tx[p].cs) => q = p

\* An approved or completed changeset has the approval of its current plan, by
\* somebody other than its requester.
Approved ==
  \A c \in Changesets : state[c] \in {"APPROVED", "COMPLETED"} =>
    /\ approval[c] = plan[c].version
    /\ \E d \in decisions : /\ d.cs = c /\ d.version = plan[c].version
                            /\ d.decision = "APPROVED" /\ d.by # requester[c]

\* What was applied ended its changeset, left its operation and superseded the
\* grant it replaces.
Recorded ==
  \A a \in applied :
    /\ state[a.cs] = "COMPLETED"
    /\ a.plan.version = plan[a.cs].version
    /\ \E o \in operations : o.key = a.key /\ o.cs = a.cs
    /\ desired[a.cs].replaces # NoGrant => desired[a.cs].replaces \in superseded

Inductive ==
  /\ TypeOK /\ Created /\ Underway /\ Planned /\ Registered /\ TargetHeld /\ Approved
  /\ Recorded
=============================================================================
