# Formal models of the Baobab Control Plane

TLA+ models of the parts of `baobab-cp` whose correctness depends on the order
in which concurrent requests, background workers, crashes and messages
interleave. TLC checks small instances; TLAPS proves the properties that matter
most for every instance.

## The system

The Control Plane is a Go API over one PostgreSQL database. It owns the
canonical state of organisations, tenants, markets, mappings, capability
providers, engine releases and instances, and administrative grants. Two things
make it hard to test:

- every command is a READ COMMITTED transaction that reads, decides and writes
  in several statements. Row locks (`FOR UPDATE`), advisory locks, optimistic
  revisions (`If-Match`), idempotency keys and unique constraints are what keeps
  concurrent commands apart;
- a dozen background workers in `cmd/controlplane/main.go` work on the same
  rows: executors with leases, relays, sweeps, an inbox processor.

### Parts and the modules that model them

| Part | Module | What is hard about it |
| --- | --- | --- |
| Changesets (`internal/changeset`, `postgres_changeset.go`) | `Changeset` | plan and target drift apart between read and commit; a semantic lock without a lock; retries of an apply |
| Provisioning execution (`internal/provisioning`, `postgres_convergence.go`, `postgres_operations.go`) | `ProvisioningExecution` | an executor that loses its lease keeps writing; a crash between two commits; cancellation racing completion |
| Event ingress (`internal/eventingress`) | `EventInbox` | at-least-once delivery, two processors on one receipt |
| ERP provisioning (`internal/erpprovisioning`) | `ErpProvisioning` | an answer lost after ERP accepted; events before the submission is recorded and out of order |
| Provider migration (`postgres_provider_migration*.go`, `postgres_engine_migration_task.go`) | `ProviderMigration`, `MigrationPlanning` | a cutover that stops half way, engine tasks past their deadline, two migrations of one binding |
| Engine releases (`postgres_desired_release.go`, `internal/topology/release`) | `EngineRelease`, `ReleaseDrift` | revocation racing a desired release; late and reordered observations |
| External mappings, markets | `MappingRegistry`, `MarketRegistry` | answers about the past; two activations of one country |
| Capability and context resolution (`internal/resolver`, `internal/service`) | `CapabilityDecisions`, `ContextAuthority` | sources that end between their read and the answer, caches that outlive them |
| Identity store (`repository.go`, `postgres.go`) | `IdentityStore`, `IdentityTransactions` | operations of several statements that must look like one |
| Admission and onboarding (`internal/service/{organisation,onboarding,application,progressive}`) | `OrganisationAdmission`, `Counterparties`, `TenantOnboarding`, `ClientApplications`, `ProgressiveAdmission` | stages in transactions of their own, separation of duties across many people, replays |
| Affiliation and groups | `CorporateAffiliation`, `GroupDerivation` | control chains over time; a derivation by a worker past its lease |
| Verification, reviews, custody (`internal/verification`, `internal/documentcustody`) | `VerificationCases`, `DocumentaryReviews`, `DocumentCustody` | a database and a bucket that commit apart |
| Operating authority, estates, mandates (`seller_operating_binding.go`, `estate_*.go`, `legal_actor_*.go`) | `OperatingAuthority`, `EstateProvenance`, `LegalActorMandates` | authority withdrawn under a lease; succession without gap or overlap |
| Subscriptions and billing (`internal/billing`) | `SubscriptionClassification`, `BillingProjection` | a projector that is slow, or never hears the answer |
| Administrative grants and the move to them (`internal/administration`) | `AdministrativeGrants`, `AuthorityMigration` | delegation racing revocation and expiry; evidence lost between memory and store |
| Founding governance (`peo02_*.go`) | `FoundingGovernance`, `FoundingOutbox` | expiry, grace and sponsorship by many hands; lost acknowledgements |
| Console datasets | `ConsoleDatasets` | rows and grants that change between preview and execution |

## Modules

### `Changeset`

Models `internal/changeset/{changeset,lifecycle,planner}.go`, the lifecycle
document they embed, and `internal/repository/postgres_changeset.go` with the
parts of `postgres_grant_change.go` it calls.

State. One variable per column the commands read or write: `state`, `revision`,
`desired`, `requester`, `base`, `plan`, `approval`, `reasons`, `outcome`, the
`decisions` and `operations` tables, the `target` rows (status and revision as
`targetQueries` read them), and `failing`, the targets whose plan checks fail
for reasons outside changesets. `tx` holds the transactions in flight.
`applied` and `consumed` are history variables.

Actions. A command that reads its target is three steps, because each statement
of a READ COMMITTED transaction sees what has committed when it runs:
`Begin…` takes the locks and reads the target row, `ReadLocks` is the rest of
`readTarget` (open changesets, plan checks), and `SubmitChangeset`,
`ApproveChangeset` and `ApplyChangeset` are the commits with everything they
write. `Rollback` is a refusal, an error or a lost connection between them. A
decline or a cancellation reads no target and is one step. `PlanExpires` is the
clock; `DirectChange` and `ChecksChange` are the routes and facts outside
changesets. The row lock on the changeset (`RowLocked`), the lock an apply takes
on the target row (`TargetRowLocked`) and the advisory lock of submissions
(`SubmitLocked`) are read off `tx`.

Abstractions. A plan is the part of its material that can differ between two
plans of one changeset: base revision, from-status and blocker codes; equal
material is equal digest. The transient states (VALIDATING, PLANNING, PLANNED,
APPLYING, VERIFYING) begin and end inside one transaction and are never stored.

`VIEW WithoutBase` leaves `base` out of TLC's fingerprint: no guard and no
checked property reads it.

### `ProvisioningExecution`

Models one converged provisioning: `postgres_convergence.go`,
`postgres_provisioning_commands.go`, `postgres_operations.go`, the handlers
that command it (`provisioning_convergence_handler.go`,
`provisioning_lifecycle_handler.go`), the executor (`apply/executor.go`) and
the orchestrator it drives (`orchestrator.go`, `tenant_provisioning.go`).

State. `row` is the provisioning's row with both its vocabularies, the legacy
`status` and the canonical `state` that a trigger projects from it (`Canonical`);
`plan` and `decision` are what is current; `op` is the table of operations with
attempt, lease and retryability; `world` stands for the authoritative state the
planner reads. `worker` is what an executor holds in memory, `request` what a
command holds between its read and its transaction. `approved` and `done` are
history variables.

Actions. A command is `Load` (the handler reads the row and evaluates the plan)
and a transaction (`RecordPlanDecision`, `AcceptOperation`, `Replan`,
`Withdraw`, `RetryOperation`, or `Refused`). Cancelling is one transaction.
An executor's pass is the code's sequence of transactions:
`FinishAbandonedCancellations`, `Claim`, `LoadExecuted`, `Retry` or `Run` with
`EnterProviderProvisioning`, `Save`, `Advance` and `VersionConflict` for each
phase, `CompleteOperation`, `Mark`. `LeaseLapses` is the clock, and an executor
does not notice it: it goes on until `CompleteOperation` refuses its attempt.
`Crash` ends an executor anywhere. The bodies of phases are their results.

### `EventInbox` and `ErpProvisioning`

`EventInbox` models `internal/eventingress`: receipts by status, and processors
whose passes claim nothing, handle one event after the other, and mark it in a
statement of its own. `ErpProvisioning` extends it with
`internal/erpprovisioning`: `Worker.Submit` as the steps between which it can
stop (read the submission, read the intent, resolve the baseline, record the
intent, read it back, send, discard or record), the ledger's conditional
updates (`Submitted`, `Advanced`), and the two ways progress is read
(`ApplyEvent` from the inbox; `Sweep`, `ReadOperation`, `Record` for the
recovery sweep and for a repeated `Submit`).

ERP is external. `effective` is the Finance baseline in force, which Finance may
supersede at any time; `erp` is the history of every operation by revision.
What is assumed of ERP is what the code relies on: a replay of an idempotency
key is answered with the key's operation, and references that are not in force
are refused. `delayed` holds requests whose caller has given up and that may
still arrive. Events may be lost, repeated, reordered and delivered again after
their receipt is purged. `aged` marks submissions past the sweep's `MaxAge`.

An idempotency key is determined by plan and references (`IdempotencyKey`), so
`<<plan, baseline>>` is key and operation at once. All legal entities' baselines
are one number.

### The other components

Every other module has the same shape: variables for the columns that some
guard or property reads, one action per command, worker pass or statement that
another transaction can come between, `<Component>Next`, `<Component>Spec`, and
where a worker must get something done the fairness of its loop
(`<Component>Fairness`). The head of each module says which source it
translates, what is one step and why. Time is a small clock (`…Tick`,
`…DayPasses`), lost answers and crashes are actions.

- `ProviderMigration`: one migration with its run, its cohorts' bindings and its
  engine tasks. A resumed advance reads the operation and drives it in two steps,
  because a cancellation locks the operation only. `MigrationPlanning` has the
  planner and several migrations over the same bindings.
- `EngineRelease`: releases, certifications, desired releases; setting a desired
  release and revoking a release have a read and a commit. `ReleaseDrift`: one
  instance's observations, drift row, sweep and readiness.
- `MappingRegistry`, `MarketRegistry`: the registries with their idempotent
  creates; a market's activation takes its country locks one by one.
- `CapabilityDecisions`, `ContextAuthority`: a decision or a context fixes its
  instant and then reads each source in a query of its own. Nothing invalidates
  the resolution cache when a grant or an instance ends, so it may serve what
  would be refused; the property bounds for how long (`StaleForLessThanTheTTL`).
- `IdentityStore` is the abstract specification: every operation at once.
  `IdentityTransactions` is the PostgreSQL implementation, statement by
  statement under row locks; `ImplementsIdentityStore` is the refinement, with
  the four tables mapped to themselves and a transaction's writes visible at its
  commit. TLC checks it on an instance, `IdentityProofs` proves it.
- `OrganisationAdmission`: the onboarder's stages, a transaction each, beside
  the commands that change the same rows. `Counterparties`: reconciliation runs
  in batches, resolution candidates, and the links to identity providers (a
  specification of its own). `TenantOnboarding`, `ClientApplications`,
  `ProgressiveAdmission`: lifecycles with the people who take each step. The
  admission's onboarding may point a registered tenant at another primary
  organisation (`ReplacePrimaryTenantOrganisation`, at most `MaxReplaced` times).
- `CorporateAffiliation`: relationships over days and the control walk that
  eligibility rests on. Ending a relationship overwrites the end of its term, so
  a term that ran out earlier is stretched (`EndingKeepsHistory` says no more
  than that happens). `GroupDerivation`: the queue, leases, workers and sweep
  that keep a derived group current.
- `VerificationCases`, `DocumentaryReviews`, `DocumentCustody`: cases with their
  claims and checks; reviews with restrictions and releases; one document in
  database and bucket. Evidence has a source (`SourceOf`); from the
  sources that the migrations suspend no new evidence comes, and they support no
  check. Whoever approved a requirement's policy (`PolicyApprover`) neither
  assesses nor releases it, whoever approved its source (`SourceApprover`) does
  not release it.
- `OperatingAuthority`, `EstateProvenance`, `LegalActorMandates`,
  `SubscriptionClassification`: who may act, on which record, until when. An
  estate is attested along one of three paths: a workload's token, a native
  resource's configuration, or the estate's own client.
- `BillingProjection`: projectors of several processes and an external engine
  that answers a repeated request as it did the first time. A cancelled
  subscription whose winding up ends between ensure and command is never
  recorded as synced (`TerminationOutran`), though the engine is right.
- `AuthorityMigration`: comparisons in memory, batches and the store. A batch
  whose commit was not acknowledged is put back and counted twice
  (`postgres_shadow_evidence.go:65`); the properties allow this and nothing else.
- `AdministrativeGrants`: direct, delegated and bootstrap grants (`MaxBootstrap`)
  of one permission. Profile grants are left out: the code validates them
  (`grant.go:93`) and creates none.
- `ConsoleDatasets`: every request reads grants and clock before its transaction
  and may be held up after it (`MaxInHand` requests, `MaxProposed` plans).
- `FoundingOutbox`, `FoundingGovernance`: relay and sweeps, and the commands they
  race.

### How the parts meet

The APPLY phase of `ProvisioningExecution` is where `ErpProvisioning`'s Submit
runs. An executor that outlives its lease is therefore a second submitter of
the same plan: `provisioning_race` shows that state to be reachable and harmless
for the operation's record, `erp_race` what it can do to the intent.

The other components are modelled each on its own. What one reads of another is
an input that may change between any two of its steps (the `Facts` of
`OperatingAuthority`, the sources of `ContextAuthority`, the relationships of
`SubscriptionClassification`); the code of both sides running together is not
composed.

## Runs

The large runs check several components each. `focus` names the component at
work and the others stand still, so the states are the sum of the components'
and each component is explored on its own; `MC…` modules hold the instances.
Each component states what it promises as one formula (`…Promises`): its
invariants, its action properties and, where it has them, its liveness
properties.

Deadlock is checked in the passing runs of `ProvisioningExecution` and
`ErpProvisioning`, whose workers poll for ever; changesets, and the components
of the large runs, may all come to an end within their bounds.

| Run | Instance | Shows |
| --- | --- | --- |
| `changeset` | a tenant and a principal with two changesets each, an instance with one; two people, transactions and keys | approval, staleness, semantic lock, If-Match, CHECK constraints under every interleaving with the direct routes; a grant is replaced once |
| `provisioning_race` | 2 executors, 1 operation, up to 3 attempts, changing world | exclusive attempts, final outcomes, cancellation, status table |
| `provisioning_plans` | 1 executor, 2 requests in flight, 2 plans, 2 attempts | only the current approved plan reaches the pipeline |
| `provisioning_finish` | 1 executor that may crash, 2 operations | every accepted operation is finished |
| `provisioning_stranded` | 1 executor, 1 operation | *violated*: a provisioning no command reaches |
| `erp_submit` | 1 submitter, 1 sweep, 1 processor, 2 baselines, 2 revisions | the ledger reports ERP, moves forward, loses no accepted operation, and catches up |
| `erp_race` | 2 submitters, 3 baselines | *violated*: two ERP operations for one plan |
| `topology` | `MCTopology` | one authoritative writer per cohort, cutover inside its window, no two live migrations of a binding, releases deployed only where they may be, past answers that stand, decisions and contexts that end with their sources, a projection that follows the registry |
| `admission` | `MCAdmission` | identity transactions implement the identity store; what an admission reported holds; reconciliation finishes and decisions stand; one tenant per onboarding |
| `assurance` | `MCAssurance` | separation of duties, questions answered, eligibility exactly with control, verified cases whole, restrictions lifted by others, documents never lost or erased early, withdrawal within the lease, one estate per cell, answers backed by their record |
| `delivery_sweeps` | `MCDelivery`, with fairness | drift is noticed, evidence reaches the store, groups converge, billing converges, mandates are never ambiguous |
| `delivery_clocks` | `MCDelivery`, with fairness | grants follow the clock and never outreach their source, expiry is recorded, events are published, artefacts are erased |

Bounds. Two of what races are enough for the races here: each is between a
transaction and one other that commits between two of its statements, or
between an executor and the one that takes over. Two baselines let Finance
supersede once between any two steps of Submit, two revisions let an older
report arrive after a newer one; the theorems lift both bounds. A changeset's
revisions (`Limits` in `MCChangeset`) allow create, submit, decide and apply,
and for an instance two resubmissions. `AttemptBound` allows a retry after an
interrupted attempt. The clocks of the other components run long enough for a
window to open, close and be asked about afterwards; people are as many as the
separated duties need and one more who holds two of them. Decisions are explored
with up to four events around them (`MaxDecMoves`), which is what the longest
case, a cached answer that outlives its source, takes. Every bound is a named
constant. The `Mutant` operators are changed forms of a definition, one for each
property of a run, that TLC finds to break it within these bounds.

Fairness. `ProvisioningExecution!FairSpec`: every executor's loop polls and
takes its next step (`Executor.Run` in a goroutine of each replica), and the
clock passes a lease that nobody renews; crashes are not bounded, and a crash
is not a fair step. `ErpProvisioning!FairSpec`: `Sweeper.Run` runs on its
interval (weak fairness), and a read of an operation that is tried again and
again is some time answered and recorded (strong fairness, because each single
read may fail). Nothing is assumed of deliveries, processors or submitters.
`MCDelivery!SweepsFairness` and `ClocksFairness`: weak fairness of the loops that
`cmd/controlplane/main.go` starts on their tickers (drift sweep, grant sweep,
group workers with their sweep, founding sweeps, relay, projector, dataset
purge) and of the recorder's flush loop (`api/shadow_evidence.go`), of the
commit that ends a transaction already begun, and of the clocks that end a lease
or a back-off. Some loops start only where the deployment enables them (the
founding sweeps outside production, with `PEO_FOUNDING_GOVERNANCE_ENABLED` and,
for reviews, `PEO_FOUNDING_REVIEW_SCHEDULER_ENABLED`); the liveness properties
are about deployments where they run. Errors, crashes, outages and
overruns are bounded by constants, as each liveness property is about what
happens once they stop.

## Proofs

Each theorem holds for every instance: any sets of changesets, targets, people,
clients, executors, operations, plans, submitters, sweepers, processors,
sessions, principals, releases, instances, mappings, applicants, reviewers,
requirements and classifications, and any bounds, under the named assumptions
(`BoundsAssumption` and those on the change kinds in `Changeset`,
`ExecutionAssumption`, `ErpAssumption`, those of `IdentityStore` and
`IdentityTransactions`, `ReleaseAssumption`, `MappingAssumption` with
`MapClockAssumption`, and those of `ClientApplications`, `ProgressiveAdmission`,
`DocumentaryReviews` and `SubscriptionClassification`). They say that the value
standing for an empty column names nobody, that a creation asks for known
countries and that bounds and ids are numbers.

| Theorem | Module | Statement |
| --- | --- | --- |
| `TypeCorrect`, `EndedStaysEnded` | `ChangesetInduction` | `[]TypeOK`, `EndedIsFinal` |
| `OnlyApprovedPlansApply`, `AppliesFindThePlannedTarget`, `AppliedOnce`, `NoLostUpdate`, `GrantsReplacedOnce`, `RevisionsNamedOnce` | `ChangesetProofs` | what an apply may do |
| `OneLivePlan`, `NoneAwaitsBehindAnother`, `RowsMeetConstraints` | `ChangesetProofs` | the semantic lock, what the advisory lock of submissions adds to it, the CHECK constraints |
| `OneExecutor` | `ProvisioningProofs` | `[]OneExecutorPerAttempt` |
| `OutcomesFinal`, `StopsWhenAsked`, `StatusFollows` | `ProvisioningProofs` | outcomes, cancellation, status table |
| `OnlyApprovedExecuted`, `ExecutionTyped` | `ProvisioningProofs` | `[]ExecutesOnlyApprovedPlans`, `[]TypeOK` |
| `LedgerAlwaysReportsErp`, `AppliedEventsAlwaysRecorded`, `ProgressAlwaysForward`, `LedgerTyped` | `ErpProofs` | what the ledger says |
| `AcceptedNeverOrphaned`, `PlanHasOneOperation` | `ErpProofs` | what an intent achieves, as long as `DiscardIntent` drops only refused requests (`DiscardsOnlyRefused`) |
| `TransactionsImplementStore` | `IdentityProofs` | `TxSpec => Abstract!IdentitySpec`: the refinement |
| `NoMergeDeadlock`, `LastCredentialAlwaysKept`, `NobodyOrphaned`, `MergesStrandNothing`, `IdentitiesTyped` | `IdentityProofs` | what transactions on identities may do to each other |
| `DigestsOwnedOnce`, `ReleasesSeparateDuties`, `DesiredStaysDeployable`, `DesiredReplacesWhatWasRead`, `ReleasesImmutable` | `TopologyProofs` | releases and what instances should run |
| `ReplaysAlwaysConverge`, `PastAnswersAlwaysStand`, `ReviewedContentAlwaysStands` | `TopologyProofs` | mappings: idempotent creates, answers about the past, reviewed content |
| `ApplicationsSound`, `NoEditIsLost`, `ClosedStaysClosed` | `AssuranceProofs` | client applications: questions, decider, edits, ends |
| `SixHandsAlways`, `StagesFollow`, `ScopeStaysWithin`, `OrganisationsTakenOnce` | `AssuranceProofs` | progressive admission: people, stages, scope, organisations |
| `OneRevisionOpen`, `ReleasedByOthers`, `ReleasesRestOnEvidence`, `OnlyReleasesReopen` | `AssuranceProofs` | documentary reviews: revisions, people, evidence, what opens a scope |
| `RecordsAlwaysChain`, `AnswersAlwaysBacked` | `AssuranceProofs` | classification: the records, and what an answer rests on |
| `ContainedReachesNoFurther` | `AdministrativeGrants` | a scope that `Contains` accepts as a delegation reaches no resource its source does not reach, except through an organisation its source lists |
| `ChangesetsKeepPromises`, `ExecutionKeepsPromises`, `LedgerKeepsPromises`, `IdentitiesKeepPromises`, `ReleasesKeepPromises`, `MappingsKeepPromises`, `ApplicationsKeepPromises`, `BridgeKeepsPromises`, `ReviewsKeepPromises`, `ClassificationKeepsPromises` | each in its component's module | the whole `…Promises` formula that the runs check |

The arguments:

- *Changesets.* `AppliedToThePlannedTarget` is not inductive: between the two
  reads of an apply and its commit, the target must not move. The invariant adds
  what the locks guarantee of open transactions: a transaction past its first
  statement has its changeset to itself, at the revision it named (`Underway`),
  an apply holds its target's row unchanged (`TargetHeld`), what awaits a
  decision, is approved or was applied has a plan without blockers (`Planned`),
  an approval is of the present plan and another person's (`Approved`), and what
  was applied ended its changeset and left its operation (`Recorded`).
  Uniqueness per revision then follows because an apply to a revisioned target
  raises its revision. `OneLivePlanPerTarget` holds in every state by the
  planner's reading of the other changesets of a target, once `Base` gives the
  plans their types; `RowConstraints` is inductive beside `Base` and
  `PlansNumbered` (an approval stores its plan's version, and 0 stands for NULL).
  That a submission is never planned behind one that awaits approval
  (`AwaitsBehindNone`) does need the advisory lock. `Serial`: submissions in
  flight are of different targets, and a target that one of them found free
  stays free until it commits.
- *Executors.* `OneExecutorPerAttempt` needs `ClaimsBelow`: no executor holds a
  later attempt than the operation's, nor the current one while the operation is
  queued. A claim of a lapsed lease raises the attempt, a claim of a queued
  operation takes an attempt nobody has held.
- *Status.* An executor past its lease holds a version it read before. `RowInv`
  says that a write at the row's present version was computed from the row's
  present status; a stale one is refused by its version.
- *Plans.* `PlanInv`: the decision APPROVED is about the current plan, and a
  manifest an executor carries came from a plan that was approved, superseded
  since or not. A replan resets the decision in the same transaction.
- *Ledger.* `LedgerInv` follows every copy of an operation's progress (ledger,
  memory of workers, receipts, batches) back to ERP's history, which only grows.
  `RestInv` adds the bound of the histories and that a receipt has one status.
- *Intents.* `IntentInv`: every request that may still reach ERP is named by the
  plan's submission or intent, or is one ERP refuses from now on because its
  baseline has been superseded. Discarding keeps it when what `DiscardIntent`
  deletes is an intent ERP refuses: `DiscardsOnlyRefused`, a condition on that
  one step and the theorems' hypothesis. The code deletes by plan and does not
  look at which intent it deletes; `erp_race` shows a second submitter making it
  take the excluded step.
- *Identities.* The mapping is the identity on the four tables, and sessions have
  no counterpart: every statement but a commit stutters. `TxInv` says why a
  commit is one abstract operation although its reads are older: the rows a
  session counted are locked and still active (`CountedInv`), a merge holds the
  rows it read (`HeldInv`, `MovedInv`), and no row is locked by two sessions
  (`LocksApart`). An unlink that counted two active credentials therefore still
  finds two, and a merge that locks in the order of the ids, whatever its
  direction, cannot be in a circle.
- *Releases.* A desired release is checked in one step and committed in another.
  `FlightInv`: an open transaction's target was approved, fits the instance and
  has the provenance it needs, the row it replaces is as it found it, and no two
  open transactions hold one instance. Deployability itself is stable
  (`DeployableStays`): no step takes an approver, a content or an engine away.
  That a revoked release is not desired is no part of it, and does not hold
  (see Divergences).
- *Mappings.* `AnswersInv`: a key has one row, and a call that was answered with
  a mapping was answered with the row of its key; the unique index is what keeps
  it when two lookups both found nothing. `StampsInv` ties the stamps of a row to
  its status, so that a retirement now leaves the row in force at every earlier
  instant. A step then changes who is in effect at such an instant only by an
  activation, and what candidates agree on depends only on what they offer.
- *Applications.* A decision is evaluated on a row read earlier and written under
  the row's lock, where `Decide` looks again. `SoundRow` is what every command
  finds and leaves: from validation on somebody is assigned, an application is
  under review only with its questions answered, and it has a decision exactly
  when it is APPROVED or REJECTED, by neither of its parties.
- *Progressive admission.* `RolesInv`: who takes part in a stage took part in none
  before it, and the scope lies within the application. Registration verifies in
  one step and writes in another: `RegisteringInv` says that a registration
  between them is alone, that its request is still AUTHORISED and that the
  organisation is still nobody's, because it holds their locks.
- *Reviews.* `RevisionsInv`: every revision but the last was returned, and each
  was decided, appealed and judged by different people. `ReleasesInv` carries
  what an approval verified before it waited for the lock: the restriction is
  still there, since a decided revision keeps its restrictions, and the result
  still exists, since results are only added. Maker and checker of a restricted
  revision are fixed, so who had no part in it when the approval was verified
  has none when it is written.
- *Classification.* An answer reads the record, the mapping and the basis one
  after the other, for the time at which it began. `AskingInv`: what was found
  stays true of that time, because records are only appended, each replaced no
  earlier than now, and a fact ceases no earlier than now.

Only model-checked: liveness (`OperationsFinish`, `OperationsCatchUp`, and that
of the `delivery` runs), which is outside the prover's reach; the half of
`EarlierCreatedGoesFirst` that is about plans made earlier (`KeepsEarlierPlan`);
and the promises of the components that have no `…KeepsPromises` theorem above,
among them `MigrationPromises`, `PlanningPromises`, `MarketPromises`,
`AdmissionPromises`, `AffiliationPromises`, `CustodyPromises` and all those of
the `delivery` runs.

## Findings

Two runs find a statement of the repository violated by what the code does;
`PROJECT.json` quotes each:

- an attempt that fails after the pipeline's first write, or whose executor dies
  before `Mark`, leaves a provisioning no command accepts
  (`provisioning_stranded`);
- the late discard of a refused intent removes another submitter's
  (`erp_race`).

### Divergences

Statements of the repository that the code does not keep. Where a definition is
named, it states the sentence and no run checks it: TLC refutes it on the
instance of the run that has its module, except that `SucceededPlanWasApplied`
needs two operations (one executor, client and world, two plans and attempts)
and `ProofsUsedWithinLifetime` a longer clock (`EvidenceEnds = LastEstDay = 4`,
`ProfileUntil = 5`).

| Statement | Definition |
| --- | --- |
| `postgres_changeset.go:272-274` "a later submission never makes an earlier plan stale": a draft created first and submitted second does, and two replacements of one grant block each other (`postgres_grant_change.go:190`) | `KeepsEarlierPlan`, with `o # c` for the first case, for principals in the second (`EarlierCreatedGoesFirst` is what holds) |
| `executor.go:173` "The approved plan was applied and the tenant is ACTIVE.": a provisioning replanned in mid-pipeline resumes there (`postgres_provisioning_commands.go:65`) | `SucceededPlanWasApplied` |
| `provider-migration-lifecycle.yaml:130-133` "so its writes never stay unavailable" | `RolledBackAcceptsWrites` |
| `000086_engine_instance_desired_release.sql:51` "Revoking a release never leaves it desired" | `RevokedNeverDesired` |
| `postgres_administration_admin.go:48-50` "Revoking also revokes every grant delegated from it, directly or further down" | `RevocationReachesDelegations` |
| `internal/administration/contain.go:7` "the exact converse of how Evaluate decides coverage": a static group contains a scope at an organisation it lists (`containsGroup`), and that organisation reaches the tenants mapped to it, which the group does not (`DelegateNeverOutreaches` is what holds) | `ContainsIsTheConverse` |
| `api/shadow_evidence.go:153` "This instance's unflushed comparisons count too." | `ReadinessCountsUnflushed` |
| `postgres_corporate_group_derivation.go:56-58` "otherwise the group stays due" | `NoStaleCurrentGroup` |
| `service/organisation/admission.go:391-393` "a case never verifies a name or identifier it did not check" | `VerifiedNamesWereChecked` |
| `counterparty_reconciliation.go:66-67` "A batch smaller than the limit on both phases means the backlog is drained" | `ShortBatchMeansDrained` |
| `service/application/service.go:39-40` "an approval may only cover markets the application requested" | `ApprovedWithinRequested` |
| `service/onboarding/service.go:206` "Cancel withdraws a REQUESTED or AUTHORISED request." | `CancelledReleasesOrganisation` |
| `peo03_direct_registration.go:115-117` "INTERNAL classifications need current actual sponsorship at the moment registration consumes authority." | `InternalSponsoredWhenRegistered` |
| `api/provisioning_context_authority.go:20-21` "tenant suspension denies tenant-scoped access" | `SuspendedTenantResolvesNothing` |
| `000127_trade_seller_operating_binding.sql:232` "A successor version activates only by superseding its live predecessor in this transaction." | `SuccessorSupersedesLive` |
| `api/estate_commerce_profile_handler.go:182-184` "within its lifetime" | `ProofsUsedWithinLifetime` |
| `postgres_subscription_classification.go:35-36` "newest first" | `AlwaysExplained` |
| `000070_market_registry.sql:39` "Create replays: one market per creator and Idempotency-Key." | `RetriedCreateIsAnswered` |
| `changeset.schema.json:312` calls `base_revision` "the revision of the target the plan was generated against"; `CreateChangeset` writes it once, a submission plans against the revision it reads (`postgres_changeset.go:335`) | |
| `changeset_handler.go:66` answers a stale plan with "submit the changeset again"; one that awaits approval has no submit transition | |
| `postgres_provisioning_commands.go:80` says a withdrawn provisioning "is CANCELLED"; `MarkProvisioningBlocked` (`apply/executor.go:83`) follows `CompleteOperation` without a guard on the state and can turn it back to BLOCKED | |
| `provisioning_lifecycle_handler.go:284-286` says a retry resumes "while its approved plan is current"; that is checked before the transaction. The executor's own check ends such an attempt (`ExecutesOnlyApprovedPlans`) | |

## What is not modelled

Planner and phase bodies, verification of signatures and tokens, request
validation, audit records, reporting columns and metrics: pure or without
effect on any guard. Time appears as choice or as a small clock. Database
isolation is READ COMMITTED with the locks the statements take; a lock's queue
is not modelled, a waiting transaction may be granted in any order.
`PROJECT.json` lists, per component, what is left out and why.
