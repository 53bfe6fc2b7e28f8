------------------------------ MODULE ReleaseDrift ------------------------------
(***************************************************************************)
(* Deployment observations of one engine instance, the release it is       *)
(* observed to run, its release drift, and what open drift does to the     *)
(* readiness of the tenants bound to it. Reporters submit in any order and *)
(* with their own clocks. An observation is compared when it arrives; the  *)
(* sweep fixes its time when it starts and evaluates the instance later.   *)
(***************************************************************************)
EXTENDS Naturals, FiniteSets, FiniteSetsExt

CONSTANTS Reports,          \* what reporters say runs: [artifacts, here]
          DigestOwner,      \* the release owning each digest: a release, "foreign" or "unknown"
          OwnReleases,      \* releases of the instance's engine
          Undesired,        \* no desired release
          Grace,            \* release-policy.yaml drift.reasons: grace in ticks
          Effect,           \* their readiness_effect
          MinTTL, MaxTTL,   \* observation.ttl_seconds, in ticks
          MaxTime,          \* bound: the clock
          MaxObservations,  \* bound: observations
          MaxPolicyChanges, \* bound: changes of desired release and revocations
          Bound             \* a tenant's capability bindings: [mandatory, here, elsewhere]

ASSUME DriftAssumption ==
  /\ MinTTL \in Nat \ {0} /\ MaxTTL \in Nat /\ MinTTL <= MaxTTL
  /\ MaxTime \in Nat /\ MaxObservations \in Nat
  /\ Undesired \notin OwnReleases

VARIABLES driftClock,
          observations,  \* deployment_observation rows, by ingestion_sequence
          desire,        \* the instance's [release, since], and the changes so far
          revokedRel,    \* releases with status REVOKED
          driftRow,      \* engine_instance_release_drift
          sweepAt,       \* the time a sweep in progress runs at
          driftEvents    \* how many release-drift-detected events were published, modulo 2

driftVars == <<driftClock, observations, desire, revokedRel, driftRow, sweepAt, driftEvents>>

NoDrift == [reason |-> "none"]
NotSweeping == MaxTime + 1
Later(a, b) == IF a < b THEN b ELSE a

-----------------------------------------------------------------------------
(* Observed release *)

\* Mutant: the report that arrived last is the current one.
NewerByArrival(a, b) == a > b

\* current_observation_order: the latest observed_at, then the highest sequence.
Newer(a, b) ==
  \/ observations[a].observedAt > observations[b].observedAt
  \/ observations[a].observedAt = observations[b].observedAt /\ a > b

\* Only the newest can be current; expired or future-dated, it says nothing.
Newest == CHOOSE o \in DOMAIN observations : \A p \in DOMAIN observations \ {o} : Newer(o, p)
IsCurrent(o, now) == o.observedAt <= now /\ now < o.expiresAt
HasCurrent(now) == DOMAIN observations # {} /\ IsCurrent(observations[Newest], now)

Derive(artifacts) ==
  LET owners == {DigestOwner[d] : d \in artifacts}
  IN  CASE "unknown" \in owners -> [state |-> "UNKNOWN_ARTIFACT", releases |-> {}]
        [] "unknown" \notin owners /\ "foreign" \in owners -> [state |-> "FOREIGN_ARTIFACT", releases |-> {}]
        [] owners \subseteq OwnReleases -> [state |-> IF Cardinality(owners) > 1 THEN "MIXED" ELSE "RELEASE", releases |-> owners]

ObservedRelease(now) ==
  IF HasCurrent(now) THEN Derive(observations[Newest].artifacts)
  ELSE [state |-> "UNKNOWN", releases |-> {}]

-----------------------------------------------------------------------------
(* ReleaseDriftCondition: the first reason that holds, in driftPrecedence *)

\* o: the observed release; here: the current observation is where the instance is.
Holds(reason, o, here) ==
  CASE reason = "REVOKED_RELEASE_RUNNING" -> o.releases \cap revokedRel # {}
    [] reason = "UNKNOWN_ARTIFACT_RUNNING" -> o.state \in {"UNKNOWN_ARTIFACT", "FOREIGN_ARTIFACT"}
    [] reason = "DEPLOYMENT_LOCATION_MISMATCH" -> ~here
    [] reason = "RELEASE_MISMATCH" -> /\ desire.release # Undesired
                                      /\ o.state \in {"RELEASE", "MIXED"} /\ o.releases # {desire.release}
    [] reason = "RELEASE_UNOBSERVED" -> desire.release # Undesired /\ o.state = "UNKNOWN"

DriftPrecedence == <<"REVOKED_RELEASE_RUNNING", "UNKNOWN_ARTIFACT_RUNNING", "DEPLOYMENT_LOCATION_MISMATCH",
                     "RELEASE_MISMATCH", "RELEASE_UNOBSERVED">>

ReleaseDriftCondition(now) ==
  LET o == ObservedRelease(now)
      here == HasCurrent(now) => observations[Newest].here
      holding == {n \in DOMAIN DriftPrecedence : Holds(DriftPrecedence[n], o, here)}
  IN  IF holding = {} THEN "none" ELSE DriftPrecedence[Min(holding)]

\* Grace counts from when the release was desired for the reasons about it.
NotBefore(reason) == IF reason \in {"RELEASE_MISMATCH", "RELEASE_UNOBSERVED"} THEN desire.since ELSE 0

DriftOpen(reason, since, now) == now >= Later(since, NotBefore(reason)) + Grace[reason]

-----------------------------------------------------------------------------
(* evaluateReleaseDriftTx, under the instance's advisory lock *)

Announced(reason, opens) ==
  IF opens /\ driftRow # NoDrift /\ driftRow.announced = reason THEN reason ELSE "none"

RecordDrift(reason, now) ==
  LET since == IF driftRow # NoDrift /\ driftRow.reason = reason THEN driftRow.since ELSE now
      opens == DriftOpen(reason, since, now)
  IN  /\ driftRow' = [reason |-> reason, since |-> since, open |-> opens,
                      announced |-> IF opens THEN reason ELSE "none"]
      /\ driftEvents' = IF opens /\ Announced(reason, opens) = "none" THEN 1 - driftEvents ELSE driftEvents

EvaluateReleaseDrift(now) ==
  \E reason \in {ReleaseDriftCondition(now)} :
    IF reason = "none" THEN driftRow' = NoDrift /\ UNCHANGED driftEvents ELSE RecordDrift(reason, now)

\* The handler refuses a reporter outside its scope; the window is policy's.
SubmitObservation(report, at, ttl) ==
  LET next == Cardinality(DOMAIN observations) + 1
  IN  /\ next <= MaxObservations
      /\ ttl \in MinTTL..MaxTTL
      /\ observations' = [o \in DOMAIN observations \cup {next} |->
           IF o = next THEN [artifacts |-> report.artifacts, here |-> report.here, observedAt |-> at, expiresAt |-> at + ttl]
           ELSE observations[o]]
      /\ UNCHANGED <<driftClock, desire, revokedRel, driftRow, sweepAt, driftEvents>>

\* RecordDeploymentObservation's comparison, after the insert; it may fail.
CompareObservation ==
  /\ DOMAIN observations # {}
  /\ EvaluateReleaseDrift(driftClock)
  /\ UNCHANGED <<driftClock, observations, desire, revokedRel, sweepAt>>

SweepStarts ==
  /\ sweepAt = NotSweeping
  /\ sweepAt' = driftClock
  /\ UNCHANGED <<driftClock, observations, desire, revokedRel, driftRow, driftEvents>>

SweepReleaseDrift ==
  /\ sweepAt # NotSweeping
  /\ IF desire.release # Undesired \/ DOMAIN observations # {} \/ driftRow # NoDrift
     THEN EvaluateReleaseDrift(sweepAt) ELSE UNCHANGED <<driftRow, driftEvents>>
  /\ sweepAt' = NotSweeping
  /\ UNCHANGED <<driftClock, observations, desire, revokedRel>>

\* A desired-release changeset, or a revocation's disposition, commits.
DesireChanges(r) ==
  /\ r # desire.release /\ r \notin revokedRel /\ desire.changes < MaxPolicyChanges
  /\ desire' = [release |-> r, since |-> driftClock, changes |-> desire.changes + 1]
  /\ UNCHANGED <<driftClock, observations, revokedRel, driftRow, sweepAt, driftEvents>>

ReleaseIsRevoked(r) ==
  /\ r \notin revokedRel /\ desire.release # r /\ desire.changes < MaxPolicyChanges
  /\ revokedRel' = revokedRel \cup {r}
  /\ desire' = [desire EXCEPT !.changes = @ + 1]
  /\ UNCHANGED <<driftClock, observations, driftRow, sweepAt, driftEvents>>

DriftTick ==
  /\ driftClock < MaxTime
  /\ driftClock' = driftClock + 1
  /\ UNCHANGED <<observations, desire, revokedRel, driftRow, sweepAt, driftEvents>>

-----------------------------------------------------------------------------
(* TenantReleaseReadiness *)

\* The instance's open drift effect, as one of a capability's usable bindings sees it.
OpenEffect == IF driftRow # NoDrift /\ driftRow.open THEN Effect[driftRow.reason] ELSE "none"

ReleaseReadinessOf(b) ==
  IF ~b.here \/ OpenEffect = "none" THEN "none"
  ELSE IF b.mandatory /\ ~b.elsewhere /\ OpenEffect = "BLOCKED" THEN "BLOCKED" ELSE "DEGRADED"

Aggregate(verdicts) ==
  IF "BLOCKED" \in verdicts THEN "BLOCKED" ELSE IF "DEGRADED" \in verdicts THEN "DEGRADED" ELSE "none"

TenantReleaseReadiness == Aggregate({ReleaseReadinessOf(b) : b \in Bound})

-----------------------------------------------------------------------------
DriftInit ==
  /\ driftClock = 0
  /\ observations = [o \in {} |-> 0]
  /\ desire = [release |-> Undesired, since |-> 0, changes |-> 0]
  /\ revokedRel = {} /\ driftRow = NoDrift /\ sweepAt = NotSweeping /\ driftEvents = 0

DriftNext ==
  \/ \E report \in Reports, at \in 0..MaxTime, ttl \in MinTTL..MaxTTL : SubmitObservation(report, at, ttl)
  \/ CompareObservation
  \/ SweepStarts
  \/ SweepReleaseDrift
  \/ \E r \in OwnReleases \cup {Undesired} : DesireChanges(r)
  \/ \E r \in OwnReleases : ReleaseIsRevoked(r)
  \/ DriftTick

DriftSpec == DriftInit /\ [][DriftNext]_driftVars
DriftFairness == WF_driftVars(SweepStarts) /\ WF_driftVars(SweepReleaseDrift)

-----------------------------------------------------------------------------
(* Properties *)

\* A report that arrives late, observed before the newest one, never changes
\* what the instance is taken to run.
LateReportsSayNothing ==
  [][observations' # observations /\ DOMAIN observations # {} =>
       LET n == Max(DOMAIN observations')
       IN  observations'[n].observedAt < observations[Newest].observedAt =>
             ObservedRelease(driftClock)' = ObservedRelease(driftClock)]_driftVars

\* Opening drift, or changing its reason, publishes exactly one event, and
\* nothing else does: an evaluation publishes when the row it leaves is open
\* and the row it found was not open with that reason.
OneEventPerOpening ==
  [][driftRow' # driftRow \/ driftEvents' # driftEvents =>
       driftEvents' = IF /\ driftRow' # NoDrift /\ driftRow'.open
                         /\ ~(driftRow # NoDrift /\ driftRow.open /\ driftRow.reason = driftRow'.reason)
                      THEN 1 - driftEvents ELSE driftEvents]_driftVars

\* A release desired a moment ago is not drift: mismatch and silence open only
\* when their grace has passed since the release was desired.
GraceAfterDesire ==
  [][driftRow' # driftRow /\ driftRow' # NoDrift =>
       \A reason \in {"RELEASE_MISMATCH", "RELEASE_UNOBSERVED"} :
         driftRow'.open /\ driftRow'.reason = reason => driftClock >= desire.since + Grace[reason]]_driftVars

\* Drift blocks a tenant only while a revoked release, an unknown artifact or
\* a misplaced deployment runs, never for a rollout or a silent reporter.
BlockedOnlyBySeriousDrift ==
  TenantReleaseReadiness = "BLOCKED" =>
    driftRow.reason \notin {"RELEASE_MISMATCH", "RELEASE_UNOBSERVED"} /\ \E b \in Bound : b.mandatory /\ ~b.elsewhere

\* The sweep notices what no observation announces: infinitely often the row
\* agrees with the condition that holds, and is open once its grace is over.
DriftIsNoticed ==
  []<>(LET reason == ReleaseDriftCondition(driftClock)
       IN  IF reason = "none" THEN driftRow = NoDrift
           ELSE driftRow # NoDrift /\ driftRow.reason = reason
                /\ (DriftOpen(reason, driftRow.since, driftClock) => driftRow.open))

\* Release drift: late reports say nothing, one event per opening, a grace
\* after a new desire, only serious drift blocks, and drift is noticed in
\* the end.
DriftPromises ==
  /\ []BlockedOnlyBySeriousDrift
  /\ LateReportsSayNothing
  /\ OneEventPerOpening
  /\ GraceAfterDesire
  /\ DriftIsNoticed
=============================================================================
