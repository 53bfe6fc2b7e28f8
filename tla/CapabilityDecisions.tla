------------------------ MODULE CapabilityDecisions ------------------------
(***************************************************************************)
(* Capability resolution: a decision on one capability for one tenant      *)
(* (internal/service/capability_resolution.go over internal/resolver), the *)
(* health it judges candidates by (internal/health,                        *)
(* internal/repository/postgres_health.go) and the resolution cache        *)
(* (internal/service/resolution_cache.go).                                 *)
(*                                                                         *)
(* A decision fixes its instant first and then reads grants, the           *)
(* subscriptions behind them, providers, health and instances in queries   *)
(* of their own, so anything may change between two of them.  Health       *)
(* observations are made outside, at an instant of their own, and arrive   *)
(* in any order.                                                           *)
(***************************************************************************)
EXTENDS Integers, FiniteSets, Sequences

CONSTANTS
    DecBindings,     \* [binding id -> its engine, instance, provider, mode, specificity and priority]
    DecOrder,        \* the bindings in the order ListBindings returns them
    Criticality,     \* the capability's health criticality
    DecContextEnds,  \* the day the caller's context expires
    HealthLife,      \* how long an observation is current
    ReportedStatus,  \* statuses a report may carry
    ReportDays,      \* days a report may be of
    MaxReports,      \* bound on the reports received
    MaxDecMoves,     \* bound on what happens around decisions: reports, sources ended, days
    CacheTTL,        \* TTL of the resolution cache
    LastDecDay       \* bound on the clock

ASSUME BindingAssumption ==
    /\ DecOrder \in Seq(DOMAIN DecBindings) /\ DecOrder /= <<>> /\ IsFiniteSet(DOMAIN DecBindings)
    /\ \A b \in DOMAIN DecBindings : \E n \in DOMAIN DecOrder : DecOrder[n] = b
    /\ \A b \in DOMAIN DecBindings :
         /\ DecBindings[b].specificity \in Int /\ DecBindings[b].priority \in Int
         /\ DecBindings[b].mode \in {"PRIMARY", "FALLBACK", "SHADOW", "MIGRATION"}
    /\ {"UNHEALTHY", "AMBIGUOUS", "NOT FOUND"} \cap DOMAIN DecBindings = {}

ASSUME DecisionAssumption ==
    /\ ReportedStatus \subseteq {"UNAVAILABLE", "UNKNOWN", "DEGRADED", "HEALTHY"} /\ ReportDays \subseteq Nat
    /\ HealthLife \in Nat \ {0} /\ MaxDecMoves \in Nat /\ CacheTTL \in Nat /\ DecContextEnds \in Nat

VARIABLES
    held,      \* topology.health_observation: the newest per subject
    received,  \* every observation that arrived, per subject
    ceased,    \* [source -> day it ceased, 0 while in force]
    deciding,  \* the decision under way
    decision,  \* the decision last recorded, until the next begins
    cached,    \* the cache's entry for this request
    hit,       \* the entry the cache has just served
    decPath,   \* the service in use: they share only the health they read
    decDay     \* the clock

decVars == <<held, received, ceased, deciding, decision, cached, hit, decPath, decDay>>

Bindings == DOMAIN DecBindings

InstanceOf(b) == <<"instance", DecBindings[b].instance>>
ProviderOf(b) == <<"provider", DecBindings[b].provider>>

\* A provider as the provider of this one capability: a subject of its own.
CapabilityOf(b) == <<"provider capability", DecBindings[b].provider>>

Subjects == UNION {{InstanceOf(b), ProviderOf(b), CapabilityOf(b)} : b \in Bindings}

TheGrant == <<"grant", "g">>
TheSubscription == <<"subscription", "g">>
DecSources == UNION {{InstanceOf(b), ProviderOf(b)} : b \in Bindings} \cup {TheGrant, TheSubscription}

Lasts(s) == ceased[s] = 0

NoObservation == [status |-> "NONE", at |-> 0, until |-> 0]
Observation(status, at) == [status |-> status, at |-> at, until |-> at + HealthLife]

NoDecision == [decision |-> "NONE", reason |-> "none", binding |-> "none", at |-> 0, expires |-> 0, relied |-> {}]
NotDeciding == [at |-> "idle", now |-> 0, left |-> <<>>, usable |-> <<>>, levels |-> [b \in {} |-> NoObservation]]
NoEntry == [expires |-> 0, binding |-> "none", relied |-> {}]

DecisionInit ==
    /\ held = [s \in Subjects |-> NoObservation]
    /\ received = [s \in Subjects |-> {}]
    /\ ceased = [s \in DecSources |-> 0]
    /\ deciding = NotDeciding
    /\ decision = NoDecision
    /\ cached = NoEntry
    /\ hit = NoEntry
    /\ decPath \in {"decision", "pipeline"}
    /\ decDay = 1

-----------------------------------------------------------------------------
(* Health                                                                  *)

\* equal_time_precedence, most severe first.
Precedence == [UNAVAILABLE |-> 1, UNKNOWN |-> 2, DEGRADED |-> 3, HEALTHY |-> 4]


\* Newer: a later observation, or one as late and more severe.
NewerObservation(a, b) ==
    \/ b = NoObservation
    \/ a.at > b.at
    \/ a.at = b.at /\ Precedence[a.status] < Precedence[b.status]

RecordHealthObservation(s, o) ==
    /\ held' = [held EXCEPT ![s] = IF NewerObservation(o, @) THEN o ELSE @]
    /\ received' = [received EXCEPT ![s] = @ \cup {o}]
    /\ hit' = NoEntry
    /\ UNCHANGED <<ceased, deciding, decision, cached, decPath, decDay>>

Reports == {r \in (DOMAIN received) \X {Observation(st, d) : st \in ReportedStatus, d \in ReportDays} :
              r[2] \notin received[r[1]]}

ReportsReceived == Cardinality(UNION {{s} \X received[s] : s \in DOMAIN received})

\* Reports that arrived, sources that ended and days that passed.
MovesMade == ReportsReceived + Cardinality({s \in DOMAIN ceased : ~Lasts(s)}) + (decDay - 1)

HealthReported ==
    /\ ReportsReceived < MaxReports /\ MovesMade < MaxDecMoves
    /\ \E r \in Reports : RecordHealthObservation(r[1], r[2])

Effective(o, now) ==
    IF o /= NoObservation /\ o.at <= now /\ now < o.until THEN o.status ELSE "UNKNOWN"

eligibleStatuses == [CRITICAL |-> {"HEALTHY"}, STANDARD |-> {"HEALTHY", "UNKNOWN"}]

\* Levels: what is held of the instance, of its provider, and of the provider
\* for this capability.
HealthLevels(b) ==
    [instance |-> held[InstanceOf(b)], provider |-> held[ProviderOf(b)], capability |-> held[CapabilityOf(b)]]

Held(levels) == {levels.instance, levels.provider, levels.capability} \ {NoObservation}

\* Each held level is checked on its own; the instance always.
Evaluate(levels, now) ==
    \A o \in Held(levels) \cup {levels.instance} : Effective(o, now) \in eligibleStatuses[Criticality]

MinDay(days) == CHOOSE d \in days : \A e \in days : d <= e

-----------------------------------------------------------------------------
(* Choice of a binding                                                     *)

bindingModeRank == [PRIMARY |-> 4, FALLBACK |-> 3, SHADOW |-> 2, MIGRATION |-> 1]

Rank(b) == <<DecBindings[b].specificity, bindingModeRank[DecBindings[b].mode], DecBindings[b].priority>>

RanksAbove(b, c) ==
    \/ Rank(b)[1] > Rank(c)[1]
    \/ Rank(b)[1] = Rank(c)[1] /\ Rank(b)[2] > Rank(c)[2]
    \/ Rank(b)[1] = Rank(c)[1] /\ Rank(b)[2] = Rank(c)[2] /\ Rank(b)[3] > Rank(c)[3]

Best(S) == {b \in S : \A c \in S : ~RanksAbove(c, b)}

\* The one best candidate; a tie is ambiguous, and a SHADOW winner is none.
ResolveCapability(S) ==
    IF S = {} THEN "NOT FOUND"
    ELSE IF Cardinality(Best(S)) > 1 THEN "AMBIGUOUS"
    ELSE LET b == CHOOSE b \in Best(S) : TRUE
         IN  IF DecBindings[b].mode = "SHADOW" THEN "NOT FOUND" ELSE b

\* Resolve among the healthy; when they resolve to nothing but a refused one
\* would have been chosen, its health is the answer.
ResolveHealthyCapability(S, levels, now) ==
    LET healthy == ResolveCapability({b \in S : Evaluate(levels[b], now)})
        all == ResolveCapability(S)
    IN  IF healthy \notin Bindings /\ all \in Bindings /\ ~Evaluate(levels[all], now)
        THEN "UNHEALTHY" ELSE healthy

-----------------------------------------------------------------------------
(* One decision                                                            *)

DecGoes(s) ==
    /\ deciding' = s
    /\ hit' = NoEntry
    /\ UNCHANGED <<held, received, ceased, decision, cached, decPath, decDay>>

\* Every decision is recorded, the denials too, and ends with the context.
RecordCapabilityResolution(d) ==
    /\ decision' = [d EXCEPT !.expires = MinDay({@, DecContextEnds})]
    /\ deciding' = NotDeciding
    /\ hit' = NoEntry
    /\ UNCHANGED <<held, received, ceased, cached, decPath, decDay>>

Denied(reason) == RecordCapabilityResolution([NoDecision EXCEPT !.decision = "UNAVAILABLE", !.reason = reason])

\* The caller redeems its context, so it has not expired.
BeginDecision ==
    /\ decPath = "decision"
    /\ deciding.at = "idle"
    /\ decDay < DecContextEnds
    /\ deciding' = [NotDeciding EXCEPT !.at = "grants", !.now = decDay]
    /\ decision' = NoDecision
    /\ hit' = NoEntry
    /\ UNCHANGED <<held, received, ceased, cached, decPath, decDay>>

ListGrants ==
    /\ deciding.at = "grants"
    /\ IF Lasts(TheGrant) THEN DecGoes([deciding EXCEPT !.at = "source"]) ELSE Denied("GRANT_REVOKED")

\* GrantSourceCurrent: a projected grant does not outlive its subscription.
GrantSourceCurrent == Lasts(TheSubscription)

ReadGrantSource ==
    /\ deciding.at = "source"
    /\ IF GrantSourceCurrent THEN DecGoes([deciding EXCEPT !.at = "providers", !.left = DecOrder])
       ELSE Denied("GRANT_NOT_FOUND")

Usable == {deciding.usable[n] : n \in DOMAIN deciding.usable}

BindingProviderCurrent ==
    /\ deciding.at = "providers"
    /\ IF deciding.left = <<>>
       THEN IF deciding.usable = <<>> THEN Denied("PROVIDER_UNAVAILABLE")
            ELSE DecGoes([deciding EXCEPT !.at = "health", !.left = deciding.usable])
       ELSE LET b == Head(deciding.left) IN
            DecGoes([deciding EXCEPT !.left = Tail(@),
                        !.usable = IF Lasts(ProviderOf(b)) THEN Append(@, b) ELSE @])

ReadHealthLevels ==
    /\ deciding.at = "health"
    /\ deciding.left /= <<>>
    /\ LET b == Head(deciding.left) IN
       DecGoes([deciding EXCEPT !.left = Tail(@),
                   !.levels = [c \in DOMAIN @ \cup {b} |-> IF c = b THEN HealthLevels(b) ELSE @[c]]])

\* The decision lives as long as the health it rests on; with none held, as
\* long as the context.
HealthValidUntil(levels) ==
    IF Held(levels) = {} THEN DecContextEnds ELSE MinDay({o.until : o \in Held(levels)})

\* TopologyResolver judges the chosen instance on a read of its own.
decide ==
    /\ deciding.at = "health"
    /\ deciding.left = <<>>
    /\ \E b \in {ResolveHealthyCapability(Usable, deciding.levels, deciding.now)} :
         CASE b = "UNHEALTHY" -> Denied("PROVIDER_UNHEALTHY")
           [] b = "AMBIGUOUS" -> Denied("BINDING_AMBIGUOUS")
           [] b = "NOT FOUND" -> Denied("BINDING_NOT_FOUND")
           [] b \in Bindings /\ ~Lasts(InstanceOf(b)) -> Denied("PROVIDER_UNAVAILABLE")
           [] OTHER -> RecordCapabilityResolution(
                [decision |-> "RESOLVED", reason |-> "none", binding |-> b, at |-> deciding.now,
                 expires |-> HealthValidUntil(deciding.levels[b]), relied |-> Held(deciding.levels[b])])

CapabilityResolve ==
    BeginDecision \/ ListGrants \/ ReadGrantSource \/ BindingProviderCurrent \/ ReadHealthLevels \/ decide

-----------------------------------------------------------------------------
(* The cache over the resolution pipeline                                  *)

\* A decision is kept for the TTL or until its health lapses, the sooner.
CacheEntry(b) ==
    LET levels == HealthLevels(b)
        remaining == IF Held(levels) = {} THEN CacheTTL ELSE HealthValidUntil(levels) - decDay
        ttl == MinDay({CacheTTL, remaining})
    IN  IF ttl <= 0 THEN cached ELSE [expires |-> decDay + ttl, binding |-> b, relied |-> Held(levels)]

\* ResolutionService loads the instances of the first binding's engine only.
LoadedInstances ==
    {InstanceOf(b) : b \in {c \in Bindings : /\ DecBindings[c].engine = DecBindings[Head(DecOrder)].engine
                                             /\ Lasts(InstanceOf(c))}}

\* The pipeline over one load of bindings, health and instances.
PipelineChoice ==
    LET b == ResolveHealthyCapability(Bindings, [c \in Bindings |-> HealthLevels(c)], decDay)
    IN  IF Lasts(TheGrant) /\ b \in Bindings THEN {b} \cap {c \in Bindings : InstanceOf(c) \in LoadedInstances}
        ELSE {}

CachedResolve ==
    /\ decPath = "pipeline"
    /\ IF decDay < cached.expires
       THEN hit' = cached /\ UNCHANGED cached
       ELSE /\ hit' = NoEntry
            /\ IF PipelineChoice = {} THEN UNCHANGED cached
               ELSE \E b \in PipelineChoice : cached' = CacheEntry(b)
    /\ UNCHANGED <<held, received, ceased, deciding, decision, decPath, decDay>>

\* A source ends; one of them in a behaviour (bound).
SourceCeases ==
    /\ MovesMade < MaxDecMoves /\ \A t \in DOMAIN ceased : Lasts(t)
    /\ \E s \in DOMAIN ceased : ceased' = [ceased EXCEPT ![s] = decDay]
    /\ hit' = NoEntry
    /\ UNCHANGED <<held, received, deciding, decision, cached, decPath, decDay>>

DecDayPasses ==
    /\ decDay < LastDecDay /\ MovesMade < MaxDecMoves
    /\ decDay' = decDay + 1
    /\ hit' = NoEntry
    /\ UNCHANGED <<held, received, ceased, deciding, decision, cached, decPath>>

DecisionNext ==
    HealthReported \/ CapabilityResolve \/ CachedResolve \/ SourceCeases \/ DecDayPasses

DecisionSpec == DecisionInit /\ [][DecisionNext]_decVars

-----------------------------------------------------------------------------
(* Properties                                                              *)

\* In whatever order observations of a subject arrive, the one held is the
\* latest made, and of those made at one instant the most severe: a late or
\* repeated report never turns a subject healthy.
ArrivalOrderIsImmaterial ==
    \A s \in DOMAIN received :
        IF received[s] = {} THEN held[s] = NoObservation
        ELSE /\ held[s] \in received[s]
             /\ \A o \in received[s] :
                  o.at < held[s].at \/ (o.at = held[s].at /\ Precedence[held[s].status] <= Precedence[o.status])

\* Although its reads are spread over time, a RESOLVED decision rests on
\* sources that were all in force at the instant it claims, or later: none
\* had ceased before.
ResolvedOnCurrentSources ==
    decision.decision = "RESOLVED" =>
        \A s \in {TheGrant, TheSubscription, ProviderOf(decision.binding), InstanceOf(decision.binding)} :
            Lasts(s) \/ ceased[s] >= decision.at

\* A decision that has not expired rests on health that has not lapsed: every
\* observation it was made on is still within its own lifetime.
DecisionDiesWithHealth ==
    decision.decision = "RESOLVED" /\ decDay < decision.expires => \A o \in decision.relied : decDay < o.until

\* The resolution cache never serves a decision whose health has lapsed.
CacheDiesWithHealth == \A o \in hit.relied : decDay < o.until

\* Nothing invalidates the cache when a grant or an instance ceases: it may
\* then serve what would be refused, but for less than one TTL.
StaleForLessThanTheTTL ==
    hit /= NoEntry =>
        \A s \in {TheGrant, InstanceOf(hit.binding)} : Lasts(s) \/ decDay < ceased[s] + CacheTTL

\* An unhealthy PRIMARY yields to a healthy FALLBACK: health is the reason of
\* a denial only when no candidate that may be served is healthy and ranks
\* above every other healthy one.
HealthDeniesOnlyWhenNoneServes ==
    [][ \A b \in Usable :
            /\ decision' /= decision
            /\ decision'.reason = "PROVIDER_UNHEALTHY"
            /\ DecBindings[b].mode /= "SHADOW"
            /\ Evaluate(deciding.levels[b], deciding.now)
            => \E c \in Usable \ {b} : Evaluate(deciding.levels[c], deciding.now) /\ ~RanksAbove(b, c) ]_decVars

=============================================================================
