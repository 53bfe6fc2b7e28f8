-------------------------- MODULE ContextAuthority --------------------------
(***************************************************************************)
(* Trusted contexts: resolved for a workload from the tenant, organisation *)
(* and market registries (internal/service/context_resolution_service.go), *)
(* stored under a context_id (api/platform_context_handler.go), redeemed   *)
(* by the workload that resolved them (api/capability_resolve_handler.go,  *)
(* api/mapping_admin_handler.go) and validated for the services that       *)
(* receive them (api/platform_context_validate_handler.go).  The Control   *)
(* Plane issues one more kind itself, bound to an approved plan, for the   *)
(* ERP provisioner (internal/erpprovisioning/context.go).                  *)
(*                                                                         *)
(* A resolution reads each registry in a query of its own, so the tenant   *)
(* may be suspended, a mapping ended, an organisation suspended or a       *)
(* market left between any two of its reads.  For each source the model    *)
(* keeps the day it ended, 0 while it is in force.                         *)
(***************************************************************************)
EXTENDS Naturals, FiniteSets, Sequences

CONSTANTS
    CtxOrgs,        \* organisations
    CtxPrimary,     \* the one mapped as the tenant's PRIMARY organisation
    CtxCountries,   \* countries a tenant may participate in
    CtxAsks,        \* requests: the organisation and country asked for, "" for none
    RuntimeCaller,  \* the workload that resolves RUNTIME contexts
    DevCaller,      \* a development workload, whose authority is leased
    ErpProvisioner, \* the workload that owns provisioning contexts
    LeaseEnds,      \* the last day of the development lease
    ContextTTL,     \* PLATFORM_CONTEXT_TTL, in days; configuration refuses zero
    MaxContexts,    \* bound on the contexts stored
    MaxCtxMoves,    \* bound on the changes of the registries
    LastCtxDay      \* bound on the clock

ASSUME ContextAssumption == CtxPrimary \in CtxOrgs /\ ContextTTL \in Nat \ {0}

VARIABLES
    ended,     \* [source -> day it ended, 0 while in force]
    tenantIs,  \* the tenant's observed state
    plan,      \* the approved current plan: 0 is none in an admissible state
    resolving, \* the resolution under way; resolutions only insert, so one is enough
    stored,    \* context.resolved_context, in the order of insertion
    answer,    \* the context just served and its route; a refusal leaves no trace
    ctxMoves,  \* changes of the registries so far
    ctxDay     \* the clock

ctxVars == <<ended, tenantIs, plan, resolving, stored, answer, ctxMoves, ctxDay>>

Resolvers == {RuntimeCaller, DevCaller}

Mapping(o) == <<"mapping", o>>
Entity(o) == <<"entity", o>>
MarketOf(k) == <<"market", k>>
TheTenant == <<"tenant", "t">>

Sources == {Mapping(o) : o \in CtxOrgs} \cup {Entity(o) : o \in CtxOrgs}
             \cup {MarketOf(k) : k \in CtxCountries} \cup {TheTenant}

InForce(s) == ended[s] = 0

NotAsked == ""
NoSession == [at |-> "idle", who |-> NotAsked, now |-> 0, org |-> NotAsked, country |-> NotAsked, live |-> FALSE]
NoAnswer == [route |-> "none", context |-> 0]

ContextInit ==
    /\ ended = [s \in Sources |-> 0]
    /\ tenantIs = "active"
    /\ plan = 1
    /\ resolving = NoSession
    /\ stored = <<>>
    /\ answer = NoAnswer
    /\ ctxMoves = 0
    /\ ctxDay = 1

-----------------------------------------------------------------------------
(* Resolution                                                              *)

Goes(s) ==
    /\ resolving' = s
    /\ UNCHANGED <<ended, tenantIs, plan, stored, ctxMoves, ctxDay>>
    /\ answer' = NoAnswer

\* A read that fails ends the request.
GoesIf(holds, s) == Goes(IF holds THEN s ELSE NoSession)

\* DevelopmentTenantLease: a development workload needs a running lease.
LeaseRuns(w) == w = DevCaller => LeaseEnds > ctxDay

\* The caller is identified and its lease read; the request's instant is fixed.
BeginResolve(w, org, country) ==
    /\ resolving.at = "idle"
    /\ LeaseRuns(w)
    /\ Goes([at |-> "tenant", who |-> w, now |-> ctxDay, org |-> org, country |-> country, live |-> FALSE])

ReadsTenant ==
    /\ resolving.at = "tenant"
    /\ GoesIf(tenantIs = "active", [resolving EXCEPT !.at = "primary"])

\* runtimePrimaryOrganisation reads the mappings first and the organisation
\* after; with none asked for, the PRIMARY organisation is the context's.
ReadsPrimary ==
    /\ resolving.at = "primary"
    /\ GoesIf(InForce(Mapping(CtxPrimary)), [resolving EXCEPT !.at = "primary entity"])

ReadsPrimaryEntity ==
    /\ resolving.at = "primary entity"
    /\ GoesIf(InForce(Entity(CtxPrimary)),
           [resolving EXCEPT !.at = "entity", !.org = IF @ = NotAsked THEN CtxPrimary ELSE @])

\* attestRequestedOrganisation reads the organisation first and the mappings after.
ReadsEntity ==
    /\ resolving.at = "entity"
    /\ Goes([resolving EXCEPT !.at = "mapping", !.live = InForce(Entity(resolving.org))])

AttestOrganisation == resolving.live /\ InForce(Mapping(resolving.org))

ReadsMapping ==
    /\ resolving.at = "mapping"
    /\ GoesIf(AttestOrganisation, [resolving EXCEPT !.at = "market"])

Participations == {k \in CtxCountries : InForce(MarketOf(k))}

\* The market asked for, or the only one; a tenant in no market gets none.
resolveMarket ==
    LET asked == resolving.country
        chosen == IF asked /= NotAsked THEN {asked} \cap Participations ELSE Participations
        refused == IF asked /= NotAsked THEN chosen = {} ELSE Cardinality(chosen) > 1
    IN  /\ resolving.at = "market"
        /\ GoesIf(~refused, [resolving EXCEPT !.at = "store",
                                !.country = IF chosen = {} THEN NotAsked ELSE CHOOSE k \in chosen : TRUE])

MinOf(a, b) == IF a < b THEN a ELSE b

\* Mutant: the lease does not bound the context.
ExpiresByTTL(s) == s.now + ContextTTL

\* The TTL counts from the request's instant and never extends the lease.
ExpiresAt(s) == IF s.who = DevCaller THEN MinOf(LeaseEnds, s.now + ContextTTL) ELSE s.now + ContextTTL

Insert(c) == Len(stored) < MaxContexts /\ stored' = Append(stored, c)

CreateContext ==
    /\ resolving.at = "store"
    /\ Insert([owner |-> resolving.who, purpose |-> "RUNTIME", org |-> resolving.org,
               market |-> resolving.country, expires |-> ExpiresAt(resolving), plan |-> 0])
    /\ resolving' = NoSession
    /\ answer' = NoAnswer
    /\ UNCHANGED <<ended, tenantIs, plan, ctxMoves, ctxDay>>

ResolvePlatformContext ==
    \/ \E w \in Resolvers, ask \in CtxAsks : BeginResolve(w, ask.org, ask.country)
    \/ ReadsTenant \/ ReadsPrimary \/ ReadsPrimaryEntity \/ ReadsEntity
    \/ ReadsMapping \/ resolveMarket \/ CreateContext

\* The Control Plane records the provisioner's context itself.
IssueProvisioningContext ==
    /\ plan /= 0
    /\ Insert([owner |-> ErpProvisioner, purpose |-> "TENANT_PROVISIONING", org |-> NotAsked,
               market |-> NotAsked, expires |-> ctxDay + 1, plan |-> plan])
    /\ answer' = NoAnswer
    /\ UNCHANGED <<ended, tenantIs, plan, resolving, ctxMoves, ctxDay>>

-----------------------------------------------------------------------------
(* Use                                                                     *)

\* GetContext: an expired context is a missing one.
GetContext(i) == ctxDay < stored[i].expires

callerOwnsContext(i, who) == stored[i].owner = who

\* Capability, batch and mapping resolution see RUNTIME contexts only.
runtimeContexts(i) == GetContext(i) /\ stored[i].purpose = "RUNTIME"

Serves(route, i, allowed) ==
    /\ answer' = IF allowed THEN [route |-> route, context |-> i] ELSE NoAnswer
    /\ UNCHANGED <<ended, tenantIs, plan, resolving, stored, ctxMoves, ctxDay>>

redeemContext(i, who) == Serves("redeem", i, runtimeContexts(i) /\ callerOwnsContext(i, who))

RedeemRoute == \E i \in DOMAIN stored, who \in Resolvers \cup {ErpProvisioner} : redeemContext(i, who)

\* judge: the plan the context is bound to is still the approved current one.
judge(c) == plan /= 0 /\ c.plan = plan

admissibleTenantStates == {"provisioning", "active"}

\* The validator forwards the owner's token; the tenant is read again, and the
\* plan last.
ValidateContext(i, subject) ==
    LET c == stored[i]
        known == GetContext(i) /\ callerOwnsContext(i, subject)
        valid == IF c.purpose = "RUNTIME" THEN tenantIs = "active"
                 ELSE tenantIs \in admissibleTenantStates /\ judge(c)
    IN  Serves("validate", i, known /\ valid)

ValidateRoute == \E i \in DOMAIN stored, subject \in Resolvers \cup {ErpProvisioner} : ValidateContext(i, subject)

-----------------------------------------------------------------------------
(* The registries change; suspension is one of several lifecycle steps.    *)

RegistriesMove(e, t, p) ==
    /\ ctxMoves < MaxCtxMoves
    /\ ended' = e /\ tenantIs' = t /\ plan' = p
    /\ ctxMoves' = ctxMoves + 1
    /\ answer' = NoAnswer
    /\ UNCHANGED <<resolving, stored, ctxDay>>

SourceEndsOrBegins ==
    \E s \in Sources \ {TheTenant} :
        RegistriesMove([ended EXCEPT ![s] = IF @ = 0 THEN ctxDay ELSE 0], tenantIs, plan)

TenantSuspends ==
    /\ tenantIs = "active"
    /\ RegistriesMove([ended EXCEPT ![TheTenant] = ctxDay], "suspended", plan)

TenantResumes ==
    /\ tenantIs = "suspended"
    /\ RegistriesMove([ended EXCEPT ![TheTenant] = 0], "active", plan)

PlanSuperseded == RegistriesMove(ended, tenantIs, plan + 1)

CtxDayPasses ==
    /\ ctxDay < LastCtxDay
    /\ ctxDay' = ctxDay + 1
    /\ answer' = NoAnswer
    /\ UNCHANGED <<ended, tenantIs, plan, resolving, stored, ctxMoves>>

ContextNext ==
    \/ ResolvePlatformContext \/ IssueProvisioningContext
    \/ RedeemRoute \/ ValidateRoute
    \/ SourceEndsOrBegins \/ TenantSuspends \/ TenantResumes \/ PlanSuperseded
    \/ CtxDayPasses

ContextSpec == ContextInit /\ [][ContextNext]_ctxVars

-----------------------------------------------------------------------------
(* Properties                                                              *)

\* The sources a context stands on.
StandsOn(c) ==
    {TheTenant, Mapping(CtxPrimary), Entity(CtxPrimary), Mapping(c.org), Entity(c.org)}
      \cup IF c.market = NotAsked THEN {} ELSE {MarketOf(c.market)}

\* Although a stored context is never rewritten and resolution reads its
\* sources one after the other, no context outlives one of them by more than
\* its TTL: a source that ended while the context was being resolved, or
\* after, bounds it just the same.
SourcesBoundContexts ==
    \A i \in DOMAIN stored :
        stored[i].purpose = "RUNTIME" =>
            \A s \in StandsOn(stored[i]) : InForce(s) \/ stored[i].expires <= ended[s] + ContextTTL

\* A development workload is never served on a context after its lease.
LeaseNeverOutlived ==
    answer /= NoAnswer /\ stored[answer.context].owner = DevCaller => ctxDay < LeaseEnds

\* Once the plan a provisioning context was issued for is superseded no route
\* serves it, although the context has not expired; and the routes for RUNTIME
\* contexts never do.
ProvisioningEndsWithPlan ==
    answer /= NoAnswer /\ stored[answer.context].purpose = "TENANT_PROVISIONING" =>
        answer.route = "validate" /\ stored[answer.context].plan = plan

\* Tenant suspension denies tenant-scoped access.
SuspendedTenantResolvesNothing == answer /= NoAnswer => tenantIs /= "suspended"

\* Runtime contexts never outlive what they were resolved from, nor their
\* lease, and a provisioning context ends with its plan.
ContextPromises ==
  /\ [](SourcesBoundContexts /\ LeaseNeverOutlived /\ ProvisioningEndsWithPlan)
=============================================================================
