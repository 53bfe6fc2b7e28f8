-------------------------- MODULE TenantOnboarding --------------------------
(***************************************************************************)
(* From an approved admission decision to a registered tenant: onboarding  *)
(* requests, the reviewed Organisation bound to one before registration,   *)
(* and the three ways a tenant is registered (for an authorised request,   *)
(* Organisation-first for an authorised request, and bootstrap).  A        *)
(* registered tenant is written again by the onboarding of its admission,  *)
(* which may point it at an organisation a reviewer resolved it to.        *)
(*                                                                         *)
(* A transition holds its request's row lock and a registration is one     *)
(* transaction: the request it fulfils is locked in it, and the unique     *)
(* index on the idempotency key admits one of two concurrent retries.  So  *)
(* every command is one action; commands of different people interleave.   *)
(* What two requests want is told apart by its isolation strategy, which   *)
(* Fulfil compares, and its name, which only registration does.            *)
(***************************************************************************)
EXTENDS Naturals, FiniteSets, Sequences

CONSTANTS
    OnbDecisions,      \* approved decisions: [id, applicant, decider, isolation]
    OnbIsolations,     \* isolation strategies
    OnbNames,          \* display names
    OnbPeople,         \* platform principals
    OnbOrgs,           \* first-party organisations that exist already
    OnbLegalEntities,  \* legal entities a v1 registration may name
    OnbKeys,           \* idempotency keys of registrations
    OnbRequestIds,     \* ids of the onboarding requests, in order; their number bounds them
    MaxReplaced,       \* bound on the primaries of one tenant that are replaced
    BootstrapOpen      \* whether the bootstrap route is configured

ASSUME OnbAssumption ==
    /\ OnbDecisions # {} /\ OnbRequestIds \in Seq(STRING) /\ Len(OnbRequestIds) > 0
    /\ \A i, j \in DOMAIN OnbRequestIds : OnbRequestIds[i] = OnbRequestIds[j] => i = j
    /\ \A i \in DOMAIN OnbRequestIds : OnbRequestIds[i] \notin OnbOrgs \cup OnbLegalEntities
    /\ OnbOrgs \cap OnbLegalEntities = {}
    /\ "nobody" \notin OnbPeople /\ "none" \notin OnbKeys

VARIABLES
    onb,        \* admission.tenant_onboarding_request, by request
    reviewed,   \* admission.tenant_onboarding_organisation, by request
    orgs,       \* organisations and the tenant each belongs to
    tenants,    \* tenants, by the idempotency key of the operation that made them
    legalOrg    \* organisation of each legal-entity profile

onbVars == <<onb, reviewed, orgs, tenants, legalOrg>>

Nobody == "nobody"
NoTenant == "none"
Live == {"REQUESTED", "AUTHORISED", "FULFILLED"}
Row(f, k, v) == [x \in DOMAIN f \cup {k} |-> IF x = k THEN v ELSE f[x]]

-----------------------------------------------------------------------------
(* Onboarding requests.                                                    *)

\* Mutant: a fulfilled request no longer counts for its decision.
LiveRequestsOpen(d) == {r \in DOMAIN onb : onb[r].decision = d.id /\ onb[r].status \in Live \ {"FULFILLED"}}

LiveRequests(d) == {r \in DOMAIN onb : onb[r].decision = d.id /\ onb[r].status \in Live}

(* The decision's isolation strategy stands; a request names one only when *)
(* the decision did not.                                                   *)
IsolationChosen(d, isolation) == d.isolation # "" => isolation = d.isolation

(* Request: repeating it for a decision with a live request returns that   *)
(* request and writes nothing.                                             *)
RequestOnboarding(d, who, isolation, name) ==
    LET n == Cardinality(DOMAIN onb) + 1
        r == OnbRequestIds[n] IN
    /\ n <= Len(OnbRequestIds)
    /\ who \notin {d.applicant, d.decider}
    /\ IsolationChosen(d, isolation)
    /\ LiveRequests(d) = {}
    /\ onb' = Row(onb, r, [decision |-> d.id, applicant |-> d.applicant, status |-> "REQUESTED", isolation |-> isolation,
                           name |-> name, requester |-> who, authoriser |-> Nobody, tenant |-> NoTenant])
    /\ UNCHANGED <<reviewed, orgs, tenants, legalOrg>>

Authorise(r, who) ==
    /\ onb[r].status = "REQUESTED"
    /\ who \notin {onb[r].requester, onb[r].applicant}
    /\ onb' = [onb EXCEPT ![r].status = "AUTHORISED", ![r].authoriser = who]
    /\ UNCHANGED <<reviewed, orgs, tenants, legalOrg>>

CancelOnboarding(r) ==
    /\ onb[r].status \in {"REQUESTED", "AUTHORISED"}
    /\ onb' = [onb EXCEPT ![r].status = "CANCELLED"]
    /\ UNCHANGED <<reviewed, orgs, tenants, legalOrg>>

OnboardedBy(t) == {r \in DOMAIN onb : onb[r].tenant = t}

(* The deferred constraint of migration 000103: the tenant of a fulfilled  *)
(* request that has a reviewed Organisation has it as its primary.         *)
ReviewedOrganisationMatches(r, primary) == r \in DOMAIN reviewed => reviewed[r].org = primary

FulfilledAs(r, t) == [onb EXCEPT ![r].status = "FULFILLED", ![r].tenant = t]

Fulfil(r, t) ==
    /\ onb[r].status = "AUTHORISED"
    /\ OnboardedBy(t) = {}
    /\ tenants[t].isolation = onb[r].isolation
    /\ ReviewedOrganisationMatches(r, tenants[t].primary)
    /\ onb' = FulfilledAs(r, t)
    /\ UNCHANGED <<reviewed, orgs, tenants, legalOrg>>

-----------------------------------------------------------------------------
(* The reviewed Organisation.                                              *)

Unassigned(o) == o \in DOMAIN orgs /\ orgs[o] = NoTenant

IndependentReviewer(r, who) == who \notin {onb[r].requester, onb[r].authoriser}

(* An unbound, authorised request gets a new Organisation, named after the *)
(* request here, or an existing first-party one the reviewer selected.     *)
(* Repeating the same binding writes nothing.                              *)
PrepareOnboardingOrganisation(r, who, selected) ==
    LET org == IF selected = Nobody THEN r ELSE selected IN
    /\ onb[r].status = "AUTHORISED"
    /\ IndependentReviewer(r, who)
    /\ r \notin DOMAIN reviewed
    /\ selected # Nobody =>
        /\ Unassigned(selected)
        /\ \A other \in DOMAIN reviewed : reviewed[other].org # selected   \* UNIQUE (organisation_id)
    /\ reviewed' = Row(reviewed, r, [org |-> org, reviewer |-> who])
    /\ orgs' = IF selected = Nobody THEN Row(orgs, org, NoTenant) ELSE orgs
    /\ UNCHANGED <<onb, tenants, legalOrg>>

-----------------------------------------------------------------------------
(* Registration.                                                           *)

(* A tenant: primary is the organisation of its live PRIMARY mapping,      *)
(* replaced those of the PRIMARY mappings that were ended.                 *)
NewTenant(isolation, basis, primary) ==
    [isolation |-> isolation, basis |-> basis, primary |-> primary, replaced |-> {}]

(* insertOrganisationOnRegister: the organisation of the legal entity's    *)
(* profile, or a new one that belongs to the tenant, named after the legal *)
(* entity here.                                                            *)
OrganisationOnRegister(l) == IF l \in DOMAIN legalOrg THEN legalOrg[l] ELSE l

insertOrganisationOnRegister(l, t) ==
    IF l \in DOMAIN legalOrg
    THEN UNCHANGED <<orgs, legalOrg>>
    ELSE orgs' = Row(orgs, l, t) /\ legalOrg' = Row(legalOrg, l, l)

insertOrganisationOnRegisterV2(o, t) ==
    /\ orgs' = [orgs EXCEPT ![o] = t]
    /\ UNCHANGED legalOrg

(* A key that was used replays its operation or is refused: no state       *)
(* changes.                                                                *)
FreshKey(key) == key \notin DOMAIN tenants

(* RegistrationStep: the request is authorised and wants what the command  *)
(* registers; it is fulfilled in the registration's transaction.           *)
StepAllowed(r, isolation, name) ==
    /\ onb[r].status = "AUTHORISED"
    /\ onb[r].isolation = isolation /\ onb[r].name = name

RegistrationStep(r, isolation, name, t, primary) ==
    /\ StepAllowed(r, isolation, name)
    /\ ReviewedOrganisationMatches(r, primary)
    /\ onb' = FulfilledAs(r, t)

registerTenant(key, r, l, isolation, name) ==
    /\ FreshKey(key)
    /\ RegistrationStep(r, isolation, name, key, OrganisationOnRegister(l))
    /\ tenants' = Row(tenants, key, NewTenant(isolation, "ONBOARDING", OrganisationOnRegister(l)))
    /\ insertOrganisationOnRegister(l, key)
    /\ UNCHANGED reviewed

bootstrapRegister(key, l, isolation) ==
    /\ BootstrapOpen
    /\ FreshKey(key)
    /\ tenants' = Row(tenants, key, NewTenant(isolation, "BOOTSTRAP", OrganisationOnRegister(l)))
    /\ insertOrganisationOnRegister(l, key)
    /\ UNCHANGED <<onb, reviewed>>

(* RegisterTenantV2 locks the request and its reviewed Organisation, which *)
(* must still be active and belong to no tenant.                           *)
ReviewedUnassigned(r) == r \in DOMAIN reviewed /\ Unassigned(reviewed[r].org)

registerTenantV2(key, r, isolation, name) ==
    /\ FreshKey(key)
    /\ ReviewedUnassigned(r)
    /\ RegistrationStep(r, isolation, name, key, reviewed[r].org)
    /\ tenants' = Row(tenants, key, NewTenant(isolation, "ONBOARDING", reviewed[r].org))
    /\ insertOrganisationOnRegisterV2(reviewed[r].org, key)
    /\ UNCHANGED reviewed

(* The last stages of an admission's onboarding: an organisation that      *)
(* exists and that a reviewer named becomes the tenant's primary; the old  *)
(* mapping is ended and kept, and neither organisation changes hands.      *)
replacePrimary(t, o) ==
    /\ o # tenants[t].primary
    /\ Cardinality(tenants[t].replaced) < MaxReplaced
    /\ tenants' = [tenants EXCEPT ![t].primary = o, ![t].replaced = @ \cup {tenants[t].primary}]
    /\ UNCHANGED <<onb, reviewed, orgs, legalOrg>>

(* Another path (an organisation mapping, a progressive registration)      *)
(* assigns a first-party organisation to a tenant of its own.              *)
AssignedElsewhere(o) ==
    /\ Unassigned(o)
    /\ orgs' = [orgs EXCEPT ![o] = "elsewhere"]
    /\ UNCHANGED <<onb, reviewed, tenants, legalOrg>>

-----------------------------------------------------------------------------
(* The routes.                                                             *)

onboardingRoutes ==
    \/ \E d \in OnbDecisions, who \in OnbPeople, i \in OnbIsolations, n \in OnbNames : RequestOnboarding(d, who, i, n)
    \/ \E r \in DOMAIN onb :
        \/ \E who \in OnbPeople : Authorise(r, who)
        \/ CancelOnboarding(r)
        \/ \E t \in DOMAIN tenants : Fulfil(r, t)

prepareOrganisationV2 ==
    \E r \in DOMAIN onb, who \in OnbPeople, o \in OnbOrgs \cup {Nobody} : PrepareOnboardingOrganisation(r, who, o)

register ==
    \E key \in OnbKeys, r \in DOMAIN onb, l \in OnbLegalEntities, i \in OnbIsolations, n \in OnbNames :
        registerTenant(key, r, l, i, n)

bootstrap == \E key \in OnbKeys, l \in OnbLegalEntities, i \in OnbIsolations : bootstrapRegister(key, l, i)

registerV2 ==
    \E key \in OnbKeys, r \in DOMAIN onb, i \in OnbIsolations, n \in OnbNames : registerTenantV2(key, r, i, n)

admit == \E t \in DOMAIN tenants, o \in DOMAIN orgs : replacePrimary(t, o)

OnboardingInit ==
    /\ onb = <<>> /\ reviewed = <<>> /\ tenants = <<>> /\ legalOrg = <<>>
    /\ orgs = [o \in OnbOrgs |-> NoTenant]

OnboardingNext ==
    \/ onboardingRoutes
    \/ prepareOrganisationV2
    \/ register \/ bootstrap \/ registerV2 \/ admit
    \/ \E o \in OnbOrgs : AssignedElsewhere(o)

OnboardingSpec == OnboardingInit /\ [][OnboardingNext]_onbVars

-----------------------------------------------------------------------------
(* Properties.                                                             *)

(* Type invariant: a request has a tenant exactly when it is fulfilled, an *)
(* authoriser once it was authorised, and a decision one live request.     *)
OnboardingTypeOK ==
    /\ \A r \in DOMAIN onb :
        /\ (onb[r].status = "FULFILLED") = (onb[r].tenant # NoTenant)
        /\ onb[r].status \in {"AUTHORISED", "FULFILLED"} => onb[r].authoriser # Nobody
    /\ \A d \in OnbDecisions : Cardinality({r \in DOMAIN onb : onb[r].decision = d.id /\ onb[r].status \in Live}) <= 1
    /\ DOMAIN tenants \subseteq OnbKeys

(* A tenant registered for a customer is the product of exactly one        *)
(* request, which named it and wanted its isolation; a request never       *)
(* produces two tenants (RegistrationStep inside the registration          *)
(* transaction, Fulfil's OnboardedBy check).                               *)
ProducedOnce ==
    \A t \in DOMAIN tenants :
        LET by == {r \in DOMAIN onb : onb[r].tenant = t} IN
        /\ Cardinality(by) <= 1
        /\ tenants[t].basis = "ONBOARDING" => by # {}
        /\ \A r \in by : tenants[t].isolation = onb[r].isolation

WasPrimary(t) == {tenants[t].primary} \cup tenants[t].replaced

(* A tenant whose request had an Organisation reviewed has, or had until   *)
(* an admission replaced it, that Organisation as its primary: whichever   *)
(* way it was registered or the request fulfilled, and although the        *)
(* tenants of other requests and bootstrapped ones may be pointed at the   *)
(* same Organisation.  Three different people requested, authorised and    *)
(* reviewed it (prepareOrganisationV2, registerV2, Fulfil).                *)
FulfilledForTheReviewed ==
    \A r \in DOMAIN reviewed :
        /\ Cardinality({onb[r].requester, onb[r].authoriser, reviewed[r].reviewer}) = 3
        /\ onb[r].status = "FULFILLED" => reviewed[r].org \in WasPrimary(onb[r].tenant)

(* An organisation that belongs to a tenant never moves to another, not    *)
(* even when the tenant is pointed elsewhere; a tenant keeps its basis,    *)
(* its isolation and every PRIMARY mapping it ever had; and a fulfilled    *)
(* request keeps its tenant, whatever retries, fulfilments, re-points and  *)
(* assignments race it (registerTenant, replacePrimary).                   *)
AssignmentsStand ==
    [][/\ \A o \in DOMAIN orgs : orgs[o] # NoTenant => orgs'[o] = orgs[o]
       /\ \A t \in DOMAIN tenants :
            /\ tenants'[t].basis = tenants[t].basis /\ tenants'[t].isolation = tenants[t].isolation
            /\ WasPrimary(t) \subseteq WasPrimary(t)'
       /\ \A r \in DOMAIN onb : onb[r].status = "FULFILLED" => onb'[r] = onb[r]]_onbVars

(* "Cancel withdraws a REQUESTED or AUTHORISED request.  The decision      *)
(* stands": after a cancellation the decision can be onboarded again with  *)
(* the first-party organisation reviewed for it, if no tenant has it.      *)
CancelledReleasesOrganisation ==
    \A r \in DOMAIN reviewed :
        onb[r].status = "CANCELLED" /\ reviewed[r].org \in OnbOrgs => ~Unassigned(reviewed[r].org)

\* Tenant onboarding: a decision produces one tenant, which was given the
\* reviewed organisation as its primary, and assignments stand.
OnboardingPromises ==
  /\ [](OnboardingTypeOK /\ ProducedOnce /\ FulfilledForTheReviewed)
  /\ AssignmentsStand
=============================================================================
