----------------------- MODULE OrganisationAdmission -----------------------
(***************************************************************************)
(* Organisation stages of an approved admission.  A reviewer submits an    *)
(* admission request for a registered tenant; the onboarder reads the      *)
(* tenant's registration, resolves the applicant's identity, and then runs *)
(* one transaction per stage: claims, legal entity verification,           *)
(* organisation verification, the client relationship and its              *)
(* verification, the platform account and its membership, the tenant's     *)
(* primary organisation, its default legal entity.  A run may fail between *)
(* any two stages; the request is submitted again.  Beside it: first-party *)
(* governance, and the platform account's status and tenant bindings.  The *)
(* corporate claims of stage 3 are PENDING facts that no later stage reads *)
(* (CorporateAffiliation has them).                                        *)
(***************************************************************************)
EXTENDS Naturals, FiniteSets, TLC

CONSTANTS
    AdmTenants,     \* registered tenants
    RegisteredOrg,  \* [AdmTenants -> AdmOrgs], one legal entity per organisation
    AdmOrgs,        \* organisations; an organisation names its legal entity too
    AdmRequests,    \* admission requests that pass Validate
    LegalNames,     \* names, each standing for a name and its identifiers
    OtherName,      \* what an organisation nobody claimed for is called
    Reviewers,      \* concurrent calls of the onboarding route
    AdmAccounts,    \* platform accounts
    Reviewed,       \* organisations that may have been refused before
    GovernedOrgs    \* [subset of AdmOrgs -> LegalNames], the first-party registry

VARIABLES
    profiles,    \* [AdmOrgs -> [entity, name, org]]
    primary,     \* [AdmTenants -> AdmOrgs], live PRIMARY_ORGANISATION mapping
    defaults,    \* [AdmTenants -> AdmOrgs], live DEFAULT legal entity mapping
    clients,     \* [AdmOrgs -> {"none", "PENDING", "VERIFIED"}]
    accounts,    \* [AdmAccounts -> status or "none"]
    members,     \* {<<account, organisation>>}, live memberships
    bound,       \* [AdmTenants -> AdmAccounts \cup {NoAccount}], ACTIVE bindings
    binding,     \* [AdmTenants -> account of an open binding transaction]
    onboarding,  \* [Reviewers -> run of the onboarder]
    onboarded    \* requests some run answered with success

admVars == <<profiles, primary, defaults, clients, accounts, members, bound,
             binding, onboarding, onboarded>>

NoAccount == "no account"
Refusable == {"REJECTED", "EXPIRED"}
Unsettled == {"UNVERIFIED", "PENDING_REVIEW", "CONFLICTED"}
NoRun == [stage |-> "idle"]

\* AdmissionRequest: resolution names an organisation for
\* USE_EXISTING_ORGANISATION; checked is the name the cited verification case
\* verified, OtherName when the request cites none.
AdmissionRequest ==
    [tenant : AdmTenants, name : LegalNames,
     resolution : AdmOrgs \cup {"none", "CONFIRM_NEW_ORGANISATION"},
     cites : BOOLEAN, checked : LegalNames \cup {OtherName},
     mode : {"NONE", "NEW_ACCOUNT", "EXISTING_ACCOUNT"}, account : AdmAccounts]

ASSUME RequestsAssumption == AdmRequests \subseteq AdmissionRequest

AdmissionTypeOK ==
    /\ profiles \in [AdmOrgs -> [entity : Unsettled \cup Refusable \cup {"VERIFIED"},
                                 name : LegalNames \cup {OtherName},
                                 org : Unsettled \cup Refusable \cup {"VERIFIED"}]]
    /\ primary \in [AdmTenants -> AdmOrgs] /\ defaults \in [AdmTenants -> AdmOrgs]
    /\ clients \in [AdmOrgs -> {"none", "PENDING", "VERIFIED"}]
    /\ accounts \in [AdmAccounts -> {"none", "ACTIVE", "SUSPENDED", "CLOSED"}]
    /\ members \subseteq {a \in AdmAccounts : accounts[a] # "none"} \X AdmOrgs
    /\ bound \in [AdmTenants -> AdmAccounts \cup {NoAccount}]
    /\ onboarded \subseteq AdmRequests
-----------------------------------------------------------------------------
\* Onboard up to its first write: reads only.

\* FindOrganisationsByIdentifiers: organisations recorded under these
\* identifiers, claims included, other than the registered one.
FindOrganisationsByIdentifiers(n, exclude) ==
    {o \in AdmOrgs \ {exclude} : profiles[o].name = n}

\* registration: the live PRIMARY organisation and DEFAULT legal entity.
registration(t) == [org |-> primary[t], entity |-> defaults[t]]

\* caseEvidence: a case is usable when it is about the applicant's own name.
caseEvidence(q) == ~q.cites \/ q.checked = q.name

\* Identity resolution: what the run writes to, {} when it is quarantined.
Resolved(q) ==
    IF q.resolution \in AdmOrgs
    THEN {[org |-> q.resolution, entity |-> q.resolution]}
    ELSE IF \/ q.resolution = "CONFIRM_NEW_ORGANISATION"
            \/ FindOrganisationsByIdentifiers(q.name, primary[q.tenant]) = {}
         THEN {registration(q.tenant)}
         ELSE {}

Onboard(r, q) ==
    /\ onboarding[r] = NoRun
    /\ caseEvidence(q)
    /\ \E on \in Resolved(q) :
          onboarding' = [onboarding EXCEPT ![r] =
              [stage |-> "claims", req |-> q, org |-> on.org, entity |-> on.entity]]
    /\ UNCHANGED <<profiles, primary, defaults, clients, accounts, members,
                   bound, binding, onboarded>>

At(r, stage) == onboarding[r].stage = stage
Goes(r, stage) == onboarding' = [onboarding EXCEPT ![r].stage = stage]
Ends(r) == onboarding' = [onboarding EXCEPT ![r] = NoRun]

\* The request, its connection or a transaction fails; what was committed stays.
OnboardFails(r) ==
    /\ onboarding[r] # NoRun
    /\ Ends(r)
    /\ UNCHANGED <<profiles, primary, defaults, clients, accounts, members,
                   bound, binding, onboarded>>
-----------------------------------------------------------------------------
\* Stage 2.  RecordLegalEntityClaims leaves a VERIFIED profile alone.
ClaimsRecorded(p, n) == IF p.entity = "VERIFIED" THEN p ELSE [p EXCEPT !.name = n]

RecordLegalEntityClaims(r) ==
    /\ At(r, "claims")
    /\ LET run == onboarding[r] IN
          /\ profiles' = [profiles EXCEPT ![run.entity] = ClaimsRecorded(@, run.req.name)]
          /\ Goes(r, IF run.req.cites THEN "verify" ELSE "client")
    /\ UNCHANGED <<primary, defaults, clients, accounts, members, bound, binding, onboarded>>

\* GetLegalEntityProfile and VerifyLegalEntityProfile: skipped when it is
\* VERIFIED already, refused when it is not awaiting verification.
VerifyLegalEntityProfile(r) ==
    /\ At(r, "verify")
    /\ LET run == onboarding[r]
           state == profiles[run.entity].entity IN
          IF state \in Unsettled \cup {"VERIFIED"}
          THEN /\ profiles' = [profiles EXCEPT ![run.entity].entity = "VERIFIED"]
               /\ Goes(r, "verify organisation")
          ELSE profiles' = profiles /\ Ends(r)
    /\ UNCHANGED <<primary, defaults, clients, accounts, members, bound, binding, onboarded>>

VerifiableOrganisation(state) == state \notin Refusable

VerifyOrganisation(r) ==
    /\ At(r, "verify organisation")
    /\ LET o == onboarding[r].org IN
          IF VerifiableOrganisation(profiles[o].org)
          THEN /\ profiles' = [profiles EXCEPT ![o].org = "VERIFIED"]
               /\ Goes(r, "client")
          ELSE profiles' = profiles /\ Ends(r)
    /\ UNCHANGED <<primary, defaults, clients, accounts, members, bound, binding, onboarded>>

\* Stage 4.  externalClient: the relationship is recorded PENDING, then
\* verified on the decision, in two transactions; a governed organisation
\* holds a privileged relationship and is refused.
externalClient(r) ==
    LET o == onboarding[r].org IN
    /\ \/ /\ At(r, "client") /\ o \in DOMAIN GovernedOrgs
          /\ Ends(r) /\ clients' = clients
       \/ /\ At(r, "client") /\ o \notin DOMAIN GovernedOrgs
          /\ clients' = [clients EXCEPT ![o] = IF @ = "none" THEN "PENDING" ELSE @]
          /\ Goes(r, "verify client")
       \/ /\ At(r, "verify client")
          /\ clients' = [clients EXCEPT ![o] = "VERIFIED"]
          /\ Goes(r, IF onboarding[r].req.mode = "NONE" THEN "primary" ELSE "account")
    /\ UNCHANGED <<profiles, primary, defaults, accounts, members, bound, binding, onboarded>>

\* Stage 5.  assignAccount.
Assignable(q) == q.mode = "NEW_ACCOUNT" \/ accounts[q.account] # "none"

AccountCreated(q) ==
    IF q.mode = "NEW_ACCOUNT" /\ accounts[q.account] = "none" THEN "ACTIVE" ELSE accounts[q.account]

CreatePlatformAccount(r) ==
    /\ At(r, "account")
    /\ LET q == onboarding[r].req IN
          IF Assignable(q)
          THEN accounts' = [accounts EXCEPT ![q.account] = AccountCreated(q)] /\ Goes(r, "membership")
          ELSE accounts' = accounts /\ Ends(r)
    /\ UNCHANGED <<profiles, primary, defaults, clients, members, bound, binding, onboarded>>

EnsurePlatformAccountMembership(r) ==
    /\ At(r, "membership")
    /\ members' = members \cup {<<onboarding[r].req.account, onboarding[r].org>>}
    /\ Goes(r, "primary")
    /\ UNCHANGED <<profiles, primary, defaults, clients, accounts, bound, binding, onboarded>>

\* Stage 6.  The tenant's mappings, in two transactions.
ReplacePrimaryTenantOrganisation(r) ==
    /\ At(r, "primary")
    /\ primary' = [primary EXCEPT ![onboarding[r].req.tenant] = onboarding[r].org]
    /\ Goes(r, "default")
    /\ UNCHANGED <<profiles, defaults, clients, accounts, members, bound, binding, onboarded>>

DefaultMoved(t, entity) == [defaults EXCEPT ![t] = entity]

EnsureDefaultTenantLegalEntityMapping(r) ==
    /\ At(r, "default")
    /\ LET run == onboarding[r] IN
          /\ defaults' = DefaultMoved(run.req.tenant, run.entity)
          /\ onboarded' = onboarded \cup {run.req}
    /\ Ends(r)
    /\ UNCHANGED <<profiles, primary, clients, accounts, members, bound, binding>>
-----------------------------------------------------------------------------
\* First-party governance: one transaction that corrects the legal name and
\* verifies, but overturns no refusal.
OrganisationGoverned(p) ==
    IF p.org \in Refusable THEN p ELSE [p EXCEPT !.org = "VERIFIED"]

Governed(p, n) ==
    IF p.entity \in Refusable THEN p
    ELSE OrganisationGoverned([p EXCEPT !.entity = "VERIFIED", !.name = n])

ApplyFirstPartyGovernance(o) ==
    /\ profiles' = [profiles EXCEPT ![o] = Governed(@, GovernedOrgs[o])]
    /\ UNCHANGED <<primary, defaults, clients, accounts, members, bound,
                   binding, onboarding, onboarded>>
-----------------------------------------------------------------------------
\* Platform accounts.  A binding transaction holds the tenant's row and a
\* share lock on the account from its checks to its commit.
platformAccountTransitions ==
    {<<"ACTIVE", "SUSPENDED">>, <<"ACTIVE", "CLOSED">>,
     <<"SUSPENDED", "ACTIVE">>, <<"SUSPENDED", "CLOSED">>}

ShareLocked(a) == \E t \in AdmTenants : binding[t] = a
\* Mutant: the account's row is not locked by the stage that reads it.
ShareUnlocked(a) == FALSE

AccountLocked(a) == ShareLocked(a)

ChangePlatformAccountStatus(a, status) ==
    /\ ~AccountLocked(a)
    /\ <<accounts[a], status>> \in platformAccountTransitions
    /\ (status = "CLOSED") => \A t \in AdmTenants : bound[t] # a
    /\ accounts' = [accounts EXCEPT ![a] = status]
    /\ UNCHANGED <<profiles, primary, defaults, clients, members, bound,
                   binding, onboarding, onboarded>>

\* BindTenantPlatformAccount: lockTenant and the checks, then the insert.
BindTenantPlatformAccount(t, a) ==
    /\ binding[t] = NoAccount /\ bound[t] = NoAccount
    /\ accounts[a] = "ACTIVE"
    /\ <<a, primary[t]>> \in members
    /\ binding' = [binding EXCEPT ![t] = a]
    /\ UNCHANGED <<profiles, primary, defaults, clients, accounts, members,
                   bound, onboarding, onboarded>>

BindingCommits(t) ==
    /\ binding[t] # NoAccount
    /\ bound' = [bound EXCEPT ![t] = binding[t]]
    /\ binding' = [binding EXCEPT ![t] = NoAccount]
    /\ UNCHANGED <<profiles, primary, defaults, clients, accounts, members,
                   onboarding, onboarded>>

EndTenantPlatformAccountBinding(t) ==
    /\ binding[t] = NoAccount /\ bound[t] # NoAccount
    /\ bound' = [bound EXCEPT ![t] = NoAccount]
    /\ UNCHANGED <<profiles, primary, defaults, clients, accounts, members,
                   binding, onboarding, onboarded>>

\* The platform account routes.
PlatformAccountRoutes ==
    \/ \E a \in AdmAccounts, s \in {"ACTIVE", "SUSPENDED", "CLOSED"} :
          ChangePlatformAccountStatus(a, s)
    \/ \E t \in AdmTenants : \/ \E a \in AdmAccounts : BindTenantPlatformAccount(t, a)
                             \/ BindingCommits(t)
                             \/ EndTenantPlatformAccountBinding(t)
-----------------------------------------------------------------------------
\* Tenants are registered with their own unverified organisation; any
\* organisation may have been reviewed, and an account may exist, before.
ProfileAfter(entity, org) == [entity |-> entity, name |-> OtherName, org |-> org]

AdmissionInit ==
    /\ profiles \in [AdmOrgs -> {ProfileAfter("UNVERIFIED", "UNVERIFIED"),
                                 ProfileAfter("UNVERIFIED", "REJECTED"),
                                 ProfileAfter("EXPIRED", "UNVERIFIED")}]
    /\ \A o \in AdmOrgs \ Reviewed : profiles[o] = ProfileAfter("UNVERIFIED", "UNVERIFIED")
    /\ primary = RegisteredOrg /\ defaults = RegisteredOrg
    /\ clients = [o \in AdmOrgs |-> "none"]
    /\ accounts = [a \in AdmAccounts |-> "none"]
    /\ members = {}
    /\ bound = [t \in AdmTenants |-> NoAccount]
    /\ binding = [t \in AdmTenants |-> NoAccount]
    /\ onboarding = [r \in Reviewers |-> NoRun]
    /\ onboarded = {}

\* Onboard's stages, in the order the onboarder runs them.
OnboardStep(r) ==
    \/ RecordLegalEntityClaims(r) \/ VerifyLegalEntityProfile(r)
    \/ VerifyOrganisation(r) \/ externalClient(r)
    \/ CreatePlatformAccount(r) \/ EnsurePlatformAccountMembership(r)
    \/ ReplacePrimaryTenantOrganisation(r)
    \/ EnsureDefaultTenantLegalEntityMapping(r)

AdmissionNext ==
    \/ \E r \in Reviewers, q \in AdmRequests : Onboard(r, q)
    \/ \E r \in Reviewers : OnboardStep(r) \/ OnboardFails(r)
    \/ \E o \in DOMAIN GovernedOrgs : ApplyFirstPartyGovernance(o)
    \/ PlatformAccountRoutes

AdmissionSpec == AdmissionInit /\ [][AdmissionNext]_admVars
-----------------------------------------------------------------------------
Working(t) == \E r \in Reviewers : onboarding[r] # NoRun /\ onboarding[r].req.tenant = t

\* An admission that was answered with success holds once the tenant's other
\* runs are over, whatever failed, was replayed or ran for another tenant in
\* between: the client relationship and what the case verified are verified,
\* the organisation is a member of the account, and the tenant's default legal
\* entity is the primary organisation's own.
OnboardedHolds ==
    \A q \in onboarded :
        ~Working(q.tenant) =>
            LET o == primary[q.tenant] IN
            /\ clients[o] = "VERIFIED"
            /\ q.cites => (profiles[o].entity = "VERIFIED" /\ profiles[o].org = "VERIFIED")
            /\ (q.mode # "NONE") => <<q.account, o>> \in members
            /\ defaults[q.tenant] = o

\* A tenant is never bound to an account that is closed: closing counts the
\* bindings under the account's row lock, and a binding being written holds a
\* share lock on the same row.
NoBindingToClosedAccount ==
    \A t \in AdmTenants : bound[t] # NoAccount => accounts[bound[t]] \in {"ACTIVE", "SUSPENDED"}

\* What was verified stays what it was: no other applicant's claim renames a
\* verified legal entity, and no case or registry turns a refused one round.
VerifiedAndRefusedStand ==
    [][\A o \in AdmOrgs :
          /\ profiles[o].entity = "VERIFIED" =>
                /\ profiles'[o].entity = "VERIFIED"
                /\ profiles'[o].name # profiles[o].name => o \in DOMAIN GovernedOrgs
          /\ profiles[o].entity \in Refusable => profiles'[o].entity = profiles[o].entity
          /\ profiles[o].org \in Refusable => profiles'[o].org = profiles[o].org]_profiles

\* "A case never verifies a name or identifier it did not check": the name a
\* run verifies is the one its own case checked.
VerifiedNamesWereChecked ==
    [][\A r \in Reviewers, o \in AdmOrgs :
          (/\ At(r, "verify") /\ onboarding'[r] # onboarding[r]
           /\ profiles[o].entity # "VERIFIED" /\ profiles'[o].entity = "VERIFIED")
             => profiles'[o].name = onboarding[r].req.checked]_admVars

\* Organisation admission: what an onboarding reported still holds, no
\* tenant is bound to a closed account, and verified and refused profiles
\* stand.
AdmissionPromises ==
  /\ [](AdmissionTypeOK /\ OnboardedHolds /\ NoBindingToClosedAccount)
  /\ VerifiedAndRefusedStand
=============================================================================
