------------------------ MODULE ProgressiveAdmission ------------------------
(***************************************************************************)
(* Progressive (v2) admission of one applicant: the applicant's draft and  *)
(* its submission, then review, decision, onboarding request,              *)
(* authorisation and registration, each by a different person.             *)
(*                                                                         *)
(* A bridge command is one transaction under the row locks of what it      *)
(* reads, and one action here.  Registration is two: it locks the request  *)
(* and the organisation and checks every authority again, then writes and  *)
(* commits; a sponsorship is not locked and may end in between.  A         *)
(* repeated command returns its recorded receipt and changes nothing.      *)
(***************************************************************************)
EXTENDS Naturals, FiniteSets

CONSTANTS
    Roster,        \* the people who may call each command
    BridgeOrgs,    \* active organisations a review may name
    BridgeMarkets, \* market codes
    MaxDraftEdits  \* bound on the edits of a draft

ASSUME BridgeAssumption == DOMAIN Roster = {"apply", "review", "decide", "request", "authorise", "register"} /\ MaxDraftEdits \in Nat

ASSUME RosterAssumption == \A part \in DOMAIN Roster : {"none", "elsewhere"} \cap Roster[part] = {}

VARIABLES
    v2app,       \* admission.client_application_v2
    edits,       \* edits so far
    review,      \* admission.progressive_admission_review
    verdict,     \* admission.progressive_admission_decision
    request,     \* admission.progressive_onboarding_request
    registering, \* registrations that hold their row locks
    belongs,     \* tenant of each organisation, named after its registrar
    primaryOf,   \* the registered tenant's primary organisation
    sponsors     \* organisations with an active, verified sponsor

bridgeVars == <<v2app, edits, review, verdict, request, registering, belongs, primaryOf, sponsors>>

NoRow == [by |-> "none"]
Unowned == "none"

-----------------------------------------------------------------------------
(* The applicant's draft.                                                  *)

CreateProgressiveApplication(who, markets) ==
    /\ v2app = NoRow
    /\ v2app' = [by |-> who, status |-> "DRAFT", markets |-> markets]
    /\ UNCHANGED <<edits, review, verdict, request, registering, belongs, primaryOf, sponsors>>

Changeable == v2app # NoRow /\ v2app.status = "DRAFT"

(* The version an edit names and the row lock make edits of one draft      *)
(* follow each other.                                                      *)
ChangeProgressiveApplication(markets) ==
    /\ Changeable /\ edits < MaxDraftEdits
    /\ v2app' = [v2app EXCEPT !.markets = markets]
    /\ edits' = edits + 1
    /\ UNCHANGED <<review, verdict, request, registering, belongs, primaryOf, sponsors>>

SubmitProgressiveApplication ==
    /\ Changeable /\ v2app.markets # {}
    /\ v2app' = [v2app EXCEPT !.status = "SUBMITTED"]
    /\ UNCHANGED <<edits, review, verdict, request, registering, belongs, primaryOf, sponsors>>

Submitted == v2app # NoRow /\ v2app.status = "SUBMITTED"

-----------------------------------------------------------------------------
(* Review, decision, request, authorisation.                               *)

bridgeOrganisation(o) == belongs[o] = Unowned

bridgeInternalEligible(o) == o \in sponsors

ClassifiedSoundly(o, internal) == internal => bridgeInternalEligible(o)

bridgeMarketSubset(scope) == scope # {} /\ scope \subseteq v2app.markets

ReviewProgressiveAdmission(who, o, internal, scope) ==
    /\ Submitted /\ review = NoRow
    /\ who # v2app.by
    /\ bridgeMarketSubset(scope)
    /\ bridgeOrganisation(o)
    /\ ClassifiedSoundly(o, internal)
    /\ review' = [by |-> who, org |-> o, internal |-> internal, scope |-> scope]
    /\ UNCHANGED <<v2app, edits, verdict, request, registering, belongs, primaryOf, sponsors>>

DecideProgressiveAdmission(who, approved) ==
    /\ review # NoRow /\ verdict = NoRow
    /\ who \notin {v2app.by, review.by}
    /\ bridgeOrganisation(review.org)
    /\ approved => ClassifiedSoundly(review.org, review.internal)
    /\ verdict' = [by |-> who, approved |-> approved]
    /\ UNCHANGED <<v2app, edits, review, request, registering, belongs, primaryOf, sponsors>>

Decided == verdict # NoRow

Approved == verdict # NoRow /\ verdict.approved

RequestProgressiveOnboarding(who) ==
    /\ Approved /\ request = NoRow
    /\ who \notin {v2app.by, review.by, verdict.by}
    /\ bridgeOrganisation(review.org)
    /\ ClassifiedSoundly(review.org, review.internal)
    /\ request' = [by |-> who, status |-> "REQUESTED", authoriser |-> "none", registrar |-> "none"]
    /\ UNCHANGED <<v2app, edits, review, verdict, registering, belongs, primaryOf, sponsors>>

Involved == {v2app.by, review.by, verdict.by, request.by}

MayAuthorise(who) == who \notin Involved

AuthoriseProgressiveOnboarding(who) ==
    /\ request # NoRow /\ request.status = "REQUESTED"
    /\ MayAuthorise(who)
    /\ bridgeOrganisation(review.org)
    /\ ClassifiedSoundly(review.org, review.internal)
    /\ request' = [request EXCEPT !.status = "AUTHORISED", !.authoriser = who]
    /\ UNCHANGED <<v2app, edits, review, verdict, registering, belongs, primaryOf, sponsors>>

-----------------------------------------------------------------------------
(* Registration.                                                           *)

Locked == registering # {}

Authorised == request # NoRow /\ request.status = "AUTHORISED"

\* Mutant: the organisation's owner is not looked at again.
OwnedByAnyone(o) == TRUE

UnownedStill(o) == belongs[o] = Unowned

(* verifyProgressiveRegistrationTx: the request and the organisation are   *)
(* locked, the registrar had no part before, INTERNAL is still sponsored.  *)
verifyProgressiveRegistrationTx(who) ==
    /\ ~Locked
    /\ Authorised /\ Submitted
    /\ UnownedStill(review.org)
    /\ who \notin Involved \cup {request.authoriser}
    /\ ClassifiedSoundly(review.org, review.internal)
    /\ registering' = {who}
    /\ UNCHANGED <<v2app, edits, review, verdict, request, belongs, primaryOf, sponsors>>

(* registerTenant's writes and commit, with the organisation attached and  *)
(* the request fulfilled in the same transaction.                          *)
RegisterProgressiveTenantV2(who) ==
    /\ who \in registering
    /\ registering' = {}
    /\ belongs' = [belongs EXCEPT ![review.org] = who]
    /\ primaryOf' = review.org
    /\ request' = [request EXCEPT !.status = "FULFILLED", !.registrar = who]
    /\ UNCHANGED <<v2app, edits, review, verdict, sponsors>>

RegistrationFails(who) ==
    /\ who \in registering
    /\ registering' = {}
    /\ UNCHANGED <<v2app, edits, review, verdict, request, belongs, primaryOf, sponsors>>

(* The onboarding of an admission re-points the tenant to an organisation  *)
(* that exists, whoever it belongs to; the one it had stays as it was.     *)
ReplacePrimaryTenantOrganisation(o) ==
    /\ primaryOf # "none" /\ o # primaryOf
    /\ primaryOf' = o
    /\ UNCHANGED <<v2app, edits, review, verdict, request, registering, belongs, sponsors>>

(* Another registration attaches the organisation to its tenant; it waits  *)
(* for one that holds the organisation's lock.                             *)
AttachedElsewhere(o) ==
    /\ bridgeOrganisation(o) /\ ~(Locked /\ o = review.org)
    /\ belongs' = [belongs EXCEPT ![o] = "elsewhere"]
    /\ UNCHANGED <<v2app, edits, review, verdict, request, registering, primaryOf, sponsors>>

(* A sponsorship is granted; one is ended, suspended or expires, or its    *)
(* sponsor's profile is no longer verified.                                *)
SponsorshipGranted(o) ==
    /\ o \notin sponsors
    /\ sponsors' = sponsors \cup {o}
    /\ UNCHANGED <<v2app, edits, review, verdict, request, registering, belongs, primaryOf>>

SponsorshipEnded(o) ==
    /\ o \in sponsors
    /\ sponsors' = sponsors \ {o}
    /\ UNCHANGED <<v2app, edits, review, verdict, request, registering, belongs, primaryOf>>

-----------------------------------------------------------------------------
(* The routes.                                                             *)

progressiveApplicationRoutes ==
    \/ \E who \in Roster.apply, m \in SUBSET BridgeMarkets : CreateProgressiveApplication(who, m)
    \/ \E m \in SUBSET BridgeMarkets : ChangeProgressiveApplication(m)
    \/ SubmitProgressiveApplication

progressiveBridgeRoutes ==
    \/ \E who \in Roster.review, o \in BridgeOrgs, i \in BOOLEAN, m \in SUBSET BridgeMarkets :
            ReviewProgressiveAdmission(who, o, i, m)
    \/ \E who \in Roster.decide, a \in BOOLEAN : DecideProgressiveAdmission(who, a)
    \/ \E who \in Roster.request : RequestProgressiveOnboarding(who)
    \/ \E who \in Roster.authorise : AuthoriseProgressiveOnboarding(who)

registerProgressiveV2 ==
    \E who \in Roster.register :
        \/ verifyProgressiveRegistrationTx(who)
        \/ RegisterProgressiveTenantV2(who)
        \/ RegistrationFails(who)

BridgeInit ==
    /\ v2app = NoRow /\ edits = 0
    /\ review = NoRow /\ verdict = NoRow /\ request = NoRow
    /\ registering = {}
    /\ belongs = [o \in BridgeOrgs |-> Unowned] /\ primaryOf = "none"
    /\ sponsors = BridgeOrgs

BridgeNext ==
    \/ progressiveApplicationRoutes
    \/ progressiveBridgeRoutes
    \/ registerProgressiveV2
    \/ \E o \in BridgeOrgs :
        \/ ReplacePrimaryTenantOrganisation(o) \/ AttachedElsewhere(o)
        \/ SponsorshipGranted(o) \/ SponsorshipEnded(o)

BridgeSpec == BridgeInit /\ [][BridgeNext]_bridgeVars

-----------------------------------------------------------------------------
(* Properties.                                                             *)

(* Type invariant: each stage exists only after the one before it, and an  *)
(* organisation belongs to the tenant exactly when the request is          *)
(* fulfilled and names that organisation.                                  *)
BridgeTypeOK ==
    /\ review # NoRow => Submitted
    /\ verdict # NoRow => review # NoRow
    /\ request # NoRow => verdict # NoRow /\ verdict.approved
    /\ registering # {} => request # NoRow /\ request.status = "AUTHORISED"
    /\ request # NoRow => (request.status = "FULFILLED") = (request.registrar # "none")
    /\ \A o \in BridgeOrgs :
        belongs[o] \notin {Unowned, "elsewhere"} <=>
            /\ request # NoRow /\ request.status = "FULFILLED"
            /\ o = review.org /\ belongs[o] = request.registrar

(* Nobody acts twice on the way from application to tenant: applicant,     *)
(* reviewer, decider, requester, authoriser and registrar are six people.  *)
SixHands ==
    request # NoRow /\ request.status = "FULFILLED" =>
        LET hands == <<v2app.by, review.by, verdict.by, request.by, request.authoriser, request.registrar>>
        IN \A i, j \in 1..6 : i # j => hands[i] # hands[j]

(* The approved market scope lies within what the application asks for,    *)
(* from the review to the tenant: a submitted application no longer        *)
(* changes (ChangeProgressiveApplication, bridgeMarketSubset).             *)
ScopeWithinApplication == review # NoRow => review.scope # {} /\ review.scope \subseteq v2app.markets

(* A registration never takes an organisation from another tenant (the     *)
(* locks of verifyProgressiveRegistrationTx), and a tenant that is pointed *)
(* to another organisation leaves the one it had to no other registration. *)
OrganisationTakenOnce ==
    [][\A o \in BridgeOrgs : belongs[o] # Unowned => belongs'[o] = belongs[o]]_bridgeVars

(* "INTERNAL classifications need current actual sponsorship at the moment *)
(* registration consumes authority": a tenant is registered for an         *)
(* INTERNAL request only while its organisation is sponsored.              *)
InternalSponsoredWhenRegistered ==
    [][request # NoRow /\ request.status = "AUTHORISED" /\ request'.status = "FULFILLED" /\ review.internal =>
        review.org \in sponsors]_bridgeVars

\* Progressive admission: the six steps are taken by the hands the policy
\* separates, the scope granted lies within the application, and an
\* organisation is taken once.
BridgePromises ==
  /\ [](BridgeTypeOK /\ SixHands /\ ScopeWithinApplication)
  /\ OrganisationTakenOnce
=============================================================================
