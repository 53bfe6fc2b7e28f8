-------------------------- MODULE Counterparties --------------------------
(***************************************************************************)
(* Counterparty roles and the reconciliation run.                          *)
(*                                                                         *)
(* Legacy buyer and supplier records gain a profile and a role in batches; *)
(* an INSERT ... SELECT works on the rows its snapshot saw, so selecting   *)
(* and inserting are two steps that other runs and administrators come     *)
(* between.  Detection reads the identifiers two organisations share, and  *)
(* later opens, updates or reopens the pair's resolution candidate, which  *)
(* reviewers decide.                                                       *)
(*                                                                         *)
(* Apart from these, under a specification of their own, the links between *)
(* canonical organisations and those of an identity provider: one ACTIVE   *)
(* link per provider organisation, with a day from which it resolves.      *)
(***************************************************************************)
EXTENDS Naturals, FiniteSets, FiniteSetsExt

CONSTANTS
    LegacyRecords,     \* legacy records in use, by id: 1 .. n
    BatchSize,         \* records a backfill transaction handles
    Reconcilers,       \* concurrent calls of the reconcile route
    SharedIdentifiers, \* identifiers the pair of organisations may share
    IamOrgs,           \* the provider's organisations
    LinkableOrgs,      \* canonical organisations they may be linked to
    LastLinkDay        \* bound on the links' clock

ASSUME BatchAssumption == BatchSize \in Nat \ {0} /\ LegacyRecords = 1 .. Cardinality(LegacyRecords)

VARIABLES
    attached,   \* legacy records with an organisation profile
    cpRoles,    \* [LegacyRecords -> {"never", "live", "ended"}]
    sharing,    \* identifiers the pair shares now
    candidate,  \* the pair's resolution candidate
    recon,      \* [Reconcilers -> run]
    iamLinks,   \* [IamOrgs -> [org, from]], the ACTIVE links
    linkDay     \* the links' clock

cpVars == <<attached, cpRoles, sharing, candidate, recon>>
iamVars == <<iamLinks, linkDay>>

NoCandidate == [status |-> "none", matched |-> {}, decided |-> {}]
NotRunning == [stage |-> "idle", attach |-> {}, grant |-> {}, saw |-> {}, alone |-> TRUE]

CounterpartiesTypeOK ==
    /\ attached \subseteq LegacyRecords
    /\ cpRoles \in [LegacyRecords -> {"never", "live", "ended"}]
    /\ sharing \subseteq SharedIdentifiers
    /\ candidate.status \in {"none", "OPEN", "DISTINCT", "DUPLICATE_CONFIRMED"}
    /\ (candidate.status = "none") = (candidate.matched = {})
    /\ (candidate.status \in {"none", "OPEN"}) => candidate.decided = {}
-----------------------------------------------------------------------------
\* Everything that is not the run itself disturbs the runs under way.
Disturbed(f) == [w \in Reconcilers |-> [f[w] EXCEPT !.alone = f[w].stage = "idle"]]

\* EnsureCounterpartyRole: a live role of the type is returned unchanged.
EnsureCounterpartyRole(e) ==
    /\ cpRoles[e] # "live"
    /\ cpRoles' = [cpRoles EXCEPT ![e] = "live"]
    /\ recon' = Disturbed(recon)
    /\ UNCHANGED <<attached, sharing, candidate>>

\* EndCounterpartyRole: ending an ended role changes nothing.
EndCounterpartyRole(e) ==
    /\ cpRoles[e] = "live"
    /\ cpRoles' = [cpRoles EXCEPT ![e] = "ended"]
    /\ recon' = Disturbed(recon)
    /\ UNCHANGED <<attached, sharing, candidate>>

\* Admission and registration change what the two organisations claim.
IdentifiersChange(s) ==
    /\ sharing' = s
    /\ recon' = Disturbed(recon)
    /\ UNCHANGED <<attached, cpRoles, candidate>>
-----------------------------------------------------------------------------
\* CounterpartyReconciler.Run: backfill batches, then detection.
RunStarts(w) ==
    /\ recon[w].stage \in {"idle", "done"}
    /\ recon' = [Disturbed(recon) EXCEPT ![w] =
          [NotRunning EXCEPT !.stage = "backfill",
                             !.alone = \A v \in Reconcilers \ {w} : recon[v].stage \in {"idle", "done"}]]
    /\ UNCHANGED <<attached, cpRoles, sharing, candidate>>

\* ORDER BY canonical_entity_id LIMIT: the first records of a set.
FirstOf(S) == {e \in S : Cardinality({d \in S : d <= e}) <= BatchSize}

\* The snapshot of BackfillLegacyOrganisations' two statements.
BackfillSelects(w) ==
    /\ recon[w].stage = "backfill"
    /\ recon' = [recon EXCEPT ![w] =
          [@ EXCEPT !.stage = "insert",
                    !.attach = FirstOf(LegacyRecords \ attached),
                    !.grant = FirstOf({e \in LegacyRecords : cpRoles[e] = "never"})]]
    /\ UNCHANGED <<attached, cpRoles, sharing, candidate>>

\* Run stops once both phases of a batch inserted less than the limit.
BatchWasShort(profiles, granted) ==
    Cardinality(profiles) < BatchSize /\ Cardinality(granted) < BatchSize

\* The inserts: ON CONFLICT DO NOTHING counts only the rows it inserted, and
\* a role conflicts only with a live one.
BackfillLegacyOrganisations(w) ==
    /\ recon[w].stage = "insert"
    /\ LET profiles == recon[w].attach \ attached
           granted == {e \in recon[w].grant : cpRoles[e] # "live"} IN
          /\ attached' = attached \cup profiles
          /\ cpRoles' = [e \in LegacyRecords |-> IF e \in granted THEN "live" ELSE cpRoles[e]]
          /\ recon' = [recon EXCEPT ![w] =
                [@ EXCEPT !.stage = IF BatchWasShort(profiles, granted) THEN "detect" ELSE "backfill",
                          !.attach = {}, !.grant = {}]]
    /\ UNCHANGED <<sharing, candidate>>

\* identifierPairsSQL, read outside any transaction.
DetectResolutionCandidates(w) ==
    /\ recon[w].stage = "detect"
    /\ recon' = [recon EXCEPT ![w] =
          [@ EXCEPT !.saw = sharing, !.stage = IF sharing = {} THEN "done" ELSE "upsert"]]
    /\ UNCHANGED <<attached, cpRoles, sharing, candidate>>

\* A DISTINCT pair is reopened by a match its decision did not weigh.
containsAllMatches(decided, current) == current \subseteq decided

\* Mutant: any new match reopens a decided pair.
UpsertedKeepingDecision(c, matched) ==
    [c EXCEPT !.status = IF @ \in {"none", "DISTINCT"} THEN "OPEN" ELSE @, !.matched = matched]

\* upsertCandidate: opened, reopened, updated or unchanged, under the row lock.
Upserted(c, matched) ==
    CASE c.status = "none" -> [status |-> "OPEN", matched |-> matched, decided |-> {}]
      [] c.status = "DISTINCT" /\ ~containsAllMatches(c.decided, matched) ->
            [status |-> "OPEN", matched |-> matched, decided |-> {}]
      [] OTHER -> [c EXCEPT !.matched = matched]

upsertCandidate(w) ==
    /\ recon[w].stage = "upsert"
    /\ candidate' = Upserted(candidate, recon[w].saw)
    /\ recon' = [recon EXCEPT ![w] = [@ EXCEPT !.stage = "done", !.saw = {}]]
    /\ UNCHANGED <<attached, cpRoles, sharing>>

\* The run is over and its report answered.
RunEnds(w) ==
    /\ recon[w].stage = "done"
    /\ recon' = [recon EXCEPT ![w] = NotRunning]
    /\ UNCHANGED <<attached, cpRoles, sharing, candidate>>

\* DecideResolutionCandidate: only an OPEN candidate; the decision is recorded
\* as taken on the matches the row holds now.
MayDecide(c) == c.status = "OPEN"

DecideResolutionCandidate(d) ==
    /\ MayDecide(candidate)
    /\ candidate' = [candidate EXCEPT !.status = d, !.decided = candidate.matched]
    /\ UNCHANGED <<attached, cpRoles, sharing, recon>>

CounterpartyRoutes ==
    \/ \E e \in LegacyRecords : EnsureCounterpartyRole(e) \/ EndCounterpartyRole(e)
    \/ \E d \in {"DISTINCT", "DUPLICATE_CONFIRMED"} : DecideResolutionCandidate(d)
-----------------------------------------------------------------------------
CounterpartiesInit ==
    /\ attached = {}
    /\ cpRoles = [e \in LegacyRecords |-> "never"]
    /\ sharing = {} /\ candidate = NoCandidate
    /\ recon = [w \in Reconcilers |-> NotRunning]

\* The reconcile route.
Reconcile(w) ==
    \/ RunStarts(w) \/ BackfillSelects(w) \/ BackfillLegacyOrganisations(w)
    \/ DetectResolutionCandidates(w) \/ upsertCandidate(w) \/ RunEnds(w)

CounterpartiesNext ==
    \/ \E w \in Reconcilers : Reconcile(w)
    \/ \E s \in SUBSET SharedIdentifiers : s # sharing /\ IdentifiersChange(s)
    \/ CounterpartyRoutes

CounterpartiesSpec == CounterpartiesInit /\ [][CounterpartiesNext]_cpVars
-----------------------------------------------------------------------------
NoLink == [org |-> "none", from |-> 0]
-----------------------------------------------------------------------------
LinkKept(link, row) == IF link = NoLink THEN row ELSE link

LinkIamOrganisation(i, o, from) ==
    /\ iamLinks' = [iamLinks EXCEPT ![i] = LinkKept(@, [org |-> o, from |-> from])]
    /\ iamLinks' # iamLinks
    /\ UNCHANGED linkDay

\* RetireIamOrganisationReference: never before the link took effect.
RetireIamOrganisationReference(i, at) ==
    /\ iamLinks[i] # NoLink /\ at >= iamLinks[i].from
    /\ iamLinks' = [iamLinks EXCEPT ![i] = NoLink]
    /\ UNCHANGED linkDay

LinkClock ==
    /\ linkDay < LastLinkDay
    /\ linkDay' = linkDay + 1
    /\ UNCHANGED iamLinks

\* ResolveIamOrganisation at the clock's day; "none" fails closed.
ResolveIamOrganisation(i) ==
    IF iamLinks[i].from <= linkDay THEN iamLinks[i].org ELSE "none"

IamOrganisationRoutes ==
    \E i \in IamOrgs, day \in 0 .. LastLinkDay :
        \/ \E o \in LinkableOrgs : LinkIamOrganisation(i, o, day)
        \/ RetireIamOrganisationReference(i, day)
-----------------------------------------------------------------------------
IamInit == iamLinks = [i \in IamOrgs |-> NoLink] /\ linkDay = 0

IamNext == IamOrganisationRoutes \/ LinkClock

IamSpec == IamInit /\ [][IamNext]_iamVars
-----------------------------------------------------------------------------
\* A run nobody disturbed has done the whole job when it ends: every legacy
\* record in use has a profile and had a role, and a pair that shares an
\* identifier is quarantined under the identifiers it shares, unless a
\* reviewer called it distinct with all of them in view.
LoneRunFinishesTheJob ==
    \A w \in Reconcilers :
        (recon[w].stage = "done" /\ recon[w].alone) =>
            /\ attached = LegacyRecords
            /\ \A e \in LegacyRecords : cpRoles[e] # "never"
            /\ sharing # {} => candidate.matched = sharing
            /\ candidate.status = "DISTINCT" => sharing \subseteq candidate.decided

\* A decision is never overwritten: a confirmed duplicate stays confirmed, and
\* a DISTINCT pair changes only to OPEN, by a match that the decision did not
\* weigh, whatever stale detection runs and second reviewers do.
DecisionsStand ==
    [][/\ candidate.status = "DUPLICATE_CONFIRMED" => candidate'.status = candidate.status
       /\ (candidate.status = "DISTINCT" /\ candidate'.status # "DISTINCT")
             => candidate'.status = "OPEN" /\ candidate'.matched \ candidate.decided # {}]_candidate

\* A provider organisation never moves from one canonical organisation to
\* another in a single step: its link is retired first.
NeverRelinkedSilently ==
    [][\A i \in IamOrgs :
          ResolveIamOrganisation(i) # "none"
             => ResolveIamOrganisation(i)' \in {ResolveIamOrganisation(i), "none"}]_iamVars

\* "A batch smaller than the limit on both phases means the backlog is
\* drained": what a run that ended has backfilled, when others ran as well.
ShortBatchMeansDrained ==
    \A w \in Reconcilers : recon[w].stage = "detect" => attached = LegacyRecords

\* Counterparties: an undisturbed run finishes the job, reviewers' decisions
\* stand, and a provider organisation is never relinked in one step.
CounterpartyPromises ==
  /\ [](CounterpartiesTypeOK /\ LoneRunFinishesTheJob)
  /\ DecisionsStand
  /\ NeverRelinkedSilently
=============================================================================
