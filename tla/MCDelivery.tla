---------------------------- MODULE MCDelivery ----------------------------
(***************************************************************************)
(* The components whose background work must get done: the drift sweep,    *)
(* the grant sweep, the shadow evidence flush, group derivation, the       *)
(* founding sweeps and their outbox, billing projection and the dataset    *)
(* purge; and the mandates, which have none. Each is run for itself: focus *)
(* names the one at work, the others stand still, and the state space is   *)
(* the sum of theirs.                                                      *)
(***************************************************************************)
EXTENDS ReleaseDrift, AdministrativeGrants, AuthorityMigration, GroupDerivation,
        FoundingGovernance, FoundingOutbox, BillingProjection, ConsoleDatasets,
        LegalActorMandates

CONSTANT Foci  \* the components this run puts at work

VARIABLE focus  \* the component at work

\* Release drift: a digest of each release and an unknown one.
MCDigestOwner == [d1 |-> "r1", d2 |-> "r2", d3 |-> "unknown"]
MCGrace ==
  [REVOKED_RELEASE_RUNNING |-> 0, UNKNOWN_ARTIFACT_RUNNING |-> 0, DEPLOYMENT_LOCATION_MISMATCH |-> 0,
   RELEASE_MISMATCH |-> 1, RELEASE_UNOBSERVED |-> 1]
MCEffect ==
  [REVOKED_RELEASE_RUNNING |-> "BLOCKED", UNKNOWN_ARTIFACT_RUNNING |-> "BLOCKED",
   DEPLOYMENT_LOCATION_MISMATCH |-> "BLOCKED", RELEASE_MISMATCH |-> "DEGRADED", RELEASE_UNOBSERVED |-> "DEGRADED"]
MCBound ==
  {[mandatory |-> TRUE, here |-> TRUE, elsewhere |-> FALSE], [mandatory |-> TRUE, here |-> TRUE, elsewhere |-> TRUE],
   [mandatory |-> FALSE, here |-> TRUE, elsewhere |-> FALSE]}
MCReports ==
  {[artifacts |-> {"d1"}, here |-> TRUE], [artifacts |-> {"d1", "d2"}, here |-> TRUE],
   [artifacts |-> {"d1"}, here |-> FALSE], [artifacts |-> {"d1", "d3"}, here |-> TRUE]}

\* Grants: the whole platform, a group that lists an organisation, the
\* organisation, one of its tenants.
AskedGrant(s, h, a, u) == [scope |-> s, hops |-> h, start |-> a, until |-> u]
MCAsked ==
  {AskedGrant(ScopeAt("PLATFORM", ""), 2, 0, 2), AskedGrant(ScopeAt("ORGANISATION", "o"), 1, 0, 2),
   AskedGrant([ScopeAt("CORPORATE_GROUP", "g") EXCEPT !.mode = "STATIC_MEMBERSHIP", !.orgs = {"o"}], 2, 0, 2),
   AskedGrant(ScopeAt("TENANT", "t"), 0, 1, 2), AskedGrant(ScopeAt("PLATFORM", ""), 0, 1, 2),
   AskedGrant(ScopeAt("ORGANISATION", "o"), 0, 0, 1)}
MCMappings == {{}, {<<"t", "o">>}}
MCProbes == {ResourceAt("TENANT", "t"), ResourceAt("ORGANISATION", "o")}

\* The judgements of roles and of grants that a request can meet.
Judgement(p, l, g, k, t) ==
  [permission |-> p, legacy |-> l, grants |-> g, comparable |-> TRUE, known |-> k, tenant |-> t]
MCJudged ==
  {Judgement("listed", "allow", "deny", TRUE, "t"), Judgement("listed", "deny", "allow", TRUE, "u"),
   Judgement("listed", "allow", "error", FALSE, "t"), Judgement("back", "allow", "allow", TRUE, "t"),
   Judgement("back", "deny", "deny", TRUE, "t")}
MCCriteria == [approved |-> TRUE, days |-> 2, decisions |-> 2, narrower |-> 0, unevaluated |-> 0, unresolved |-> 0]

MCControlEdges == {<<1, 2>>, <<2, 3>>}

\* Founding: one sponsorship and two deferrals that rest on it.
MCSponsorships == [s1 |-> [from |-> 1, to |-> 3]]
MCDeferrals == [d1 |-> "s1", d2 |-> "s1"]
MCHands == [propose |-> {"p1"}, decide |-> {"p2", "p3"}, end |-> {"p3"}]
MCAdmissionOf == [month |-> 1, applicant |-> "ann", decider |-> "p1"]

\* Datasets: an export of one organisation, and two bulk changes that meet in
\* the other.
MCDsPlans ==
  [e1 |-> [kind |-> "export", targets |-> {"o1"}, maker |-> "m", until |-> 2],
   b1 |-> [kind |-> "bulk", targets |-> {"o1", "o2"}, maker |-> "m", until |-> 2],
   b2 |-> [kind |-> "bulk", targets |-> {"o2"}, maker |-> "c", until |-> 2]]

\* Mandates: m2 overlaps m1, or succeeds it.
MCOffers ==
  [m1 |-> {[scope |-> {"x"}, from |-> 1, to |-> 3, follows |-> "none"]},
   m2 |-> {[scope |-> {"x", "y"}, from |-> 2, to |-> 0, follows |-> f] : f \in {"none", "m1"}}]
MCOfficers == [propose |-> {"p1"}, decide |-> {"p1", "p2"}, activate |-> {"p2", "p3"}]

\* Group derivation out of focus: the group consists of its root.
GroupsAtRest ==
  /\ graph = {}
  /\ rows = [o \in Organisations |-> IF o = GroupRoot THEN DerivedRow({}) ELSE NoRow]
  /\ queue = [requested |-> FALSE, due |-> FALSE, leased |-> FALSE]
  /\ workers = [w \in GroupWorkers |-> IdleWorker]
  /\ spent = [moves |-> 0, unseen |-> 0, overruns |-> 0, errors |-> 0]
-----------------------------------------------------------------------------
allVars == <<focus, driftVars, grantVars, migrationVars, groupVars, foundingVars, outVars,
            billVars, dsVars, mandateVars>>

FocusedInit ==
  /\ focus \in Foci
  /\ DriftInit
  /\ GrantsInit /\ (focus # "grants" => mappings = {})
  /\ AuthorityInit
  /\ IF focus = "groups" THEN GroupInit ELSE GroupsAtRest
  /\ FoundingInit /\ OutboxInit /\ BillingInit /\ DatasetInit /\ MandateInit

FocusedNext ==
  \/ /\ focus = "drift" /\ DriftNext
     /\ UNCHANGED <<focus, grantVars, migrationVars, groupVars, foundingVars, outVars, billVars, dsVars,
                     mandateVars>>
  \/ /\ focus = "grants" /\ GrantsNext
     /\ UNCHANGED <<focus, driftVars, migrationVars, groupVars, foundingVars, outVars, billVars, dsVars,
                     mandateVars>>
  \/ /\ focus = "authority" /\ AuthorityNext
     /\ UNCHANGED <<focus, driftVars, grantVars, groupVars, foundingVars, outVars, billVars, dsVars,
                     mandateVars>>
  \/ /\ focus = "groups" /\ GroupNext
     /\ UNCHANGED <<focus, driftVars, grantVars, migrationVars, foundingVars, outVars, billVars, dsVars,
                     mandateVars>>
  \/ /\ focus = "founding" /\ FoundingNext
     /\ UNCHANGED <<focus, driftVars, grantVars, migrationVars, groupVars, outVars, billVars, dsVars,
                     mandateVars>>
  \/ /\ focus = "outbox" /\ OutboxNext
     /\ UNCHANGED <<focus, driftVars, grantVars, migrationVars, groupVars, foundingVars, billVars, dsVars,
                     mandateVars>>
  \/ /\ focus = "billing" /\ BillingNext
     /\ UNCHANGED <<focus, driftVars, grantVars, migrationVars, groupVars, foundingVars, outVars, dsVars,
                     mandateVars>>
  \/ /\ focus = "datasets" /\ DatasetNext
     /\ UNCHANGED <<focus, driftVars, grantVars, migrationVars, groupVars, foundingVars, outVars, billVars,
                     mandateVars>>
  \/ /\ focus = "mandate" /\ MandateNext
     /\ UNCHANGED <<focus, driftVars, grantVars, migrationVars, groupVars, foundingVars, outVars, billVars,
                     dsVars>>

FocusedSpec == FocusedInit /\ [][FocusedNext]_allVars

(* Each component is owed the fairness its own specification states, while *)
(* it is at work. The runs put different components at work.               *)
SweepsFairness ==
  /\ WF_driftVars(focus = "drift" /\ SweepStarts) /\ WF_driftVars(focus = "drift" /\ SweepReleaseDrift)
  /\ WF_migrationVars(focus = "authority" /\ run)
  /\ \A f \in Flushes : WF_migrationVars(focus = "authority" /\ RecordShadowObservations(f))
  /\ WF_groupVars(focus = "groups" /\ Sweep)
  /\ WF_groupVars(focus = "groups" /\ LeaseRunsOut)
  /\ WF_groupVars(focus = "groups" /\ BackoffPasses)
  /\ \A w \in GroupWorkers : WF_groupVars(focus = "groups" /\ RunOnce(w))
  /\ WF_billVars(focus = "billing" /\ backoff)
  /\ \A p \in Projectors : WF_billVars(focus = "billing" /\ SyncPending(p))

ClocksFairness ==
  /\ WF_grantVars(focus = "grants" /\ CommitDelegation)
  /\ WF_grantVars(focus = "grants" /\ CommitEnding)
  /\ WF_grantVars(focus = "grants" /\ SweepAdministrativeGrants)
  /\ WF_foundingVars(focus = "founding" /\ SweepFoundingExpiry({}))
  /\ WF_foundingVars(focus = "founding" /\ SweepFoundingDocumentaryReviews)
  /\ \A r \in Relays :
       /\ WF_outVars(focus = "outbox" /\ Claim(r)) /\ WF_outVars(focus = "outbox" /\ Received(r))
       /\ WF_outVars(focus = "outbox" /\ DeliverOne(r)) /\ WF_outVars(focus = "outbox" /\ TickEnds(r))
  /\ \A i \in 1..MaxEvents : WF_outVars(focus = "outbox" /\ i \in DOMAIN outboxRows /\ Backoff(i))
  /\ WF_dsVars(focus = "datasets" /\ PurgeExpiredConsoleDatasetArtifacts)
  /\ WF_dsVars(focus = "datasets" /\ DsTick)

FairSweeps == FocusedSpec /\ SweepsFairness
FairClocks == FocusedSpec /\ ClocksFairness
=============================================================================
