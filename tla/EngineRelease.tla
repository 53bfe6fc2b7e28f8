----------------------------- MODULE EngineRelease -----------------------------
(***************************************************************************)
(* Engine releases: recording, certification, approval, deprecation and    *)
(* revocation, the desired release of an engine instance, and the plan     *)
(* checks of a provider activation. A capability and a contract major are  *)
(* one element of Majors. Commands on a release or on a certification are  *)
(* one transaction under a row or advisory lock, and are one step. Moving  *)
(* an instance to another desired release has two: the reads (eligibility, *)
(* the row locks, the guard trigger's read of the release's status) and    *)
(* the commit, which the foreign key makes wait for a revocation that has  *)
(* the new release locked.                                                 *)
(***************************************************************************)
EXTENDS Naturals, FiniteSets

CONSTANTS Releases,        \* (engine, release_version) pairs
          ReleaseEngine,   \* the engine of each
          Contents,        \* [digests, support, provenance]: what a version may be recorded with
          Providers,
          Registration,    \* each provider's [engine, supports, registered, permitted]
          Catalogue,       \* majors the catalogue defines
          Deployed,        \* engine instances
          Deployment,      \* each one's [engine, environment]
          ControlPlane,    \* the Control Plane's own environment
          Recorders,       \* principals
          NoPrincipal, NoRelease,
          MaxDesired       \* bound: changes of an instance's desired release

ASSUME ReleaseAssumption ==
  /\ NoRelease \notin Releases /\ NoPrincipal \notin Recorders
  /\ MaxDesired \in Nat \ {0}

VARIABLES release,      \* engine_release rows
          certificate,  \* the current certification of each (provider, major, release)
          desired,      \* engine_instance's [release, version]
          moving,       \* an open desired-release transaction per instance: [from, to]
          revoking,     \* an open revocation per release: the disposition of each instance
          activated     \* providers with status ACTIVE

releaseVars == <<release, certificate, desired, moving, revoking, activated>>

Unrecorded == [status |-> "NONE", by |-> NoPrincipal, approver |-> NoPrincipal, content |-> "none"]
Recorded(r) == release[r].status # "NONE"
Support == UNION {c.support : c \in Contents}
Uncertified == [status |-> "NONE", by |-> NoPrincipal]
Idle == [open |-> FALSE]

-----------------------------------------------------------------------------
(* RecordEngineRelease: the same content again is a replay, other content  *)
(* a version conflict; a digest belongs to one release.                    *)

Owned(c, r) == \A s \in c.support : Registration[s[1]].engine = ReleaseEngine[r]
Catalogued(c) == \A s \in c.support : s[2] \in Catalogue
DigestsFree(c) == \A r \in Releases : Recorded(r) => release[r].content.digests \cap c.digests = {}

RecordEngineRelease(u, r, c) ==
  /\ ~Recorded(r)
  /\ Owned(c, r) /\ Catalogued(c) /\ DigestsFree(c)
  /\ release' = [release EXCEPT ![r] =
       [status |-> "CANDIDATE", by |-> u, approver |-> NoPrincipal, content |-> c]]
  /\ UNCHANGED <<certificate, desired, moving, revoking, activated>>

-----------------------------------------------------------------------------
(* Certification of one major of one provider on one release. A row whose  *)
(* valid_until has passed keeps its status and blocks another.             *)

RecordProviderCapabilityCertification(u, s, r) ==
  /\ Recorded(r) /\ Registration[s[1]].engine = ReleaseEngine[r]
  /\ release[r].status # "REVOKED"
  /\ release[r].by # u
  /\ s[2] \in Registration[s[1]].supports /\ s \in release[r].content.support
  /\ certificate[<<s, r>>].status \notin {"CERTIFIED", "LAPSED"}
  /\ certificate' = [certificate EXCEPT ![<<s, r>>] = [status |-> "CERTIFIED", by |-> u]]
  /\ UNCHANGED <<release, desired, moving, revoking, activated>>

RevokeProviderCapabilityCertification(s, r) ==
  /\ certificate[<<s, r>>].status \in {"CERTIFIED", "LAPSED"}
  /\ certificate' = [certificate EXCEPT ![<<s, r>>] = Uncertified]
  /\ UNCHANGED <<release, desired, moving, revoking, activated>>

ValidUntilPasses(s, r) ==
  /\ certificate[<<s, r>>].status = "CERTIFIED"
  /\ certificate' = [certificate EXCEPT ![<<s, r>>].status = "LAPSED"]
  /\ UNCHANGED <<release, desired, moving, revoking, activated>>

ReleaseCertificationGaps(r) ==
  {s \in release[r].content.support : certificate[<<s, r>>].status # "CERTIFIED"}

-----------------------------------------------------------------------------
(* release-policy.yaml *)

ProvenanceRequired == {"production"}
CertificationRequired == {"production"}
MayBecomeDesired == {"APPROVED"}
StatusTransitions ==
  {<<"APPROVED", "DEPRECATED">>} \cup {<<from, "REVOKED">> : from \in {"CANDIDATE", "APPROVED", "DEPRECATED"}}

ReleaseApprovalEnvironments(e) ==
  {ControlPlane} \cup {Deployment[i].environment : i \in {j \in Deployed : Deployment[j].engine = e}}

EngineReleaseApprovalChecks(r) ==
  LET environments == ReleaseApprovalEnvironments(ReleaseEngine[r])
  IN  /\ Catalogued(release[r].content)
      /\ environments \cap ProvenanceRequired # {} => release[r].content.provenance
      /\ environments \cap CertificationRequired # {} => ReleaseCertificationGaps(r) = {}

\* The ENGINE_RELEASE_APPROVAL changeset's execution: the release row is locked.
ApproveEngineRelease(u, r) ==
  /\ release[r].status = "CANDIDATE"
  /\ revoking[r] = Idle
  /\ release[r].by # u
  /\ EngineReleaseApprovalChecks(r)
  /\ release' = [release EXCEPT ![r].status = "APPROVED", ![r].approver = u]
  /\ UNCHANGED <<certificate, desired, moving, revoking, activated>>

-----------------------------------------------------------------------------
(* Desired releases *)

DesiredReleaseEligibility(r, i) ==
  /\ release[r].status \in MayBecomeDesired
  /\ ReleaseEngine[r] = Deployment[i].engine
  /\ Deployment[i].environment \in ProvenanceRequired => release[r].content.provenance
  /\ Deployment[i].environment \in CertificationRequired => ReleaseCertificationGaps(r) = {}

DesiredReleaseChecks(i, r) ==
  /\ r # NoRelease => Recorded(r) /\ DesiredReleaseEligibility(r, i)
  /\ r # desired[i].release

\* Mutant: a revocation in flight does not lock the instances it moves.
RowLockedByChangeset(i) == moving[i] # Idle

RowLocked(i) == moving[i] # Idle \/ \E r \in Releases : revoking[r] # Idle /\ i \in DOMAIN revoking[r].to

\* readTarget locks the instance and runs the checks; the plan named the version.
PlanDesiredRelease(i, r) ==
  /\ ~RowLocked(i)
  /\ desired[i].version < MaxDesired
  /\ DesiredReleaseChecks(i, r)
  /\ moving' = [moving EXCEPT ![i] = [to |-> r, from |-> desired[i]]]
  /\ UNCHANGED <<release, certificate, desired, revoking, activated>>

SetDesiredRelease(d, r) == [release |-> r, version |-> d.version + 1]

\* The foreign key's key-share lock waits for the release's FOR UPDATE.
KeyShared(r) == r # NoRelease => revoking[r] = Idle

CommitDesiredRelease(i) ==
  /\ moving[i] # Idle /\ KeyShared(moving[i].to)
  /\ desired[i].version = moving[i].from.version
  /\ desired' = [desired EXCEPT ![i] = SetDesiredRelease(desired[i], moving[i].to)]
  /\ moving' = [moving EXCEPT ![i] = Idle]
  /\ UNCHANGED <<release, certificate, revoking, activated>>

\* The transaction fails: nothing of it stays.
AbandonMove(i) ==
  /\ moving[i] # Idle
  /\ moving' = [moving EXCEPT ![i] = Idle]
  /\ UNCHANGED <<release, certificate, desired, revoking, activated>>

-----------------------------------------------------------------------------
(* ChangeEngineReleaseStatus *)

Desiring(r) == {i \in Deployed : desired[i].release = r}

DeprecateEngineRelease(r) ==
  /\ <<release[r].status, "DEPRECATED">> \in StatusTransitions
  /\ revoking[r] = Idle
  /\ release' = [release EXCEPT ![r].status = "DEPRECATED"]
  /\ UNCHANGED <<certificate, desired, moving, revoking, activated>>

\* disposeOfDesiringInstances: the request disposes of exactly those that desire it.
DispositionsCover(d, r) ==
  /\ DOMAIN d = Desiring(r)
  /\ \A i \in DOMAIN d : d[i] # NoRelease => d[i] # r /\ Recorded(d[i]) /\ DesiredReleaseEligibility(d[i], i)

BeginRevocation(r, d) ==
  /\ <<release[r].status, "REVOKED">> \in StatusTransitions
  /\ revoking[r] = Idle
  /\ DispositionsCover(d, r)
  /\ \A i \in DOMAIN d : ~RowLocked(i) /\ desired[i].version < MaxDesired
  /\ revoking' = [revoking EXCEPT ![r] = [to |-> d]]
  /\ UNCHANGED <<release, certificate, desired, moving, activated>>

CommitRevocation(r) ==
  /\ revoking[r] # Idle
  /\ LET d == revoking[r].to
     IN  /\ \A i \in DOMAIN d : KeyShared(d[i])
         /\ desired' = [i \in Deployed |-> IF i \in DOMAIN d THEN SetDesiredRelease(desired[i], d[i]) ELSE desired[i]]
  /\ release' = [release EXCEPT ![r].status = "REVOKED"]
  /\ revoking' = [revoking EXCEPT ![r] = Idle]
  /\ UNCHANGED <<certificate, moving, activated>>

AbandonRevocation(r) ==
  /\ revoking[r] # Idle
  /\ revoking' = [revoking EXCEPT ![r] = Idle]
  /\ UNCHANGED <<release, certificate, desired, moving, activated>>

\* GetEngineInstanceDesiredRelease: what deployment tooling is given.
ReadableDesiredRelease(i) ==
  IF desired[i].release # NoRelease /\ release[desired[i].release].status \in {"APPROVED", "DEPRECATED"}
  THEN desired[i].release ELSE NoRelease

-----------------------------------------------------------------------------
(* Provider activation *)

Covers(r, p) == \A m \in Registration[p].supports : <<p, m>> \in release[r].content.support

ApprovedReleaseCovering(p) ==
  {r \in Releases : ReleaseEngine[r] = Registration[p].engine /\ release[r].status = "APPROVED" /\ Covers(r, p)}

ProviderHasCertifiedApprovedReleaseCovering(p) ==
  \E r \in ApprovedReleaseCovering(p) : \A s \in ReleaseCertificationGaps(r) : s[1] # p

\* healthy: the active instances health-eligible now; migrating: an open migration.
ProviderActivationChecks(p, healthy, migrating) ==
  LET instances == {i \in Deployed : Deployment[i].engine = Registration[p].engine}
      environments == {Deployment[i].environment : i \in instances}
  IN  /\ Registration[p].registered
      /\ Registration[p].supports # {} /\ Registration[p].supports \subseteq Catalogue
      /\ environments \cap CertificationRequired # {} => ProviderHasCertifiedApprovedReleaseCovering(p)
      /\ Registration[p].permitted \/ "production" \notin environments
      /\ ApprovedReleaseCovering(p) # {}
      /\ instances \cap healthy # {}
      /\ ~migrating

ActivateProvider(p, healthy, migrating) ==
  /\ p \notin activated
  /\ ProviderActivationChecks(p, healthy, migrating)
  /\ activated' = activated \cup {p}
  /\ UNCHANGED <<release, certificate, desired, moving, revoking>>

-----------------------------------------------------------------------------
ReleaseInit ==
  /\ release = [r \in Releases |-> Unrecorded]
  /\ certificate = [k \in Support \X Releases |-> Uncertified]
  /\ desired = [i \in Deployed |-> [release |-> NoRelease, version |-> 1]]
  /\ moving = [i \in Deployed |-> Idle]
  /\ revoking = [r \in Releases |-> Idle]
  /\ activated = {}

Dispositions == UNION {[is -> Releases \cup {NoRelease}] : is \in SUBSET Deployed}

\* The routes: what a request may ask for.
RecordRoute(r) == \E u \in Recorders, c \in Contents : RecordEngineRelease(u, r, c)
ChangeStatusRoute(r) == DeprecateEngineRelease(r) \/ \E d \in Dispositions : BeginRevocation(r, d)
CertifyRoute(r) == \E s \in Support, u \in Recorders : RecordProviderCapabilityCertification(u, s, r)
RevokeCertificationRoute(r) == \E s \in Support : RevokeProviderCapabilityCertification(s, r)

ReleaseNext ==
  \/ \E r \in Releases :
       \/ RecordRoute(r) \/ ChangeStatusRoute(r) \/ CertifyRoute(r) \/ RevokeCertificationRoute(r)
       \/ \E u \in Recorders : ApproveEngineRelease(u, r)
       \/ CommitRevocation(r)
       \/ AbandonRevocation(r)
       \/ \E s \in Support : ValidUntilPasses(s, r)
  \/ \E i \in Deployed :
       \/ \E r \in Releases \cup {NoRelease} : PlanDesiredRelease(i, r)
       \/ CommitDesiredRelease(i)
       \/ AbandonMove(i)
  \/ \E p \in Providers, healthy \in SUBSET Deployed, migrating \in BOOLEAN :
       ActivateProvider(p, healthy, migrating)

ReleaseSpec == ReleaseInit /\ [][ReleaseNext]_releaseVars

-----------------------------------------------------------------------------
(* Properties *)

\* Observations identify a release by its digests: no digest ever belongs to
\* two recorded releases, of the same engine or of two.
DigestOwnedOnce ==
  \A r, q \in Releases :
    r # q /\ Recorded(r) /\ Recorded(q) => release[r].content.digests \cap release[q].content.digests = {}

\* Whoever records a release neither approves it nor certifies it, whatever
\* order recording, certification and approval come in.
ReleaseMakerChecker ==
  \A r \in Releases : Recorded(r) =>
    /\ release[r].approver # release[r].by
    /\ \A s \in Support : certificate[<<s, r>>].by # release[r].by

\* An instance only ever desires a release of its own engine that passed
\* approval, and a production instance one with provenance, also after
\* revocations replaced releases across instances.
DesiredIsDeployable ==
  \A i \in Deployed : desired[i].release # NoRelease =>
    LET r == desired[i].release
    IN  /\ ReleaseEngine[r] = Deployment[i].engine
        /\ release[r].approver # NoPrincipal
        /\ Deployment[i].environment = "production" => release[r].content.provenance

\* Nobody's change is lost: a changeset replaces exactly the release its plan
\* named, a revocation moves only instances that still desire the release it
\* revokes, and every change raises the version by one.
ReplacesWhatWasRead ==
  [][\A i \in Deployed : desired'[i] # desired[i] =>
       /\ desired'[i].version = desired[i].version + 1
       /\ moving[i] # Idle /\ moving'[i] = Idle => moving[i].from = desired[i]
       /\ \A r \in Releases :
            revoking[r] # Idle /\ revoking'[r] = Idle /\ i \in DOMAIN revoking[r].to => desired[i].release = r]_releaseVars

\* A recorded release never changes content or recorder, and a revoked one
\* never comes back.
ReleaseImmutable ==
  [][\A r \in Releases : Recorded(r) =>
       /\ release'[r].content = release[r].content /\ release'[r].by = release[r].by
       /\ release[r].status = "REVOKED" => release'[r].status = "REVOKED"]_releaseVars

\* What the release revocation guard of the database promises: a revoked
\* release is never desired.
RevokedNeverDesired ==
  \A i \in Deployed : desired[i].release # NoRelease => release[desired[i].release].status # "REVOKED"

\* The release registry: a digest has one owner, releases are approved by
\* another than their recorder, what an instance should run is deployable
\* there, a desired release replaces the one that was read, and content
\* never changes.
ReleasePromises ==
  /\ [](DigestOwnedOnce /\ ReleaseMakerChecker /\ DesiredIsDeployable)
  /\ ReplacesWhatWasRead
  /\ ReleaseImmutable
=============================================================================
