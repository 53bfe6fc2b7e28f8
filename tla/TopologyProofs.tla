---------------------------- MODULE TopologyProofs ----------------------------
(***************************************************************************)
(* The safety of EngineRelease and of MappingRegistry, for any releases,   *)
(* instances, calls, references, people and clock.                         *)
(*                                                                         *)
(* DesiredIsDeployable is not inductive by itself: a transaction checks    *)
(* the release it moves an instance to in one step and commits it in       *)
(* another.  FlightInv says what remains true of an open transaction in    *)
(* between, HandsInv that an approver, once there, stays.                  *)
(*                                                                         *)
(* ReplaysConverge needs that a key has one row (AnswersInv), and that     *)
(* answers about the past stand needs the stamps of each status            *)
(* (StampsInv): a retired mapping was in force until it was retired.       *)
(***************************************************************************)
EXTENDS EngineRelease, MappingRegistry, TLAPS

-----------------------------------------------------------------------------
(* Engine releases: the inductive invariant *)

People == Recorders \cup {NoPrincipal}
Choices == Releases \cup {NoRelease}
ReleaseRows ==
  [status : {"NONE", "CANDIDATE", "APPROVED", "DEPRECATED", "REVOKED"},
   by : People, approver : People, content : Contents \cup {"none"}]
Certificates == [status : {"NONE", "CERTIFIED", "LAPSED"}, by : People]
Wishes == [release : Choices, version : Nat]
Moves == [to : Choices, from : Wishes]

ReleaseTyped ==
  /\ release \in [Releases -> ReleaseRows]
  /\ certificate \in [Support \X Releases -> Certificates]
  /\ desired \in [Deployed -> Wishes]
  /\ moving \in [Deployed -> {Idle} \cup Moves]
  /\ revoking \in [Releases -> {Idle} \cup [to : Dispositions]]

\* Who recorded, approved and certified.
HandsInv ==
  \A r \in Releases :
    /\ Recorded(r) => /\ release[r].by \in Recorders
                      /\ release[r].approver # release[r].by
                      /\ \A s \in Support : certificate[<<s, r>>].by # release[r].by
    /\ ~Recorded(r) => /\ release[r].approver = NoPrincipal
                       /\ \A s \in Support : certificate[<<s, r>>].by = NoPrincipal
    /\ release[r].status \in {"APPROVED", "DEPRECATED"} => release[r].approver # NoPrincipal

Deployable(r, i) ==
  /\ ReleaseEngine[r] = Deployment[i].engine
  /\ release[r].approver # NoPrincipal
  /\ Deployment[i].environment = "production" => release[r].content.provenance

\* What a transaction in flight will make desired, and what it found.
FlightInv ==
  /\ \A i \in Deployed : moving[i] # Idle =>
       /\ moving[i].from = desired[i]
       /\ moving[i].to # NoRelease => Deployable(moving[i].to, i)
       /\ \A r \in Releases : revoking[r] # Idle => i \notin DOMAIN revoking[r].to
  /\ \A r \in Releases : revoking[r] # Idle =>
       /\ Recorded(r)
       /\ \A i \in DOMAIN revoking[r].to :
            /\ desired[i].release = r
            /\ revoking[r].to[i] # NoRelease => Deployable(revoking[r].to[i], i)

ReleaseInv == ReleaseTyped /\ HandsInv /\ FlightInv /\ DigestOwnedOnce /\ DesiredIsDeployable

\* Every step keeps the types.
LEMMA ReleaseTypedNext ==
  ASSUME ReleaseTyped, [ReleaseNext]_releaseVars
  PROVE  ReleaseTyped'
<1>1. CASE UNCHANGED releaseVars
  BY <1>1 DEF ReleaseTyped, releaseVars
<1>2. ASSUME NEW r \in Releases, NEW u \in Recorders, NEW c \in Contents, RecordEngineRelease(u, r, c)
      PROVE  ReleaseTyped'
  <2>1. [status |-> "CANDIDATE", by |-> u, approver |-> NoPrincipal, content |-> c] \in ReleaseRows
    BY DEF ReleaseRows, People
  <2> QED BY <1>2, <2>1 DEF RecordEngineRelease, ReleaseTyped
<1>3. ASSUME NEW r \in Releases, NEW u \in Recorders, ApproveEngineRelease(u, r) PROVE ReleaseTyped'
  <2>1. [release[r] EXCEPT !.status = "APPROVED", !.approver = u] \in ReleaseRows
    <3>1. release[r] \in ReleaseRows /\ u \in People
      BY DEF ReleaseTyped, People
    <3> QED BY Zenon, <3>1 DEF ReleaseRows
  <2>2. release' = [release EXCEPT ![r] = [release[r] EXCEPT !.status = "APPROVED", !.approver = u]]
    BY Zenon, <1>3 DEF ApproveEngineRelease, ReleaseTyped
  <2> QED BY <1>3, <2>1, <2>2 DEF ApproveEngineRelease, ReleaseTyped
<1>4. ASSUME NEW r \in Releases, DeprecateEngineRelease(r) PROVE ReleaseTyped'
  <2>1. [release[r] EXCEPT !.status = "DEPRECATED"] \in ReleaseRows
    BY DEF ReleaseTyped, ReleaseRows
  <2> QED BY <1>4, <2>1 DEF DeprecateEngineRelease, ReleaseTyped
<1>5. ASSUME NEW r \in Releases, NEW d \in Dispositions, BeginRevocation(r, d) PROVE ReleaseTyped'
  <2>1. [to |-> d] \in [to : Dispositions]
    OBVIOUS
  <2> QED BY <1>5, <2>1 DEF BeginRevocation, ReleaseTyped
<1>6. ASSUME NEW r \in Releases, CommitRevocation(r) PROVE ReleaseTyped'
  <2>1. [release[r] EXCEPT !.status = "REVOKED"] \in ReleaseRows
    BY DEF ReleaseTyped, ReleaseRows
  <2>2. release' \in [Releases -> ReleaseRows] /\ revoking' \in [Releases -> {Idle} \cup [to : Dispositions]]
    BY <1>6, <2>1 DEF CommitRevocation, ReleaseTyped
  <2>3. desired' \in [Deployed -> Wishes]
    <3>1. revoking[r].to \in Dispositions
      BY <1>6 DEF CommitRevocation, ReleaseTyped
    <3>2. \A i \in DOMAIN revoking[r].to : revoking[r].to[i] \in Choices
      BY <3>1 DEF Dispositions, Choices
    <3>3. \A i \in Deployed : desired[i].version + 1 \in Nat
      BY DEF ReleaseTyped, Wishes
    <3>4. \A i \in Deployed : i \in DOMAIN revoking[r].to => SetDesiredRelease(desired[i], revoking[r].to[i]) \in Wishes
      BY <3>2, <3>3 DEF SetDesiredRelease, Wishes
    <3> QED BY <1>6, <3>4 DEF CommitRevocation, ReleaseTyped
  <2> QED BY <1>6, <2>2, <2>3 DEF CommitRevocation, ReleaseTyped
<1>7. ASSUME NEW r \in Releases, AbandonRevocation(r) PROVE ReleaseTyped'
  BY <1>7 DEF AbandonRevocation, ReleaseTyped
<1>8. ASSUME NEW r \in Releases, NEW s \in Support,
             \/ \E u \in Recorders : RecordProviderCapabilityCertification(u, s, r)
             \/ RevokeProviderCapabilityCertification(s, r)
             \/ ValidUntilPasses(s, r)
      PROVE  ReleaseTyped'
  <2>1. /\ \A u \in Recorders : [status |-> "CERTIFIED", by |-> u] \in Certificates
        /\ Uncertified \in Certificates
        /\ [certificate[<<s, r>>] EXCEPT !.status = "LAPSED"] \in Certificates
    BY DEF Certificates, Uncertified, People, ReleaseTyped
  <2> QED BY ZenonT(30), <1>8, <2>1 DEF RecordProviderCapabilityCertification, RevokeProviderCapabilityCertification,
      ValidUntilPasses, ReleaseTyped
<1>9. ASSUME NEW i \in Deployed, NEW r \in Releases \cup {NoRelease}, PlanDesiredRelease(i, r) PROVE ReleaseTyped'
  <2>1. [to |-> r, from |-> desired[i]] \in Moves
    BY DEF Moves, Choices, ReleaseTyped
  <2> QED BY <1>9, <2>1 DEF PlanDesiredRelease, ReleaseTyped
<1>10. ASSUME NEW i \in Deployed, CommitDesiredRelease(i) PROVE ReleaseTyped'
  <2>1. moving[i].to \in Choices
    BY <1>10 DEF CommitDesiredRelease, ReleaseTyped, Moves
  <2>2. desired[i].version + 1 \in Nat
    BY DEF ReleaseTyped, Wishes
  <2>3. SetDesiredRelease(desired[i], moving[i].to) \in Wishes
    BY <2>1, <2>2 DEF SetDesiredRelease, Wishes
  <2> QED BY <1>10, <2>3 DEF CommitDesiredRelease, ReleaseTyped
<1>11. ASSUME NEW i \in Deployed, AbandonMove(i) PROVE ReleaseTyped'
  BY <1>11 DEF AbandonMove, ReleaseTyped
<1>12. ASSUME NEW p \in Providers, NEW healthy, NEW migrating, ActivateProvider(p, healthy, migrating)
       PROVE  ReleaseTyped'
  BY <1>12 DEF ActivateProvider, ReleaseTyped
<1> QED BY <1>1, <1>2, <1>3, <1>4, <1>5, <1>6, <1>7, <1>8, <1>9, <1>10, <1>11, <1>12
    DEF ReleaseNext, RecordRoute, ChangeStatusRoute, CertifyRoute, RevokeCertificationRoute
\* A transaction's release stays deployable: neither the approver nor the
\* content of a release that has an approver changes to the worse.
LEMMA DeployableStays ==
  ASSUME ReleaseTyped, HandsInv, [ReleaseNext]_releaseVars,
         NEW r \in Releases, NEW i \in Deployed, Deployable(r, i)
  PROVE  Deployable(r, i)'
<1>1. Recorded(r)
  BY DEF HandsInv, Deployable
<1>2. release'[r].content = release[r].content /\ release'[r].approver # NoPrincipal
  <2>1. CASE release' = release
    BY <2>1 DEF Deployable
  <2>2. ASSUME NEW q \in Releases, NEW u \in Recorders, NEW c \in Contents, RecordEngineRelease(u, q, c)
        PROVE  release'[r] = release[r]
    BY <1>1, <2>2 DEF RecordEngineRelease, ReleaseTyped
  <2>3. ASSUME NEW q \in Releases, NEW u \in Recorders, ApproveEngineRelease(u, q)
        PROVE  release'[r].content = release[r].content /\ release'[r].approver # NoPrincipal
    BY <2>3, ReleaseAssumption DEF ApproveEngineRelease, ReleaseTyped, ReleaseRows, Deployable
  <2>4. ASSUME NEW q \in Releases, DeprecateEngineRelease(q) \/ CommitRevocation(q)
        PROVE  release'[r].content = release[r].content /\ release'[r].approver # NoPrincipal
    BY <2>4 DEF DeprecateEngineRelease, CommitRevocation, ReleaseTyped, ReleaseRows, Deployable
  <2> QED BY Zenon, <2>1, <2>2, <2>3, <2>4
      DEF Deployable, ReleaseNext, RecordRoute, ChangeStatusRoute, CertifyRoute, RevokeCertificationRoute, releaseVars,
          BeginRevocation, RecordProviderCapabilityCertification, RevokeProviderCapabilityCertification,
          AbandonRevocation, ValidUntilPasses, PlanDesiredRelease, CommitDesiredRelease, AbandonMove,
          ActivateProvider
<1> QED BY <1>2 DEF Deployable

\* Who may be desired is approved for where it runs.
LEMMA EligibleIsDeployable ==
  ASSUME HandsInv, NEW r \in Releases, NEW i, DesiredReleaseEligibility(r, i)
  PROVE  Deployable(r, i)
BY DEF HandsInv, DesiredReleaseEligibility, Deployable, MayBecomeDesired, ProvenanceRequired

\* Every step keeps recorder, approver and certifiers apart.
LEMMA HandsNext ==
  ASSUME ReleaseTyped, HandsInv, FlightInv, [ReleaseNext]_releaseVars
  PROVE  HandsInv'
<1>1. CASE UNCHANGED <<release, certificate>>
  BY <1>1 DEF HandsInv, Recorded
<1>2. ASSUME NEW r \in Releases, NEW u \in Recorders, NEW c \in Contents, RecordEngineRelease(u, r, c)
      PROVE  HandsInv'
  <2>1. /\ release'[r] = [status |-> "CANDIDATE", by |-> u, approver |-> NoPrincipal, content |-> c]
        /\ \A q \in Releases : q # r => release'[q] = release[q]
        /\ certificate' = certificate
    BY <1>2 DEF RecordEngineRelease, ReleaseTyped
  <2>2. \A s \in Support : certificate[<<s, r>>].by = NoPrincipal
    BY <1>2 DEF RecordEngineRelease, HandsInv
  <2> QED BY <2>1, <2>2, ReleaseAssumption DEF HandsInv, Recorded
<1>3. ASSUME NEW r \in Releases, NEW u \in Recorders, ApproveEngineRelease(u, r) PROVE HandsInv'
  <2>1. release[r] \in ReleaseRows
    BY DEF ReleaseTyped
  <2>2. /\ release'[r].status = "APPROVED" /\ release'[r].approver = u /\ release'[r].by = release[r].by
        /\ \A q \in Releases : q # r => release'[q] = release[q]
        /\ certificate' = certificate /\ release[r].by # u /\ Recorded(r)
    BY <1>3, <2>1 DEF ApproveEngineRelease, ReleaseTyped, ReleaseRows, Recorded
  <2> QED BY <2>2, ReleaseAssumption DEF HandsInv, Recorded
<1>4. ASSUME NEW r \in Releases, DeprecateEngineRelease(r) PROVE HandsInv'
  <2>1. release[r] \in ReleaseRows
    BY DEF ReleaseTyped
  <2>2. /\ release'[r].status = "DEPRECATED" /\ release'[r].approver = release[r].approver
        /\ release'[r].by = release[r].by
        /\ \A q \in Releases : q # r => release'[q] = release[q]
        /\ certificate' = certificate
    BY <1>4, <2>1 DEF DeprecateEngineRelease, ReleaseTyped, ReleaseRows
  <2>3. release[r].status = "APPROVED"
    BY <1>4 DEF DeprecateEngineRelease, StatusTransitions
  <2> QED BY <2>2, <2>3 DEF HandsInv, Recorded
<1>5. ASSUME NEW r \in Releases, CommitRevocation(r) PROVE HandsInv'
  <2>1. release[r] \in ReleaseRows /\ Recorded(r)
    BY <1>5 DEF ReleaseTyped, CommitRevocation, FlightInv
  <2>2. /\ release'[r].status = "REVOKED" /\ release'[r].approver = release[r].approver
        /\ release'[r].by = release[r].by
        /\ \A q \in Releases : q # r => release'[q] = release[q]
        /\ certificate' = certificate
    BY <1>5, <2>1 DEF CommitRevocation, ReleaseTyped, ReleaseRows
  <2> QED BY <2>1, <2>2 DEF HandsInv, Recorded
<1>6. ASSUME NEW r \in Releases, NEW s \in Support, NEW u \in Recorders, RecordProviderCapabilityCertification(u, s, r)
      PROVE  HandsInv'
  <2>1. /\ certificate'[<<s, r>>].by = u /\ release' = release /\ Recorded(r) /\ release[r].by # u
        /\ \A k \in Support \X Releases : k # <<s, r>> => certificate'[k] = certificate[k]
    BY <1>6 DEF RecordProviderCapabilityCertification, ReleaseTyped
  <2>2. \A q \in Releases, t \in Support : certificate'[<<t, q>>].by = certificate[<<t, q>>].by \/ (q = r /\ certificate'[<<t, q>>].by = u)
    BY <2>1
  <2> QED BY <2>1, <2>2 DEF HandsInv, Recorded
<1>7. ASSUME NEW r \in Releases, NEW s \in Support,
             RevokeProviderCapabilityCertification(s, r) \/ ValidUntilPasses(s, r)
      PROVE  HandsInv'
  <2>1. certificate[<<s, r>>] \in Certificates
    BY DEF ReleaseTyped
  <2>2. /\ certificate'[<<s, r>>].by \in {NoPrincipal, certificate[<<s, r>>].by} /\ release' = release
        /\ \A k \in Support \X Releases : k # <<s, r>> => certificate'[k] = certificate[k]
    <3>1. CASE RevokeProviderCapabilityCertification(s, r)
      BY <3>1 DEF RevokeProviderCapabilityCertification, ReleaseTyped, Uncertified
    <3>2. CASE ValidUntilPasses(s, r)
      <4>1. certificate'[<<s, r>>] = [certificate[<<s, r>>] EXCEPT !.status = "LAPSED"]
        BY Zenon, <3>2 DEF ValidUntilPasses, ReleaseTyped
      <4>2. certificate'[<<s, r>>].by = certificate[<<s, r>>].by
        BY <2>1, <4>1 DEF Certificates
      <4> QED BY <3>2, <4>2 DEF ValidUntilPasses, ReleaseTyped
    <3> QED BY <1>7, <3>1, <3>2
  <2>3. \A q \in Releases, t \in Support : certificate'[<<t, q>>].by \in {NoPrincipal, certificate[<<t, q>>].by}
    BY <2>2
  <2> QED BY <2>2, <2>3, ReleaseAssumption DEF HandsInv, Recorded
<1> QED BY Zenon, <1>1, <1>2, <1>3, <1>4, <1>5, <1>6, <1>7
    DEF ReleaseNext, RecordRoute, ChangeStatusRoute, CertifyRoute, RevokeCertificationRoute, releaseVars,
        BeginRevocation, AbandonRevocation, PlanDesiredRelease, CommitDesiredRelease, AbandonMove, ActivateProvider
\* No digest gets a second owner.
LEMMA DigestsNext ==
  ASSUME ReleaseTyped, FlightInv, DigestOwnedOnce, [ReleaseNext]_releaseVars
  PROVE  DigestOwnedOnce'
<1>1. ASSUME \A r \in Releases : release'[r].content = release[r].content /\ (Recorded(r)' => Recorded(r))
      PROVE  DigestOwnedOnce'
  BY <1>1 DEF DigestOwnedOnce, Recorded
<1>2. ASSUME NEW r \in Releases, NEW u \in Recorders, NEW c \in Contents, RecordEngineRelease(u, r, c)
      PROVE  DigestOwnedOnce'
  <2>1. /\ release'[r].content = c
        /\ \A q \in Releases : q # r => release'[q] = release[q]
        /\ \A q \in Releases : Recorded(q) => release[q].content.digests \cap c.digests = {}
    BY <1>2 DEF RecordEngineRelease, ReleaseTyped, DigestsFree
  <2> QED BY <2>1 DEF DigestOwnedOnce, Recorded
<1>3. CASE release' = release
  BY <1>1, <1>3 DEF Recorded
<1>4. ASSUME NEW r \in Releases,
             (\E u \in Recorders : ApproveEngineRelease(u, r)) \/ DeprecateEngineRelease(r) \/ CommitRevocation(r)
      PROVE  DigestOwnedOnce'
  <2>1. release[r] \in ReleaseRows /\ Recorded(r)
    BY <1>4 DEF ReleaseTyped, CommitRevocation, FlightInv, ApproveEngineRelease, DeprecateEngineRelease,
       StatusTransitions, Recorded
  <2>2. /\ release'[r].content = release[r].content
        /\ \A q \in Releases : q # r => release'[q] = release[q]
    BY <1>4, <2>1 DEF ApproveEngineRelease, DeprecateEngineRelease, CommitRevocation, ReleaseTyped, ReleaseRows
  <2> QED BY <1>1, <2>1, <2>2 DEF Recorded
<1> QED BY ZenonT(30), <1>2, <1>3, <1>4
    DEF ReleaseNext, RecordRoute, ChangeStatusRoute, CertifyRoute, RevokeCertificationRoute, releaseVars,
        BeginRevocation, RecordProviderCapabilityCertification, RevokeProviderCapabilityCertification,
        AbandonRevocation, ValidUntilPasses, PlanDesiredRelease, CommitDesiredRelease, AbandonMove, ActivateProvider

\* What an instance desires, and what a transaction will make it desire, is
\* deployable there, and the rows it found are as it found them.
LEMMA FlightNext ==
  ASSUME ReleaseTyped, HandsInv, FlightInv, DesiredIsDeployable, [ReleaseNext]_releaseVars
  PROVE  FlightInv' /\ DesiredIsDeployable'
<1> DEFINE Good == FlightInv' /\ DesiredIsDeployable'
<1> SUFFICES Good
  OBVIOUS
<1>1. \A r \in Releases, i \in Deployed : Deployable(r, i) => Deployable(r, i)'
  BY DeployableStays
<1>2. \A i \in Deployed :
        /\ desired[i].release \in Choices
        /\ moving[i] # Idle => moving[i].to \in Choices
        /\ desired[i].release # NoRelease => Deployable(desired[i].release, i)
  BY DEF ReleaseTyped, Wishes, Moves, DesiredIsDeployable, Deployable
<1>3. \A r \in Releases : revoking[r] # Idle =>
        /\ DOMAIN revoking[r].to \subseteq Deployed
        /\ \A i \in DOMAIN revoking[r].to : revoking[r].to[i] \in Choices
  BY DEF ReleaseTyped, Dispositions, Choices
<1>4. \A r \in Releases : revoking[r] # Idle => Recorded(r)'
  <2>1. \A r \in Releases : Recorded(r) => Recorded(r)'
    <3>1. ASSUME NEW r \in Releases,
                 (\E u \in Recorders, c \in Contents : RecordEngineRelease(u, r, c))
                   \/ (\E u \in Recorders : ApproveEngineRelease(u, r))
                   \/ DeprecateEngineRelease(r) \/ CommitRevocation(r)
          PROVE  \A q \in Releases : Recorded(q) => Recorded(q)'
      BY <3>1 DEF RecordEngineRelease, ApproveEngineRelease, DeprecateEngineRelease, CommitRevocation,
         ReleaseTyped, ReleaseRows, Recorded
    <3>2. CASE release' = release
      BY <3>2 DEF Recorded
    <3> QED BY Zenon, <3>1, <3>2
        DEF ReleaseNext, RecordRoute, ChangeStatusRoute, CertifyRoute, RevokeCertificationRoute, releaseVars,
            BeginRevocation, RecordProviderCapabilityCertification, RevokeProviderCapabilityCertification,
            AbandonRevocation, ValidUntilPasses, PlanDesiredRelease, CommitDesiredRelease, AbandonMove,
            ActivateProvider
  <2> QED BY <2>1 DEF FlightInv
<1>5. ASSUME UNCHANGED desired PROVE DesiredIsDeployable'
  BY <1>1, <1>2, <1>5 DEF DesiredIsDeployable, Deployable, Choices
<1>6. ASSUME UNCHANGED <<desired, moving, revoking>> PROVE Good
  <2>1. FlightInv'
    BY <1>1, <1>2, <1>3, <1>4, <1>6 DEF FlightInv, Choices
  <2> QED BY <1>5, <1>6, <2>1
<1>7. ASSUME NEW i \in Deployed, AbandonMove(i) PROVE Good
  <2>1. /\ moving'[i] = Idle /\ \A j \in Deployed : j # i => moving'[j] = moving[j]
        /\ UNCHANGED <<desired, revoking>>
    BY <1>7 DEF AbandonMove, ReleaseTyped
  <2>2. FlightInv'
    BY <1>1, <1>2, <1>3, <1>4, <2>1 DEF FlightInv, Choices
  <2> QED BY <1>5, <2>1, <2>2
<1>8. ASSUME NEW r \in Releases, AbandonRevocation(r) PROVE Good
  <2>1. /\ revoking'[r] = Idle /\ \A q \in Releases : q # r => revoking'[q] = revoking[q]
        /\ UNCHANGED <<desired, moving>>
    BY <1>8 DEF AbandonRevocation, ReleaseTyped
  <2>2. FlightInv'
    BY <1>1, <1>2, <1>3, <1>4, <2>1 DEF FlightInv, Choices
  <2> QED BY <1>5, <2>1, <2>2
<1>9. ASSUME NEW i \in Deployed, NEW r \in Releases \cup {NoRelease}, PlanDesiredRelease(i, r) PROVE Good
  <2>1. /\ moving'[i] = [to |-> r, from |-> desired[i]] /\ \A j \in Deployed : j # i => moving'[j] = moving[j]
        /\ UNCHANGED <<desired, revoking>>
    BY <1>9 DEF PlanDesiredRelease, ReleaseTyped
  <2>2. r # NoRelease => Deployable(r, i)'
    BY <1>1, <1>9, EligibleIsDeployable DEF PlanDesiredRelease, DesiredReleaseChecks
  <2>3. \A q \in Releases : revoking[q] # Idle => i \notin DOMAIN revoking[q].to
    BY <1>9 DEF PlanDesiredRelease, RowLocked
  <2>4. moving'[i].to = r /\ moving'[i].from = desired[i]
    BY <2>1
  <2>5. FlightInv'
    BY <1>1, <1>2, <1>3, <1>4, <2>1, <2>2, <2>3, <2>4 DEF FlightInv, Choices
  <2> QED BY <1>5, <2>1, <2>5
<1>10. ASSUME NEW i \in Deployed, CommitDesiredRelease(i) PROVE Good
  <2>1. /\ moving'[i] = Idle /\ \A j \in Deployed : j # i => moving'[j] = moving[j]
        /\ desired'[i].release = moving[i].to /\ \A j \in Deployed : j # i => desired'[j] = desired[j]
        /\ UNCHANGED revoking /\ moving[i] # Idle
    BY <1>10 DEF CommitDesiredRelease, SetDesiredRelease, ReleaseTyped
  <2>2. \A q \in Releases : revoking[q] # Idle => i \notin DOMAIN revoking[q].to
    BY <2>1 DEF FlightInv
  <2>3. FlightInv'
    BY <1>1, <1>2, <1>3, <1>4, <2>1, <2>2 DEF FlightInv, Choices
  <2>4. \A q \in Releases : moving[i].to = q => Deployable(q, i)'
    BY <1>1, <2>1, ReleaseAssumption DEF FlightInv
  <2>5. DesiredIsDeployable'
    <3>1. \A j \in Deployed, q \in Releases : desired'[j].release = q => Deployable(q, j)'
      BY <1>1, <1>2, <2>1, <2>4, ReleaseAssumption
    <3>2. \A j \in Deployed : desired'[j].release \in Choices
      BY <1>2, <2>1
    <3> QED BY <3>1, <3>2 DEF DesiredIsDeployable, Deployable, Choices
  <2> QED BY <2>3, <2>5
<1>11. ASSUME NEW r \in Releases, NEW d \in Dispositions, BeginRevocation(r, d) PROVE Good
  <2>1. /\ revoking'[r] = [to |-> d] /\ \A q \in Releases : q # r => revoking'[q] = revoking[q]
        /\ UNCHANGED <<desired, moving>> /\ UNCHANGED release
    BY <1>11 DEF BeginRevocation, ReleaseTyped
  <2>2. revoking'[r].to = d /\ DOMAIN d \subseteq Deployed /\ \A i \in DOMAIN d : d[i] \in Choices
    BY <2>1 DEF Dispositions, Choices
  <2>3. Recorded(r)'
    BY <1>11, <2>1 DEF BeginRevocation, StatusTransitions, Recorded
  <2>4. \A i \in DOMAIN d : moving[i] = Idle /\ desired[i].release = r
    BY <1>11 DEF BeginRevocation, RowLocked, DispositionsCover, Desiring
  <2>5. \A i \in DOMAIN d : d[i] # NoRelease => Deployable(d[i], i)'
    BY <1>1, <1>11, <2>2, EligibleIsDeployable DEF BeginRevocation, DispositionsCover, Choices
  <2>6. FlightInv'
    BY <1>1, <1>2, <1>3, <1>4, <2>1, <2>2, <2>3, <2>4, <2>5 DEF FlightInv, Choices
  <2> QED BY <1>5, <2>1, <2>6
<1>12. ASSUME NEW r \in Releases, CommitRevocation(r) PROVE Good
  <2> DEFINE d == revoking[r].to
  <2>1. /\ revoking'[r] = Idle /\ \A q \in Releases : q # r => revoking'[q] = revoking[q]
        /\ UNCHANGED moving /\ revoking[r] # Idle
        /\ \A i \in Deployed : i \notin DOMAIN d => desired'[i] = desired[i]
        /\ \A i \in Deployed : i \in DOMAIN d => desired'[i].release = d[i]
    BY <1>12 DEF CommitRevocation, SetDesiredRelease, ReleaseTyped
  <2>2. \A i \in DOMAIN d : i \in Deployed /\ moving[i] = Idle /\ desired[i].release = r
    BY <1>3, <2>1 DEF FlightInv
  <2>3. \A q \in Releases : q # r /\ revoking[q] # Idle => DOMAIN revoking[q].to \cap DOMAIN d = {}
    BY <2>1, <2>2 DEF FlightInv
  <2>4. \A i \in DOMAIN d, q \in Releases : d[i] = q => Deployable(q, i)'
    BY <1>1, <2>1, <2>2, ReleaseAssumption DEF FlightInv
  <2>7. \A i \in DOMAIN d : d[i] \in Choices
    BY <1>3, <2>1
  <2> HIDE DEF d
  <2>5. FlightInv'
    BY <1>1, <1>2, <1>3, <1>4, <2>1, <2>2, <2>3 DEF FlightInv, Choices
  <2>6. DesiredIsDeployable'
    <3>1. \A j \in Deployed, q \in Releases : desired'[j].release = q => Deployable(q, j)'
      BY <1>1, <1>2, <2>1, <2>4, ReleaseAssumption
    <3>2. \A j \in Deployed : desired'[j].release \in Choices
      BY <1>2, <2>1, <2>7
    <3> QED BY <3>1, <3>2 DEF DesiredIsDeployable, Deployable, Choices
  <2> QED BY <2>5, <2>6
<1> HIDE DEF Good
<1> QED BY Zenon, <1>6, <1>7, <1>8, <1>9, <1>10, <1>11, <1>12
    DEF ReleaseNext, RecordRoute, ChangeStatusRoute, CertifyRoute, RevokeCertificationRoute, releaseVars,
        RecordEngineRelease, ApproveEngineRelease, DeprecateEngineRelease,
        RecordProviderCapabilityCertification, RevokeProviderCapabilityCertification,
        ValidUntilPasses, ActivateProvider
\* The invariant holds at the start.
LEMMA ReleaseInvInit ==
  ASSUME ReleaseInit
  PROVE  ReleaseInv
<1>1. ReleaseTyped
  BY DEF ReleaseInit, ReleaseTyped, ReleaseRows, Certificates, Wishes, Moves, People, Choices, Unrecorded, Uncertified
<1>2. HandsInv
  BY DEF ReleaseInit, HandsInv, Recorded, Unrecorded, Uncertified
<1>3. FlightInv
  BY DEF ReleaseInit, FlightInv
<1>4. DigestOwnedOnce
  BY DEF ReleaseInit, DigestOwnedOnce, Recorded, Unrecorded
<1>5. DesiredIsDeployable
  BY DEF ReleaseInit, DesiredIsDeployable
<1> QED BY <1>1, <1>2, <1>3, <1>4, <1>5 DEF ReleaseInv

\* Every step keeps the invariant.
LEMMA ReleaseInvNext ==
  ASSUME ReleaseInv, [ReleaseNext]_releaseVars
  PROVE  ReleaseInv'
BY ReleaseTypedNext, HandsNext, FlightNext, DigestsNext DEF ReleaseInv

\* The inductive invariant of the release registry holds in every state.
THEOREM ReleaseInvariant == ReleaseSpec => []ReleaseInv
BY ReleaseInvInit, ReleaseInvNext, PTL DEF ReleaseSpec

\* No digest ever belongs to two recorded releases, however recordings
\* interleave with everything else.
THEOREM DigestsOwnedOnce == ReleaseSpec => []DigestOwnedOnce
<1>1. ReleaseInv => DigestOwnedOnce
  BY DEF ReleaseInv
<1> QED BY <1>1, ReleaseInvariant, PTL

\* A release is approved and certified by another than the one who recorded it.
THEOREM ReleasesSeparateDuties == ReleaseSpec => []ReleaseMakerChecker
<1>1. ReleaseInv => ReleaseMakerChecker
  BY ReleaseAssumption DEF ReleaseInv, HandsInv, ReleaseMakerChecker, Recorded
<1> QED BY <1>1, ReleaseInvariant, PTL

\* What an instance should run was approved, is of the instance's engine and,
\* in production, carries provenance, whatever happened between the check of
\* the target and the commit.
THEOREM DesiredStaysDeployable == ReleaseSpec => []DesiredIsDeployable
<1>1. ReleaseInv => DesiredIsDeployable
  BY DEF ReleaseInv
<1> QED BY <1>1, ReleaseInvariant, PTL
\* A step that changes a desired release replaces the one that was read.
LEMMA StepReplacesWhatWasRead ==
  ASSUME ReleaseInv, [ReleaseNext]_releaseVars, NEW i \in Deployed, desired'[i] # desired[i]
  PROVE  /\ desired'[i].version = desired[i].version + 1
         /\ moving[i] # Idle /\ moving'[i] = Idle => moving[i].from = desired[i]
         /\ \A r \in Releases :
              revoking[r] # Idle /\ revoking'[r] = Idle /\ i \in DOMAIN revoking[r].to => desired[i].release = r
<1>1. ASSUME NEW j \in Deployed, CommitDesiredRelease(j) PROVE desired'[i].version = desired[i].version + 1
  BY <1>1 DEF CommitDesiredRelease, SetDesiredRelease, ReleaseInv, ReleaseTyped
<1>2. ASSUME NEW r \in Releases, CommitRevocation(r) PROVE desired'[i].version = desired[i].version + 1
  BY <1>2 DEF CommitRevocation, SetDesiredRelease
<1>3. desired' # desired
  OBVIOUS
<1>4. desired'[i].version = desired[i].version + 1
  BY ZenonT(30), <1>1, <1>2, <1>3
  DEF ReleaseNext, RecordRoute, ChangeStatusRoute, CertifyRoute, RevokeCertificationRoute, releaseVars,
      RecordEngineRelease, ApproveEngineRelease, DeprecateEngineRelease, BeginRevocation,
      RecordProviderCapabilityCertification, RevokeProviderCapabilityCertification, AbandonRevocation,
      ValidUntilPasses, PlanDesiredRelease, AbandonMove, ActivateProvider
<1> QED BY <1>4 DEF ReleaseInv, FlightInv

\* Nobody's change of a desired release is lost: the commit of a changeset
\* replaces the release its plan read, that of a revocation moves only
\* instances that still desire the revoked release, and each change raises
\* the version by one.
THEOREM DesiredReplacesWhatWasRead == ReleaseSpec => ReplacesWhatWasRead
<1>1. ASSUME ReleaseInv, [ReleaseNext]_releaseVars
      PROVE  [\A i \in Deployed : desired'[i] # desired[i] =>
               /\ desired'[i].version = desired[i].version + 1
               /\ moving[i] # Idle /\ moving'[i] = Idle => moving[i].from = desired[i]
               /\ \A r \in Releases :
                    revoking[r] # Idle /\ revoking'[r] = Idle /\ i \in DOMAIN revoking[r].to
                      => desired[i].release = r]_releaseVars
  BY <1>1, StepReplacesWhatWasRead
<1> QED BY <1>1, ReleaseInvariant, PTL DEF ReleaseSpec, ReplacesWhatWasRead

\* A step keeps what was recorded, and revocations.
LEMMA StepKeepsRecorded ==
  ASSUME ReleaseInv, [ReleaseNext]_releaseVars, NEW q \in Releases, Recorded(q)
  PROVE  /\ release'[q].content = release[q].content /\ release'[q].by = release[q].by
         /\ release[q].status = "REVOKED" => release'[q].status = "REVOKED"
<1> DEFINE Kept == /\ release'[q].content = release[q].content /\ release'[q].by = release[q].by
                   /\ release[q].status = "REVOKED" => release'[q].status = "REVOKED"
<1> SUFFICES Kept
  OBVIOUS
<1>1. CASE release' = release
  BY <1>1
<1>2. ASSUME NEW r \in Releases, NEW u \in Recorders, NEW c \in Contents, RecordEngineRelease(u, r, c) PROVE Kept
  BY <1>2 DEF RecordEngineRelease, ReleaseInv, ReleaseTyped, Recorded
<1>3. ASSUME NEW r \in Releases,
             (\E u \in Recorders : ApproveEngineRelease(u, r)) \/ DeprecateEngineRelease(r) \/ CommitRevocation(r)
      PROVE  Kept
  <2>1. release[r] \in ReleaseRows
    BY DEF ReleaseInv, ReleaseTyped
  <2>2. /\ release'[r].content = release[r].content /\ release'[r].by = release[r].by
        /\ \A p \in Releases : p # r => release'[p] = release[p]
        /\ release[r].status = "REVOKED" => release'[r].status = "REVOKED"
    BY <1>3, <2>1 DEF ApproveEngineRelease, DeprecateEngineRelease, CommitRevocation, StatusTransitions,
       ReleaseInv, ReleaseTyped, ReleaseRows
  <2> QED BY <2>2
<1> HIDE DEF Kept
<1> QED BY Zenon, <1>1, <1>2, <1>3
    DEF ReleaseNext, RecordRoute, ChangeStatusRoute, CertifyRoute, RevokeCertificationRoute, releaseVars,
        BeginRevocation, RecordProviderCapabilityCertification, RevokeProviderCapabilityCertification,
        AbandonRevocation, ValidUntilPasses, PlanDesiredRelease, CommitDesiredRelease, AbandonMove, ActivateProvider

\* A recorded release keeps its content and its recorder, and a revoked one
\* stays revoked.
THEOREM ReleasesImmutable == ReleaseSpec => ReleaseImmutable
<1>1. ASSUME ReleaseInv, [ReleaseNext]_releaseVars
      PROVE  [\A r \in Releases : Recorded(r) =>
               /\ release'[r].content = release[r].content /\ release'[r].by = release[r].by
               /\ release[r].status = "REVOKED" => release'[r].status = "REVOKED"]_releaseVars
  BY <1>1, StepKeepsRecorded
<1> QED BY <1>1, ReleaseInvariant, PTL DEF ReleaseSpec, ReleaseImmutable

\* Everything the release registry promises, for any releases, contents,
\* instances and recorders.
THEOREM ReleasesKeepPromises == ReleaseSpec => ReleasePromises
BY DigestsOwnedOnce, ReleasesSeparateDuties, DesiredStaysDeployable, DesiredReplacesWhatWasRead,
   ReleasesImmutable, PTL DEF ReleasePromises

-----------------------------------------------------------------------------
(* The mapping registry: the inductive invariant *)

Offers == (UNION {CallOffers[c] : c \in Calls}) \cup {NoRow}
Persons == Approvers \cup {Proposer[c] : c \in Calls}
MappingRows ==
  [offer : Offers, status : {"DRAFT", "VALIDATED", "ACTIVE", "RETIRED"}, creator : Persons,
   approver : Persons \cup {NoRef}, approvedAt : Nat, retiredAt : Nat]
CallRows ==
  [at : {"new", "looked", "answered"}, offer : Offers,
   answer : Calls \cup {NoRef, "refused", "key reused"}]

MapTyped ==
  /\ extRefs \subseteq ExtRefs /\ mapDay \in MapDays
  /\ mapRows \in [Calls -> {NoRow} \cup MappingRows]
  /\ calls \in [Calls -> CallRows]

\* A row carries the stamps of its status.
Stamps(m) ==
  /\ (m.approver = NoRef) = (m.status \in {"DRAFT", "VALIDATED"})
  /\ (m.retiredAt # 0) = (m.status = "RETIRED")
  /\ m.status \in {"ACTIVE", "RETIRED"} => m.approvedAt # 0
  /\ m.creator # m.approver
  /\ ValidPeriod(m.offer)

StampsInv == \A c \in RecordedCalls : Stamps(mapRows[c])

\* A call is answered with the one row of its key, the inserting call with its own.
AnswersInv ==
  /\ \A c \in Calls : calls[c].at = "looked" => ValidPeriod(calls[c].offer)
  /\ \A c \in Calls : calls[c].at # "answered" => calls[c].answer = NoRef
  /\ \A c \in RecordedCalls : calls[c].answer = c
  /\ \A c \in Calls : calls[c].answer \in Calls => calls[c].answer \in WithKey(c)
  /\ \A c, d \in RecordedCalls : CallKey[c] = CallKey[d] /\ Proposer[c] = Proposer[d] => c = d

MapInv == MapTyped /\ StampsInv /\ AnswersInv

\* A call has a row exactly when it inserted one.
LEMMA RecordedRow ==
  ASSUME MapTyped, NEW c \in Calls
  PROVE  /\ c \in RecordedCalls <=> mapRows[c] # NoRow
         /\ c \in RecordedCalls <=> mapRows[c] \in MappingRows
<1>1. mapRows[c] \in MappingRows => mapRows[c].status # NoRow.status
  BY DEF MappingRows, NoRow
<1>2. mapRows[c] = NoRow \/ mapRows[c] \in MappingRows
  BY DEF MapTyped
<1> QED BY <1>1, <1>2 DEF RecordedCalls

\* Refusals are no calls.
LEMMA NoCall == NoRef \notin Calls /\ "refused" \notin Calls /\ "key reused" \notin Calls
BY Zenon, MappingAssumption DEF NoRef

\* The invariant holds at the start.
LEMMA MapInvInit == ASSUME MapInit PROVE MapInv
<1>1. RecordedCalls = {}
  BY DEF MapInit, RecordedCalls
<1>2. NoRef \notin Calls
  BY Zenon, NoCall
<1>3. [at |-> "new", offer |-> NoRow, answer |-> NoRef] \in CallRows
  <2>1. NoRow \in Offers
    BY DEF Offers
  <2> QED BY <2>1 DEF CallRows
<1>7. 1 \in MapDays
  BY MapClockAssumption DEF MapDays
<1>4. MapTyped
  BY <1>3, <1>7 DEF MapInit, MapTyped
<1>5. StampsInv
  BY <1>1 DEF StampsInv
<1>6. AnswersInv
  BY <1>1, <1>2 DEF AnswersInv, MapInit
<1> QED BY <1>4, <1>5, <1>6 DEF MapInv

\* Answering a call, with the row of its key or a refusal, keeps the invariant.
LEMMA Answering ==
  ASSUME MapInv, NEW c \in Calls, calls[c].at # "answered", NEW o \in Offers, NEW with,
         with \in WithKey(c) \cup {"refused", "key reused"},
         calls' = Answered(c, o, with), UNCHANGED <<extRefs, mapRows, mapDay>>
  PROVE  MapInv'
<1>1. c \notin RecordedCalls
  BY ZenonT(30), NoCall DEF MapInv, AnswersInv, RecordedCalls
<1> DEFINE row == [at |-> "answered", offer |-> o, answer |-> with]
<1>2. row \in CallRows /\ row.at = "answered" /\ row.answer = with
  BY Zenon DEF CallRows, WithKey, RecordedCalls
<1>3. /\ calls'[c] = row
      /\ calls' \in [Calls -> CallRows] /\ \A d \in Calls : d # c => calls'[d] = calls[d]
  BY Zenon, <1>2 DEF MapInv, MapTyped, Answered
<1>4. MapTyped'
  BY Zenon, <1>3 DEF MapInv, MapTyped
<1>5. RecordedCalls' = RecordedCalls /\ \A d \in Calls : WithKey(d)' = WithKey(d)
  BY Zenon DEF RecordedCalls, WithKey
<1>6. StampsInv'
  BY Zenon, <1>5 DEF MapInv, StampsInv
<1> HIDE DEF row
<1>7. calls'[c].at = "answered" /\ calls'[c].answer = with
  BY Zenon, <1>2, <1>3
<1>8. calls'[c].answer \in Calls => calls'[c].answer \in WithKey(c)
  BY Zenon, <1>7, NoCall
<1>9. AnswersInv'
  <2>1. /\ \A d \in Calls : calls'[d].at = "looked" => ValidPeriod(calls'[d].offer)
        /\ \A d \in Calls : calls'[d].at # "answered" => calls'[d].answer = NoRef
        /\ \A d \in RecordedCalls' : calls'[d].answer = d
    BY ZenonT(60), <1>1, <1>3, <1>5, <1>7 DEF MapInv, AnswersInv, RecordedCalls
  <2>2. \A d \in Calls : calls'[d].answer \in Calls => calls'[d].answer \in WithKey(d)'
    BY ZenonT(30), <1>3, <1>5, <1>8 DEF MapInv, AnswersInv
  <2> QED BY Zenon, <2>1, <2>2, <1>5 DEF MapInv, AnswersInv
<1> QED BY Zenon, <1>4, <1>6, <1>9 DEF MapInv

\* The lookup of a used key answers with its row or refuses.
LEMMA KeyAnswer ==
  ASSUME NEW c \in Calls, WithKey(c) # {}, NEW o
  PROVE  mappingByIdempotencyKey(c, o) \in WithKey(c) \cup {"refused", "key reused"}
BY Zenon DEF mappingByIdempotencyKey

\* The lookup before the transaction keeps the invariant.
LEMMA LooksKeeps ==
  ASSUME MapInv, NEW c \in Calls, NEW o \in CallOffers[c], ProposeLooks(c, o)
  PROVE  MapInv'
<1>0. o \in Offers /\ ValidPeriod(o) /\ calls[c].at # "answered"
  BY DEF Offers, ProposeLooks
<1>1. CASE WithKey(c) # {}
  BY Zenon, <1>0, <1>1, KeyAnswer, Answering DEF ProposeLooks
<1>2. CASE WithKey(c) = {}
  <2>1. [at |-> "looked", offer |-> o, answer |-> NoRef] \in CallRows
    BY <1>0 DEF CallRows
  <2>2. /\ calls'[c] = [at |-> "looked", offer |-> o, answer |-> NoRef]
        /\ calls' \in [Calls -> CallRows] /\ \A d \in Calls : d # c => calls'[d] = calls[d]
        /\ UNCHANGED <<extRefs, mapRows, mapDay>>
    BY <1>2, <2>1 DEF ProposeLooks, MapInv, MapTyped
  <2>3. MapTyped'
    BY <2>2 DEF MapInv, MapTyped
  <2>4. RecordedCalls' = RecordedCalls /\ \A d \in Calls : WithKey(d)' = WithKey(d)
    BY <2>2 DEF RecordedCalls, WithKey
  <2>5. StampsInv'
    BY <2>2, <2>4 DEF MapInv, StampsInv
  <2>6. c \notin RecordedCalls
    BY ZenonT(30), <1>0, NoCall DEF MapInv, AnswersInv, RecordedCalls
  <2>7. calls'[c].at = "looked" /\ calls'[c].answer = NoRef /\ calls'[c].offer = o
    BY <2>2
  <2>8. AnswersInv'
    <3>1. /\ \A d \in Calls : calls'[d].at = "looked" => ValidPeriod(calls'[d].offer)
          /\ \A d \in Calls : calls'[d].at # "answered" => calls'[d].answer = NoRef
          /\ \A d \in RecordedCalls' : calls'[d].answer = d
      BY <1>0, <2>2, <2>4, <2>6, <2>7 DEF MapInv, AnswersInv, RecordedCalls
    <3>2. \A d \in Calls : calls'[d].answer \in Calls => calls'[d].answer \in WithKey(d)'
      BY Zenon, <2>2, <2>4, <2>7, NoCall DEF MapInv, AnswersInv
    <3> QED BY <3>1, <3>2, <2>4 DEF MapInv, AnswersInv
  <2> QED BY <2>3, <2>5, <2>8 DEF MapInv
<1> QED BY <1>1, <1>2

\* The transaction of a proposal: an insert takes a key nobody has.
LEMMA InsertsKeeps ==
  ASSUME MapInv, NEW c \in Calls, ProposeInserts(c)
  PROVE  MapInv'
<1> DEFINE o == calls[c].offer
           row == MappingRow(o, Proposer[c])
<1>1. o \in Offers /\ ValidPeriod(o) /\ calls[c].at # "answered" /\ calls[c].at = "looked"
  BY ZenonT(30) DEF MapInv, MapTyped, CallRows, AnswersInv, ProposeInserts
<1>2. CASE ~checkMappingSubjects(o)
  BY ZenonT(30), <1>1, <1>2, Answering DEF ProposeInserts
<1>3. CASE checkMappingSubjects(o) /\ KeyTaken(c)
  BY Zenon, <1>1, <1>3, KeyAnswer, Answering DEF ProposeInserts, KeyTaken
<1>4. CASE checkMappingSubjects(o) /\ ~KeyTaken(c)
  <2>1. row \in MappingRows /\ row.offer = o /\ row.status = "DRAFT" /\ row.creator = Proposer[c]
          /\ row.approver = NoRef /\ row.approvedAt = 0 /\ row.retiredAt = 0
    <3>1. Proposer[c] \in Persons
      BY DEF Persons
    <3> QED BY <1>1, <3>1 DEF MappingRow, MappingRows
  <2>2. [at |-> "answered", offer |-> o, answer |-> c] \in CallRows
    BY Zenon, <1>1 DEF CallRows
  <2>3. /\ mapRows' = [mapRows EXCEPT ![c] = row]
        /\ calls' = [calls EXCEPT ![c] = [at |-> "answered", offer |-> o, answer |-> c]]
        /\ UNCHANGED <<extRefs, mapDay>>
    BY <1>1, <1>4 DEF ProposeInserts, Answered
  <2> HIDE DEF row, o
  <2>4. MapTyped'
    BY <2>1, <2>2, <2>3 DEF MapInv, MapTyped
  <2>5. /\ mapRows'[c] = row /\ \A d \in Calls : d # c => mapRows'[d] = mapRows[d] /\ calls'[d] = calls[d]
        /\ calls'[c].at = "answered" /\ calls'[c].answer = c
    BY <2>1, <2>2, <2>3 DEF MapInv, MapTyped
  <2>6. RecordedCalls' = RecordedCalls \cup {c} /\ c \notin RecordedCalls
    <3>1. row # NoRow
      BY <2>1 DEF NoRow
    <3> QED BY ZenonT(30), <1>1, <2>5, <3>1, NoCall DEF RecordedCalls, MapInv, AnswersInv
  <2>7. Stamps(row)
    <3>1. Proposer[c] # NoRef
      BY Zenon, MappingAssumption
    <3> QED BY <1>1, <2>1, <3>1 DEF Stamps
  <2>8. StampsInv'
    BY <2>5, <2>6, <2>7 DEF MapInv, StampsInv, RecordedCalls
  <2>9. WithKey(c) = {}
    BY <1>4 DEF KeyTaken
  <2>10. \A d \in Calls : WithKey(d) \subseteq WithKey(d)'
    BY <2>6 DEF WithKey
  <2>11. c \in WithKey(c)'
    BY <2>6 DEF WithKey
  <2>12. AnswersInv'
    <3>1. /\ \A d \in Calls : calls'[d].at = "looked" => ValidPeriod(calls'[d].offer)
          /\ \A d \in Calls : calls'[d].at # "answered" => calls'[d].answer = NoRef
          /\ \A d \in RecordedCalls' : calls'[d].answer = d
      BY <2>5, <2>6 DEF MapInv, AnswersInv, RecordedCalls
    <3>2. \A d \in Calls : calls'[d].answer \in Calls => calls'[d].answer \in WithKey(d)'
      BY <2>5, <2>10, <2>11 DEF MapInv, AnswersInv
    <3>3. \A d \in RecordedCalls : ~(CallKey[c] = CallKey[d] /\ Proposer[c] = Proposer[d])
      BY <2>9 DEF WithKey
    <3>4. \A d, e \in RecordedCalls' : CallKey[d] = CallKey[e] /\ Proposer[d] = Proposer[e] => d = e
      BY <2>6, <3>3 DEF MapInv, AnswersInv
    <3> QED BY <3>1, <3>2, <3>4 DEF AnswersInv
  <2> QED BY <2>4, <2>8, <2>12 DEF MapInv
<1> QED BY <1>2, <1>3, <1>4

\* A step that rewrites one row keeps the calls' answers.
LEMMA RewriteKeeps ==
  ASSUME MapInv, NEW c \in RecordedCalls, NEW row \in MappingRows, Stamps(row),
         mapRows' = [mapRows EXCEPT ![c] = row], UNCHANGED <<extRefs, calls, mapDay>>
  PROVE  MapInv'
<1>1. c \in Calls
  BY DEF RecordedCalls
<1>2. MapTyped'
  BY <1>1 DEF MapInv, MapTyped
<1>3. mapRows'[c] = row /\ \A d \in Calls : d # c => mapRows'[d] = mapRows[d]
  BY <1>1 DEF MapInv, MapTyped
<1>4. row # NoRow
  BY DEF MappingRows, NoRow
<1>5. RecordedCalls' = RecordedCalls
  BY <1>1, <1>3, <1>4 DEF RecordedCalls
<1>6. \A d \in Calls : WithKey(d)' = WithKey(d)
  BY <1>5 DEF WithKey
<1>7. StampsInv'
  BY <1>3, <1>5 DEF MapInv, StampsInv, RecordedCalls
<1>8. AnswersInv'
  BY <1>5, <1>6 DEF MapInv, AnswersInv
<1> QED BY <1>2, <1>7, <1>8 DEF MapInv

\* What a transition stamps.
LEMMA StampedRow ==
  ASSUME MapInv, NEW c \in RecordedCalls, NEW to \in DOMAIN mappingTransitions, NEW who \in Approvers,
         mapRows[c].status \in mappingTransitions[to], to = "ACTIVE" => FourEyes(mapRows[c], who)
  PROVE  /\ Stamped(mapRows[c], to, who) \in MappingRows /\ Stamps(Stamped(mapRows[c], to, who))
         /\ Stamped(mapRows[c], to, who).offer = mapRows[c].offer
         /\ Stamped(mapRows[c], to, who).creator = mapRows[c].creator
         /\ Stamped(mapRows[c], to, who).status = to
         /\ to = "RETIRED" => Stamped(mapRows[c], to, who).retiredAt = mapDay
<1> DEFINE m == mapRows[c]
<1>1. m \in MappingRows /\ Stamps(m)
  <2>1. c \in Calls
    BY DEF RecordedCalls
  <2> QED BY <2>1, RecordedRow DEF MapInv, StampsInv
<1>2. /\ mapDay \in Nat /\ mapDay # 0
  BY MapClockAssumption DEF MapInv, MapTyped, MapDays
<1>3. who \in Persons /\ who # NoRef
  BY Zenon, MappingAssumption DEF Persons
<1>4. to \in {"VALIDATED", "ACTIVE", "RETIRED"}
  BY DEF mappingTransitions
<1> HIDE DEF m
<1>5. CASE to = "VALIDATED"
  <2>1. m.status = "DRAFT"
    BY <1>5 DEF mappingTransitions, m
  <2> QED BY <1>1, <1>5, <2>1 DEF Stamped, Stamps, MappingRows, m
<1>6. CASE to = "ACTIVE"
  <2>1. m.status = "VALIDATED" /\ m.creator # who
    BY <1>6 DEF mappingTransitions, m, FourEyes
  <2> DEFINE n == [m EXCEPT !.status = "ACTIVE", !.approver = who, !.approvedAt = mapDay]
  <2>2. /\ n \in MappingRows /\ n.offer = m.offer /\ n.creator = m.creator /\ n.status = "ACTIVE"
        /\ n.approver = who /\ n.approvedAt = mapDay /\ n.retiredAt = m.retiredAt
    BY ZenonT(30), <1>1, <1>2, <1>3 DEF MappingRows
  <2>3. Stamped(mapRows[c], to, who) = n
    BY <1>6 DEF Stamped, m
  <2> HIDE DEF n
  <2>4. Stamps(n)
    BY <1>1, <1>2, <1>3, <2>1, <2>2 DEF Stamps
  <2> QED BY <1>6, <2>2, <2>3, <2>4 DEF m
<1>7. CASE to = "RETIRED"
  <2>1. m.status = "ACTIVE"
    BY <1>1, <1>7 DEF mappingTransitions, m, MappingRows
  <2> DEFINE n == [m EXCEPT !.status = "RETIRED", !.retiredAt = mapDay]
  <2>2. /\ n \in MappingRows /\ n.offer = m.offer /\ n.creator = m.creator /\ n.status = "RETIRED"
        /\ n.approver = m.approver /\ n.approvedAt = m.approvedAt /\ n.retiredAt = mapDay
    BY Zenon, <1>1, <1>2 DEF MappingRows
  <2>3. Stamped(mapRows[c], to, who) = n
    BY <1>7 DEF Stamped, m
  <2> HIDE DEF n
  <2>4. Stamps(n)
    BY <1>1, <1>2, <2>1, <2>2 DEF Stamps
  <2> QED BY <1>7, <2>2, <2>3, <2>4 DEF m
<1> QED BY ZenonT(30), <1>4, <1>5, <1>6, <1>7

\* Changing a draft keeps the invariant.
LEMMA ChangeKeeps ==
  ASSUME MapInv, NEW c \in Calls, NEW o \in CallOffers[c], ChangeMapping(c, o)
  PROVE  MapInv'
<1> DEFINE m == mapRows[c]
           row == [m EXCEPT !.offer = o]
<1>1. m \in MappingRows /\ Stamps(m) /\ c \in RecordedCalls /\ o \in Offers /\ ValidPeriod(o)
  BY RecordedRow DEF MapInv, StampsInv, ChangeMapping, Offers
<1>2. /\ row \in MappingRows /\ row.offer = o /\ row.creator = m.creator /\ row.status = m.status
      /\ row.approver = m.approver /\ row.approvedAt = m.approvedAt /\ row.retiredAt = m.retiredAt
  BY <1>1 DEF MappingRows
<1>3. mapRows' = [mapRows EXCEPT ![c] = row] /\ UNCHANGED <<extRefs, calls, mapDay>>
  BY DEF ChangeMapping, MapInv, MapTyped
<1>4. Stamps(row)
  <2> HIDE DEF row, m
  <2> QED BY <1>1, <1>2 DEF Stamps
<1> HIDE DEF row
<1> QED BY ZenonT(30), <1>1, <1>2, <1>3, <1>4, RewriteKeeps

\* Every step keeps the invariant.
LEMMA MapInvNext ==
  ASSUME MapInv, [MapNext]_mapVars
  PROVE  MapInv'
<1>1. CASE UNCHANGED mapVars
  BY <1>1 DEF MapInv, MapTyped, StampsInv, AnswersInv, RecordedCalls, WithKey, mapVars
<1>2. ASSUME NEW x \in ExtRefs, CreateExternalReference(x) PROVE MapInv'
  <2>1. MapTyped'
    BY <1>2 DEF CreateExternalReference, MapInv, MapTyped
  <2> QED BY <1>2, <2>1 DEF CreateExternalReference, MapInv, StampsInv, AnswersInv, RecordedCalls, WithKey
<1>3. ASSUME NEW c \in Calls, NEW to \in DOMAIN mappingTransitions, NEW who \in Approvers, NEW successor,
             TransitionMapping(c, to, who, successor)
      PROVE  MapInv'
  <2>1. /\ c \in RecordedCalls /\ mapRows' = [mapRows EXCEPT ![c] = Stamped(mapRows[c], to, who)]
        /\ mapRows[c].status \in mappingTransitions[to] /\ (to = "ACTIVE" => FourEyes(mapRows[c], who))
        /\ UNCHANGED <<extRefs, calls, mapDay>>
    BY <1>3 DEF TransitionMapping, transitionLockedMapping
  <2> QED BY Zenon, <2>1, StampedRow, RewriteKeeps
<1>4. CASE MapDayPasses
  <2>1. MapTyped'
    BY <1>4, MapClockAssumption DEF MapDayPasses, MapInv, MapTyped, MapDays
  <2> QED BY <1>4, <2>1 DEF MapDayPasses, MapInv, StampsInv, AnswersInv, RecordedCalls, WithKey
<1> QED BY <1>1, <1>2, <1>3, <1>4, LooksKeeps, InsertsKeeps, ChangeKeeps
    DEF MapNext, createExternalReference, createMapping, updateMapping, transition

\* The inductive invariant of the mapping registry holds in every state.
THEOREM MapInvariant == MapSpec => []MapInv
BY MapInvInit, MapInvNext, PTL DEF MapSpec

\* Calls with one idempotency key that are answered with a mapping are
\* answered with the same one, however lookups and inserts interleave.
THEOREM ReplaysAlwaysConverge == MapSpec => [](MapTypeOK /\ ReplaysConverge)
<1>1. MapInv => MapTypeOK
  BY RecordedRow DEF MapInv, MapTypeOK, MapTyped, StampsInv, Stamps, AnswersInv
<1>2. MapInv => ReplaysConverge
  BY DEF MapInv, AnswersInv, ReplaysConverge, WithKey
<1> QED BY <1>1, <1>2, MapInvariant, PTL

\* A row that is not a draft keeps what was reviewed.
LEMMA StepKeepsReviewed ==
  ASSUME MapInv, MapInv', [MapNext]_mapVars, NEW c \in RecordedCalls, mapRows[c].status # "DRAFT"
  PROVE  /\ mapRows'[c].offer = mapRows[c].offer /\ mapRows'[c].creator # mapRows'[c].approver
         /\ c \in RecordedCalls'
<1>0. c \in Calls
  BY DEF RecordedCalls
<1>1. ASSUME mapRows'[c].offer = mapRows[c].offer, mapRows'[c] # NoRow
      PROVE  /\ mapRows'[c].offer = mapRows[c].offer /\ mapRows'[c].creator # mapRows'[c].approver
             /\ c \in RecordedCalls'
  <2>1. c \in RecordedCalls'
    BY <1>0, <1>1 DEF RecordedCalls
  <2> QED BY Zenon, <1>1, <2>1 DEF MapInv, StampsInv, Stamps
<1>2. mapRows[c] # NoRow
  BY DEF RecordedCalls
<1>3. CASE mapRows'[c] = mapRows[c]
  BY <1>1, <1>2, <1>3
<1>4. ASSUME NEW d \in Calls, ProposeInserts(d) PROVE mapRows'[c] = mapRows[c]
  <2>1. d \notin RecordedCalls
    BY ZenonT(30), <1>4, NoCall DEF MapInv, AnswersInv, ProposeInserts, RecordedCalls
  <2>2. mapRows' = mapRows \/ mapRows' = [mapRows EXCEPT ![d] = MappingRow(calls[d].offer, Proposer[d])]
    BY <1>4 DEF ProposeInserts
  <2> QED BY <1>0, <2>1, <2>2 DEF MapInv, MapTyped
<1>5. ASSUME NEW d \in Calls, NEW o \in CallOffers[d], ChangeMapping(d, o) PROVE mapRows'[c] = mapRows[c]
  <2>1. d # c
    BY <1>5 DEF ChangeMapping, Changeable
  <2> QED BY <1>0, <1>5, <2>1 DEF ChangeMapping, MapInv, MapTyped
<1>6. ASSUME NEW d \in Calls, NEW to \in DOMAIN mappingTransitions, NEW who \in Approvers, NEW successor,
             TransitionMapping(d, to, who, successor)
      PROVE  mapRows'[c].offer = mapRows[c].offer /\ mapRows'[c] # NoRow
  <2>1. /\ d \in RecordedCalls /\ mapRows' = [mapRows EXCEPT ![d] = Stamped(mapRows[d], to, who)]
        /\ mapRows[d].status \in mappingTransitions[to] /\ (to = "ACTIVE" => FourEyes(mapRows[d], who))
    BY ZenonT(30), <1>6 DEF TransitionMapping, transitionLockedMapping
  <2>2. /\ Stamped(mapRows[d], to, who) \in MappingRows
        /\ Stamped(mapRows[d], to, who).offer = mapRows[d].offer
    BY <2>1, StampedRow
  <2>3. Stamped(mapRows[d], to, who) # NoRow
    <3>1. \A m \in MappingRows : m.status # "NONE"
      BY DEF MappingRows
    <3>2. NoRow.status = "NONE"
      BY DEF NoRow
    <3> QED BY <2>2, <3>1, <3>2
  <2> QED BY ZenonT(30), <1>0, <1>2, <2>1, <2>2, <2>3 DEF MapInv, MapTyped
<1> QED BY Zenon, <1>1, <1>3, <1>4, <1>5, <1>6
    DEF MapNext, createExternalReference, createMapping, updateMapping, transition, mapVars,
        CreateExternalReference, ProposeLooks, MapDayPasses

\* From validation on neither end, scope, period nor rank of a mapping changes,
\* and the person who proposed it is not the one who activated it.
THEOREM ReviewedContentAlwaysStands == MapSpec => ReviewedContentStands
<1>1. ASSUME MapInv, MapInv', [MapNext]_mapVars
      PROVE  [\A c \in RecordedCalls : mapRows[c].status /= "DRAFT" =>
                /\ mapRows'[c].offer = mapRows[c].offer
                /\ mapRows'[c].creator /= mapRows'[c].approver]_mapVars
  BY <1>1, StepKeepsReviewed
<1> QED BY <1>1, MapInvariant, PTL DEF MapSpec, ReviewedContentStands

\* Whether a mapping is in effect at an instant.
Effective(c, at) ==
  c \in RecordedCalls /\ inForceAt(mapRows[c], at) /\ CoversDay(mapRows[c].offer, at) /\ Confident(mapRows[c])

\* A row is in effect at an earlier instant after a step if it was before,
\* with what it offers, unless the step activates it for that instant.
LEMMA EffectStands ==
  ASSUME MapInv, MapInv', [MapNext]_mapVars, NEW at \in 1 .. mapDay - 1, NEW c \in Calls,
         ~ /\ c \in RecordedCalls /\ mapRows[c].status = "VALIDATED"
           /\ mapRows'[c].status = "ACTIVE" /\ CoversDay(mapRows[c].offer, at)
  PROVE  /\ Effective(c, at)' <=> Effective(c, at)
         /\ Effective(c, at) => mapRows'[c].offer = mapRows[c].offer
<1> DEFINE Good == /\ Effective(c, at)' <=> Effective(c, at)
                   /\ Effective(c, at) => mapRows'[c].offer = mapRows[c].offer
<1> SUFFICES Good
  OBVIOUS
<1>1. ASSUME mapRows'[c] = mapRows[c] PROVE Good
  <2>1. c \in RecordedCalls' <=> c \in RecordedCalls
    BY <1>1 DEF RecordedCalls
  <2> QED BY <1>1, <2>1 DEF Effective, inForceAt, CoversDay, Confident
<1>2. ASSUME c \in RecordedCalls => mapRows[c].status \in {"DRAFT", "VALIDATED"},
             c \in RecordedCalls' => mapRows'[c].status \in {"DRAFT", "VALIDATED"}
      PROVE  Good
  BY <1>2 DEF Effective, inForceAt
<1>3. ASSUME NEW d \in Calls, ProposeInserts(d) PROVE Good
  <2>1. d \notin RecordedCalls
    BY ZenonT(30), <1>3, NoCall DEF MapInv, AnswersInv, ProposeInserts, RecordedCalls
  <2>2. mapRows' = mapRows \/ mapRows' = [mapRows EXCEPT ![d] = MappingRow(calls[d].offer, Proposer[d])]
    BY ZenonT(30), <1>3 DEF ProposeInserts
  <2>3. CASE mapRows'[c] = mapRows[c]
    BY <1>1, <2>3
  <2>4. CASE d = c /\ mapRows'[c] = MappingRow(calls[d].offer, Proposer[d])
    <3>1. mapRows'[c].status = "DRAFT"
      BY <2>4 DEF MappingRow
    <3> QED BY <1>2, <2>1, <2>4, <3>1
  <2> QED BY <2>2, <2>3, <2>4 DEF MapInv, MapTyped
<1>4. ASSUME NEW d \in Calls, NEW o \in CallOffers[d], ChangeMapping(d, o) PROVE Good
  <2>1. mapRows' = [mapRows EXCEPT ![d].offer = o] /\ d \in RecordedCalls /\ mapRows[d].status = "DRAFT"
    BY <1>4 DEF ChangeMapping, Changeable
  <2>2. mapRows[d] \in MappingRows
    BY <2>1, RecordedRow DEF MapInv
  <2>3. CASE d # c
    BY <1>1, <2>1, <2>3 DEF MapInv, MapTyped
  <2>4. CASE d = c
    <3>1. mapRows'[c].status = "DRAFT"
      BY <2>1, <2>2, <2>4 DEF MapInv, MapTyped, MappingRows
    <3> QED BY <1>2, <2>1, <2>4, <3>1
  <2> QED BY <2>3, <2>4
<1>5. ASSUME NEW d \in Calls, NEW to \in DOMAIN mappingTransitions, NEW who \in Approvers, NEW successor,
             TransitionMapping(d, to, who, successor)
      PROVE  Good
  <2> DEFINE n == Stamped(mapRows[d], to, who)
  <2>1. /\ d \in RecordedCalls /\ mapRows' = [mapRows EXCEPT ![d] = n]
        /\ mapRows[d].status \in mappingTransitions[to] /\ (to = "ACTIVE" => FourEyes(mapRows[d], who))
    BY <1>5 DEF TransitionMapping, transitionLockedMapping
  <2>2. /\ n \in MappingRows /\ Stamps(n) /\ n.offer = mapRows[d].offer /\ n.status = to
        /\ to = "RETIRED" => n.retiredAt = mapDay
    BY <2>1, StampedRow
  <2> HIDE DEF n
  <2>3. CASE d # c
    BY <1>1, <2>1, <2>3 DEF MapInv, MapTyped
  <2>4. CASE d = c
    <3>1. mapRows'[c] = n /\ n # NoRow /\ c \in RecordedCalls
      BY <2>1, <2>2, <2>4 DEF MapInv, MapTyped, MappingRows, NoRow
    <3>2. c \in RecordedCalls'
      BY <3>1 DEF RecordedCalls
    <3>3. CASE to = "VALIDATED"
      BY <1>2, <2>1, <2>2, <2>4, <3>1, <3>3 DEF mappingTransitions
    <3>4. CASE to = "ACTIVE"
      <4>1. mapRows[c].status = "VALIDATED"
        BY ZenonT(30), <2>1, <2>4, <3>4 DEF mappingTransitions
      <4>2. ~CoversDay(mapRows[c].offer, at)
        BY Zenon, <2>2, <3>1, <3>4, <4>1
      <4>3. ~CoversDay(mapRows'[c].offer, at)
        BY <2>2, <2>4, <3>1, <4>2
      <4> QED BY <4>2, <4>3 DEF Effective, CoversDay
    <3>5. CASE to = "RETIRED"
      <4>1. mapRows[c].status = "ACTIVE"
        <5>1. mapRows[c] \in MappingRows
          BY <3>1, RecordedRow DEF MapInv
        <5> QED BY <2>1, <2>4, <3>5, <5>1 DEF mappingTransitions, MappingRows
      <4>2. mapDay > at
        BY DEF MapInv, MapTyped, MapDays
      <4>3. inForceAt(mapRows'[c], at) /\ inForceAt(mapRows[c], at)
        BY ZenonT(30), <2>2, <3>1, <3>5, <4>1, <4>2 DEF inForceAt, Stamps
      <4>4. mapRows'[c].offer = mapRows[c].offer
        BY <2>2, <2>4, <3>1
      <4> QED BY <3>1, <3>2, <4>3, <4>4 DEF Effective, inForceAt, CoversDay, Confident
    <3> QED BY <3>3, <3>4, <3>5 DEF mappingTransitions
  <2> QED BY <2>3, <2>4
<1> HIDE DEF Good
<1> QED BY ZenonT(30), <1>1, <1>3, <1>4, <1>5
    DEF MapNext, createExternalReference, createMapping, updateMapping, transition, mapVars,
        CreateExternalReference, ProposeLooks, MapDayPasses

\* Agreed over given rows.
AgreedIn(rows, cands, end, specific) ==
  LET Beats(c, d) == \/ specific[c] > specific[d]
                     \/ specific[c] = specific[d] /\ Outranks(rows[c].offer, rows[d].offer)
      best == {c \in cands : \A d \in cands : ~Beats(d, c)}
      ends == {rows[c].offer[end] : c \in best}
  IN  IF cands = {} THEN NoRef
      ELSE IF Cardinality(ends) = 1 THEN CHOOSE e \in ends : TRUE
      ELSE "ambiguous"

\* What candidates agree on depends only on what they offer.
LEMMA AgreementStands ==
  ASSUME NEW rows, NEW later, NEW cands, NEW end, NEW specific,
         \A c \in cands : later[c].offer = rows[c].offer
  PROVE  AgreedIn(later, cands, end, specific) = AgreedIn(rows, cands, end, specific)
<1> DEFINE Beats(r, c, d) == \/ specific[c] > specific[d]
                             \/ specific[c] = specific[d] /\ Outranks(r[c].offer, r[d].offer)
           best(r) == {c \in cands : \A d \in cands : ~Beats(r, d, c)}
           ends(r) == {r[c].offer[end] : c \in best(r)}
<1>1. best(later) = best(rows)
  BY DEF Outranks
<1>2. ends(later) = ends(rows)
  BY <1>1
<1>3. \A r \in {rows, later} :
        AgreedIn(r, cands, end, specific) =
          IF cands = {} THEN NoRef
          ELSE IF Cardinality(ends(r)) = 1 THEN CHOOSE e \in ends(r) : TRUE
          ELSE "ambiguous"
  BY Zenon DEF AgreedIn
<1>4. /\ AgreedIn(rows, cands, end, specific) =
            IF cands = {} THEN NoRef
            ELSE IF Cardinality(ends(rows)) = 1 THEN CHOOSE e \in ends(rows) : TRUE
            ELSE "ambiguous"
      /\ AgreedIn(later, cands, end, specific) =
            IF cands = {} THEN NoRef
            ELSE IF Cardinality(ends(later)) = 1 THEN CHOOSE e \in ends(later) : TRUE
            ELSE "ambiguous"
  BY <1>3, Zenon
<1> HIDE DEF ends
<1> QED BY <1>2, <1>4

\* Whom a resolution asks, and how close each comes to the context.
Fitting(rows, cands, e, market) ==
  {c \in cands : rows[c].offer.entity = e /\ ScopeCompatible(rows[c].offer.scope, market)}
Naming(rows, cands, x) == {c \in cands : rows[c].offer.ref = x}
Closeness(rows, cands, market) == [c \in cands |-> ScopeSpecificity(rows[c].offer.scope, market)]

\* The resolution of a native object, before and after a step.
LEMMA AskedOfObject ==
  ASSUME NEW x, NEW at
  PROVE  /\ ResolveExternalReference(x, at) =
              AgreedIn(mapRows, Naming(mapRows, InEffect(at), x), "entity", [c \in Calls |-> 0])
         /\ ResolveExternalReference(x, at)' =
              AgreedIn(mapRows', Naming(mapRows', InEffect(at)', x), "entity", [c \in Calls |-> 0])
<1>1. ResolveExternalReference(x, at) =
        AgreedIn(mapRows, Naming(mapRows, InEffect(at), x), "entity", [c \in Calls |-> 0])
  BY Zenon DEF ResolveExternalReference, Agreed, AgreedIn, Naming
<1>2. ResolveExternalReference(x, at)' =
        AgreedIn(mapRows', Naming(mapRows', InEffect(at)', x), "entity", [c \in Calls |-> 0])
  BY Zenon DEF ResolveExternalReference, Agreed, AgreedIn, Naming
<1> QED BY <1>1, <1>2

\* The resolution of an entity in a context, before and after a step.
LEMMA AskedInContext ==
  ASSUME NEW e, NEW market, NEW at
  PROVE  /\ ResolveMappingInContext(e, market, at) =
              AgreedIn(mapRows, Fitting(mapRows, InEffect(at), e, market), "ref",
                       Closeness(mapRows, Fitting(mapRows, InEffect(at), e, market), market))
         /\ ResolveMappingInContext(e, market, at)' =
              AgreedIn(mapRows', Fitting(mapRows', InEffect(at)', e, market), "ref",
                       Closeness(mapRows', Fitting(mapRows', InEffect(at)', e, market), market))
<1> DEFINE S == {c \in MappingCandidates(e, at) : ScopeCompatible(mapRows[c].offer.scope, market)}
           T == {c \in MappingCandidates(e, at)' : ScopeCompatible(mapRows'[c].offer.scope, market)}
<1>1. S = Fitting(mapRows, InEffect(at), e, market)
  BY DEF MappingCandidates, Fitting
<1>2. T = Fitting(mapRows', InEffect(at)', e, market)
  BY DEF MappingCandidates, Fitting
<1>3. ResolveMappingInContext(e, market, at) = AgreedIn(mapRows, S, "ref", Closeness(mapRows, S, market))
  BY Zenon DEF ResolveMappingInContext, Agreed, AgreedIn, Closeness
<1>4. ResolveMappingInContext(e, market, at)' = AgreedIn(mapRows', T, "ref", Closeness(mapRows', T, market))
  BY Zenon DEF ResolveMappingInContext, Agreed, AgreedIn, Closeness, ScopeCompatible, ScopeSpecificity
<1> HIDE DEF S, T
<1> QED BY <1>1, <1>2, <1>3, <1>4

\* A step that activates nothing for an instant keeps what it resolved to.
LEMMA StepKeepsPast ==
  ASSUME MapInv, MapInv', [MapNext]_mapVars, NEW at \in 1 .. mapDay - 1,
         ~ \E c \in RecordedCalls : /\ mapRows[c].status = "VALIDATED"
                                    /\ mapRows'[c].status = "ACTIVE"
                                    /\ CoversDay(mapRows[c].offer, at)
  PROVE  /\ \A x \in ExtRefs : ResolveExternalReference(x, at)' = ResolveExternalReference(x, at)
         /\ \A e \in TenantEntities, market \in CtxMarkets :
              ResolveMappingInContext(e, market, at)' = ResolveMappingInContext(e, market, at)
<1>1. \A c \in Calls : /\ Effective(c, at)' <=> Effective(c, at)
                       /\ Effective(c, at) => mapRows'[c].offer = mapRows[c].offer
  BY EffectStands
<1>2. /\ InEffect(at) = {c \in Calls : Effective(c, at)}
      /\ InEffect(at)' = {c \in Calls : Effective(c, at)'}
  BY DEF InEffect, Effective, RecordedCalls
<1>3. InEffect(at)' = InEffect(at) /\ \A c \in InEffect(at) : mapRows'[c].offer = mapRows[c].offer
  BY <1>1, <1>2
<1>4. ASSUME NEW x \in ExtRefs
      PROVE  ResolveExternalReference(x, at)' = ResolveExternalReference(x, at)
  <2> DEFINE S == Naming(mapRows, InEffect(at), x)
             T == Naming(mapRows', InEffect(at)', x)
  <2>1. T = S /\ \A c \in S : mapRows'[c].offer = mapRows[c].offer
    BY <1>3 DEF Naming
  <2>2. /\ ResolveExternalReference(x, at) = AgreedIn(mapRows, S, "entity", [c \in Calls |-> 0])
        /\ ResolveExternalReference(x, at)' = AgreedIn(mapRows', T, "entity", [c \in Calls |-> 0])
    BY AskedOfObject
  <2> HIDE DEF S, T
  <2> DEFINE before == mapRows
             after == mapRows'
             flat == [c \in Calls |-> 0]
  <2>3. \A c \in S : after[c].offer = before[c].offer
    BY <2>1
  <2> HIDE DEF before, after, flat
  <2>4. AgreedIn(after, S, "entity", flat) = AgreedIn(before, S, "entity", flat)
    BY <2>3, AgreementStands
  <2> QED BY <2>1, <2>2, <2>4 DEF before, after, flat
<1>5. ASSUME NEW e \in TenantEntities, NEW market \in CtxMarkets
      PROVE  ResolveMappingInContext(e, market, at)' = ResolveMappingInContext(e, market, at)
  <2> DEFINE S == Fitting(mapRows, InEffect(at), e, market)
             T == Fitting(mapRows', InEffect(at)', e, market)
  <2>1. T = S /\ \A c \in S : mapRows'[c].offer = mapRows[c].offer
    BY <1>3 DEF Fitting
  <2>2. Closeness(mapRows', T, market) = Closeness(mapRows, S, market)
    BY <2>1 DEF Closeness
  <2>3. /\ ResolveMappingInContext(e, market, at) = AgreedIn(mapRows, S, "ref", Closeness(mapRows, S, market))
        /\ ResolveMappingInContext(e, market, at)' = AgreedIn(mapRows', T, "ref", Closeness(mapRows', T, market))
    BY ZenonT(30), AskedInContext
  <2> DEFINE before == mapRows
             after == mapRows'
             f == Closeness(mapRows, S, market)
  <2> HIDE DEF S, T
  <2>4. \A c \in S : after[c].offer = before[c].offer
    BY <2>1
  <2> HIDE DEF before, after, f
  <2>5. AgreedIn(after, S, "ref", f) = AgreedIn(before, S, "ref", f)
    BY <2>4, AgreementStands
  <2> QED BY ZenonT(30), <2>1, <2>2, <2>3, <2>5 DEF before, after, f
<1> QED BY <1>4, <1>5

\* What a native object, or an entity in a context, resolved to at an instant
\* before now changes only when a mapping that covers that instant is
\* activated.
THEOREM PastAnswersAlwaysStand == MapSpec => PastAnswersStand
<1>1. ASSUME MapInv, MapInv', [MapNext]_mapVars PROVE PastStands
  <2> DEFINE answers(at) == [x \in ExtRefs |-> ResolveExternalReference(x, at)]
             inContext(at) == [q \in TenantEntities \X CtxMarkets |-> ResolveMappingInContext(q[1], q[2], at)]
  <2> SUFFICES ASSUME NEW at \in 1 .. mapDay - 1,
                      ~ \E c \in RecordedCalls : /\ mapRows[c].status = "VALIDATED"
                                                 /\ mapRows'[c].status = "ACTIVE"
                                                 /\ CoversDay(mapRows[c].offer, at)
               PROVE  answers(at)' = answers(at) /\ inContext(at)' = inContext(at)
    BY Zenon DEF PastStands
  <2>1. \A x \in ExtRefs : ResolveExternalReference(x, at)' = ResolveExternalReference(x, at)
    BY <1>1, StepKeepsPast
  <2>2. \A e \in TenantEntities, market \in CtxMarkets :
          ResolveMappingInContext(e, market, at)' = ResolveMappingInContext(e, market, at)
    BY <1>1, StepKeepsPast
  <2>3. answers(at)' = answers(at)
    BY <2>1
  <2>4. inContext(at)' = inContext(at)
    BY <2>2
  <2> QED BY <2>3, <2>4
<1> QED BY <1>1, MapInvariant, PTL DEF MapSpec, PastAnswersStand

\* Everything the mapping registry promises, for any calls, keys, people,
\* references and clock.
THEOREM MappingsKeepPromises == MapSpec => MappingPromises
BY ReplaysAlwaysConverge, PastAnswersAlwaysStand, ReviewedContentAlwaysStands, PTL DEF MappingPromises
=============================================================================
