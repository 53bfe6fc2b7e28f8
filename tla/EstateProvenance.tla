-------------------------- MODULE EstateProvenance --------------------------
(***************************************************************************)
(* How a Trade workload shows for which digital estate it acts.            *)
(*                                                                         *)
(* The control plane attests the estate on one of two records: a governed  *)
(* resource assignment (proposed by one person, approved by another, for   *)
(* a subject, markets and operations) or the binding of an estate's own    *)
(* client.  An attestation is then the provenance on which a commerce      *)
(* profile is attested in turn.  Each request fixes its clock first and    *)
(* reads the evidence, the records and the profile one after the other.    *)
(*                                                                         *)
(* One subject, engine and estate: the overlap rule and every read below   *)
(* are per subject.  Client bindings and profiles change only through the  *)
(* registry process, which writes the tables under their guards.  The      *)
(* scopes of an assignment and the binding share no row, so one behaviour  *)
(* follows one path: a WORKLOAD's token, a NATIVE_RESOURCE's attested      *)
(* configuration, or the estate's CLIENT.                                  *)
(***************************************************************************)
EXTENDS Naturals, FiniteSets

CONSTANTS
  AsgIds, AsgOffers,   \* [assignment -> its cells (market, operation), from, until]
  AsgHands,            \* [scope -> the people holding it]
  AskedCells,          \* cells workloads ask about
  EstateTTL,           \* life of an attestation, 60 s in the code
  EvidenceEnds,        \* expiry of the workload's and the client's token
  ProfileUntil,        \* end of the commerce profile
  MaxAsgRevision, LastEstDay

ASSUME EstateAssumption ==
  /\ EstateTTL \in Nat \ {0}
  /\ MaxAsgRevision \in Nat /\ LastEstDay \in Nat /\ ProfileUntil \in Nat
  /\ \A a \in AsgIds : /\ {AsgOffers[a].from, AsgOffers[a].until} \subseteq Nat
                       /\ AsgOffers[a].from < AsgOffers[a].until
  /\ "none" \notin AsgHands.approve  \* an approver is a person

VARIABLES
  estPath,     \* how the subject of this behaviour shows itself
  asg,         \* [assignment -> row]
  coming,      \* assignments checked for overlap by an open transaction
  clientRow,   \* the estate's client binding: [status, rev, changed]
  profileRow,  \* the commerce profile: [status, changed]
  attestations, \* [kind -> the last attestation of that kind]
  serving,     \* the request being served
  classified,  \* the last commerce attestation
  estDay

estVars == <<estPath, asg, coming, clientRow, profileRow, attestations, serving, classified, estDay>>

AsgAbsent == [status |-> "NONE", rev |-> 0, proposer |-> "none", approver |-> "none", changed |-> 0]
NoProof == [ref |-> "none", rev |-> 0, at |-> 0, expires |-> 0]
NotServing == [what |-> "none", step |-> "none", at |-> 0, cell |-> "none"]
NotClassified == [kind |-> "none", proof |-> NoProof, at |-> 0, expires |-> 0]
Kinds == {"assignment", "binding"}
EstPaths == {"WORKLOAD", "NATIVE_RESOURCE", "CLIENT"}
KindOf(path) == IF path = "CLIENT" THEN "binding" ELSE "assignment"
Sooner(a, b) == IF a < b THEN a ELSE b

EstateInit ==
  /\ estPath \in EstPaths
  /\ asg = [a \in AsgIds |-> AsgAbsent]
  /\ coming = {}
  /\ clientRow = [status |-> "ACTIVE", rev |-> 1, changed |-> 0]
  /\ profileRow = [status |-> "ACTIVE", changed |-> 0]
  /\ attestations = [k \in Kinds |-> NoProof]
  /\ serving = NotServing
  /\ classified = NotClassified
  /\ estDay = 1

-----------------------------------------------------------------------------
(* Governing assignments                                                   *)

ProposeEstateResourceAssignment(a, p) ==
  /\ asg[a] = AsgAbsent
  /\ asg' = [asg EXCEPT ![a] = [AsgAbsent EXCEPT !.status = "PROPOSED", !.rev = 1,
                                                 !.proposer = p, !.changed = estDay]]
  /\ UNCHANGED <<estPath, coming, clientRow, profileRow, attestations, serving, classified, estDay>>

ProposeAssignment ==
  KindOf(estPath) = "assignment" /\ \E a \in AsgIds, p \in AsgHands.write : ProposeEstateResourceAssignment(a, p)

assignmentTransitions ==
  [APPROVE |-> [from |-> {"PROPOSED"}, to |-> "ACTIVE"],
   SUSPEND |-> [from |-> {"ACTIVE"}, to |-> "SUSPENDED"],
   REINSTATE |-> [from |-> {"SUSPENDED"}, to |-> "ACTIVE"],
   REVOKE |-> [from |-> {"PROPOSED", "ACTIVE", "SUSPENDED"}, to |-> "REVOKED"]]

Activating == {"APPROVE", "REINSTATE"}

NotTheProposer(a, action, p) == action \in Activating => p # asg[a].proposer

Overlap(a, b) ==
  /\ AsgOffers[a].cells \cap AsgOffers[b].cells # {}
  /\ AsgOffers[a].from < AsgOffers[b].until /\ AsgOffers[b].from < AsgOffers[a].until

\* Mutant: two transitions of one subject run together.
SubjectUnlocked(a) == TRUE

\* the guard holds an advisory lock on the subject and engine to the end of
\* the transaction, and the row of the assignment is locked as well
SubjectLocked(a) == coming = {}

Applied(a, action, p) ==
  [asg[a] EXCEPT !.status = assignmentTransitions[action].to, !.rev = @ + 1, !.changed = estDay,
                 !.approver = IF action = "APPROVE" THEN p ELSE @]

\* SUSPEND and REVOKE take effect at once; an activation checks for overlap
\* under the lock and commits later
TransitionEstateResourceAssignment(a, action, p) ==
  /\ asg[a].rev < MaxAsgRevision
  /\ asg[a].status \in assignmentTransitions[action].from
  /\ NotTheProposer(a, action, p)
  /\ a \notin {c.id : c \in coming}
  /\ IF action \in Activating
     THEN /\ SubjectLocked(a)
          /\ \A b \in AsgIds \ {a} : ~(asg[b].status = "ACTIVE" /\ Overlap(a, b))
          /\ coming' = coming \cup {[id |-> a, action |-> action, by |-> p]}
          /\ UNCHANGED asg
     ELSE asg' = [asg EXCEPT ![a] = Applied(a, action, p)] /\ UNCHANGED coming
  /\ UNCHANGED <<estPath, clientRow, profileRow, attestations, serving, classified, estDay>>

\* approvals need the approve scope, the other changes the write scope
TransitionAssignment ==
  \E a \in AsgIds, action \in DOMAIN assignmentTransitions :
    \E p \in (IF action \in Activating THEN AsgHands.approve ELSE AsgHands.write) :
      TransitionEstateResourceAssignment(a, action, p)

CommitAssignment ==
  \E c \in coming :
    /\ coming' = coming \ {c}
    /\ asg' = [asg EXCEPT ![c.id] = Applied(c.id, c.action, c.by)]
    /\ UNCHANGED <<estPath, clientRow, profileRow, attestations, serving, classified, estDay>>

-----------------------------------------------------------------------------
(* The registry process, the issuer and time                               *)

RegistryMovesBinding ==
  /\ estPath = "CLIENT"
  /\ clientRow.status # "REVOKED" /\ clientRow.rev < MaxAsgRevision
  /\ \E s \in {"ACTIVE", "SUSPENDED", "REVOKED"} \ {clientRow.status} :
       clientRow' = [status |-> s, rev |-> clientRow.rev + 1, changed |-> estDay]
  /\ UNCHANGED <<estPath, asg, coming, profileRow, attestations, serving, classified, estDay>>

RegistryEndsProfile ==
  /\ profileRow.status = "ACTIVE"
  /\ profileRow' = [status |-> "SUSPENDED", changed |-> estDay]
  /\ UNCHANGED <<estPath, asg, coming, clientRow, attestations, serving, classified, estDay>>

EstTick ==
  /\ estDay < LastEstDay
  /\ estDay' = estDay + 1
  /\ classified' = IF estDay' < classified.expires THEN classified ELSE NotClassified
  /\ UNCHANGED <<estPath, asg, coming, clientRow, profileRow, attestations, serving>>

-----------------------------------------------------------------------------
(* Attesting.  Any refusal ends the request.                               *)

Serve(what, first, cell) ==
  /\ serving = NotServing
  /\ serving' = [what |-> what, step |-> first, at |-> estDay, cell |-> cell]
  /\ classified' = NotClassified
  /\ UNCHANGED <<estPath, asg, coming, clientRow, profileRow, attestations, estDay>>

ServeRefused ==
  /\ serving # NotServing
  /\ serving' = NotServing
  /\ UNCHANGED <<estPath, asg, coming, clientRow, profileRow, attestations, classified, estDay>>

\* the end of the evidence: a token has one, an attested configuration none
WithinEvidence(t) == IF estPath = "NATIVE_RESOURCE" THEN t ELSE Sooner(t, EvidenceEnds)

\* the token is verified and introspected, or the configuration's latest
\* attestation compared; what the issuer finds inactive is refused
SubjectVerified ==
  /\ serving.step = "subject"
  /\ estPath # "NATIVE_RESOURCE" => serving.at < EvidenceEnds
  /\ serving' = [serving EXCEPT !.step = "records"]
  /\ UNCHANGED <<estPath, asg, coming, clientRow, profileRow, attestations, classified, estDay>>

resolveAssignment == KindOf(estPath) = "assignment" /\ \E cell \in AskedCells : Serve("assignment", "subject", cell)
resolveClientBinding == estPath = "CLIENT" /\ Serve("binding", "subject", "none")

\* every assignment of the subject, in any status
EstateResourceAssignmentCandidates == {a \in AsgIds : asg[a] # AsgAbsent}

\* ambiguity is never resolved by order: several are as good as none
selectAssignment(cell, at) ==
  {a \in EstateResourceAssignmentCandidates :
                  /\ asg[a].status = "ACTIVE"
                  /\ AsgOffers[a].from <= at /\ at < AsgOffers[a].until
                  /\ cell \in AsgOffers[a].cells}

AttestedFor(a, at) == WithinEvidence(Sooner(at + EstateTTL, AsgOffers[a].until))

RecordEstateResourceAssignmentResolution ==
  /\ serving.what = "assignment" /\ serving.step = "records"
  /\ \E a \in selectAssignment(serving.cell, serving.at) :
       /\ selectAssignment(serving.cell, serving.at) = {a}
       /\ attestations' = [attestations EXCEPT !["assignment"] =
            [ref |-> a, rev |-> asg[a].rev, at |-> serving.at, expires |-> AttestedFor(a, serving.at)]]
  /\ serving' = NotServing
  /\ UNCHANGED <<estPath, asg, coming, clientRow, profileRow, classified, estDay>>

\* one binding per client here, so the choice is whether it is in force; its
\* own end does not bound the attestation
selectEstateBinding == clientRow.status = "ACTIVE"

RecordEstateClientBindingResolution ==
  /\ serving.what = "binding" /\ serving.step = "records"
  /\ selectEstateBinding
  /\ attestations' = [attestations EXCEPT !["binding"] =
       [ref |-> "client", rev |-> clientRow.rev, at |-> serving.at,
        expires |-> WithinEvidence(serving.at + EstateTTL)]]
  /\ serving' = NotServing
  /\ UNCHANGED <<estPath, asg, coming, clientRow, profileRow, classified, estDay>>

-----------------------------------------------------------------------------
(* Classifying the estate on a proof                                       *)

\* the attestation is unexpired and its assignment ACTIVE at that revision
EstateAssignmentProvenance(proof, at) ==
  /\ proof # NoProof /\ at < proof.expires
  /\ asg[proof.ref].status = "ACTIVE" /\ asg[proof.ref].rev = proof.rev

\* the attestation is no older than its longest life
EstateBindingProvenance(proof, at) ==
  /\ proof # NoProof /\ at <= proof.at + EstateTTL
  /\ clientRow.status = "ACTIVE" /\ clientRow.rev = proof.rev

resolveCommerceProfile == Serve("profile", "provenance", KindOf(estPath))

ProvenanceVerified ==
  /\ serving.step = "provenance"
  /\ IF serving.cell = "assignment"
     THEN EstateAssignmentProvenance(attestations["assignment"], serving.at)
     ELSE EstateBindingProvenance(attestations["binding"], serving.at)
  /\ serving' = [serving EXCEPT !.step = "profile"]
  /\ UNCHANGED <<estPath, asg, coming, clientRow, profileRow, attestations, classified, estDay>>

selectCommerceProfile(at) == profileRow.status = "ACTIVE" /\ at < ProfileUntil

\* never beyond the profile's effective end
ClassifiedFor(at) == Sooner(at + EstateTTL, ProfileUntil)

RecordEstateCommerceProfileResolution ==
  /\ serving.step = "profile"
  /\ selectCommerceProfile(serving.at)
  /\ classified' = [kind |-> serving.cell, proof |-> attestations[serving.cell], at |-> serving.at,
                    expires |-> ClassifiedFor(serving.at)]
  /\ serving' = NotServing
  /\ UNCHANGED <<estPath, asg, coming, clientRow, profileRow, attestations, estDay>>

EstateNext ==
  \/ ProposeAssignment \/ TransitionAssignment \/ CommitAssignment
  \/ RegistryMovesBinding \/ RegistryEndsProfile \/ EstTick
  \/ resolveAssignment \/ resolveClientBinding \/ resolveCommerceProfile
  \/ SubjectVerified \/ ProvenanceVerified \/ ServeRefused
  \/ RecordEstateResourceAssignmentResolution
  \/ RecordEstateClientBindingResolution
  \/ RecordEstateCommerceProfileResolution

EstateSpec == EstateInit /\ [][EstateNext]_estVars

-----------------------------------------------------------------------------
(* Properties                                                              *)

\* However approvals and reinstatements race, no two assignments in force
\* claim the same cell at the same time, so a lawful subject is never refused
\* as ambiguous (TransitionEstateResourceAssignment, selectAssignment).
NeverTwoEstates ==
  \A cell \in AskedCells, at \in 1..LastEstDay : Cardinality(selectAssignment(cell, at)) <= 1

\* An assignment that gives provenance was approved by someone other than the
\* person who proposed it, and no proof names one that never was in force
\* (TransitionEstateResourceAssignment).
ProofsRestOnApproval ==
  /\ \A a \in AsgIds : asg[a].status \in {"ACTIVE", "SUSPENDED"} =>
       asg[a].approver \notin {"none", asg[a].proposer}
  /\ attestations["assignment"] # NoProof => asg[attestations["assignment"].ref].approver # "none"

\* A change of the record ends every attestation made before it: an estate
\* is classified on a proof only at the revision the proof names, or the
\* record changed while the request was being served
\* (EstateAssignmentProvenance, EstateBindingProvenance).
OldProofsProveNothing ==
  classified # NotClassified =>
    IF classified.kind = "assignment"
    THEN LET row == asg[classified.proof.ref]
         IN  row.rev = classified.proof.rev \/ row.changed >= classified.at
    ELSE clientRow.rev = classified.proof.rev \/ clientRow.changed >= classified.at

\* A classification still in use rests on a profile that has not ended and
\* on records that changed less than one life ago
\* (estateCommerceProfileHandler.resolve).
ClassificationFollowsWithdrawal ==
  estDay < classified.expires =>
    /\ estDay < ProfileUntil
    /\ profileRow.status = "ACTIVE" \/ estDay < profileRow.changed + EstateTTL
    /\ classified.kind = "assignment" =>
         LET row == asg[classified.proof.ref]
         IN  row.status = "ACTIVE" \/ estDay < row.changed + EstateTTL

\* A proof is used only within its own lifetime, as the handler says of both
\* kinds of provenance.
ProofsUsedWithinLifetime ==
  classified # NotClassified => classified.at < classified.proof.expires

\* Estate provenance: never two estates for one cell, proofs rest on
\* approval, old proofs prove nothing, and a classification follows a
\* withdrawal.
EstatePromises ==
  /\ [](NeverTwoEstates /\ ProofsRestOnApproval /\ OldProofsProveNothing /\
       ClassificationFollowsWithdrawal)
=============================================================================
