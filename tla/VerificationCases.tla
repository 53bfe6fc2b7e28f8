------------------------- MODULE VerificationCases -------------------------
(***************************************************************************)
(* Evidence verification: cases, claims, checks, results, discrepancies    *)
(* (internal/repository/postgres_verification.go, internal/verification),  *)
(* the applicant's own claims (postgres_applicant_claims.go), observations *)
(* of the company registry (postgres_authoritative_source_observation.go)  *)
(* and two-person portal witnesses (postgres_assisted_official_witness.go).*)
(*                                                                         *)
(* A behaviour concerns the cases of one subject, an APPLICATION or an     *)
(* ORGANISATION, chosen initially.  Cases are numbered in the order they   *)
(* were opened.  Every command locks its case first, so each is one step;  *)
(* the applicant's create reads its idempotency key before that.           *)
(***************************************************************************)
EXTENDS Naturals, FiniteSets, Sequences

CONSTANTS ApplicantCalls,  \* create requests of the applicant, retries included
          CallKeyOf,       \* [ApplicantCalls -> idempotency key]
          Applicant,
          ReviewerClaims,  \* ids of the claims reviewers may add
          Verifiers,       \* principals with review authority
          Asserters,       \* the reviewers among them who add claims
          KindsOf,         \* kinds of claim reviewers add, by kind of subject
          Sources,         \* registered sources that checks name
          Disputes,        \* ids of discrepancies
          EvidenceIds, ObservationKeys,
          SourceOf,        \* [EvidenceIds -> the source the evidence is from]
          MaxCases, MaxChecks

VARIABLES subject, editable, vcases, claims, adding, checks, disputes,
          proofs, observations, witness

verVars == <<subject, editable, vcases, claims, adding, checks, disputes,
             proofs, observations, witness>>

ClaimIds == ApplicantCalls \cup ReviewerClaims
NoClaim == [case |-> 0, by |-> "", kind |-> "", status |-> "NONE", decidedBy |-> ""]
NoWitness == [claim |-> "", evidence |-> "", by |-> "", outcome |-> "NONE", checker |-> "",
              fresh |-> FALSE]

Outcomes == {"VERIFIED", "PARTIALLY_VERIFIED", "NOT_VERIFIED", "CONFLICTED"}

\* The reviewer's and the platform's moves of the case machine that the code issues.
CaseMoves ==
  { <<"start_collection", "DRAFT", "COLLECTING_EVIDENCE">>,
    <<"submit", "COLLECTING_EVIDENCE", "READY_FOR_REVIEW">>,
    <<"begin_verification", "READY_FOR_REVIEW", "VERIFYING">>,
    <<"request_information", "VERIFYING", "INFORMATION_REQUIRED">>,
    <<"respond", "INFORMATION_REQUIRED", "VERIFYING">>,
    <<"conflict", "VERIFYING", "CONFLICTED">>,
    <<"resume", "CONFLICTED", "VERIFYING">>,
    <<"complete_verified", "VERIFYING", "VERIFIED">>,
    <<"complete_not_verified", "VERIFYING", "NOT_VERIFIED">> }
  \cup { <<"cancel", s, "CANCELLED">> :
           s \in {"DRAFT", "COLLECTING_EVIDENCE", "READY_FOR_REVIEW", "VERIFYING",
                  "INFORMATION_REQUIRED", "CONFLICTED"} }

\* record_result of the claim machine, for a reviewer.
ResultMoves ==
  ({"UNDER_VERIFICATION"} \X Outcomes)
  \cup ({"VERIFIED"} \X {"PARTIALLY_VERIFIED", "NOT_VERIFIED", "CONFLICTED"})
  \cup {<<"PARTIALLY_VERIFIED", "VERIFIED">>, <<"NOT_VERIFIED", "VERIFIED">>,
        <<"CONFLICTED", "VERIFIED">>, <<"CONFLICTED", "NOT_VERIFIED">>}

\* resolve, accept_exception and dismiss all close.
DisputeMoves == {<<"OPEN", "UNDER_REVIEW">>, <<"UNDER_REVIEW", "CLOSED">>}

\* evidence_claim's withdraw: never once a result stands.
WithdrawableFrom == {"SELF_ASSERTED", "UNDER_VERIFICATION"}
CaseTerminal == {"NOT_VERIFIED", "CANCELLED", "SUPERSEDED", "EXPIRED"}
ClaimTerminal == {"WITHDRAWN", "SUPERSEDED", "REVOKED"}
CaseOpen(status) == status \notin CaseTerminal \cup {"VERIFIED"}
caseEnding(status) == status \in CaseTerminal \cup {"VERIFIED"}
InitialClaimStatus(origin) ==
  IF origin = "APPLICANT" THEN "SELF_ASSERTED" ELSE "UNDER_VERIFICATION"

\* The content of superseded evidence stays open to reviewers.
ContentAccessible == {"AVAILABLE", "SUPERSEDED"}

\* A registry claim of an application is Ugandan, of an organisation South
\* African; the tax sources are SUSPENDED, so they support no check and no
\* evidence is registered from them any more.
Active(source) == source \in {"esrc_ursb", "esrc_cipc", "esrc_applicant"}
Trusts(source, claim) ==
  /\ claim.kind = "registry"
  /\ source = IF subject = "ORGANISATION" THEN "esrc_cipc" ELSE "esrc_ursb"

ClaimsOf(c) == {id \in ClaimIds : claims[id].case = c}
OpenDisputes(c) ==
  {d \in Disputes : disputes[d].case = c /\ disputes[d].status \in {"OPEN", "UNDER_REVIEW"}}

VerInit ==
  /\ subject \in {"APPLICATION", "ORGANISATION"}
  /\ editable = TRUE
  /\ vcases = << >>
  /\ claims = [id \in ClaimIds |-> NoClaim]
  /\ adding = [call \in ApplicantCalls |-> "idle"]
  /\ checks = {}
  /\ disputes = [d \in Disputes |-> [case |-> 0, status |-> "NONE"]]
  /\ proofs = [e \in EvidenceIds |->
                IF subject = "ORGANISATION" /\ ~Active(SourceOf[e]) THEN "AVAILABLE" ELSE "NONE"]
  /\ observations = {}
  /\ witness = NoWitness

-----------------------------------------------------------------------------
(* Cases *)

OpenVerificationCase ==
  /\ Len(vcases) < MaxCases
  /\ vcases' = Append(vcases, "DRAFT")
  /\ UNCHANGED <<subject, editable, claims, adding, checks, disputes, proofs, observations, witness>>

\* Leaving a conflict, or concluding otherwise than by cancelling, needs every
\* discrepancy of the case closed.
DiscrepanciesClosed(c, command, next) ==
  (command = "resume" \/ (caseEnding(next) /\ command # "cancel")) => OpenDisputes(c) = {}

Standing(c) == {id \in ClaimsOf(c) : claims[id].status \notin {"WITHDRAWN", "SUPERSEDED"}}

\* Mutant: a case concludes when nothing is refuted.
ConcludableUnlessRefuted(c) ==
  \A id \in Standing(c) : claims[id].status \notin {"NOT_VERIFIED", "CONFLICTED"}

Concludable(c) ==
  /\ Standing(c) # {}
  /\ \A id \in Standing(c) : claims[id].status = "VERIFIED"

TransitionVerificationCase(c) ==
  \E m \in CaseMoves :
    /\ m[2] = vcases[c]
    /\ DiscrepanciesClosed(c, m[1], m[3])
    /\ m[3] = "VERIFIED" => Concludable(c)
    /\ vcases' = [vcases EXCEPT ![c] = m[3]]
    /\ UNCHANGED <<subject, editable, claims, adding, checks, disputes, proofs, observations, witness>>

caseCommand == \E c \in DOMAIN vcases : TransitionVerificationCase(c)

-----------------------------------------------------------------------------
(* Claims *)

insertClaim(id, c, by, kind, origin) ==
  claims' = [claims EXCEPT ![id] = [case |-> c, by |-> by, kind |-> kind,
                                    status |-> InitialClaimStatus(origin), decidedBy |-> ""]]

AddVerificationClaim(id, c, by, kind) ==
  /\ claims[id] = NoClaim
  /\ CaseOpen(vcases[c])
  /\ insertClaim(id, c, by, kind, "REVIEWER")
  /\ UNCHANGED <<subject, editable, vcases, adding, checks, disputes, proofs, observations, witness>>

addClaim ==
  \E id \in ReviewerClaims, c \in DOMAIN vcases, by \in Asserters, kind \in KindsOf[subject] :
    AddVerificationClaim(id, c, by, kind)

\* The handler's look-up of the key, on no lock.
CreatedWith(key) == {call \in ApplicantCalls : CallKeyOf[call] = key /\ claims[call] # NoClaim}

createApplicantClaim(call) ==
  /\ subject = "APPLICATION"
  /\ adding[call] = "idle"
  /\ adding' = [adding EXCEPT ![call] =
       IF CreatedWith(CallKeyOf[call]) # {} THEN "answered" ELSE "looked"]
  /\ UNCHANGED <<subject, editable, vcases, claims, checks, disputes, proofs, observations, witness>>

\* The unique index on (asserted_by, create_idempotency_key).
KeyFree(key) == CreatedWith(key) = {}

AddApplicantClaim(call) ==
  /\ adding[call] = "looked"
  /\ editable
  /\ KeyFree(CallKeyOf[call])
  /\ LET opened == IF vcases = << >> THEN <<"DRAFT">> ELSE vcases
         c == Len(opened)
     IN /\ CaseOpen(opened[c])
        /\ vcases' = opened
        /\ insertClaim(call, c, Applicant, "registry", "APPLICANT")
  /\ adding' = [adding EXCEPT ![call] = "answered"]
  /\ UNCHANGED <<subject, editable, checks, disputes, proofs, observations, witness>>

\* Not editable, the case concluded, or the key taken meanwhile: nothing is
\* kept, and the applicant may retry.
RefusedApplicantClaim(call) ==
  /\ adding[call] = "looked"
  /\ \/ ~editable
     \/ ~KeyFree(CallKeyOf[call])
     \/ vcases # << >> /\ ~CaseOpen(vcases[Len(vcases)])
  /\ adding' = [adding EXCEPT ![call] = "idle"]
  /\ UNCHANGED <<subject, editable, vcases, claims, checks, disputes, proofs, observations, witness>>

\* Submission, a question back and the answer to it (ClientApplications).
ApplicationMoves ==
  /\ subject = "APPLICATION"
  /\ editable' = ~editable
  /\ UNCHANGED <<subject, vcases, claims, adding, checks, disputes, proofs, observations, witness>>

WithdrawApplicantClaim(id) ==
  /\ claims[id].by = Applicant
  /\ claims[id].status \in WithdrawableFrom
  /\ claims' = [claims EXCEPT ![id].status = "WITHDRAWN"]
  /\ UNCHANGED <<subject, editable, vcases, adding, checks, disputes, proofs, observations, witness>>

withdraw == \E id \in ApplicantCalls : WithdrawApplicantClaim(id)

OpenClaimVerification(id) ==
  /\ claims[id].status = "SELF_ASSERTED"
  /\ CaseOpen(vcases[claims[id].case])
  /\ claims' = [claims EXCEPT ![id].status = "UNDER_VERIFICATION"]
  /\ UNCHANGED <<subject, editable, vcases, adding, checks, disputes, proofs, observations, witness>>

openClaimVerification == \E id \in ClaimIds : OpenClaimVerification(id)

-----------------------------------------------------------------------------
(* Observations of the company registry *)

RegisterEvidence(e, supersedes) ==
  /\ Active(SourceOf[e])
  /\ proofs[e] = "NONE"
  /\ supersedes \in {"", e} \cup {p \in EvidenceIds : proofs[p] = "AVAILABLE"}
  /\ supersedes # e
  /\ proofs' = [p \in EvidenceIds |-> IF p = e THEN "AVAILABLE"
                                      ELSE IF p = supersedes THEN "SUPERSEDED" ELSE proofs[p]]
  /\ UNCHANGED <<subject, editable, vcases, claims, adding, checks, disputes, observations, witness>>

registerEvidence ==
  /\ subject = "ORGANISATION"
  /\ \E e \in EvidenceIds, s \in EvidenceIds \cup {""} : RegisterEvidence(e, s)

\* A match of the claim, from a source trusted for it, fresh when recorded.
ValidateAuthoritativeObservation(id) == Trusts("esrc_cipc", claims[id])

RecordAuthoritativeSourceObservation(id, e, key) ==
  /\ \A o \in observations : o.key # key
  /\ claims[id].status = "UNDER_VERIFICATION"
  /\ vcases[claims[id].case] = "VERIFYING"
  /\ ValidateAuthoritativeObservation(id)
  /\ proofs[e] = "AVAILABLE" /\ SourceOf[e] = "esrc_cipc"
  /\ observations' = observations \cup {[claim |-> id, evidence |-> e, key |-> key, fresh |-> TRUE]}
  /\ UNCHANGED <<subject, editable, vcases, claims, adding, checks, disputes, proofs, witness>>

Capture ==
  /\ subject = "ORGANISATION"
  /\ \E id \in ClaimIds, e \in EvidenceIds, key \in ObservationKeys :
       RecordAuthoritativeSourceObservation(id, e, key)

\* freshness_until passes.
ObservationLapses ==
  \E o \in observations :
    /\ o.fresh
    /\ observations' = (observations \ {o}) \cup {[o EXCEPT !.fresh = FALSE]}
    /\ UNCHANGED <<subject, editable, vcases, claims, adding, checks, disputes, proofs, witness>>

-----------------------------------------------------------------------------
(* Checks and results *)

\* Current observations of the claim whose evidence is still AVAILABLE.
BoundObservations(id) ==
  {o \in observations : o.claim = id /\ o.fresh /\ proofs[o.evidence] = "AVAILABLE"}

\* A positive check against the company registry needs exactly one, and cites
\* its evidence.
boundCIPCCheck(id, source, positive, cited) ==
  source = "esrc_cipc" /\ positive =>
    /\ Cardinality(BoundObservations(id)) = 1
    /\ cited = {o.evidence : o \in BoundObservations(id)}

\* The evidence cited is there and from the source consulted, and a positive
\* check cites only what reviewers may open.
ValidateCheck(claim, performer, source, positive, cited) ==
  /\ performer # claim.by
  /\ Active(source)
  /\ \A e \in cited : /\ proofs[e] # "NONE" /\ SourceOf[e] = source
                      /\ positive => proofs[e] \in ContentAccessible

RecordVerificationCheck(id, performer, source, positive, cited) ==
  /\ claims[id] # NoClaim
  /\ vcases[claims[id].case] = "VERIFYING"
  /\ claims[id].status \notin ClaimTerminal
  /\ boundCIPCCheck(id, source, positive, cited)
  /\ ValidateCheck(claims[id], performer, source, positive, cited)
  /\ Cardinality(checks) < MaxChecks
  /\ checks' = checks \cup {[claim |-> id, by |-> performer, source |-> source,
                             positive |-> positive, evidence |-> cited]}
  /\ UNCHANGED <<subject, editable, vcases, claims, adding, disputes, proofs, observations, witness>>

recordCheck ==
  \E id \in ClaimIds, p \in Verifiers, s \in Sources, positive \in BOOLEAN, cited \in SUBSET EvidenceIds :
    RecordVerificationCheck(id, p, s, positive, cited)

\* VERIFIED rests on a cited positive check from a source trusted for the claim.
ValidateResult(id, decider, outcome, cited) ==
  /\ decider # claims[id].by
  /\ outcome = "VERIFIED" => \E k \in cited : k.positive /\ Trusts(k.source, claims[id])

RecordVerificationResult(id, decider, outcome, cited) ==
  LET c == claims[id].case IN
  /\ claims[id] # NoClaim
  /\ vcases[c] \in {"VERIFYING", "CONFLICTED"}
  /\ cited \subseteq {k \in checks : k.claim = id}
  /\ ValidateResult(id, decider, outcome, cited)
  /\ <<claims[id].status, outcome>> \in ResultMoves
  /\ claims' = [claims EXCEPT ![id].status = outcome, ![id].decidedBy = decider]
  /\ vcases' = IF outcome = "CONFLICTED" /\ vcases[c] = "VERIFYING"
               THEN [vcases EXCEPT ![c] = "CONFLICTED"] ELSE vcases
  /\ UNCHANGED <<subject, editable, adding, checks, disputes, proofs, observations, witness>>

recordResult ==
  \E id \in ClaimIds, d \in Verifiers, o \in Outcomes, cited \in SUBSET checks :
    RecordVerificationResult(id, d, o, cited)

-----------------------------------------------------------------------------
(* Discrepancies *)

RecordEvidenceDiscrepancy(d, c, sources) ==
  /\ Cardinality(sources) >= 2 /\ \A s \in sources : Active(s)
  /\ disputes[d].case = 0
  /\ CaseOpen(vcases[c])
  /\ disputes' = [disputes EXCEPT ![d] = [case |-> c, status |-> "OPEN"]]
  /\ UNCHANGED <<subject, editable, vcases, claims, adding, checks, proofs, observations, witness>>

recordDiscrepancy ==
  \E d \in Disputes, c \in DOMAIN vcases, s \in SUBSET Sources : RecordEvidenceDiscrepancy(d, c, s)

TransitionEvidenceDiscrepancy(d) ==
  \E m \in DisputeMoves :
    /\ disputes[d].status = m[1]
    /\ disputes' = [disputes EXCEPT ![d].status = m[2]]
    /\ UNCHANGED <<subject, editable, vcases, claims, adding, checks, proofs, observations, witness>>

discrepancyCommand == \E d \in Disputes : TransitionEvidenceDiscrepancy(d)

-----------------------------------------------------------------------------
(* Two-person witness of a tax portal *)

ProposeAssistedWitness(id, e, person) ==
  /\ witness = NoWitness
  /\ subject = "ORGANISATION"
  /\ claims[id].status = "UNDER_VERIFICATION" /\ claims[id].kind = "tax"
  /\ vcases[claims[id].case] = "VERIFYING"
  /\ claims[id].by # person
  /\ proofs[e] = "AVAILABLE" /\ SourceOf[e] = "esrc_sarsvat"
  /\ witness' = [claim |-> id, evidence |-> e, by |-> person, outcome |-> "PENDING", checker |-> "", fresh |-> TRUE]
  /\ UNCHANGED <<subject, editable, vcases, claims, adding, checks, disputes, proofs, observations>>

proposeWitness ==
  \E id \in ClaimIds, e \in EvidenceIds, p \in Verifiers : ProposeAssistedWitness(id, e, p)

ValidateAssistedApproval(checker) == witness.fresh /\ checker # witness.by

DecideAssistedWitness(checker, outcome) ==
  /\ witness.outcome = "PENDING"
  /\ ValidateAssistedApproval(checker)
  /\ claims[witness.claim].by # checker
  /\ claims[witness.claim].status = "UNDER_VERIFICATION"
  /\ outcome = "ATTESTED" =>
       /\ vcases[claims[witness.claim].case] = "VERIFYING"
       /\ proofs[witness.evidence] = "AVAILABLE"
  /\ witness' = [witness EXCEPT !.outcome = outcome, !.checker = checker]
  /\ UNCHANGED <<subject, editable, vcases, claims, adding, checks, disputes, proofs, observations>>

decideWitness ==
  \E p \in Verifiers, o \in {"ATTESTED", "REJECTED"} : DecideAssistedWitness(p, o)

WitnessLapses ==
  /\ witness.fresh /\ witness.outcome = "PENDING"
  /\ witness' = [witness EXCEPT !.fresh = FALSE]
  /\ UNCHANGED <<subject, editable, vcases, claims, adding, checks, disputes, proofs, observations>>

-----------------------------------------------------------------------------
VerNext ==
  \/ OpenVerificationCase \/ caseCommand
  \/ addClaim \/ openClaimVerification \/ withdraw \/ ApplicationMoves
  \/ \E call \in ApplicantCalls :
       createApplicantClaim(call) \/ AddApplicantClaim(call) \/ RefusedApplicantClaim(call)
  \/ registerEvidence \/ Capture \/ ObservationLapses
  \/ recordCheck \/ recordResult
  \/ recordDiscrepancy \/ discrepancyCommand
  \/ proposeWitness \/ decideWitness \/ WitnessLapses

VerSpec == VerInit /\ [][VerNext]_verVars

-----------------------------------------------------------------------------
(* A retried create adds one claim per idempotency key however its look-up  *)
(* interleaves (the unique index behind AddApplicantClaim), and a claim     *)
(* that exists names an opened case.                                        *)
RetriedClaimAddedOnce ==
  /\ \A a, b \in ApplicantCalls :
       CallKeyOf[a] = CallKeyOf[b] /\ claims[a] # NoClaim /\ claims[b] # NoClaim => a = b
  /\ \A id \in ClaimIds : claims[id] # NoClaim => claims[id].case \in DOMAIN vcases

(* A VERIFIED case rests on VERIFIED claims only, at least one, and has no  *)
(* open discrepancy, for as long as it is VERIFIED: claims may not be       *)
(* added, withdrawn or re-decided, nor discrepancies raised, behind the     *)
(* conclusion (TransitionVerificationCase and the guards of every other     *)
(* command).                                                                *)
VerifiedCaseIsWhole ==
  \A c \in DOMAIN vcases : vcases[c] = "VERIFIED" =>
    LET standing == {id \in ClaimIds : claims[id].case = c /\ claims[id].status # "WITHDRAWN"} IN
    /\ standing # {}
    /\ \A id \in standing : claims[id].status = "VERIFIED"
    /\ \A d \in Disputes : disputes[d].case = c => disputes[d].status \notin {"OPEN", "UNDER_REVIEW"}

(* Nobody verifies their own claim: a VERIFIED claim was decided by another *)
(* principal and rests on a positive check, by another principal, of a      *)
(* source trusted for it; a positive check against the company registry     *)
(* cites the evidence of an observation of that registry about the claim    *)
(* (RecordVerificationCheck, RecordVerificationResult).                     *)
VerifiedByAnothersProof ==
  /\ \A id \in ClaimIds : claims[id].status = "VERIFIED" =>
       /\ claims[id].decidedBy \notin {"", claims[id].by}
       /\ \E k \in checks :
            /\ k.claim = id /\ k.by # claims[id].by /\ k.positive
            /\ claims[id].kind = "registry" /\ k.source \in {"esrc_cipc", "esrc_ursb"}
  /\ \A k \in checks : k.source = "esrc_cipc" /\ k.positive =>
       \E o \in observations : o.claim = k.claim /\ k.evidence = {o.evidence}

(* An attested portal witness was given and attested by two people, neither *)
(* of whom asserted the claim, and attesting never verified anything: a tax *)
(* claim is not VERIFIED (Propose/DecideAssistedWitness).                   *)
WitnessedByTwo ==
  witness.outcome = "ATTESTED" =>
    /\ witness.by # witness.checker
    /\ claims[witness.claim].by \notin {witness.by, witness.checker}
    /\ claims[witness.claim].status # "VERIFIED"

(* Once a case has concluded, its claims gain and lose nothing but by the   *)
(* applicant's withdrawal of a claim nobody decided, and no check or        *)
(* discrepancy joins it.                                                    *)
ConcludedCasesStand ==
  [][\A c \in DOMAIN vcases : vcases[c] \in {"VERIFIED", "NOT_VERIFIED", "CANCELLED"} =>
       /\ vcases'[c] = vcases[c]
       /\ \A id \in ClaimIds : c \in {claims[id].case, claims'[id].case} =>
            \/ claims'[id] = claims[id]
            \/ claims'[id].status = "WITHDRAWN" /\ claims[id].decidedBy = ""
       /\ \A k \in checks' \ checks : claims[k.claim].case # c
       /\ \A d \in Disputes : disputes'[d].case = c => disputes[d].case = c]_verVars

\* Verification cases: a retried claim is added once, a verified case is
\* whole and rests on another's proof, two people witness an assisted
\* observation, and concluded cases stand.
VerificationPromises ==
  /\ [](RetriedClaimAddedOnce /\ VerifiedCaseIsWhole /\ VerifiedByAnothersProof /\
       WitnessedByTwo)
  /\ ConcludedCasesStand
=============================================================================
