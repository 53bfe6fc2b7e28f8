------------------------ MODULE FoundingGovernance ------------------------
(***************************************************************************)
(* Founding-group sponsorships and the one documentary grace period an     *)
(* operating organisation may be given: proposed by one person, granted by *)
(* another, ended by a third or by the expiry worker, with the review      *)
(* checkpoints the grace schedules and the events every change publishes.  *)
(*                                                                         *)
(* One operating organisation is modelled.  An intent and the grant it     *)
(* becomes share a row: PENDING and REJECTED are states of the intent, the *)
(* others of the grant.  Time is counted in months.                        *)
(***************************************************************************)
EXTENDS Naturals, FiniteSets

CONSTANTS
  Sponsorships,   \* [sponsorship intent -> proposed window [from, to]]
  Deferrals,      \* [deferral intent -> sponsorship it names]
  Hands,          \* [route -> people who hold it]
  Admission,      \* [month, applicant, decider] of the admission decision
  GraceMonths,    \* 24 in the code
  Milestones,     \* {6, 12, 18, 24} in the code
  SweepLimit,     \* rows one sweep takes, 50 in the code
  LastMonth       \* bound on the clock

Grants == DOMAIN Sponsorships \cup DOMAIN Deferrals

ASSUME FoundingAssumption ==
  /\ DOMAIN Sponsorships \cap DOMAIN Deferrals = {}
  /\ \A s \in DOMAIN Sponsorships : Sponsorships[s].from < Sponsorships[s].to
  /\ \A d \in DOMAIN Deferrals : Deferrals[d] \in DOMAIN Sponsorships
  /\ GraceMonths \in Milestones /\ SweepLimit \in Nat \ {0}

VARIABLES
  founding,        \* [grant -> [status, maker, checker]]
  told,            \* [grant -> status its last published event carries]
  checkpoints,     \* milestones materialised for the granted deferral
  sponsorVerified, \* the sponsor's legal profile is verified and current
  month

foundingVars == <<founding, told, checkpoints, sponsorVerified, month>>

Unclaimed == "nobody"
NoFounding == [status |-> "NONE", maker |-> Unclaimed, checker |-> Unclaimed]
Standing == {"ACTIVE", "SUSPENDED", "REVOKED", "EXPIRED"}
IsSponsorship(g) == g \in DOMAIN Sponsorships

Begins(g) == IF IsSponsorship(g) THEN Sponsorships[g].from ELSE Admission.month
Ends(g) == IF IsSponsorship(g) THEN Sponsorships[g].to
           ELSE Admission.month + GraceMonths

FoundingInit ==
  /\ founding = [g \in Grants |-> NoFounding]
  /\ told = [g \in Grants |-> "NONE"]
  /\ checkpoints = {}
  /\ sponsorVerified = TRUE
  /\ month = 0

(***************************************************************************)
(* Proposal, decision and lifecycle.                                       *)
(***************************************************************************)
validateFoundingRequest(g) == IsSponsorship(g) => Ends(g) >= month

ProposeFoundingGovernance(g, maker) ==
  /\ founding[g].status = "NONE"
  /\ validateFoundingRequest(g)
  /\ founding' = [founding EXCEPT ![g] = [@ EXCEPT !.status = "PENDING", !.maker = maker]]
  /\ UNCHANGED <<told, checkpoints, sponsorVerified, month>>

SponsorshipGrantable(s) == sponsorVerified /\ Begins(s) <= month /\ month < Ends(s)

\* The organisation's grace is unique for ever: UNIQUE (organisation_id).
NeverDeferred == \A d \in DOMAIN Deferrals : founding[d].status \notin Standing

\* founding_documentary_deferral_guard: who may approve and propose a grace.
DeferralHands(d, checker) ==
  LET sponsor == founding[Deferrals[d]] IN
  /\ founding[d].maker # sponsor.checker
  /\ checker \notin {Admission.applicant, Admission.decider,
                     sponsor.maker, sponsor.checker}

DeferralGrantable(d, checker) ==
  LET s == Deferrals[d] IN
  /\ NeverDeferred
  /\ founding[s].status = "ACTIVE"
  /\ Begins(s) <= Begins(d) /\ month < Ends(s)
  /\ Begins(d) <= month /\ month < Ends(d)
  /\ DeferralHands(d, checker)

\* A live policy classifying every named requirement is a fact of the call.
DecideFoundingGovernance(g, checker, approve) ==
  /\ founding[g].status = "PENDING"
  /\ founding[g].maker # checker
  /\ approve => IF IsSponsorship(g) THEN SponsorshipGrantable(g)
                ELSE DeferralGrantable(g, checker)
  /\ founding' = [founding EXCEPT ![g] =
       [@ EXCEPT !.status = IF approve THEN "ACTIVE" ELSE "REJECTED", !.checker = checker]]
  /\ told' = IF approve THEN [told EXCEPT ![g] = "ACTIVE"] ELSE told
  /\ UNCHANGED <<checkpoints, sponsorVerified, month>>

validateFoundingLifecycle(g, action, expected) ==
  /\ ~IsSponsorship(g) => action = "REVOKE" /\ expected = "ACTIVE"
  /\ expected = "SUSPENDED" => action = "REVOKE"

TransitionFoundingGovernance(g, checker, action, expected) ==
  /\ validateFoundingLifecycle(g, action, expected)
  /\ founding[g].status = expected
  /\ founding[g].maker # checker
  /\ LET next == IF action = "REVOKE" THEN "REVOKED" ELSE "SUSPENDED" IN
       /\ founding' = [founding EXCEPT ![g].status = next]
       /\ told' = [told EXCEPT ![g] = next]
  /\ UNCHANGED <<checkpoints, sponsorVerified, month>>

(***************************************************************************)
(* The workers.  A sweep takes the oldest due rows no other transaction    *)
(* has locked, sponsorships before deferrals, at most SweepLimit of them.  *)
(***************************************************************************)
Oldest(due, n, key(_)) ==
  {some \in SUBSET due :
     /\ Cardinality(some) = IF Cardinality(due) < n THEN Cardinality(due) ELSE n
     /\ \A a \in some, b \in due \ some : key(a) <= key(b)}

\* Mutant: a suspended sponsorship never falls due.
DueActiveOnly ==
  {s \in DOMAIN Sponsorships : founding[s].status = "ACTIVE" /\ Ends(s) <= month}

DueSponsorships ==
  {s \in DOMAIN Sponsorships : founding[s].status \in {"ACTIVE", "SUSPENDED"} /\ Ends(s) <= month}
DueDeferrals ==
  {d \in DOMAIN Deferrals : founding[d].status = "ACTIVE" /\ Ends(d) <= month}

ToldOf(expired) == [g \in Grants |-> IF g \in expired THEN "EXPIRED" ELSE told[g]]

SweepFoundingExpiry(locked) ==
  /\ (DueSponsorships \cup DueDeferrals) \ locked # {}
  /\ \E some \in Oldest(DueSponsorships \ locked, SweepLimit, Ends) :
     \E rest \in Oldest(DueDeferrals \ locked, SweepLimit - Cardinality(some), Ends) :
       /\ founding' = [g \in Grants |->
            IF g \in some \cup rest THEN [founding[g] EXCEPT !.status = "EXPIRED"]
            ELSE founding[g]]
       /\ told' = ToldOf(some \cup rest)
  /\ UNCHANGED <<checkpoints, sponsorVerified, month>>

GraceRuns(status) == status \in {"ACTIVE", "EXPIRED"}

ReviewsDue ==
  {m \in Milestones \ checkpoints :
     /\ Admission.month + m <= month
     /\ \E d \in DOMAIN Deferrals : GraceRuns(founding[d].status)}

SweepFoundingDocumentaryReviews ==
  /\ ReviewsDue # {}
  /\ \E some \in Oldest(ReviewsDue, SweepLimit, LAMBDA m : m) :
       checkpoints' = checkpoints \cup some
  /\ UNCHANGED <<founding, told, sponsorVerified, month>>

\* What the consumers of INTERNAL authority ask.
FoundingOperatingEligibility ==
  /\ sponsorVerified
  /\ \E s \in DOMAIN Sponsorships :
       founding[s].status = "ACTIVE" /\ Begins(s) <= month /\ month < Ends(s)

(***************************************************************************)
(* Routes, workers, the sponsor's own verification, the clock.             *)
(***************************************************************************)
FoundingPropose == \E g \in Grants, who \in Hands.propose : ProposeFoundingGovernance(g, who)

FoundingDecide ==
  \E g \in Grants, who \in Hands.decide, approve \in BOOLEAN :
    DecideFoundingGovernance(g, who, approve)

FoundingTransition ==
  \E g \in Grants, who \in Hands.end, action \in {"SUSPEND", "REVOKE"},
     expected \in {"ACTIVE", "SUSPENDED"} :
    TransitionFoundingGovernance(g, who, action, expected)

FoundingExpiryWorker ==
  \E locked \in SUBSET (DueSponsorships \cup DueDeferrals) : SweepFoundingExpiry(locked)

\* The sponsor's legal-entity profile is verified, is re-anchored to the shared
\* governance record (which counts as no verification here), or its
\* window begins or ends.
SponsorVerificationMoves ==
  /\ sponsorVerified' = ~sponsorVerified
  /\ UNCHANGED <<founding, told, checkpoints, month>>

MonthPasses ==
  /\ month < LastMonth
  /\ month' = month + 1
  /\ UNCHANGED <<founding, told, checkpoints, sponsorVerified>>

FoundingNext ==
  \/ FoundingPropose
  \/ FoundingDecide
  \/ FoundingTransition
  \/ FoundingExpiryWorker
  \/ SweepFoundingDocumentaryReviews
  \/ SponsorVerificationMoves
  \/ MonthPasses

FoundingSpec == FoundingInit /\ [][FoundingNext]_foundingVars

\* Both workers run every minute and a row lock is held for one command.
FoundingFairness ==
  /\ WF_foundingVars(SweepFoundingExpiry({}))
  /\ WF_foundingVars(SweepFoundingDocumentaryReviews)

(***************************************************************************)
(* Properties.                                                             *)
(***************************************************************************)

\* Whatever ends a grant, a command or the expiry worker, the last event
\* published for it tells the state its row is in.
EventsTellTheState ==
  \A g \in Grants :
    told[g] = IF founding[g].status \in Standing THEN founding[g].status ELSE "NONE"

\* The passing of time never makes an organisation eligible: eligibility
\* begins with a decision or with the sponsor's verification
\* (DecideFoundingGovernance grants nothing before its window opens).
ClockNeverGrants ==
  [][FoundingOperatingEligibility' /\ ~FoundingOperatingEligibility =>
       month' = month]_foundingVars

\* The grace is given once: after one was granted no other ever is, whether
\* the first ran out or was revoked.
GraceGivenOnce ==
  [][\A d \in DOMAIN Deferrals :
       founding'[d].status = "ACTIVE" /\ founding[d].status # "ACTIVE" =>
         \A e \in DOMAIN Deferrals : founding[e].status \notin Standing]_foundingVars

\* Six hands: a grace rests on a proposal and an approval of a sponsorship,
\* an application and its admission, and its approver had no part in any.
GraceApprovedByAnOutsider ==
  \A d \in DOMAIN Deferrals :
    founding[d].status \in Standing =>
      /\ founding[d].checker \notin
           {founding[d].maker, Admission.applicant, Admission.decider,
            founding[Deferrals[d]].maker, founding[Deferrals[d]].checker}
      /\ founding[d].maker # founding[Deferrals[d]].checker

\* A grant whose window has ended leaves the states that count as current.
ExpiryIsRecorded ==
  \A g \in Grants :
    (founding[g].status \in {"ACTIVE", "SUSPENDED"} /\ Ends(g) <= month)
      ~> (founding[g].status \in {"REVOKED", "EXPIRED"})

\* Every milestone that has passed gets its review checkpoint, also after
\* the grace itself ran out, unless the grace is revoked.
MilestonesAreReviewed ==
  \A m \in Milestones :
    (/\ \E d \in DOMAIN Deferrals : founding[d].status \in {"ACTIVE", "EXPIRED"}
     /\ Admission.month + m <= month)
      ~> (\/ m \in checkpoints
          \/ \A d \in DOMAIN Deferrals : founding[d].status \notin {"ACTIVE", "EXPIRED"})

\* Founding governance: events tell the state, grace is approved by an
\* outsider and given once, the clock grants nothing, and expiry and
\* milestones are acted on in the end.
FoundingPromises ==
  /\ [](EventsTellTheState /\ GraceApprovedByAnOutsider)
  /\ ClockNeverGrants
  /\ GraceGivenOnce
  /\ ExpiryIsRecorded
  /\ MilestonesAreReviewed
=============================================================================
