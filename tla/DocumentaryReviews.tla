------------------------- MODULE DocumentaryReviews -------------------------
(***************************************************************************)
(* The review of one documentary checkpoint of the founding grace          *)
(* (internal/store/postgres/peo02_governed_documentary_reviews.go and      *)
(* peo02_documentary_restriction_release.go).  A reviewer's assessment is  *)
(* decided by somebody else, who may restrict the scopes of unresolved     *)
(* requirements.  The decision can be appealed once; only an appeal that   *)
(* returns the review lets the checkpoint be assessed again.  Neither      *)
(* lifts a restriction: that takes a release, proposed and approved by     *)
(* two people who had no part in it, on evidence that is verified and      *)
(* fresh, and the restriction is back as soon as the evidence is not.      *)
(*                                                                         *)
(* Every command is one transaction under advisory locks and is one        *)
(* action, except the approval of a release, which verifies the evidence   *)
(* before it takes the restriction's lock.  A command repeated with its    *)
(* idempotency key changes nothing and is not an action.                   *)
(***************************************************************************)
EXTENDS Naturals, FiniteSets, Sequences

CONSTANTS
  Requirements,       \* the documentary requirements the deferral postponed
  ReviewRoster,       \* who may take each part: a set of people per part
  PolicyApprover,     \* [Requirements -> who approved its classification in the policy]
  SourceApprover,     \* [Requirements -> who approved the source policy for it]
  EvidenceVerifier,   \* who decided the verification results
  MaxRevisions,       \* revisions of the review explored (the code stops at 16)
  MaxResults,         \* verification results explored per requirement
  MaxIntents          \* release intents explored

ASSUME ReviewsAssumption ==
  MaxRevisions \in 1..16 /\ MaxResults \in Nat /\ MaxIntents \in Nat

VARIABLES
  reviews,      \* the revisions of the review, in order
  evidence,     \* per requirement: the claim's current result, and whether it is fresh
  releases,     \* release intents, with their decisions
  approving     \* approvals that verified the evidence and wait for the lock

reviewVars == <<reviews, evidence, releases, approving>>

Noone == "nobody"

ASSUME RosterOfReviews ==
  \A part \in {"propose", "decide", "appeal", "judge", "release", "approve"} :
    part \in DOMAIN ReviewRoster /\ Noone \notin ReviewRoster[part]

Returned(r) == r.outcome = "RETURN_FOR_REASSESSMENT"

NewReview(actor, unresolved) ==
  [maker |-> actor, unresolved |-> unresolved, checker |-> Noone, restricted |-> {},
   appellant |-> Noone, judge |-> Noone, outcome |-> "none"]

\* A restriction: a requirement held back by the decision on a revision.
Restrictions == { x \in (1..Len(reviews)) \X Requirements : x[2] \in reviews[x[1]].restricted }

ReviewsInit ==
  /\ reviews = <<>>
  /\ evidence = [q \in Requirements |-> [result |-> 0, fresh |-> FALSE]]
  /\ releases = {}
  /\ approving = {}

(***************************************************************************)
(* The review and its appeal.                                              *)
(***************************************************************************)
\* Mutant: a decided review may be revised without an appeal.
ReopenedWhenDecided == reviews # <<>> => reviews[Len(reviews)].checker # Noone

\* A further revision needs the latest one's decision appealed and returned.
Reopened == reviews # <<>> => Returned(reviews[Len(reviews)])

\* ProposeDocumentaryReview: the assessment says which requirements are
\* unresolved; its author approved the classification of none.
ProposeDocumentaryReview(actor, unresolved) ==
  /\ \A q \in Requirements : actor # PolicyApprover[q]
  /\ Reopened
  /\ Len(reviews) < MaxRevisions
  /\ reviews' = Append(reviews, NewReview(actor, unresolved))
  /\ UNCHANGED <<evidence, releases, approving>>

Restrictable(r) == r.unresolved

\* DecideDocumentaryReview: no restriction (ASSESSMENT_INCOMPLETE), or some of
\* the requirements the assessment left unresolved (REMEDIATION_REQUIRED).
DecideDocumentaryReview(actor, n, restricted) ==
  /\ n \in 1..Len(reviews)
  /\ reviews[n].checker = Noone
  /\ actor # reviews[n].maker
  /\ restricted \subseteq Restrictable(reviews[n])
  /\ reviews' = [reviews EXCEPT ![n].checker = actor, ![n].restricted = restricted]
  /\ UNCHANGED <<evidence, releases, approving>>

FileDocumentaryReviewAppeal(actor, n) ==
  /\ n \in 1..Len(reviews)
  /\ reviews[n].checker \notin {Noone, actor}
  /\ reviews[n].appellant = Noone
  /\ reviews' = [reviews EXCEPT ![n].appellant = actor]
  /\ UNCHANGED <<evidence, releases, approving>>

AppealOutsider(actor, r) == actor \notin {r.appellant, r.checker, r.maker}

DecideDocumentaryReviewAppeal(actor, n, outcome) ==
  /\ n \in 1..Len(reviews)
  /\ reviews[n].appellant # Noone
  /\ reviews[n].judge = Noone
  /\ AppealOutsider(actor, reviews[n])
  /\ reviews' = [reviews EXCEPT ![n].judge = actor, ![n].outcome = outcome]
  /\ UNCHANGED <<evidence, releases, approving>>

(***************************************************************************)
(* The evidence: RecordVerificationResult makes a VERIFIED result the      *)
(* claim's current one, and it lapses at its freshness_until.  A result    *)
(* of another outcome supersedes the earlier one as a lapsed one does.     *)
(***************************************************************************)
ResultRecorded(q) ==
  /\ evidence[q].result < MaxResults
  /\ evidence' = [evidence EXCEPT ![q] = [result |-> @.result + 1, fresh |-> TRUE]]
  /\ UNCHANGED <<reviews, releases, approving>>

ResultLapses(q) ==
  /\ evidence[q].fresh
  /\ evidence' = [evidence EXCEPT ![q].fresh = FALSE]
  /\ UNCHANGED <<reviews, releases, approving>>

Holds(q, result) == evidence[q] = [result |-> result, fresh |-> TRUE]

(***************************************************************************)
(* Restrictions in force, and their release.                               *)
(***************************************************************************)
\* The view active_documentary_remediation_restriction leaves out a
\* restriction while an approved release of it rests on a current, fresh result.
Lifted(restriction) ==
  \E x \in releases :
    x.restriction = restriction /\ x.outcome = "APPROVE" /\ Holds(restriction[2], x.result)

ActiveRestrictions == { x \in Restrictions : ~Lifted(x) }

DocumentaryScopeBlocked(q) == \E x \in ActiveRestrictions : x[2] = q

\* The actor had no part in the review, the policies or the verification.
Uninvolved(actor, r, q) ==
  actor \notin {r.maker, r.checker, SourceApprover[q], PolicyApprover[q], EvidenceVerifier}

documentaryReleaseVerified(actor, restriction, result) ==
  /\ restriction \in ActiveRestrictions
  /\ result > 0
  /\ Holds(restriction[2], result)
  /\ Uninvolved(actor, reviews[restriction[1]], restriction[2])

ProposeDocumentaryRelease(actor, restriction) ==
  LET result == evidence[restriction[2]].result
      intent == [restriction |-> restriction, result |-> result, maker |-> actor,
                 outcome |-> "none", checker |-> Noone]
  IN /\ Cardinality(releases) < MaxIntents
     /\ documentaryReleaseVerified(actor, restriction, result)
     /\ releases' = releases \union {intent}
     /\ UNCHANGED <<reviews, evidence, approving>>

RejectDocumentaryRelease(actor, x) ==
  /\ x.outcome = "none"
  /\ actor # x.maker
  /\ ~ \E a \in approving : a.intent = x
  /\ releases' = (releases \ {x}) \union {[x EXCEPT !.outcome = "REJECT", !.checker = actor]}
  /\ UNCHANGED <<reviews, evidence, approving>>

\* The first half of an approval, under the intent's row lock.
VerifyDocumentaryRelease(actor, x) ==
  /\ x.outcome = "none"
  /\ actor # x.maker
  /\ ~ \E a \in approving : a.intent = x
  /\ documentaryReleaseVerified(actor, x.restriction, x.result)
  /\ approving' = approving \union {[intent |-> x, actor |-> actor]}
  /\ UNCHANGED <<reviews, evidence, releases>>

\* Under the restriction's lock: it is still held, and this result released
\* it never before (the unique index on restriction and result).
StillHeld(x) ==
  /\ x.restriction \in ActiveRestrictions
  /\ ~ \E y \in releases : y.restriction = x.restriction /\ y.result = x.result /\ y.outcome = "APPROVE"

\* The second half: the approval is recorded, or the transaction rolls back.
ApproveDocumentaryRelease(a) ==
  LET x == a.intent
  IN /\ approving' = approving \ {a}
     /\ releases' = IF StillHeld(x)
                    THEN (releases \ {x}) \union {[x EXCEPT !.outcome = "APPROVE", !.checker = a.actor]}
                    ELSE releases
     /\ UNCHANGED <<reviews, evidence>>

(***************************************************************************)
(* The HTTP handlers.                                                      *)
(***************************************************************************)
ReviewPropose ==
  \E actor \in ReviewRoster.propose, u \in SUBSET Requirements : ProposeDocumentaryReview(actor, u)
ReviewDecide ==
  \E actor \in ReviewRoster.decide, n \in 1..MaxRevisions, q \in SUBSET Requirements :
    DecideDocumentaryReview(actor, n, q)
ReviewAppeal ==
  \E actor \in ReviewRoster.appeal, n \in 1..MaxRevisions : FileDocumentaryReviewAppeal(actor, n)
ReviewAppealDecision ==
  \E actor \in ReviewRoster.judge, n \in 1..MaxRevisions, o \in {"UPHOLD", "RETURN_FOR_REASSESSMENT"} :
    DecideDocumentaryReviewAppeal(actor, n, o)
ReleasePropose ==
  \E actor \in ReviewRoster.release, x \in Restrictions : ProposeDocumentaryRelease(actor, x)
ReleaseDecide ==
  \E actor \in ReviewRoster.approve, x \in releases :
    VerifyDocumentaryRelease(actor, x) \/ RejectDocumentaryRelease(actor, x)

ReviewsNext ==
  \/ ReviewPropose \/ ReviewDecide \/ ReviewAppeal \/ ReviewAppealDecision
  \/ ReleasePropose \/ ReleaseDecide
  \/ \E a \in approving : ApproveDocumentaryRelease(a)
  \/ \E q \in Requirements : ResultRecorded(q) \/ ResultLapses(q)

ReviewsSpec == ReviewsInit /\ [][ReviewsNext]_reviewVars

(***************************************************************************)
(* Properties                                                              *)
(***************************************************************************)
\* The revisions of a checkpoint form one chain: at most the last of them is
\* undecided, every earlier one was decided, appealed by somebody other than
\* its checker and returned by somebody who took no part in it.
OneOpenRevision ==
  \A n \in 1..Len(reviews) :
    LET r == reviews[n]
    IN /\ n < Len(reviews) => Returned(r)
       /\ r.judge # Noone => r.maker # r.checker /\ r.judge \notin {r.maker, r.checker}
       /\ r.judge # Noone => r.judge # r.appellant

\* A requirement is held back only where a reviewer found it unresolved, and
\* every release was proposed and approved by two people of whom neither took
\* part in the review, approved a policy or verified the evidence.
HeldAndReleasedByOthers ==
  /\ \A n \in 1..Len(reviews) : reviews[n].restricted \subseteq reviews[n].unresolved
  /\ \A x \in releases :
       LET r == reviews[x.restriction[1]]
           q == x.restriction[2]
           parties == {r.maker, r.checker, SourceApprover[q], PolicyApprover[q], EvidenceVerifier}
       IN /\ x.maker \notin parties
          /\ x.outcome = "APPROVE" => x.checker \notin parties \union {x.maker}

\* A scope that was restricted is open again only while the evidence that
\* released it is the claim's current result and has not lapsed.
OpenOnLiveEvidence ==
  \A x \in Restrictions :
    DocumentaryScopeBlocked(x[2]) \/ evidence[x[2]].fresh

\* Each verification result releases a restriction at most once, however many
\* intents cite it and however their approvals interleave.
ReleasedOncePerResult ==
  \A x, y \in releases :
    x.outcome = "APPROVE" /\ y.outcome = "APPROVE" /\ x.restriction = y.restriction
      /\ x.result = y.result => x = y

\* A blocked scope opens only by the approval of a release: no appeal, no new
\* review and no new evidence opens it by itself.
OnlyReleasesOpen ==
  [][ \A q \in Requirements :
        DocumentaryScopeBlocked(q) /\ ~DocumentaryScopeBlocked(q)' =>
          \E x \in releases' : x \notin releases /\ x.outcome = "APPROVE" /\ x.restriction[2] = q ]_reviewVars

\* Documentary reviews: one open revision, held and released by others than
\* the reviewers, open only on live evidence, one release per result, and
\* only releases reopen what a restriction closed.
ReviewPromises ==
  /\ [](OneOpenRevision /\ HeldAndReleasedByOthers /\ OpenOnLiveEvidence /\
       ReleasedOncePerResult)
  /\ OnlyReleasesOpen
=============================================================================
