---------------------------- MODULE MCAssurance ----------------------------
(***************************************************************************)
(* The components that establish and withdraw what commerce relies on:     *)
(* client applications, progressive admission, corporate affiliation,      *)
(* verification cases, documentary reviews, document custody, operating    *)
(* authority, estate provenance and subscription classification. Each is   *)
(* run for itself: focus names the one at work, the others stand still,    *)
(* and the state space is the sum of theirs.                               *)
(***************************************************************************)
EXTENDS ClientApplications, ProgressiveAdmission, CorporateAffiliation, VerificationCases,
        DocumentaryReviews, DocumentCustody, OperatingAuthority, EstateProvenance,
        SubscriptionClassification

VARIABLE focus  \* the component at work

\* An application of the applicant's own and one opened for the applicant.
MCCreates ==
  {[applicant |-> "ann", opener |-> "nobody", markets |-> {"KE"}], [applicant |-> "ann", opener |-> "d1", markets |-> {}]}

\* Who may take which step of a progressive admission.
MCRoster ==
  [apply |-> {"h1"}, review |-> {"h1", "h2"}, decide |-> {"h1", "h2", "h3"}, request |-> {"h2", "h3", "h4"},
   authorise |-> {"h2", "h3", "h4", "h5"}, register |-> {"h3", "h5", "h6"}]

\* A chain of holdings longer than the depth bound, a short cut and a cycle.
MCHoldings == {<<"own", "top">>, <<"top", "mid">>, <<"mid", "aff">>, <<"own", "mid">>, <<"aff", "own">>}
MCPlatformKeys ==
  {<<"own", "PLATFORM_OWNER">>, <<"aff", "PLATFORM_GROUP_AFFILIATE">>, <<"aff", "EXTERNAL_CLIENT">>}
\* Relationships that stand until they are ended, and for one day only.
MCWindows == {[from |-> 0, to |-> 3], [from |-> 0, to |-> 1]}
\* The long chain stands and is affiliated, or nothing does yet.
MCEstablished ==
  LET chain == {<<"own", "top">>, <<"top", "mid">>, <<"mid", "aff">>}
      affiliate == <<"aff", "PLATFORM_GROUP_AFFILIATE">>
      none == <<<<"none", "none">>, 0>>
  IN {[k \in {} |-> none],
      [k \in chain \cup {affiliate, <<"own", "PLATFORM_OWNER">>} |->
         IF k = affiliate THEN <<<<"mid", "aff">>, 1>> ELSE none]}

\* Verification: a2 retries a1 under the same key.
MCCallKeyOf == [a1 |-> "k", a2 |-> "k"]
MCKindsOf == [APPLICATION |-> {"registry"}, ORGANISATION |-> {"registry", "tax"}]
MCSourceOf == [e1 |-> "esrc_cipc", e2 |-> "esrc_sarsvat"]

\* Who may take which step of a documentary review.
MCReviewRoster ==
  [propose |-> {"a", "p", "d"}, decide |-> {"a", "b"}, appeal |-> {"b", "c"}, judge |-> {"a", "d"},
   release |-> {"d", "e", "p", "s"}, approve |-> {"d", "e", "s"}]
MCPolicyApprover == [q1 |-> "p"]
MCSourceApprover == [q1 |-> "s"]

\* Seller operating bindings: the second version overlaps the first.
MCSobOffers ==
  <<{[config |-> "c1", entity |-> "le1", from |-> 1, to |-> 3]}, {[config |-> "c2", entity |-> "le1", from |-> 2, to |-> 4]}>>
MCSobHolders ==
  [propose |-> {"p1"}, APPROVE |-> {"p1", "p2"}, REJECT |-> {"p2"}, ACTIVATE |-> {"p2", "p3"}, SUSPEND |-> {"p3"}, REVOKE |-> {"p3"}]
MCMandateOrder == <<"le1", "le2">>

\* Estate assignments: a2 overlaps a1 in one cell.
MCAsgOffers ==
  [a1 |-> [cells |-> {"ke"}, from |-> 1, until |-> 4], a2 |-> [cells |-> {"ke", "ug"}, from |-> 2, until |-> 3]]
MCAsgHands == [write |-> {"p1"}, approve |-> {"p1", "p2"}]

\* Classifications: the admission's and two later ones.
Classify(k, t, r, p) == [kind |-> k, type |-> t, ref |-> r, by |-> p]
MCClsCalls ==
  [c1 |-> Classify("ADMISSION_DECISION", "COMMERCIAL", "adm1", "p1"),
   c2 |-> Classify("RECLASSIFICATION", "INTERNAL", "div1", "p1"),
   c3 |-> Classify("RECLASSIFICATION", "PARTNER", "div2", "p2")]
-----------------------------------------------------------------------------
allVars == <<focus, appVars, bridgeVars, affiliationVars, verVars, reviewVars, custodyVars,
            opVars, estVars, clsVars>>

FocusedInit ==
  /\ focus \in {"application", "bridge", "affiliation", "verification", "review", "custody", "operating", "estate", "classification"}
  /\ ApplicationInit /\ BridgeInit
  /\ AffiliationInit /\ (focus # "affiliation" => \A k \in Holdings : corporate[k] = <<>>)
  /\ VerInit /\ (focus # "verification" => subject = "APPLICATION")
  /\ ReviewsInit /\ CustodyInit /\ OperatingInit
  /\ EstateInit /\ (focus # "estate" => estPath = "WORKLOAD")
  /\ ClassificationInit

FocusedNext ==
  \/ /\ focus = "application" /\ ApplicationNext
     /\ UNCHANGED <<focus, bridgeVars, affiliationVars, verVars, reviewVars, custodyVars, opVars, estVars,
                     clsVars>>
  \/ /\ focus = "bridge" /\ BridgeNext
     /\ UNCHANGED <<focus, appVars, affiliationVars, verVars, reviewVars, custodyVars, opVars, estVars,
                     clsVars>>
  \/ /\ focus = "affiliation" /\ AffiliationNext
     /\ UNCHANGED <<focus, appVars, bridgeVars, verVars, reviewVars, custodyVars, opVars, estVars, clsVars>>
  \/ /\ focus = "verification" /\ VerNext
     /\ UNCHANGED <<focus, appVars, bridgeVars, affiliationVars, reviewVars, custodyVars, opVars, estVars,
                     clsVars>>
  \/ /\ focus = "review" /\ ReviewsNext
     /\ UNCHANGED <<focus, appVars, bridgeVars, affiliationVars, verVars, custodyVars, opVars, estVars,
                     clsVars>>
  \/ /\ focus = "custody" /\ CustodyNext
     /\ UNCHANGED <<focus, appVars, bridgeVars, affiliationVars, verVars, reviewVars, opVars, estVars,
                     clsVars>>
  \/ /\ focus = "operating" /\ OperatingNext
     /\ UNCHANGED <<focus, appVars, bridgeVars, affiliationVars, verVars, reviewVars, custodyVars, estVars,
                     clsVars>>
  \/ /\ focus = "estate" /\ EstateNext
     /\ UNCHANGED <<focus, appVars, bridgeVars, affiliationVars, verVars, reviewVars, custodyVars, opVars,
                     clsVars>>
  \/ /\ focus = "classification" /\ ClassificationNext
     /\ UNCHANGED <<focus, appVars, bridgeVars, affiliationVars, verVars, reviewVars, custodyVars, opVars,
                     estVars>>

FocusedSpec == FocusedInit /\ [][FocusedNext]_allVars

=============================================================================
