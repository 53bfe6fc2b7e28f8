------------------------ MODULE CorporateAffiliation ------------------------
(***************************************************************************)
(* Corporate and platform relationships of organisations, and the INTERNAL *)
(* subscription eligibility that rests on them.                            *)
(*                                                                         *)
(* A relationship is a row with a status, a verification state and an      *)
(* effective window.  At most one row of a natural key is live; ended rows *)
(* stay, and stay true for the period they covered.  Each command is one   *)
(* transaction on a locked row.  A divestiture is two: the affiliate is    *)
(* ended, then its reclassification is recorded.  A founding operating     *)
(* business also needs a sponsorship, whose governance is                  *)
(* FoundingGovernance's: here it is the days it covers.                    *)
(***************************************************************************)
EXTENDS Naturals, Sequences, FiniteSets, SequencesExt, FiniteSetsExt

CONSTANTS OrgIds,          \* organisations
          Holdings,        \* natural keys <<source, target>> of OWNS relationships
          PlatformKeys,    \* natural keys <<organisation, relationship type>>
          OperatingOrgs,   \* first-party identities of class OPERATING_BUSINESS
          Windows,         \* effective windows relationships are recorded with
          EstablishedRows, \* [key verified at the start -> the row it rests on]
          EndDays,         \* bound: the days relationships are ended at
          MaxRowsPerKey,   \* bound: rows ever recorded under one key
          MaxChanges,      \* bound: commands after the start
          MaxControlDepth, \* domain.MaxCorporateControlDepth
          LastDay          \* bound: the days asked about

Days == 0 .. LastDay
OpenEnded == LastDay + 1  \* effective_to IS NULL
PlatformTypes == {"PLATFORM_OWNER", "PLATFORM_OPERATOR", "PLATFORM_GROUP_AFFILIATE", "EXTERNAL_CLIENT"}

ASSUME HoldingsAssumption ==
    /\ Holdings \subseteq OrgIds \X OrgIds
    /\ PlatformKeys \subseteq OrgIds \X PlatformTypes
    /\ \A est \in EstablishedRows : DOMAIN est \subseteq Holdings \cup PlatformKeys
    /\ \A w \in Windows : w.from \in Days /\ w.to \in w.from .. OpenEnded
    /\ EndDays \subseteq Days

VARIABLES corporate,   \* rows by natural key, oldest first
          platform,    \* rows by natural key, oldest first
          divesting,   \* [org, at] TerminateAffiliate has ended and not yet reclassified
          sponsored,   \* days covered by an ACTIVE sponsorship of a verified sponsor
          changes      \* commands so far

affiliationVars == <<corporate, platform, divesting, sponsored, changes>>

VerificationStates == {"UNVERIFIED", "PENDING_REVIEW", "VERIFIED", "CONFLICTED"}

(* A row with what the events published about it say: in force or not. *)
RelationshipRows(basis) ==
    [status : {"PENDING", "ACTIVE", "ENDED"}, state : VerificationStates,
     from : Days, to : Days \cup {OpenEnded}, basis : basis, told : BOOLEAN]

Bases == Holdings \X (1 .. MaxRowsPerKey)
NoBasis == <<<<"none", "none">>, 0>>
BasesOf(key) == IF key[2] = "PLATFORM_GROUP_AFFILIATE" THEN Bases ELSE {NoBasis}

activated(row) == row.state = "VERIFIED" /\ row.status = "ACTIVE"

LiveRow(rows) == rows # <<>> /\ Last(rows).status # "ENDED"

(* ON CONFLICT DO NOTHING on the live natural key: a replay finds the row. *)
ensureByNaturalKey(rows, row) == IF LiveRow(rows) THEN rows ELSE Append(rows, row)

(* A row is never created VERIFIED (refuseVerifiedAtCreation); its window  *)
(* may have an end from the start.                                         *)
Recorded(state, w, basis) ==
    [status |-> "PENDING", state |-> state, from |-> w.from, to |-> w.to, basis |-> basis, told |-> FALSE]

VerifiedRow(row) == [row EXCEPT !.state = "VERIFIED", !.status = "ACTIVE", !.told = TRUE]

(* What earlier commands have left under a key. *)
InitialRows(est, key) ==
    IF key \in DOMAIN est
    THEN <<VerifiedRow(Recorded("UNVERIFIED", [from |-> 0, to |-> OpenEnded], est[key]))>>
    ELSE <<>>

AffiliationInit ==
    \E est \in EstablishedRows :
        /\ corporate = [k \in Holdings |-> InitialRows(est, k)]
        /\ platform = [p \in PlatformKeys |-> InitialRows(est, p)]
        /\ divesting = {}
        /\ sponsored = Days
        /\ changes = 0

(* One more command. *)
Changed == changes < MaxChanges /\ changes' = changes + 1

EnsureCorporateRelationship(k, w) ==
    /\ Changed
    /\ LiveRow(corporate[k]) \/ Len(corporate[k]) < MaxRowsPerKey
    /\ corporate' = [corporate EXCEPT ![k] =
                        ensureByNaturalKey(@, Recorded("UNVERIFIED", w, NoBasis))]
    /\ UNCHANGED <<platform, divesting, sponsored>>

(* A PLATFORM_GROUP_AFFILIATE relationship names the row it rests on. *)
EnsurePlatformRelationship(p, basis, w) ==
    /\ Changed
    /\ basis # NoBasis => basis[2] \in DOMAIN corporate[basis[1]]
    /\ LiveRow(platform[p]) \/ Len(platform[p]) < MaxRowsPerKey
    /\ platform' = [platform EXCEPT ![p] =
                        ensureByNaturalKey(@, Recorded("PENDING_REVIEW", w, basis))]
    /\ UNCHANGED <<corporate, divesting, sponsored>>

AwaitingVerification(row) ==
    row.status # "ENDED" /\ row.state \in {"UNVERIFIED", "PENDING_REVIEW", "CONFLICTED"}

VerifyCorporateRelationship(k) ==
    /\ Changed
    /\ corporate[k] # <<>> /\ AwaitingVerification(Last(corporate[k]))
    /\ corporate' = [corporate EXCEPT ![k] = Front(@) \o <<VerifiedRow(Last(@))>>]
    /\ UNCHANGED <<platform, divesting, sponsored>>

VerifyPlatformRelationship(p) ==
    /\ Changed
    /\ platform[p] # <<>> /\ AwaitingVerification(Last(platform[p]))
    /\ platform' = [platform EXCEPT ![p] = Front(@) \o <<VerifiedRow(Last(@))>>]
    /\ UNCHANGED <<corporate, divesting, sponsored>>

requireEnd(at, row) == at >= row.from

(* The end given overwrites the end recorded.  The ended event goes out    *)
(* only for a row that was in force.                                       *)
EndedRow(row, at) ==
    [row EXCEPT !.status = "ENDED", !.to = at, !.told = IF activated(row) THEN FALSE ELSE @]

EndCorporateRelationship(k, at) ==
    /\ Changed
    /\ LiveRow(corporate[k]) /\ requireEnd(at, Last(corporate[k]))
    /\ corporate' = [corporate EXCEPT ![k] = Front(@) \o <<EndedRow(Last(@), at)>>]
    /\ UNCHANGED <<platform, divesting, sponsored>>

(* The conflicted event goes out the first time only. *)
ConflictedRow(row) ==
    [row EXCEPT !.state = "CONFLICTED", !.told = IF row.state # "CONFLICTED" THEN FALSE ELSE @]

MarkCorporateRelationshipConflicted(k) ==
    /\ Changed
    /\ LiveRow(corporate[k])
    /\ corporate' = [corporate EXCEPT ![k] = Front(@) \o <<ConflictedRow(Last(@))>>]
    /\ UNCHANGED <<platform, divesting, sponsored>>

EndPlatformRelationship(p, at) ==
    /\ Changed
    /\ LiveRow(platform[p]) /\ requireEnd(at, Last(platform[p]))
    /\ platform' = [platform EXCEPT ![p] = Front(@) \o <<EndedRow(Last(@), at)>>]
    /\ UNCHANGED <<corporate, sponsored>>

(* The governance decision: end the affiliate, and reclassify it or not. *)
TerminateAffiliate(org, at, reclassify) ==
    /\ <<org, "PLATFORM_GROUP_AFFILIATE">> \in PlatformKeys
    /\ EndPlatformRelationship(<<org, "PLATFORM_GROUP_AFFILIATE">>, at)
    /\ divesting' = IF reclassify THEN divesting \cup {[org |-> org, at |-> at]} ELSE divesting

(* The second transaction: a PENDING relationship that confers nothing,    *)
(* from the day the affiliate ended.                                       *)
ReclassifyAffiliate(d) ==
    LET client == <<d.org, "EXTERNAL_CLIENT">>
    IN /\ LiveRow(platform[client]) \/ Len(platform[client]) < MaxRowsPerKey
       /\ platform' = [platform EXCEPT ![client] =
             ensureByNaturalKey(@, Recorded("PENDING_REVIEW", [from |-> d.at, to |-> OpenEnded], NoBasis))]
       /\ divesting' = divesting \ {d}
       /\ UNCHANGED <<corporate, sponsored, changes>>

(* It fails or the process stops in between: the affiliate is ended, the   *)
(* reclassification is not recorded, and a second TerminateAffiliate finds *)
(* the affiliate no longer live.                                           *)
ReclassificationFails(d) ==
    /\ divesting' = divesting \ {d}
    /\ UNCHANGED <<corporate, platform, sponsored, changes>>

(* A sponsorship of the operating business is granted, ends, or loses its  *)
(* sponsor's verification.                                                 *)
FoundingSponsorshipMoves(days) ==
    /\ Changed
    /\ sponsored # days
    /\ sponsored' = days
    /\ UNCHANGED <<corporate, platform, divesting>>

AffiliationNext ==
    \/ \E k \in Holdings :
          \/ \E w \in Windows : EnsureCorporateRelationship(k, w)
          \/ VerifyCorporateRelationship(k)
          \/ \E d \in EndDays : EndCorporateRelationship(k, d)
          \/ MarkCorporateRelationshipConflicted(k)
    \/ \E p \in PlatformKeys :
          \/ \E b \in BasesOf(p), w \in Windows : EnsurePlatformRelationship(p, b, w)
          \/ VerifyPlatformRelationship(p)
          \/ \E d \in EndDays : EndPlatformRelationship(p, d) /\ UNCHANGED divesting
    \/ \E org \in OrgIds, d \in EndDays, r \in BOOLEAN : TerminateAffiliate(org, d, r)
    \/ \E d \in divesting : ReclassifyAffiliate(d) \/ ReclassificationFails(d)
    \/ \E days \in {{}} \cup {w.from .. (w.to - 1) : w \in Windows} : FoundingSponsorshipMoves(days)

AffiliationSpec == AffiliationInit /\ [][AffiliationNext]_affiliationVars

-----------------------------------------------------------------------------
(* Eligibility as of a time.                                               *)

inWindow(at, row) == row.from <= at /\ at < row.to

inForce(row) == row.status = "ACTIVE" \/ (row.status = "ENDED" /\ row.to # OpenEnded)

IsConsequential(row, at) == row.state = "VERIFIED" /\ inForce(row) /\ inWindow(at, row)

ConsequentialEdges(at) ==
    {k \in Holdings : \E i \in DOMAIN corporate[k] : IsConsequential(corporate[k][i], at)}

HoldersOf(nodes, edges) == {k[1] : k \in {e \in edges : e[2] \in nodes}}

(* A walk that follows holdings both ways. *)
\* Mutant: the walk follows control in both directions.
ControlWalkUndirected(from, orgID, edges) ==
    LET walk[d \in 0 .. MaxControlDepth] ==
            IF d = 0 THEN {from}
            ELSE walk[d - 1] \cup HoldersOf(walk[d - 1], edges)
                    \cup {k[2] : k \in {e \in edges : e[1] \in walk[d - 1]}}
    IN walk[MaxControlDepth]

(* The frontier of the backward walk after d rounds, and what it visited. *)
ControlWalk(from, orgID, edges) ==
    LET walk[d \in 0 .. MaxControlDepth] ==
            IF d = 0 THEN [frontier |-> {from}, visited |-> {orgID}]
            ELSE LET fresh == walk[d - 1].frontier \ walk[d - 1].visited
                 IN [frontier |-> HoldersOf(fresh, edges), visited |-> walk[d - 1].visited \cup fresh]
    IN walk[MaxControlDepth].visited

ListPlatformOwnerOrganisations(at) ==
    {p[1] : p \in {q \in PlatformKeys : /\ q[2] = "PLATFORM_OWNER"
                                        /\ \E i \in DOMAIN platform[q] : IsConsequential(platform[q][i], at)}}

affiliateControlledByOwner(orgID, basis, at) ==
    /\ IsConsequential(corporate[basis[1]][basis[2]], at)
    /\ basis[1][2] = orgID
    /\ ListPlatformOwnerOrganisations(at)
          \cap (ControlWalk(basis[1][1], orgID, ConsequentialEdges(at)) \ {orgID}) # {}

(* An owner or operator qualifies by its own relationship. *)
QualifyingPlatformRelationships(orgID, at) ==
    {<<p, i>> \in PlatformKeys \X (1 .. MaxRowsPerKey) :
        /\ p[1] = orgID /\ i \in DOMAIN platform[p]
        /\ IsConsequential(platform[p][i], at)
        /\ \/ p[2] \in {"PLATFORM_OWNER", "PLATFORM_OPERATOR"}
           \/ /\ p[2] = "PLATFORM_GROUP_AFFILIATE"
              /\ affiliateControlledByOwner(orgID, platform[p][i].basis, at)}

(* The founding gate applies to operating businesses only. *)
FoundingOperatingEligible(orgID, at) == orgID \in OperatingOrgs => at \in sponsored

ResolveInternalEligibility(orgID, at) ==
    /\ FoundingOperatingEligible(orgID, at)
    /\ QualifyingPlatformRelationships(orgID, at) # {}

-----------------------------------------------------------------------------
(* Chains of n holdings, or fewer, that lead from an owner to org. *)
ChainFromOwner(owners, org, edges, n) ==
    \E m \in 1 .. n : \E path \in [1 .. m -> edges] :
        /\ path[1][1] \in owners
        /\ path[m][2] = org
        /\ \A i \in 1 .. m - 1 : path[i][2] = path[i + 1][1]

(* A row is verified and the day is inside its window. *)
VerifiedOn(row, at) == row.state = "VERIFIED" /\ row.from <= at /\ at < row.to

(* The owners' control of org runs through the holding the affiliation     *)
(* rests on, in at most MaxControlDepth holdings that all hold on the day. *)
ControlledThrough(basis, org, at) ==
    LET edges == {e \in ConsequentialEdges(at) : org \notin {e[1], e[2]}}
        owners == ListPlatformOwnerOrganisations(at) \ {org}
    IN /\ VerifiedOn(corporate[basis[1]][basis[2]], at)
       /\ basis[1][2] = org
       /\ \/ basis[1][1] \in owners
          \/ ChainFromOwner(owners, basis[1][1], edges, MaxControlDepth - 1)

(***************************************************************************)
(* An organisation is INTERNAL-eligible on a day exactly when it is        *)
(* verified as owner or operator on that day, or as an affiliate resting   *)
(* on a holding into it to which a directed chain of holdings, no longer   *)
(* than the depth bound, runs from a verified owner, whatever              *)
(* cross-holdings there are; and, a founding operating business, only when *)
(* a sponsorship covers the day as well.                                   *)
(***************************************************************************)
EligibleExactlyWhenControlled ==
    \A at \in Days, org \in OrgIds :
        ResolveInternalEligibility(org, at) <=>
            /\ org \in OperatingOrgs => at \in sponsored
            /\ \E p \in PlatformKeys : \E i \in DOMAIN platform[p] :
                 /\ p[1] = org /\ VerifiedOn(platform[p][i], at)
                 /\ \/ p[2] \in {"PLATFORM_OWNER", "PLATFORM_OPERATOR"}
                    \/ /\ p[2] = "PLATFORM_GROUP_AFFILIATE"
                       /\ ControlledThrough(platform[p][i].basis, org, at)

(* The rows a step ends, as they were and as they are. *)
Endings ==
    {<<Last(corporate[k]), Last(corporate'[k])>> : k \in
        {j \in Holdings : LiveRow(corporate[j]) /\ ~ LiveRow(corporate'[j])}}
    \cup {<<Last(platform[p]), Last(platform'[p])>> : p \in
        {q \in PlatformKeys : LiveRow(platform[q]) /\ ~ LiveRow(platform'[q])}}

(***************************************************************************)
(* Ending a relationship takes no day before the end away from anyone, and *)
(* gives none back: only a row whose own term ran out earlier is stretched *)
(* to the end it is given (End* overwrites effective_to).                  *)
(***************************************************************************)
EndingKeepsHistory ==
    [][\A e \in Endings, org \in OrgIds, day \in Days :
           day < e[2].to =>
             /\ ResolveInternalEligibility(org, day) => ResolveInternalEligibility(org, day)'
             /\ ResolveInternalEligibility(org, day)' =>
                   ResolveInternalEligibility(org, day) \/ e[1].to <= day]_affiliationVars

(***************************************************************************)
(* Whoever follows the activated, conflicted and ended events knows, for   *)
(* every relationship, whether it is verified and active now.              *)
(***************************************************************************)
EventsTellWhatIsInForce ==
    \A rows \in Range(corporate) \cup Range(platform) :
        \A i \in DOMAIN rows : rows[i].told <=> activated(rows[i])

(* A key has at most one live row, its newest; ended rows keep their window. *)
AffiliationTypeOK ==
    /\ corporate \in [Holdings -> Seq(RelationshipRows({NoBasis}))]
    /\ platform \in [PlatformKeys -> Seq(RelationshipRows(Bases \cup {NoBasis}))]
    /\ divesting \subseteq [org : OrgIds, at : EndDays]
    /\ sponsored \subseteq Days
    /\ changes \in 0 .. MaxChanges
    /\ \A rows \in Range(corporate) \cup Range(platform) :
          \A i \in DOMAIN rows :
             /\ i < Len(rows) => rows[i].status = "ENDED"
             /\ rows[i].from <= rows[i].to

\* Corporate affiliation: an organisation is eligible exactly while it is
\* controlled and sponsored, the events told say what is in force, and
\* ending keeps history.
AffiliationPromises ==
  /\ [](AffiliationTypeOK /\ EligibleExactlyWhenControlled /\ EventsTellWhatIsInForce)
  /\ EndingKeepsHistory
=============================================================================
