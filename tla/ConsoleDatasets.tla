--------------------------- MODULE ConsoleDatasets ---------------------------
(***************************************************************************)
(* Governed console datasets: redacted exports and bulk metadata changes.  *)
(*                                                                         *)
(* A plan fixes its targets and the fingerprint of the rows its maker      *)
(* previewed.  Another person approves it, one of the two executes it, and *)
(* an export may then be downloaded until the plan expires; a maintenance  *)
(* loop erases the encrypted artefacts of expired plans.  Every request    *)
(* reads the plan's descriptor, the current grants of its actor, its maker *)
(* and its checker, and the clock before it opens the serialisable         *)
(* transaction that locks the plan and the rows, so a request that waits   *)
(* is judged by the grants and the time it read.  A proposal names the     *)
(* rows its maker previewed.                                               *)
(***************************************************************************)
EXTENDS Naturals, FiniteSets, Bags

CONSTANTS
  DsPlans,         \* [plan -> kind, targets, maker, until]
  DsOrgs,          \* organisations
  DsPeople,        \* people who may hold the exact grants
  MaxInHand,       \* bound on requests in flight
  MaxProposed,     \* bound on the plans of one behaviour
  MaxRowMoves,     \* bound on changes of the rows by their own registry
  LastDsDay

ASSUME DatasetAssumption ==
  /\ MaxInHand \in Nat /\ MaxProposed \in Nat /\ MaxRowMoves \in Nat /\ LastDsDay \in Nat
  /\ \A p \in DOMAIN DsPlans : DsPlans[p].targets \subseteq DsOrgs

VARIABLES
  profiles,   \* [organisation -> its redacted fields (abstracted) and metadata version]
  plans,      \* [plan -> row]
  lostGrant,  \* the people whose grants have ended
  inHand,     \* the requests in flight, a bag of what each read before its transaction
  disclosed,  \* the download just made, if the last step was one
  dsDay

dsVars == <<profiles, plans, lostGrant, inHand, disclosed, dsDay>>

NoRows == [o \in {} |-> 0]
NoPlan == [state |-> "NONE", source |-> NoRows, checker |-> "none", approvedOn |-> 0,
           artifact |-> NoRows]
NoDisclosure == [plan |-> "none"]

DatasetInit ==
  /\ profiles = [o \in DsOrgs |-> [fields |-> 0, version |-> 1]]
  /\ plans = [p \in DOMAIN DsPlans |-> NoPlan]
  /\ lostGrant = {}
  /\ inHand = EmptyBag
  /\ disclosed = NoDisclosure
  /\ dsDay = 1

-----------------------------------------------------------------------------
(* What a request reads before its transaction                             *)

Unexpired(p, at) == at < DsPlans[p].until

StillGranted(h) == h \in DsPeople \ lostGrant

\* the maker or the checker for everything but an approval, and never the
\* maker for an approval, which the handler refuses unless the plan waits for it
descriptor(op, p, who) ==
  /\ op = "propose" => who = DsPlans[p].maker
  /\ op # "propose" => plans[p] # NoPlan
  /\ op = "approve" => who # DsPlans[p].maker /\ plans[p].state = "PENDING_APPROVAL"
  /\ op \in {"execute", "download"} => who \in {DsPlans[p].maker, plans[p].checker}

\* left out: a request the handler can only refuse or answer with a receipt,
\* because the plan exists already, has been executed, is a bulk plan to be
\* downloaded, had no checker whose grants could be read, or had expired
Futile(op, p) ==
  \/ op = "propose" /\ plans[p] # NoPlan
  \/ op = "execute" /\ plans[p].state # "APPROVED"
  \/ op = "download" /\ (DsPlans[p].kind # "export" \/ plans[p].state = "PENDING_APPROVAL")
  \/ ~Unexpired(p, dsDay)

Rows(p) == [o \in DsPlans[p].targets |-> profiles[o]]

\* current grants of the actor, of the maker and of the checker then recorded
grantMatrix(p, who) == {h \in {who, DsPlans[p].maker, plans[p].checker} : StillGranted(h)}

Proposed == {p \in DOMAIN DsPlans : plans[p] # NoPlan \/ \E q \in BagToSet(inHand) : q.op = "propose" /\ q.plan = p}

Arrive ==
  \E op \in {"propose", "approve", "execute", "download"}, p \in DOMAIN DsPlans, who \in DsPeople :
    /\ BagCardinality(inHand) < MaxInHand /\ Cardinality(Proposed \cup {p}) <= MaxProposed
    /\ descriptor(op, p, who) /\ ~Futile(op, p)
    /\ who \in grantMatrix(p, who)
    /\ inHand' = inHand (+) SetToBag({
         [op |-> op, plan |-> p, who |-> who, at |-> dsDay, seen |-> IF op = "propose" THEN Rows(p) ELSE NoRows,
          allowed |-> grantMatrix(p, who), held |-> DsPeople \ lostGrant]})
    /\ disclosed' = NoDisclosure
    /\ UNCHANGED <<profiles, plans, lostGrant, dsDay>>

-----------------------------------------------------------------------------
(* The transactions                                                        *)

\* a refused request changes nothing
Serve(q, op) == q.op = op /\ inHand' = inHand (-) SetToBag({q})

\* Mutant: the fingerprint covers the metadata version alone.
VersionFingerprint(p) == \A o \in DsPlans[p].targets : plans[p].source[o].version = profiles[o].version

\* the fingerprint covers the redacted fields and the metadata version
DatasetSourceFingerprint(p) == Rows(p) = plans[p].source

\* by the clock and the grants the request read
CanExecuteIntent(p, checker, approvedOn, q) ==
  /\ Unexpired(p, q.at)
  /\ checker # DsPlans[p].maker /\ approvedOn <= q.at
  /\ {DsPlans[p].maker, checker} \subseteq q.allowed

ProposeConsoleDataset(q) ==
  /\ Serve(q, "propose")
  /\ LET p == q.plan
     IN plans' = IF Rows(p) = q.seen /\ plans[p] = NoPlan
                 THEN [plans EXCEPT ![p] = [NoPlan EXCEPT !.state = "PENDING_APPROVAL", !.source = Rows(p)]]
                 ELSE plans
  /\ disclosed' = NoDisclosure
  /\ UNCHANGED <<profiles, lostGrant, dsDay>>

ApproveConsoleDataset(q) ==
  /\ Serve(q, "approve")
  /\ LET p == q.plan
     IN plans' = IF /\ plans[p].state = "PENDING_APPROVAL"
                    /\ CanExecuteIntent(p, q.who, q.at, q)
                    /\ DatasetSourceFingerprint(p)
                 THEN [plans EXCEPT ![p].state = "APPROVED", ![p].checker = q.who, ![p].approvedOn = q.at]
                 ELSE plans
  /\ disclosed' = NoDisclosure
  /\ UNCHANGED <<profiles, lostGrant, dsDay>>

\* the file holds the redacted fields of every target
BuildApprovedRedactedCSV(p) == Rows(p)

\* every row of a bulk plan, or none
ApplyApprovedMetadataBulk(p) ==
  [o \in DsOrgs |-> IF o \in DsPlans[p].targets THEN [profiles[o] EXCEPT !.version = @ + 1] ELSE profiles[o]]

Executable(p, q) ==
  /\ plans[p].state = "APPROVED"
  /\ CanExecuteIntent(p, plans[p].checker, plans[p].approvedOn, q)
  /\ DatasetSourceFingerprint(p)

ExecuteConsoleDataset(q) ==
  /\ Serve(q, "execute")
  /\ LET p == q.plan
         export == DsPlans[p].kind = "export"
     IN IF Executable(p, q)
        THEN /\ plans' = [plans EXCEPT ![p].state = "COMPLETED", ![p].artifact = IF export THEN BuildApprovedRedactedCSV(p) ELSE NoRows]
             /\ profiles' = IF export THEN profiles ELSE ApplyApprovedMetadataBulk(p)
        ELSE UNCHANGED <<plans, profiles>>
  /\ disclosed' = NoDisclosure
  /\ UNCHANGED <<lostGrant, dsDay>>

Releasable(p, q) ==
  /\ plans[p].state = "COMPLETED" /\ DsPlans[p].kind = "export"
  /\ CanExecuteIntent(p, plans[p].checker, plans[p].approvedOn, q)
  /\ DatasetSourceFingerprint(p)
  /\ plans[p].artifact # NoRows

ReadConsoleDatasetExport(q) ==
  /\ Serve(q, "download")
  /\ LET p == q.plan
     IN IF Releasable(p, q)
        THEN disclosed' = [plan |-> p, content |-> plans[p].artifact, now |-> Rows(p), held |-> q.held]
        ELSE disclosed' = NoDisclosure
  /\ UNCHANGED <<profiles, plans, lostGrant, dsDay>>

Expired(p) == plans[p].artifact # NoRows /\ ~Unexpired(p, dsDay)

Purgeable(p) == Expired(p)

PurgeExpiredConsoleDatasetArtifacts ==
  /\ \E p \in DOMAIN DsPlans : Purgeable(p)
  /\ plans' = [p \in DOMAIN DsPlans |-> IF Purgeable(p) THEN [plans[p] EXCEPT !.artifact = NoRows] ELSE plans[p]]
  /\ disclosed' = NoDisclosure
  /\ UNCHANGED <<profiles, lostGrant, inHand, dsDay>>

-----------------------------------------------------------------------------
\* the registry changes a row's fields without touching its metadata version
RegistryChangesRow(o) ==
  /\ \A q \in DsOrgs : profiles[q].fields < MaxRowMoves
  /\ profiles' = [profiles EXCEPT ![o].fields = @ + 1]
  /\ disclosed' = NoDisclosure
  /\ UNCHANGED <<plans, lostGrant, inHand, dsDay>>

GrantsEnd(h) ==
  /\ lostGrant = {}
  /\ lostGrant' = {h}
  /\ disclosed' = NoDisclosure
  /\ UNCHANGED <<profiles, plans, inHand, dsDay>>

DsTick ==
  /\ dsDay < LastDsDay
  /\ dsDay' = dsDay + 1
  /\ disclosed' = NoDisclosure
  /\ UNCHANGED <<profiles, plans, lostGrant, inHand>>

DatasetNext ==
  \/ Arrive
  \/ \E q \in BagToSet(inHand) :
       \/ ProposeConsoleDataset(q) \/ ApproveConsoleDataset(q)
       \/ ExecuteConsoleDataset(q) \/ ReadConsoleDatasetExport(q)
  \/ PurgeExpiredConsoleDatasetArtifacts
  \/ \E o \in DsOrgs : RegistryChangesRow(o)
  \/ \E h \in DsPeople : GrantsEnd(h)
  \/ DsTick

DatasetSpec == DatasetInit /\ [][DatasetNext]_dsVars

\* the purge runs every hour for as long as the process lives, and time passes
DatasetFairness == WF_dsVars(PurgeExpiredConsoleDatasetArtifacts) /\ WF_dsVars(DsTick)

-----------------------------------------------------------------------------
(* Properties                                                              *)

(* Metadata changes only by one approved bulk plan at a time, on all of    *)
(* its targets at once, and on exactly the rows its maker previewed and    *)
(* its checker approved: no field and no version of a target moved in      *)
(* between, also when another plan or the registry touched the same        *)
(* organisation (ExecuteConsoleDataset, ApplyApprovedMetadataBulk).        *)
BulkHitsWhatWasReviewed ==
  [][ (\E o \in DsOrgs : profiles'[o].version # profiles[o].version) =>
        \E p \in DOMAIN DsPlans :
          /\ plans[p].state = "APPROVED" /\ plans'[p].state = "COMPLETED"
          /\ \A o \in DsOrgs : profiles'[o].version =
               profiles[o].version + (IF o \in DsPlans[p].targets THEN 1 ELSE 0)
          /\ \A o \in DsPlans[p].targets : plans[p].source[o] = profiles[o] ]_dsVars

(* A download gives what the organisations' rows say at that moment, and   *)
(* its maker and its checker both still held their grants when the request *)
(* read them, whoever of the two asked (ReadConsoleDatasetExport).         *)
DisclosedIsCurrentAndBacked ==
  disclosed # NoDisclosure =>
    /\ disclosed.content = disclosed.now
    /\ {DsPlans[disclosed.plan].maker, plans[disclosed.plan].checker} \subseteq disclosed.held

(* The artefact of an expired plan does not stay: it is erased whether or  *)
(* not anyone downloaded it, also when a request that waited made it after *)
(* the expiry (PurgeExpiredConsoleDatasetArtifacts and its loop in main).  *)
ArtefactsAreErased == []<>(\A p \in DOMAIN DsPlans : ~Expired(p))

\* Console datasets: what is disclosed is current and backed, a bulk change
\* hits what was reviewed, and artefacts are erased in the end.
DatasetPromises ==
  /\ []DisclosedIsCurrentAndBacked
  /\ BulkHitsWhatWasReviewed
  /\ ArtefactsAreErased
=============================================================================
