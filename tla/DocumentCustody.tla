-------------------------- MODULE DocumentCustody --------------------------
(***************************************************************************)
(* Custody of one scanned document: admission by the scanner's intake      *)
(* (postgres_scan_admission.go, service/verification), sealing into the    *)
(* locked bucket (postgres_document_custody.go, documentcustody/aws.go),   *)
(* reading and extraction (postgres_document_candidates.go,                *)
(* document_worker.go) and reviewed maintenance                            *)
(* (postgres_custody_maintenance.go).                                      *)
(*                                                                         *)
(* Postgres and the bucket commit apart.  An admission commits the intent  *)
(* row on a second connection, uploads, and commits attachment and scan    *)
(* proof together; maintenance acts on the bucket before its commit.  Both *)
(* may stop at any point.  An advisory lock admits one of them at a time,  *)
(* and readers share the evidence row that maintenance locks.              *)
(***************************************************************************)
EXTENDS Naturals, FiniteSets

CONSTANTS ScanProofs,     \* signed scans of the document, a re-scan is another
          RetainUntil, DeleteAfter,   \* from the evidence's creation and its policy
          OrphanGrace, QuarantineDays,
          MaxApprovals,   \* approvals outstanding at a time
          LastCustodyDay
ASSUME CustodyAssumption ==
  /\ RetainUntil \in Nat /\ DeleteAfter \in Nat /\ RetainUntil <= DeleteAfter
  /\ OrphanGrace \in Nat \ {0} /\ QuarantineDays \in Nat \ {0} /\ LastCustodyDay \in Nat
  /\ MaxApprovals \in Nat

VARIABLES record,      \* the evidence record's status
          underReview, \* its case is VERIFYING and its claim UNDER_VERIFICATION
          custody,     \* the row of evidence.document_custody
          scanned,     \* the proof in evidence.scanned_artifact, or ""
          bucket,      \* [ScanProofs -> object under the key of that proof]
          inFlight,    \* uploads whose request may still reach the bucket
          admission, extraction, candidates,
          approvals,   \* operations approved for the row's present revision
          maintaining, \* operation acting under the lock, or ""
          custodyDay

custodyVars == <<record, underReview, custody, scanned, bucket, inFlight, admission,
                 extraction, candidates, approvals, maintaining, custodyDay>>

NoCustody == [state |-> "NONE", proof |-> "", pinned |-> FALSE, hold |-> FALSE,
              orphanAfter |-> 0, quarantined |-> 0]
Gone == [present |-> FALSE, hold |-> FALSE]
Operations == {"RECONCILE", "HOLD", "RELEASE_HOLD", "ROTATE", "DELETE"}
NoAdmission == [phase |-> "idle", proof |-> ""]

CustodyInit ==
  /\ record = "AVAILABLE"
  /\ underReview = TRUE
  /\ custody = NoCustody /\ scanned = ""
  /\ bucket = [p \in ScanProofs |-> Gone]
  /\ inFlight = {}
  /\ admission = NoAdmission
  /\ extraction = "idle" /\ candidates = FALSE
  /\ approvals = {} /\ maintaining = ""
  /\ custodyDay = 0

\* The transaction-scoped advisory lock of the artifact.
lockCustody == admission.phase = "idle" /\ maintaining = ""

\* Whoever holds the case row: an admission or a reader.
CaseFree == admission.phase = "idle" /\ extraction # "reading"

-----------------------------------------------------------------------------
(* Admission of a scan *)

validateScanAdmission == underReview /\ record \in {"AVAILABLE", "QUARANTINED"}

WithScanAdmission(p) ==
  /\ lockCustody /\ CaseFree
  /\ validateScanAdmission
  /\ admission' = [phase |-> "admitted", proof |-> p]
  /\ UNCHANGED <<record, underReview, custody, scanned, bucket, inFlight, extraction,
                 candidates, approvals, maintaining, custodyDay>>

\* The in-process scanner, and the intake of the split one, seal and register
\* inside the admission.
Ingest == \E p \in ScanProofs : WithScanAdmission(p)
Receive == \E p \in ScanProofs : WithScanAdmission(p)

\* The intent is committed at once, on its own connection.
SealIntent ==
  /\ admission.phase = "admitted"
  /\ IF custody = NoCustody
     THEN /\ RetainUntil > custodyDay
          /\ custody' = [NoCustody EXCEPT !.state = "PENDING", !.proof = admission.proof,
                                          !.orphanAfter = custodyDay + OrphanGrace]
     ELSE /\ custody.proof = admission.proof
          /\ custody.state \in {"PENDING", "ATTACHED"}
          /\ DeleteAfter > custodyDay
          /\ UNCHANGED custody
  /\ admission' = [admission EXCEPT !.phase = "intended"]
  /\ UNCHANGED <<record, underReview, scanned, bucket, inFlight, extraction, candidates,
                 approvals, maintaining, custodyDay>>

\* A conditional create: it lands, is lost, or is still on its way when the
\* caller gives up.
Create(p) ==
  \/ /\ bucket' = [bucket EXCEPT ![p] = [present |-> TRUE, hold |-> FALSE]]
     /\ UNCHANGED inFlight
  \/ /\ inFlight' = inFlight \cup {p}
     /\ UNCHANGED bucket
  \/ UNCHANGED <<bucket, inFlight>>

SealUpload ==
  /\ admission.phase = "intended"
  /\ IF /\ ~bucket[admission.proof].present
        /\ custody.state = "PENDING" /\ ~custody.pinned
     THEN Create(admission.proof)
     ELSE UNCHANGED <<bucket, inFlight>>
  /\ admission' = [admission EXCEPT !.phase = "uploaded"]
  /\ UNCHANGED <<record, underReview, custody, scanned, extraction, candidates, approvals,
                 maintaining, custodyDay>>

\* What HEAD of the object must show before it is attached.
Observed(p) == bucket[p].present /\ (custody.hold => bucket[p].hold)

RegisterScannedArtifact(p) == scanned \in {"", p} /\ scanned' = p

\* Attachment, proof and audit commit together, the admission still valid.
SealCommit ==
  LET p == admission.proof IN
  /\ admission.phase = "uploaded"
  /\ Observed(p)
  /\ validateScanAdmission
  /\ RegisterScannedArtifact(p)
  /\ custody' = [custody EXCEPT !.state = "ATTACHED", !.pinned = TRUE]
  /\ approvals' = IF custody.state = "ATTACHED" THEN approvals ELSE {}
  /\ admission' = NoAdmission
  /\ UNCHANGED <<record, underReview, bucket, inFlight, extraction, candidates, maintaining, custodyDay>>

\* A refusal, a timeout or a crash: the transaction is gone, the intent stays.
AdmissionEnds ==
  /\ admission.phase # "idle"
  /\ admission' = NoAdmission
  /\ UNCHANGED <<record, underReview, custody, scanned, bucket, inFlight, extraction,
                 candidates, approvals, maintaining, custodyDay>>

\* A request given up on still reaches the bucket, in seconds: well before the
\* hours of orphan grace are over.
LateUpload(p) ==
  /\ p \in inFlight
  /\ inFlight' = inFlight \ {p}
  /\ bucket' = [bucket EXCEPT ![p] = IF @.present THEN @ ELSE [present |-> TRUE, hold |-> FALSE]]
  /\ UNCHANGED <<record, underReview, custody, scanned, admission, extraction, candidates,
                 approvals, maintaining, custodyDay>>

-----------------------------------------------------------------------------
(* Reading and extraction *)

validateDocumentLink ==
  /\ underReview /\ record = "AVAILABLE" /\ scanned # ""
  /\ custody.state = "ATTACHED" /\ DeleteAfter > custodyDay

\* The evidence row is shared with no maintenance at work.
EvidenceShared == maintaining = ""

WithLockedDocument ==
  /\ extraction = "idle"
  /\ CaseFree /\ EvidenceShared
  /\ validateDocumentLink
  /\ extraction' = "reading"
  /\ UNCHANGED <<record, underReview, custody, scanned, bucket, inFlight, admission,
                 candidates, approvals, maintaining, custodyDay>>

Open == bucket[custody.proof].present /\ custody.state = "ATTACHED" /\ DeleteAfter > custodyDay

\* The vault opens the pinned version and the processor answers; or it fails.
OpenScanned ==
  /\ extraction = "reading"
  /\ extraction' \in {"read", "idle"}
  /\ extraction' = "read" => Open
  /\ UNCHANGED <<record, underReview, custody, scanned, bucket, inFlight, admission,
                 candidates, approvals, maintaining, custodyDay>>

\* A transaction of its own, after the reader's locks are gone.
RecordDocumentCandidates ==
  /\ extraction = "read"
  /\ CaseFree /\ EvidenceShared
  /\ extraction' = "idle"
  /\ candidates' = (candidates \/ validateDocumentLink)
  /\ UNCHANGED <<record, underReview, custody, scanned, bucket, inFlight, admission,
                 approvals, maintaining, custodyDay>>

Extract == WithLockedDocument \/ OpenScanned \/ RecordDocumentCandidates

-----------------------------------------------------------------------------
(* Maintenance *)

\* Two people approve an operation on the row as reported.
CustodyApproval(op) ==
  /\ custody.state \notin {"NONE", "DELETED"}
  /\ op \notin approvals /\ Cardinality(approvals) < MaxApprovals
  /\ approvals' = approvals \cup {op}
  /\ UNCHANGED <<record, underReview, custody, scanned, bucket, inFlight, admission,
                 extraction, candidates, maintaining, custodyDay>>

ApprovalExpires(op) ==
  /\ op \in approvals
  /\ approvals' = approvals \ {op}
  /\ UNCHANGED <<record, underReview, custody, scanned, bucket, inFlight, admission,
                 extraction, candidates, maintaining, custodyDay>>

Object == bucket[custody.proof]

ReconcileDue == custody.orphanAfter <= custodyDay
Reconcilable ==
  \/ custody.state = "DELETING"
  \/ /\ custody.state = "PENDING"
     /\ ReconcileDue
     /\ scanned # "" => scanned = custody.proof /\ Object.present

Holdable == Object.present /\ custody.state # "DELETING"

Rotatable == Object.present /\ custody.state = "ATTACHED"

\* A quarantined row, or one tombstoned from quarantine, waits out its
\* quarantine and must not be referenced; another waits for its policy.
PeriodOver ==
  IF custody.quarantined > 0
  THEN custody.quarantined + QuarantineDays <= custodyDay /\ scanned = ""
  ELSE DeleteAfter <= custodyDay

Deletable ==
  /\ custody.state \in {"ATTACHED", "QUARANTINED", "DELETING"}
  /\ Object.present => custody.pinned
  /\ ~custody.hold /\ ~Object.hold
  /\ RetainUntil <= custodyDay
  /\ PeriodOver

Permitted(op) ==
  CASE op = "RECONCILE" -> Reconcilable
    [] op \in {"HOLD", "RELEASE_HOLD"} -> Holdable
    [] op = "ROTATE" -> Rotatable
    [] op = "DELETE" -> Deletable

\* What the operation does to the bucket before the commit: only a DELETE of a
\* row already tombstoned removes the bytes.
RemoteDelete == custody.state = "DELETING"
Hold(on) == [bucket EXCEPT ![custody.proof].hold = on]
Delete == [bucket EXCEPT ![custody.proof] = Gone]
BucketAfter(op) ==
  CASE op \in {"HOLD", "RELEASE_HOLD"} -> Hold(op = "HOLD")
    [] op = "DELETE" /\ RemoteDelete -> Delete
    [] OTHER -> bucket

\* Mutant: maintenance does not wait for the reader.
EvidenceReadUnlocked == TRUE

\* Maintenance takes the evidence row for itself, the reader's order.
EvidenceForUpdate == extraction # "reading"

\* The transaction begins, checks the approval against the row, and acts.
Maintain(op) ==
  /\ op \in approvals
  /\ lockCustody /\ EvidenceForUpdate
  /\ Permitted(op)
  /\ bucket' = BucketAfter(op)
  /\ maintaining' = op
  /\ UNCHANGED <<record, underReview, custody, scanned, inFlight, admission, extraction,
                 candidates, approvals, custodyDay>>

CustodyAfter(op) ==
  CASE op = "RECONCILE" /\ custody.state = "PENDING" /\ scanned # "" ->
         [custody EXCEPT !.state = "ATTACHED", !.pinned = TRUE]
    [] op = "RECONCILE" /\ custody.state = "PENDING" /\ scanned = "" ->
         [custody EXCEPT !.state = "QUARANTINED", !.quarantined = custodyDay,
                         !.pinned = @ \/ Object.present]
    [] op = "HOLD" -> [custody EXCEPT !.hold = TRUE, !.pinned = TRUE]
    [] op = "RELEASE_HOLD" -> [custody EXCEPT !.hold = FALSE, !.pinned = TRUE]
    [] op = "DELETE" /\ custody.state # "DELETING" -> [custody EXCEPT !.state = "DELETING"]
    [] op = "DELETE" /\ custody.state = "DELETING" -> [custody EXCEPT !.state = "DELETED"]
    [] OTHER -> custody

\* The final DELETE also erases what was extracted and the evidence's standing.
ErasedWith(deleted) == deleted

persistCustody ==
  LET after == CustodyAfter(maintaining)
      erased == ErasedWith(after.state = "DELETED")
  IN /\ maintaining # ""
     /\ custody' = after
     /\ candidates' = (candidates /\ ~erased)
     /\ record' = IF after.state = "DELETED" THEN "DESTROYED" ELSE record
     /\ approvals' = {}
     /\ maintaining' = ""
     /\ UNCHANGED <<underReview, scanned, bucket, inFlight, admission, extraction, custodyDay>>

\* The approval ran out, the commit failed or the job died: the row is as it
\* was, the bucket is not.
MaintenanceFails ==
  /\ maintaining # ""
  /\ maintaining' = ""
  /\ UNCHANGED <<record, underReview, custody, scanned, bucket, inFlight, admission,
                 extraction, candidates, approvals, custodyDay>>

-----------------------------------------------------------------------------
(* Around it *)

\* The case or the claim moves on, or back (VerificationCases).
ReviewMoves ==
  /\ CaseFree
  /\ underReview' = ~underReview
  /\ UNCHANGED <<record, custody, scanned, bucket, inFlight, admission, extraction,
                 candidates, approvals, maintaining, custodyDay>>

\* A newer record supersedes the evidence (RegisterEvidence).
RecordSuperseded ==
  /\ CaseFree /\ EvidenceShared
  /\ record = "AVAILABLE" /\ record' = "SUPERSEDED"
  /\ UNCHANGED <<underReview, custody, scanned, bucket, inFlight, admission, extraction,
                 candidates, approvals, maintaining, custodyDay>>

\* A transaction ends, and an upload arrives, within the day.
CustodyTick ==
  /\ custodyDay < LastCustodyDay
  /\ admission.phase = "idle" /\ maintaining = "" /\ inFlight = {}
  /\ custodyDay' = custodyDay + 1
  /\ UNCHANGED <<record, underReview, custody, scanned, bucket, inFlight, admission,
                 extraction, candidates, approvals, maintaining>>

CustodyNext ==
  \/ Ingest \/ Receive \/ SealIntent \/ SealUpload \/ SealCommit \/ AdmissionEnds
  \/ \E p \in ScanProofs : LateUpload(p)
  \/ Extract
  \/ \E op \in Operations : CustodyApproval(op) \/ ApprovalExpires(op) \/ Maintain(op)
  \/ persistCustody \/ MaintenanceFails
  \/ ReviewMoves \/ RecordSuperseded \/ CustodyTick

CustodySpec == CustodyInit /\ [][CustodyNext]_custodyVars

-----------------------------------------------------------------------------
(* An ATTACHED row is backed: the object of its own proof is in the bucket  *)
(* and the scan proof is committed, whatever was uploaded late, retried or  *)
(* given up on (Seal, RegisterScannedArtifact, RECONCILE).                  *)
AttachedIsBacked ==
  custody.state = "ATTACHED" => bucket[custody.proof].present /\ scanned = custody.proof

(* Bytes leave the bucket only under a committed tombstone, past retention, *)
(* with a hold neither in the row nor on the object, and never while a      *)
(* quarantined row's scan proof refers to them (Maintain's DELETE).         *)
NeverErasedEarly ==
  [][\A p \in ScanProofs : bucket[p].present /\ ~bucket'[p].present =>
       /\ custody.state = "DELETING" /\ custody.proof = p
       /\ custodyDay >= RetainUntil
       /\ ~custody.hold /\ ~bucket[p].hold
       /\ custody.quarantined > 0 => scanned = ""]_custodyVars

(* What is destroyed stays destroyed: past the tombstone the row never      *)
(* becomes readable again, and once DELETED no object of the row's proof, no*)
(* extracted candidate and no available record is left, an interrupted      *)
(* DELETE and a late extraction included.                                   *)
DestroyedForGood ==
  /\ custody.state = "DELETED" =>
       /\ ~bucket[custody.proof].present
       /\ ~candidates
       /\ record = "DESTROYED"

(* A document being read is there until the reader is done: maintenance     *)
(* cannot tombstone or erase it under WithLockedDocument.                   *)
ReadersKeepTheirDocument ==
  extraction = "reading" =>
    custody.state = "ATTACHED" /\ bucket[custody.proof].present /\ record = "AVAILABLE"

(* A quarantined intent is an orphan: no scan proof refers to it, however   *)
(* an admission and RECONCILE race, and no later admission attaches it.     *)
QuarantinedIsOrphan ==
  [][/\ custody'.state = "QUARANTINED" => scanned' = ""
     /\ custody.state \in {"QUARANTINED", "DELETING"} => custody'.state # "ATTACHED"]_custodyVars

\* Document custody: attached evidence is backed by its object, destroyed is
\* destroyed for good, readers keep the document they read, nothing is
\* erased early, and only orphans are quarantined.
CustodyPromises ==
  /\ [](AttachedIsBacked /\ DestroyedForGood /\ ReadersKeepTheirDocument)
  /\ NeverErasedEarly
  /\ QuarantinedIsOrphan
=============================================================================
