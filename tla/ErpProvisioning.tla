---------------------------- MODULE ErpProvisioning ----------------------------
(***************************************************************************)
(* Requests to ERP for what approved plans authorise: the intent recorded  *)
(* before a request is sent, the submission recorded after ERP accepted    *)
(* it, and ERP's progress, which arrives in events (EventInbox), in        *)
(* answers to requests, and in the reads of the recovery sweep.            *)
(*                                                                         *)
(* A request's idempotency key is a function of its plan and its Finance   *)
(* baseline references, and ERP answers a replay of a key with the key's   *)
(* operation: <<plan, baseline>> is both key and operation. Plans carry    *)
(* one set of references; its versions are numbered as Finance approves    *)
(* them. Of ERP's states, the four that are not final are "open", and      *)
(* failed stands for cancelled too.                                        *)
(***************************************************************************)
EXTENDS Integers, Sequences, FiniteSets, EventInbox

CONSTANTS Plans,          \* approved plan tuples
          Submitters,     \* executions of APPLY that may be in progress
          Sweepers,       \* recovery sweeps, one per replica
          MaxBaseline,    \* bound: Finance baselines approved
          MaxRevision     \* bound: revisions of an operation at ERP

ASSUME ErpAssumption ==
  MaxBaseline \in Nat \ {0} /\ MaxRevision \in Nat \ {0} /\ Submitters \cap Sweepers = {}

VARIABLES effective,   \* ERP: the Finance baseline in force
          erp,         \* ERP: the states each operation has had, by revision
          delayed,     \* requests whose caller no longer waits
          intent,      \* erp_submission_intent: baseline of a plan's request
          submission,  \* erp_submission, by plan
          aged,        \* plans whose submission is older than MaxAge
          worker       \* what each submitter and sweeper holds in memory

ledgerVars == <<intent, submission, aged>>
erpVars == <<effective, erp, delayed>>
vars == <<erpVars, ledgerVars, worker, inboxVars>>

Baselines == 1..MaxBaseline
Operations == Plans \X Baselines
Workers == Submitters \cup Sweepers

Final == {"active", "failed"}

-----------------------------------------------------------------------------
(* ERP *)

Revision(k) == Len(erp[k])
State(k) == erp[k][Len(erp[k])]

\* ERP provisions a request once, and only under the baseline in force.
Acceptable(k) == erp[k] # <<>> \/ k[2] = effective

Accepted(k) == IF erp[k] = <<>> THEN [erp EXCEPT ![k] = <<"open">>] ELSE erp

FinanceSupersedes ==
  /\ effective < MaxBaseline
  /\ effective' = effective + 1
  /\ UNCHANGED <<erp, delayed, ledgerVars, worker, inboxVars>>

ErpAdvances(k) ==
  /\ erp[k] # <<>> /\ State(k) \notin Final /\ Revision(k) < MaxRevision
  /\ \E s \in {"open"} \cup Final : erp' = [erp EXCEPT ![k] = Append(@, s)]
  /\ UNCHANGED <<effective, delayed, ledgerVars, worker, inboxVars>>

\* A request given up by its caller reaches ERP, if it does.
ErpReceivesLate(k) ==
  /\ k \in delayed
  /\ erp' = IF Acceptable(k) THEN Accepted(k) ELSE erp
  /\ delayed' = delayed \ {k}
  /\ UNCHANGED <<effective, ledgerVars, worker, inboxVars>>

\* ERP publishes every revision; the delivery is repeated, reordered or lost.
Deliver(k) ==
  /\ \E n \in 1..Revision(k) : Accept(<<k, n>>)
  /\ UNCHANGED <<erpVars, ledgerVars, worker>>

-----------------------------------------------------------------------------
(* The ledger *)

NoSubmission == [baseline |-> 0, revision |-> 0, state |-> "open"]

\* Mutant: whatever is read last is recorded.
AdvancedAlways(p, b, revision, state) ==
  IF submission[p].baseline = b
    THEN [submission EXCEPT ![p].revision = revision, ![p].state = state]
    ELSE submission

\* PostgresLedger.Apply: only a newer revision of the recorded operation.
Advanced(p, b, revision, state) ==
  IF submission[p].baseline = b /\ submission[p].revision < revision
    THEN [submission EXCEPT ![p].revision = revision, ![p].state = state]
    ELSE submission

\* Submitted: a first submission of the plan, or a replay of its operation.
\* Another operation's is ErrSubmissionConflict.
Submitted(p, b, revision, state) ==
  IF submission[p] = NoSubmission
    THEN [submission EXCEPT ![p] = [baseline |-> b, revision |-> revision, state |-> state]]
    ELSE Advanced(p, b, revision, state)

-----------------------------------------------------------------------------
(* Submit *)

Idle == [pc |-> "idle"]

Goes(w, next) == worker' = [worker EXCEPT ![w] = next]

\* ForPlan: an operation already recorded is reconciled instead.
Submit(w, p) ==
  /\ worker[w].pc = "idle"
  /\ Goes(w, IF submission[p] = NoSubmission
               THEN [pc |-> "intent", plan |-> p]
               ELSE [pc |-> "read", plan |-> p, baseline |-> submission[p].baseline])
  /\ UNCHANGED <<erpVars, ledgerVars, inboxVars>>

\* Ledger.Intent.
ReadIntent(w) ==
  LET p == worker[w].plan
  IN /\ worker[w].pc = "intent"
     /\ Goes(w, IF intent[p] = 0 THEN [pc |-> "resolve", plan |-> p]
                ELSE [pc |-> "provision", plan |-> p, baseline |-> intent[p]])
     /\ UNCHANGED <<erpVars, ledgerVars, inboxVars>>

\* resolveBaselines: ERP names the baseline in force.
ResolveBaselines(w) ==
  /\ worker[w].pc = "resolve"
  /\ Goes(w, [pc |-> "record", plan |-> worker[w].plan, baseline |-> effective])
  /\ UNCHANGED <<erpVars, ledgerVars, inboxVars>>

\* RecordIntent inserts, unless an intent is recorded ...
RecordIntent(w) ==
  LET me == worker[w]
  IN /\ me.pc = "record"
     /\ intent' = IF intent[me.plan] = 0 THEN [intent EXCEPT ![me.plan] = me.baseline] ELSE intent
     /\ Goes(w, [pc |-> "reread", plan |-> me.plan])
     /\ UNCHANGED <<erpVars, submission, aged, inboxVars>>

\* ... and reads back what is recorded now.
RereadIntent(w) ==
  LET p == worker[w].plan
  IN /\ worker[w].pc = "reread"
     /\ Goes(w, IF intent[p] = 0 THEN Idle
                ELSE [pc |-> "provision", plan |-> p, baseline |-> intent[p]])
     /\ UNCHANGED <<erpVars, ledgerVars, inboxVars>>

\* Provision: ERP accepts the request, or finds it is a replay.
Provision(w) ==
  LET k == <<worker[w].plan, worker[w].baseline>>
  IN /\ worker[w].pc = "provision"
     /\ Acceptable(k)
     /\ erp' = Accepted(k)
     /\ Goes(w, [pc |-> "submitted", plan |-> k[1], baseline |-> k[2],
                 revision |-> Len(erp'[k]), state |-> erp'[k][Len(erp'[k])]])
     /\ UNCHANGED <<effective, delayed, ledgerVars, inboxVars>>

\* Provision: ERP refuses the references.
ProvisionRefused(w) ==
  LET me == worker[w]
  IN /\ me.pc = "provision"
     /\ ~Acceptable(<<me.plan, me.baseline>>)
     /\ Goes(w, [pc |-> "discard", plan |-> me.plan])
     /\ UNCHANGED <<erpVars, ledgerVars, inboxVars>>

\* Mutant: an intent is dropped on any failure of the request.
ProvisionFailsAndDiscards(w) ==
  LET me == worker[w]
  IN /\ me.pc = "provision"
     /\ delayed' = delayed \cup {<<me.plan, me.baseline>>}
     /\ Goes(w, [pc |-> "discard", plan |-> me.plan])
     /\ UNCHANGED <<effective, erp, ledgerVars, inboxVars>>

\* Provision: no answer, or another refusal. The intent stays; ERP may have
\* received the request, or may yet.
ProvisionFails(w) ==
  LET me == worker[w]
  IN /\ me.pc = "provision"
     /\ delayed' = delayed \cup {<<me.plan, me.baseline>>}
     /\ Goes(w, Idle)
     /\ UNCHANGED <<effective, erp, ledgerVars, inboxVars>>

\* refused, DiscardIntent: the plan's intent, whichever it is by now, unless
\* the plan has a submission.
DiscardIntent(w) ==
  LET p == worker[w].plan
  IN /\ worker[w].pc = "discard"
     /\ intent' = IF submission[p] = NoSubmission THEN [intent EXCEPT ![p] = 0] ELSE intent
     /\ Goes(w, Idle)
     /\ UNCHANGED <<erpVars, submission, aged, inboxVars>>

RecordSubmission(w) ==
  LET me == worker[w]
  IN /\ me.pc = "submitted"
     /\ submission' = Submitted(me.plan, me.baseline, me.revision, me.state)
     /\ Goes(w, Idle)
     /\ UNCHANGED <<erpVars, intent, aged, inboxVars>>

\* A statement or a read fails, the answer disagrees with what was submitted,
\* or the replica stops.
Fails(w) ==
  /\ worker[w].pc \notin {"idle", "provision"}
  /\ Goes(w, Idle)
  /\ UNCHANGED <<erpVars, ledgerVars, inboxVars>>

-----------------------------------------------------------------------------
(* Progress: Reconcile, the sweep, and events *)

\* Mutant: only operations something was heard of since they were submitted.
OverdueHeard(p) ==
  /\ submission[p] # NoSubmission /\ submission[p].revision > 1
  /\ submission[p].state \notin Final /\ p \notin aged

\* ClaimOverdue, as far as it is not about time.
Overdue(p) ==
  submission[p] # NoSubmission /\ submission[p].state \notin Final /\ p \notin aged

\* The submission passes MaxAge.
SubmissionAges(p) ==
  /\ submission[p] # NoSubmission /\ p \notin aged
  /\ aged' = aged \cup {p}
  /\ UNCHANGED <<erpVars, intent, submission, worker, inboxVars>>

Sweep(w) ==
  /\ worker[w].pc = "idle"
  /\ \E p \in Plans :
       /\ Overdue(p)
       /\ Goes(w, [pc |-> "read", plan |-> p, baseline |-> submission[p].baseline])
  /\ UNCHANGED <<erpVars, ledgerVars, inboxVars>>

\* Reconcile reads the operation from ERP ...
ReadOperation(w) ==
  LET me == worker[w]
      k == <<me.plan, me.baseline>>
  IN /\ me.pc = "read" /\ erp[k] # <<>>
     /\ Goes(w, [pc |-> "apply", plan |-> me.plan, baseline |-> me.baseline,
                 revision |-> Revision(k), state |-> State(k)])
     /\ UNCHANGED <<erpVars, ledgerVars, inboxVars>>

\* ... and records it.
Record(w) ==
  LET me == worker[w]
  IN /\ me.pc = "apply"
     /\ submission' = Advanced(me.plan, me.baseline, me.revision, me.state)
     /\ Goes(w, Idle)
     /\ UNCHANGED <<erpVars, intent, aged, inboxVars>>

\* ApplyEvent on event e: the state of a recorded operation is applied if it is
\* newer; an operation not recorded yet, or a failing store, is an error.
ApplyEvent(q, e) ==
  LET p == e[1][1]
      b == e[1][2]
  IN /\ \/ /\ submission[p].baseline = b
           /\ submission' = Advanced(p, b, e[2], erp[e[1]][e[2]])
           /\ Handled(q, e, "applied")
        \/ submission' = submission /\ Handled(q, e, "error")
     /\ UNCHANGED <<erpVars, intent, aged, worker>>

\* ErrStateDisagrees: the event names another tenant or other legal entities
\* than the submission of its operation.
EventDisagrees(q, e) ==
  /\ submission[e[1][1]].baseline = e[1][2]
  /\ Handled(q, e, "permanent")
  /\ UNCHANGED <<erpVars, ledgerVars, worker>>

Process(q) ==
  \/ /\ processor[q].pc = "batch"
     /\ \E e \in processor[q].batch : ApplyEvent(q, e) \/ EventDisagrees(q, e)
  \/ /\ Due(q) \/ Mark(q) \/ Purge(q) \/ PassEnds(q)
     /\ UNCHANGED <<erpVars, ledgerVars, worker>>

-----------------------------------------------------------------------------
(* The system *)

Init ==
  /\ effective = 1
  /\ erp = [k \in Operations |-> <<>>]
  /\ delayed = {}
  /\ intent = [p \in Plans |-> 0]
  /\ submission = [p \in Plans |-> NoSubmission]
  /\ aged = {}
  /\ worker = [w \in Workers |-> Idle]
  /\ InboxInit

SubmitStep(w) ==
  \/ \E p \in Plans : Submit(w, p)
  \/ ReadIntent(w) \/ ResolveBaselines(w) \/ RecordIntent(w) \/ RereadIntent(w)
  \/ Provision(w) \/ ProvisionRefused(w) \/ ProvisionFails(w)
  \/ DiscardIntent(w) \/ RecordSubmission(w)

WorkerStep(w) ==
  \/ w \in Submitters /\ SubmitStep(w)
  \/ w \in Sweepers /\ Sweep(w)
  \/ ReadOperation(w) \/ Record(w) \/ Fails(w)

Next ==
  \/ FinanceSupersedes
  \/ \E k \in Operations : ErpAdvances(k) \/ ErpReceivesLate(k) \/ Deliver(k)
  \/ \E p \in Plans : SubmissionAges(p)
  \/ \E w \in Workers : WorkerStep(w)
  \/ \E q \in Processors : Process(q)

Spec == Init /\ [][Next]_vars

\* The sweep runs on its interval, and a read that is tried again and again is
\* answered and recorded in the end.
FairSpec ==
  /\ Spec
  /\ \A w \in Sweepers : /\ WF_vars(Sweep(w))
                         /\ SF_vars(ReadOperation(w))
                         /\ SF_vars(Record(w))

-----------------------------------------------------------------------------
(* Properties *)

ErpStates == {"open"} \cup Final

\* Every value is of its type, and a receipt has one status: an event that is
\* delivered again while its receipt is kept is not accepted twice (Accept).
TypeOK ==
  /\ effective \in Baselines
  /\ erp \in [Operations -> Seq(ErpStates)]
  /\ delayed \subseteq Operations
  /\ intent \in [Plans -> 0..MaxBaseline]
  /\ submission \in [Plans -> [baseline : 0..MaxBaseline, revision : 0..MaxRevision,
                               state : ErpStates]]
  /\ aged \subseteq Plans
  /\ \A w \in Workers :
       /\ worker[w].pc # "idle" => worker[w].plan \in Plans
       /\ worker[w].pc \in {"record", "provision", "submitted", "read", "apply"} =>
            worker[w].baseline \in Baselines
  /\ pending \cap applied = {} /\ pending \cap dead = {} /\ applied \cap dead = {}

\* What readiness reads is what ERP reported: the recorded revision of a
\* recorded operation has at ERP the recorded state, whichever of an event, a
\* sweep or an answer brought it, however late.
LedgerReportsErp ==
  \A p \in Plans : submission[p] # NoSubmission =>
    LET k == <<p, submission[p].baseline>>
    IN /\ submission[p].baseline \in Baselines
       /\ submission[p].revision \in 1..Len(erp[k])
       /\ submission[p].state = erp[k][submission[p].revision]

\* An applied receipt took effect: the ledger has the event's revision of its
\* operation, or a later one. No event is marked before its operation is known.
AppliedEventsAreRecorded ==
  \A e \in applied :
    LET s == submission[e[1][1]]
    IN s.baseline = e[1][2] /\ s.revision >= e[2]

\* A submission is fixed once recorded and its progress never moves backwards
\* (migration 95), under events out of order, sweeps and replays.
ProgressMovesForward ==
  [][\A p \in Plans : submission[p] # NoSubmission =>
       /\ submission'[p].baseline = submission[p].baseline
       /\ submission'[p].revision >= submission[p].revision
       /\ submission'[p].revision = submission[p].revision =>
            submission'[p].state = submission[p].state]_vars

\* What the ledger promises together: well-formed rows, progress that ERP
\* reported and that only moves forward, and no receipt without its effect.
ErpPromises ==
  [](TypeOK /\ LedgerReportsErp /\ AppliedEventsAreRecorded) /\ ProgressMovesForward

\* The steps in which DiscardIntent drops an intent, if any, only of a request
\* ERP refuses from now on: it has no operation of it, and its baseline is
\* superseded. A refused submitter drops its own intent this way, unless
\* another one has replaced it meanwhile.
DiscardsOnlyRefused ==
  \A w \in Submitters : DiscardIntent(w) =>
    LET p == worker[w].plan
    IN \/ submission[p] # NoSubmission
       \/ intent[p] = 0
       \/ erp[<<p, intent[p]>>] = <<>> /\ intent[p] < effective

\* What the intent is for: an operation ERP accepted is either recorded, or the
\* plan's intent still names it, so the next Submit is answered with it. No
\* crash, lost answer or late request orphans it while a plan has one
\* submitter at a time.
AcceptedIsNeverOrphaned ==
  \A k \in Operations : erp[k] # <<>> =>
    \/ submission[k[1]].baseline = k[2]
    \/ submission[k[1]] = NoSubmission /\ intent[k[1]] = k[2]

\* Lost events are recovered: an operation that is final at ERP becomes final
\* in the ledger, unless its submission grows too old for the sweep.
OperationsCatchUp ==
  \A p \in Plans :
    (submission[p] # NoSubmission /\ State(<<p, submission[p].baseline>>) \in Final)
      ~> (submission[p].state \in Final \/ p \in aged)

\* Ledger.ForPlan: "One approved plan has at most one ERP operation", however
\* many attempts submit it.
OneOperationPerPlan ==
  \A p \in Plans, b, c \in Baselines :
    erp[<<p, b>>] # <<>> /\ erp[<<p, c>>] # <<>> => b = c
=============================================================================
