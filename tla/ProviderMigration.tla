--------------------------- MODULE ProviderMigration ---------------------------
(***************************************************************************)
(* One provider migration: the decision on its plan, its advances through  *)
(* the lifecycle, the engine tasks an advance waits for, and the bindings  *)
(* whose authority moves from the source provider to the target's.         *)
(*                                                                         *)
(* A cohort's bindings move together, so a cohort is one binding, or has   *)
(* none. Commands hold the migration's row lock and name the revision they *)
(* read; the cancellation of an operation locks the operation only, so a   *)
(* resumed advance is two steps: it reads the operation, then drives it.   *)
(* Facts that change between two commands are a choice of the command:     *)
(* whether they still yield the plan, whether the target serves. An ended  *)
(* run's steps and a closed task's lease are never read again.             *)
(***************************************************************************)
EXTENDS Integers, Sequences, FiniteSets

CONSTANTS Requests,      \* [mode, strategy, windowed, blocked, populated]
          LastCohort,    \* cohorts are 1..LastCohort, in the request's order
          Administrators,
          NoOne

ASSUME MigrationAssumption ==
  /\ LastCohort \in Nat \ {0}
  /\ NoOne \notin Administrators
  /\ \A r \in Requests : r.populated \subseteq 1..LastCohort

VARIABLES request,    \* the plan's request
          migration,  \* topology.provider_migration
          planDecision, \* provider_migration_approval of the current plan
          operation,  \* the latest PROVIDER_MIGRATION_ADVANCE and its run
          tasks,      \* the waiting step's engine_migration_task rows, by role
          succeeded,  \* <<cohort, operation, direction>> of SUCCEEDED freezes and releases
          ledger,     \* provider_migration_binding.state, by cohort
          mode,       \* the source's and the target's binding, by cohort
          resuming,   \* the status a resuming transaction has read
          expired,    \* the plan is past its expires_at
          window,     \* the cutover window
          accepts     \* the sides that accept a cohort's writes

controlVars == <<migration, planDecision, operation, resuming>>
bindingVars == <<ledger, mode>>
taskVars == <<tasks, succeeded>>
environmentVars == <<expired, window, accepts>>
migrationVars == <<request, controlVars, bindingVars, taskVars, environmentVars>>

Cohorts == 1..LastCohort
Terminal == {"COMPLETE", "CANCELLED", "ROLLED_BACK"}
Roles == {"SOURCE", "TARGET"}
Open == {"PENDING", "CLAIMED"}
Ended == {"SUCCEEDED", "FAILED", "CANCELLED"}

-----------------------------------------------------------------------------
(* The lifecycle *)

Lifecycle ==
  [PLAN |-> [prepare |-> "PREPARE", cancel |-> "CANCELLED"],
   PREPARE |-> [shadow |-> "SHADOW", canary |-> "CANARY", cancel |-> "CANCELLED"],
   SHADOW |-> [canary |-> "CANARY", cancel |-> "CANCELLED"],
   CANARY |-> [validate |-> "VALIDATE", roll_back |-> "ROLLED_BACK"],
   SHIFT |-> [validate |-> "VALIDATE", roll_back |-> "ROLLED_BACK"],
   VALIDATE |-> [shift |-> "SHIFT", retire_old |-> "RETIRE_OLD", roll_back |-> "ROLLED_BACK"],
   RETIRE_OLD |-> [complete |-> "COMPLETE"]]

Transitions == {"prepare", "shadow", "canary", "validate", "shift", "retire_old", "complete", "cancel", "roll_back"}

Forward(t) == t \notin {"cancel", "roll_back"}
MovesAuthority(t) == t \in {"canary", "shift"}

\* engine_steps: who performs an operation going forward and in rollback.
EngineSteps ==
  [freeze    |-> [FORWARD |-> {"SOURCE"}, REVERSE |-> {"TARGET"}],
   migrate   |-> [FORWARD |-> {"TARGET"}, REVERSE |-> {"SOURCE"}],
   reconcile |-> [FORWARD |-> Roles, REVERSE |-> Roles],
   unfreeze  |-> [FORWARD |-> {"TARGET"}, REVERSE |-> {"SOURCE"}]]

EngineOperation(o) == o \in DOMAIN EngineSteps

StatefulSequence == <<"freeze", "migrate", "reconcile", "shift", "unfreeze">>

RollbackSteps ==
  [REBIND_SOURCE |-> <<"freeze", "shift", "unfreeze">>,
   RESTORE_AND_REBIND_SOURCE |-> StatefulSequence,
   FORWARD_FIX_ONLY |-> <<>>]

For(c, operations) == [i \in DOMAIN operations |-> [do |-> operations[i], cohort |-> c]]

Stateless == request.mode = "STATELESS_REBIND"

\* The next cohort a transition moves, by the scope of its stage_steps.
SelectedCohort(t) ==
  CASE t = "canary" -> 1
    [] t = "shift" -> migration.cohort + 1
    [] OTHER -> migration.cohort

\* Select: the plan's steps a forward transition runs.
Select(t) ==
  LET c == SelectedCohort(t)
  IN CASE t = "prepare" -> For(0, <<"verify", "bind">>)
       [] MovesAuthority(t) -> For(c, IF Stateless THEN <<"shift">> ELSE StatefulSequence)
       [] t = "validate" -> For(c, <<"validate">>)
       [] t = "retire_old" -> For(0, <<"retire">>)
       [] t \in {"shadow", "complete"} -> <<>>

\* Select and checkCohortOrder: is there such a cohort, and is it its turn?
InOrder(t) ==
  CASE t = "shift" -> migration.cohort < LastCohort
    [] t = "validate" -> \E i \in DOMAIN migration.shifted : migration.shifted[i] = migration.cohort
    [] t = "retire_old" -> migration.cohort = LastCohort
    [] OTHER -> TRUE

ShiftedCohorts == {migration.shifted[i] : i \in DOMAIN migration.shifted}

\* frozenCohort: frozen by a forward advance, never shifted, never released.
FrozenCohort ==
  {c \in {migration.cohort} \cap (Cohorts \ ShiftedCohorts) :
     /\ <<c, "freeze", "FORWARD">> \in succeeded
     /\ <<c, "unfreeze", "REVERSE">> \notin succeeded}

\* The shifted cohorts' steps back, the most recent cohort first.
UnshiftSteps ==
  LET ops == IF Stateless
               THEN SelectSeq(RollbackSteps[request.strategy], LAMBDA o : ~EngineOperation(o))
               ELSE RollbackSteps[request.strategy]
      n == Len(ops)
      k == Len(migration.shifted)
  IN [i \in 1..(n * k) |->
        [do |-> ops[((i - 1) % n) + 1], cohort |-> migration.shifted[k - ((i - 1) \div n)]]]

\* rollbackSteps; a FORWARD_FIX_ONLY migration has no way back once shifted.
RollbackRuns ==
  (IF FrozenCohort = {} THEN <<>> ELSE For(CHOOSE c \in FrozenCohort : TRUE, <<"unfreeze">>))
    \o UnshiftSteps \o For(0, <<"remove">>)

Reversible == request.strategy = "FORWARD_FIX_ONLY" => migration.shifted = <<>>

-----------------------------------------------------------------------------
(* Steps *)

NoTasks == [r \in {} |-> 0]

Direction(run) == IF run.transition = "roll_back" THEN "REVERSE" ELSE "FORWARD"

\* The cohort's rows in the ledger: what its engine tasks are issued for.
HasMembers(c) == ledger[c] # "NONE"

AllSucceeded == \A r \in DOMAIN tasks : tasks[r].status = "SUCCEEDED"

\* reconciled: both sides report the same records.
Reconciled == \A r, q \in DOMAIN tasks : tasks[r].records = tasks[q].records

\* engineStep: the tasks of the step the run waits at; none for a cohort with
\* no bindings. A later step's are not issued yet.
EngineStepDone(run, i) ==
  LET s == run.steps[i]
  IN IF i = run.next /\ run.issued
       THEN AllSucceeded /\ (s.do = "reconcile" => Reconciled)
       ELSE ~HasMembers(s.cohort)

EngineStepFails(run, i) ==
  /\ i = run.next /\ run.issued
  /\ \/ \E r \in DOMAIN tasks : tasks[r].status = "FAILED"
     \/ AllSucceeded /\ run.steps[i].do = "reconcile" /\ ~Reconciled

\* The local steps that fail on authoritative state: a source binding that is
\* gone, a cohort out of step, a target that does not serve.
LocalStepFails(run, i, serves) ==
  LET s == run.steps[i]
  IN CASE s.do = "bind" -> ~serves
       [] s.do = "shift" /\ Direction(run) = "FORWARD" -> HasMembers(s.cohort) /\ ledger[s.cohort] # "PREPARED"
       [] s.do = "validate" ->
            /\ HasMembers(s.cohort)
            /\ \/ ledger[s.cohort] # "SHIFTED" \/ mode.TARGET[s.cohort] # "AUTHORITY"
               \/ mode.SOURCE[s.cohort] # "MIGRATION" \/ ~serves
       [] s.do = "retire" -> \E c \in Cohorts : HasMembers(c) /\ ledger[c] # "SHIFTED"
       [] OTHER -> FALSE

StepFails(run, i, serves) ==
  IF EngineOperation(run.steps[i].do) THEN EngineStepFails(run, i) ELSE LocalStepFails(run, i, serves)

StepDone(run, i, serves) ==
  IF EngineOperation(run.steps[i].do) THEN EngineStepDone(run, i) ELSE ~LocalStepFails(run, i, serves)

\* Where drive's loop stops: the first step that is not done, or the end.
StopsAt(run, serves) ==
  CHOOSE i \in run.next..(Len(run.steps) + 1) :
    /\ i <= Len(run.steps) => ~StepDone(run, i, serves)
    /\ \A j \in run.next..(i - 1) : StepDone(run, j, serves)

\* What the local steps of one call, a set, do to a cohort's ledger row.
LedgerAfter(ran, direction) ==
  [c \in Cohorts |->
     LET bound == IF [do |-> "bind", cohort |-> 0] \in ran /\ c \in request.populated /\ ledger[c] = "NONE"
                    THEN "PREPARED" ELSE ledger[c]
         moved == CASE [do |-> "shift", cohort |-> c] \notin ran \/ bound = "NONE" -> bound
                    [] direction = "FORWARD" -> "SHIFTED"
                    [] OTHER -> IF bound = "SHIFTED" THEN "PREPARED" ELSE bound
     IN CASE [do |-> "retire", cohort |-> 0] \in ran /\ moved = "SHIFTED" -> "RETIRED"
          [] [do |-> "remove", cohort |-> 0] \in ran /\ moved = "PREPARED" -> "REMOVED"
          [] OTHER -> moved]

\* shiftCohort, unshiftCohort, createMigrationBindings, retireSource and
\* removeMigrationBindings: the modes the two bindings of a cohort get.
SourceAfter(ran, direction) ==
  [c \in Cohorts |->
     CASE [do |-> "retire", cohort |-> 0] \in ran /\ ledger[c] = "SHIFTED" -> "RETIRED"
       [] [do |-> "shift", cohort |-> c] \in ran /\ direction = "FORWARD" /\ HasMembers(c) -> "MIGRATION"
       [] [do |-> "shift", cohort |-> c] \in ran /\ direction = "REVERSE" /\ ledger[c] = "SHIFTED" -> "AUTHORITY"
       [] OTHER -> mode.SOURCE[c]]

TargetAfter(ran, direction) ==
  LET l == LedgerAfter(ran \ {[do |-> "remove", cohort |-> 0]}, direction)
  IN [c \in Cohorts |->
        CASE [do |-> "remove", cohort |-> 0] \in ran /\ l[c] = "PREPARED" -> "RETIRED"
          [] [do |-> "bind", cohort |-> 0] \in ran /\ l[c] = "PREPARED" -> "MIGRATION"
          [] [do |-> "shift", cohort |-> c] \in ran /\ HasMembers(c) ->
               IF direction = "FORWARD" THEN "AUTHORITY"
               ELSE IF ledger[c] = "SHIFTED" THEN "MIGRATION" ELSE mode.TARGET[c]
          [] OTHER -> mode.TARGET[c]]

\* Mutant: a rollback does not take its cohorts off the list.
ShiftedKept(ran, direction) ==
  LET cohorts == {s.cohort : s \in {x \in ran : x.do = "shift"}}
  IN migration.shifted \o SelectSeq([c \in Cohorts |-> c], LAMBDA c : c \in cohorts \ ShiftedCohorts)

\* addShifted and removeShifted.
ShiftedAfter(ran, direction) ==
  LET cohorts == {s.cohort : s \in {x \in ran : x.do = "shift"}}
  IN IF direction = "FORWARD"
       THEN migration.shifted \o SelectSeq([c \in Cohorts |-> c], LAMBDA c : c \in cohorts \ ShiftedCohorts)
       ELSE SelectSeq(migration.shifted, LAMBDA c : c \notin cohorts)

\* issueTasks: one task per role of the step.
Issued(run, i) ==
  [r \in EngineSteps[run.steps[i].do][Direction(run)] |->
     [status |-> "PENDING", leased |-> FALSE, overdue |-> FALSE, performed |-> FALSE, records |-> 0,
      until |-> IF request.windowed /\ window # "closed" THEN "window" ELSE "hours"]]

Closed(task, status) == [task EXCEPT !.status = status, !.leased = FALSE, !.overdue = FALSE,
                                         !.performed = FALSE, !.records = 0]

\* cancelOpenTasks.
CancelOpen == [r \in DOMAIN tasks |-> Closed(tasks[r], IF tasks[r].status \in Open THEN "CANCELLED" ELSE tasks[r].status)]

\* expireMigrationTasks.
Expired ==
  [r \in DOMAIN tasks |->
     IF tasks[r].status \in Open /\ tasks[r].overdue THEN Closed(tasks[r], "FAILED") ELSE tasks[r]]

NoOperation == [status |-> "NONE", transition |-> "none", steps |-> <<>>, next |-> 1, target |-> "PLAN",
                cohort |-> 0, issued |-> FALSE, by |-> NoOne]

EndedAs(run, status) == [NoOperation EXCEPT !.status = status, !.transition = run.transition, !.by = run.by]

-----------------------------------------------------------------------------
(* Advances *)

\* drive: runs the steps, then records the operation, the run and the
\* migration. A failed step undoes what this call did. "before" is the stage
\* and cohort an accepted transition leaves, or <<>> when resuming.
Drive(run, before, serves) ==
  LET stop == StopsAt(run, serves)
      fails == stop <= Len(run.steps) /\ StepFails(run, stop, serves)
      waits == stop <= Len(run.steps) /\ ~fails
      ran == IF fails THEN {} ELSE {run.steps[i] : i \in run.next..(stop - 1)}
      direction == Direction(run)
      undone == fails /\ before # <<>> /\ ~run.issued
      stage == CASE undone -> before[1]
                 [] (fails \/ waits) /\ ~Forward(run.transition) -> migration.stage
                 [] OTHER -> run.target
  IN /\ operation' = IF waits THEN [run EXCEPT !.status = "RUNNING", !.next = stop, !.issued = TRUE]
                     ELSE EndedAs(run, IF fails THEN "FAILED" ELSE "SUCCEEDED")
     /\ migration' = [migration EXCEPT !.stage = stage,
                                       !.cohort = IF undone THEN before[2] ELSE run.cohort,
                                       !.shifted = ShiftedAfter(ran, direction)]
     /\ ledger' = LedgerAfter(ran, direction)
     /\ mode' = [SOURCE |-> SourceAfter(ran, direction), TARGET |-> TargetAfter(ran, direction)]
     /\ tasks' = CASE fails -> CancelOpen
                   [] waits -> IF stop = run.next /\ run.issued THEN tasks ELSE Issued(run, stop)
                   [] OTHER -> NoTasks

\* planStale: expiry counts only before execution has started.
PlanStale(fresh) == ~fresh \/ (expired /\ migration.stage = "PLAN")

\* DecideProviderMigration.
DecideProviderMigration(u, verdict, fresh) ==
  /\ resuming = "NONE"
  /\ migration.stage = "PLAN" /\ planDecision.verdict = "NONE"
  /\ u # migration.creator
  /\ verdict = "APPROVED" => ~request.blocked /\ ~PlanStale(fresh)
  /\ planDecision' = [verdict |-> verdict, by |-> u]
  /\ UNCHANGED <<request, migration, operation, resuming, bindingVars, taskVars, environmentVars>>

\* checkAdvanceAllowed.
AdvanceAllowed(u, t, fresh) ==
  /\ planDecision.verdict = "APPROVED" /\ planDecision.by # u
  /\ ~request.blocked /\ ~PlanStale(fresh)
  /\ MovesAuthority(t) /\ request.windowed => window = "open"

\* AdvanceProviderMigration, once the running advance is settled.
AdvanceProviderMigration(u, t, fresh, serves) ==
  LET cohort == IF Forward(t) THEN SelectedCohort(t) ELSE migration.cohort
      steps == CASE t = "cancel" -> For(0, <<"stop", "remove">>)
                 [] t = "roll_back" -> RollbackRuns
                 [] OTHER -> Select(t)
  IN /\ resuming = "NONE"
     /\ migration.stage \notin Terminal /\ t \in DOMAIN Lifecycle[migration.stage]
     /\ operation.status \in Ended \cup {"NONE"}
     /\ Forward(t) => AdvanceAllowed(u, t, fresh) /\ InOrder(t)
     /\ t = "cancel" => migration.shifted = <<>>
     /\ t = "roll_back" => Reversible
     /\ serves \/ t \in {"prepare", "validate"}
     /\ Drive([status |-> "RUNNING", transition |-> t, steps |-> steps, next |-> 1,
               target |-> Lifecycle[migration.stage][t], cohort |-> cohort, issued |-> FALSE, by |-> u],
              <<migration.stage, migration.cohort>>, serves)
     /\ UNCHANGED <<request, planDecision, resuming, succeeded, environmentVars>>

\* settleProviderMigration, and a claim or report past the deadline: overdue
\* tasks fail, and the running advance resumes.
Settle ==
  /\ resuming = "NONE" /\ operation.status \in {"RUNNING", "CANCEL_REQUESTED"}
  /\ tasks' = Expired
  /\ resuming' = operation.status
  /\ UNCHANGED <<request, migration, planDecision, operation, bindingVars, succeeded, environmentVars>>

\* resume: an advance asked to stop ends here, its open tasks cancelled.
ResumeCancels ==
  /\ resuming = "CANCEL_REQUESTED"
  /\ operation' = EndedAs(operation, "CANCELLED")
  /\ tasks' = CancelOpen
  /\ resuming' = "NONE"
  /\ UNCHANGED <<request, migration, planDecision, bindingVars, succeeded, environmentVars>>

\* resume: drive records the outcome over whatever the status is by now.
ResumeDrives ==
  /\ resuming = "RUNNING"
  /\ Drive(operation, <<>>, TRUE)
  /\ resuming' = "NONE"
  /\ UNCHANGED <<request, planDecision, succeeded, environmentVars>>

\* CancelOperation of a running advance.
CancelAdvance ==
  /\ operation.status = "RUNNING"
  /\ operation' = [operation EXCEPT !.status = "CANCEL_REQUESTED"]
  /\ UNCHANGED <<request, migration, planDecision, resuming, bindingVars, taskVars, environmentVars>>

-----------------------------------------------------------------------------
(* Engine tasks *)

\* ClaimEngineMigrationTask takes or renews the lease.
ClaimEngineMigrationTask(r) ==
  /\ resuming = "NONE" /\ r \in DOMAIN tasks
  /\ tasks[r].status \in Open /\ ~tasks[r].overdue
  /\ tasks' = [tasks EXCEPT ![r].status = "CLAIMED", ![r].leased = TRUE]
  /\ UNCHANGED <<request, controlVars, bindingVars, succeeded, environmentVars>>

\* ListEngineMigrationTasks returns a lapsed claim to PENDING.
ListEngineMigrationTasks ==
  /\ \E r \in DOMAIN tasks : tasks[r].status = "CLAIMED" /\ ~tasks[r].leased
  /\ tasks' = [r \in DOMAIN tasks |->
                 [tasks[r] EXCEPT !.status = IF @ = "CLAIMED" /\ ~tasks[r].leased THEN "PENDING" ELSE @]]
  /\ UNCHANGED <<request, controlVars, bindingVars, succeeded, environmentVars>>

\* ReportEngineMigrationTask: the claimant's, while its lease holds. The
\* records of a reconciliation are whatever the side counted.
ReportEngineMigrationTask(r, outcome, records) ==
  LET s == operation.steps[operation.next]
  IN /\ resuming = "NONE" /\ r \in DOMAIN tasks
     /\ tasks[r].status = "CLAIMED" /\ tasks[r].leased /\ ~tasks[r].overdue
     /\ outcome = "SUCCEEDED" <=> tasks[r].performed
     /\ s.do = "reconcile" /\ outcome = "SUCCEEDED" <=> records # 0
     /\ tasks' = [tasks EXCEPT ![r] = [Closed(@, outcome) EXCEPT !.records = records]]
     /\ succeeded' = IF outcome = "SUCCEEDED" /\ s.do \in {"freeze", "unfreeze"} THEN succeeded \cup {<<s.cohort, s.do, Direction(operation)>>} ELSE succeeded
     /\ resuming' = operation.status
     /\ UNCHANGED <<request, migration, planDecision, operation, bindingVars, environmentVars>>

\* The engine does what its task says while it holds the lease.
Perform(r) ==
  LET s == operation.steps[operation.next]
  IN /\ r \in DOMAIN tasks
     /\ tasks[r].status = "CLAIMED" /\ tasks[r].leased /\ ~tasks[r].overdue /\ ~tasks[r].performed
     /\ tasks' = [tasks EXCEPT ![r].performed = TRUE]
     /\ accepts' = CASE s.do = "freeze" -> [accepts EXCEPT ![s.cohort] = @ \ {r}]
                     [] s.do = "unfreeze" -> [accepts EXCEPT ![s.cohort] = @ \cup {r}]
                     [] OTHER -> accepts
     /\ UNCHANGED <<request, controlVars, bindingVars, succeeded, expired, window>>

-----------------------------------------------------------------------------
(* The passing of time, and of other changes *)

LeaseLapses(r) ==
  /\ r \in DOMAIN tasks /\ tasks[r].status = "CLAIMED" /\ tasks[r].leased
  /\ tasks' = [tasks EXCEPT ![r].leased = FALSE]
  /\ UNCHANGED <<request, controlVars, bindingVars, succeeded, environmentVars>>

DeadlinePasses(r) ==
  /\ r \in DOMAIN tasks /\ tasks[r].status \in Open /\ tasks[r].until = "hours" /\ ~tasks[r].overdue
  /\ tasks' = [tasks EXCEPT ![r].overdue = TRUE]
  /\ UNCHANGED <<request, controlVars, bindingVars, succeeded, environmentVars>>

PlanExpires ==
  /\ migration.stage = "PLAN" /\ ~expired
  /\ expired' = TRUE
  /\ UNCHANGED <<request, controlVars, bindingVars, taskVars, window, accepts>>

WindowMoves ==
  /\ request.windowed /\ window # "closed" /\ resuming = "NONE"
  /\ window' = IF window = "ahead" THEN "open" ELSE "closed"
  /\ tasks' = IF window' = "open" THEN tasks
              ELSE [r \in DOMAIN tasks |-> [tasks[r] EXCEPT !.overdue = @ \/ tasks[r].until = "window"]]
  /\ UNCHANGED <<request, controlVars, bindingVars, succeeded, expired, accepts>>

-----------------------------------------------------------------------------
(* The specification *)

PlannedBy(u) ==
  /\ migration = [stage |-> "PLAN", cohort |-> 0, shifted |-> <<>>, creator |-> u]
  /\ planDecision = [verdict |-> "NONE", by |-> NoOne]
  /\ operation = NoOperation
  /\ tasks = NoTasks /\ succeeded = {}
  /\ ledger = [c \in Cohorts |-> "NONE"]
  /\ mode = [SOURCE |-> [c \in Cohorts |-> IF c \in request.populated THEN "AUTHORITY" ELSE "NONE"],
             TARGET |-> [c \in Cohorts |-> "NONE"]]
  /\ resuming = "NONE"
  /\ expired = FALSE /\ window = "ahead"
  /\ accepts = [c \in Cohorts |-> {"SOURCE"}]

MigrationInit == request \in Requests /\ \E u \in Administrators : PlannedBy(u)

\* The routes: an administrator's decision or advance, an engine's report.
ApproveRoute(u) ==
  \E verdict \in {"APPROVED", "REJECTED"}, fresh \in BOOLEAN : DecideProviderMigration(u, verdict, fresh)
AdvanceRoute(u) ==
  \E t \in Transitions, fresh, serves \in BOOLEAN : AdvanceProviderMigration(u, t, fresh, serves)
ReportRoute(r) ==
  \E outcome \in {"SUCCEEDED", "FAILED"}, n \in 0..2 : ReportEngineMigrationTask(r, outcome, n)

MigrationNext ==
  \/ \E u \in Administrators : ApproveRoute(u) \/ AdvanceRoute(u)
  \/ Settle \/ ResumeCancels \/ ResumeDrives \/ CancelAdvance
  \/ ListEngineMigrationTasks
  \/ \E r \in Roles :
       \/ ClaimEngineMigrationTask(r) \/ ReportRoute(r)
       \/ Perform(r) \/ LeaseLapses(r) \/ DeadlinePasses(r)
  \/ PlanExpires \/ WindowMoves

MigrationSpec == MigrationInit /\ [][MigrationNext]_migrationVars

-----------------------------------------------------------------------------
(* Properties *)

\* The rows a migration, its decision, its operation and its tasks can be.
MigrationTypeOK ==
  /\ migration.stage \in DOMAIN Lifecycle \cup Terminal
  /\ migration.cohort \in 0..LastCohort
  /\ planDecision.by \in Administrators \cup {NoOne}
  /\ operation.status \in Ended \cup {"NONE", "RUNNING", "CANCEL_REQUESTED"}
  /\ operation.next \in 1..(Len(operation.steps) + 1)
  /\ \A r \in DOMAIN tasks : r \in Roles /\ tasks[r].status \in Open \cup {"SUCCEEDED", "FAILED", "CANCELLED"}
  /\ ledger \in [Cohorts -> {"NONE", "PREPARED", "SHIFTED", "RETIRED", "REMOVED"}]
  /\ \A r \in Roles : mode[r] \in [Cohorts -> {"NONE", "AUTHORITY", "MIGRATION", "RETIRED"}]
  /\ accepts \in [Cohorts -> SUBSET Roles]

Authority(c) == {r \in Roles : mode[r][c] = "AUTHORITY"}

\* Whatever fails, is cancelled, retried or rolled back: a cohort with
\* bindings has exactly one authoritative side, and only that side accepts
\* its writes (stateful_cohort_sequence, rollback_steps, shiftCohort).
SingleAuthoritativeWriter ==
  \A c \in Cohorts :
    /\ c \in request.populated => Cardinality(Authority(c)) = 1
    /\ request.mode = "STATEFUL_CUTOVER" /\ c \in request.populated => accepts[c] \subseteq Authority(c)

\* shifted_cohort_keys, written by drive, and the ledger and modes, written
\* under its savepoint, agree after every failure.
ShiftedKeysMatchLedger ==
  \A c \in request.populated :
    /\ c \in ShiftedCohorts <=> ledger[c] \in {"SHIFTED", "RETIRED"}
    /\ ledger[c] \in {"SHIFTED", "RETIRED"} <=> "TARGET" \in Authority(c)

\* A migration that ended left every context served by one provider only: the
\* source's binding unchanged and no live target binding, or the target's
\* and no live source binding.
EndsWhole ==
  /\ migration.stage \in {"CANCELLED", "ROLLED_BACK"} =>
       \A c \in Cohorts : mode.TARGET[c] \in {"NONE", "RETIRED"}
  /\ migration.stage = "COMPLETE" =>
       \A c \in request.populated : mode.SOURCE[c] = "RETIRED" /\ mode.TARGET[c] = "AUTHORITY"

\* An advance that waits has a task that is open, so a report or a deadline
\* can wake it; one that ended left no task to claim.
WaitingAdvanceHasOpenTask ==
  resuming = "NONE" =>
    (operation.status \in {"RUNNING", "CANCEL_REQUESTED"} <=> \E r \in DOMAIN tasks : tasks[r].status \in Open)

\* Three people: who created the migration does not approve its plan, and who
\* approved it runs no forward advance.
AdvancedByOthers ==
  /\ migration.stage \notin {"PLAN", "CANCELLED"} => planDecision.verdict = "APPROVED" /\ planDecision.by # migration.creator
  /\ operation.status # "NONE" /\ Forward(operation.transition) => operation.by # planDecision.by

\* Authority moves to the target only while the cutover window is open, though
\* the advance was accepted, and its tasks issued, long before the step.
MovesInsideWindow ==
  [][\A c \in Cohorts :
       request.windowed /\ mode.TARGET[c] # "AUTHORITY" /\ mode.TARGET'[c] = "AUTHORITY" => window = "open"]_migrationVars

\* rollback_release: a rolled back migration leaves no source frozen.
RolledBackAcceptsWrites ==
  migration.stage = "ROLLED_BACK" => \A c \in request.populated : "SOURCE" \in accepts[c]

\* A provider migration, however its commands, engine reports and
\* cancellations interleave, keeps one authoritative writer per cohort,
\* shifts exactly the keys its ledger says, ends whole, never waits without
\* a task to wait for, is advanced by someone else than its approver, and
\* moves bindings only inside its window.
MigrationPromises ==
  /\ [](MigrationTypeOK /\ SingleAuthoritativeWriter /\ ShiftedKeysMatchLedger /\
       EndsWhole /\ WaitingAdvanceHasOpenTask /\ AdvancedByOthers)
  /\ MovesInsideWindow
=============================================================================
