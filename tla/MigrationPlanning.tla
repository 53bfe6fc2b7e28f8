--------------------------- MODULE MigrationPlanning ---------------------------
(***************************************************************************)
(* The planner of provider migrations, and the creation of a migration     *)
(* with its first plan. Every request moves one capability of one source   *)
(* provider to one target. What the planner reads is, for each source      *)
(* binding, whether it is live, the cohorts whose selectors match it,      *)
(* whether the target supports its contract version, and the target's      *)
(* instances located where it is and healthy.                              *)
(***************************************************************************)
EXTENDS Integers, Sequences, FiniteSets, SequencesExt

CONSTANTS PlannedBindings, \* source bindings
          Instances,       \* the target's engine instances, 1..n in key order
          LastPlanned,     \* cohorts are 1..LastPlanned; the last may omit its selector
          Creators,        \* create requests in progress
          Keys,            \* their idempotency keys
          Selection,       \* what a key's request selects: [matches, catchAll, shadow, stateful]
          Location,        \* the bindings each instance is located for
          MaxFactsChanges  \* bound: changes of the facts

VARIABLES facts,     \* [live, registered, supported, located, healthy], and the changes so far
          created,   \* provider_migration rows and their plans, by idempotency key
          creator    \* what each create request has read

planningVars == <<facts, created, creator>>

Unplanned == [pc |-> "idle"]
When(condition, element) == IF condition THEN {element} ELSE {}

-----------------------------------------------------------------------------
(* Planner.Plan *)

\* serve: the first instance by key that is located and healthy.
Located(f, b) == {i \in Instances : b \in f.located[i]}
Serving(f, b) == Located(f, b) \cap f.healthy
ChosenInstance(f, b) == CHOOSE i \in Serving(f, b) : \A j \in Serving(f, b) : i <= j

\* The cohorts a binding matches; the last takes what no selector does.
CohortsOf(r, b) == IF r.matches[b] = {} /\ r.catchAll THEN {LastPlanned} ELSE r.matches[b]

Members(r, f, c) == {b \in f.live : CohortsOf(r, b) = {c}}

Rows == {k \in Keys : created[k] # Unplanned}

OpenMigrations == {k \in Rows : created[k].open}

TargetBlockers(f) ==
  IF ~f.registered THEN {<<"MIGRATION_TARGET_NOT_REGISTERED">>}
  ELSE {<<"MIGRATION_TARGET_CONTRACT_INCOMPATIBLE", b>> : b \in f.live \ f.supported}
       \cup When(\E b \in f.live : Located(f, b) = {}, <<"MIGRATION_TARGET_NOT_ELIGIBLE">>)
       \cup When(\E b \in f.live : Located(f, b) # {} /\ Serving(f, b) = {}, <<"MIGRATION_TARGET_UNHEALTHY">>)

Blockers(r, f, others) ==
  When(f.live = {}, <<"MIGRATION_SOURCE_NOT_BOUND">>)
  \cup {<<"MIGRATION_ALREADY_IN_PROGRESS", k>> : k \in others}
  \cup TargetBlockers(f)
  \cup When(r.shadow, <<"MIGRATION_SHADOW_UNSAFE">>)
  \cup {<<"MIGRATION_COHORT_OVERLAP", b>> : b \in {x \in f.live : Cardinality(CohortsOf(r, x)) > 1}}
  \cup {<<"MIGRATION_CONTEXT_UNASSIGNED", b>> : b \in {x \in f.live : CohortsOf(r, x) = {}}}

\* steps: verify, bind, shadow, each cohort in order, retire.
PlannedStep(do, where, bindings) == [do |-> do, at |-> where, bindings |-> bindings]

BindStep(f, i) ==
  LET ids == {b \in f.live : f.registered /\ Serving(f, b) # {} /\ ChosenInstance(f, b) = i}
  IN IF ids = {} THEN <<>> ELSE <<PlannedStep("bind", i, ids)>>

CohortSteps(r, f, c) ==
  LET ops == (IF r.stateful THEN <<"freeze", "migrate", "reconcile", "shift", "unfreeze">> ELSE <<"shift">>)
               \o <<"validate">>
  IN [n \in DOMAIN ops |-> PlannedStep(ops[n], c, Members(r, f, c))]

Steps(r, f) ==
  <<PlannedStep("verify", 0, {})>>
    \o FlattenSeq([i \in 1..Cardinality(Instances) |-> BindStep(f, i)])
    \o (IF r.shadow THEN <<PlannedStep("start_shadow", 0, {}), PlannedStep("stop_shadow", 0, {})>> ELSE <<>>)
    \o FlattenSeq([c \in 1..LastPlanned |-> CohortSteps(r, f, c)])
    \o <<PlannedStep("retire", 0, {})>>

\* Material: what the plan would do and on what it depends.
Material(r, f, others) ==
  [discovered |-> Cardinality(f.live), steps |-> Steps(r, f), blockers |-> Blockers(r, f, others)]

\* Planning again, and comparing digests of the material.
Stale(k) == created[k].material # Material(Selection[k], facts, OpenMigrations \ {k})

-----------------------------------------------------------------------------
(* Creation *)

Becomes(c, next) == creator' = [creator EXCEPT ![c] = next]

\* create: no migration has the key; one that has is replayed.
ReadKey(c, k) ==
  /\ creator[c] = Unplanned /\ created[k] = Unplanned
  /\ Becomes(c, [pc |-> "checked", key |-> k])
  /\ UNCHANGED <<facts, created>>

\* Mutant: the plan is made before the source provider's lock is held.
PlanUnlocked(c) ==
  LET me == creator[c]
  IN /\ me.pc = "checked"
     /\ Becomes(c, [pc |-> "planned", key |-> me.key, material |-> Material(Selection[me.key], facts, OpenMigrations)])
     /\ UNCHANGED <<facts, created>>

\* CreateProviderMigration plans under the advisory lock ...
PlanLocked(c) ==
  LET me == creator[c]
  IN /\ me.pc = "checked" /\ \A d \in Creators : creator[d].pc # "planned"
     /\ Becomes(c, [pc |-> "planned", key |-> me.key, material |-> Material(Selection[me.key], facts, OpenMigrations)])
     /\ UNCHANGED <<facts, created>>

\* ... and inserts the migration and its plan; a key taken meanwhile is
\* that request's replay.
InsertMigration(c) ==
  LET me == creator[c]
  IN /\ me.pc = "planned"
     /\ created' = IF created[me.key] # Unplanned THEN created
                   ELSE [created EXCEPT ![me.key] = [pc |-> "row", open |-> TRUE, material |-> me.material]]
     /\ Becomes(c, Unplanned)
     /\ UNCHANGED facts

\* A migration reaches one of its terminal stages (ProviderMigration).
MigrationEnds(k) ==
  /\ k \in OpenMigrations
  /\ created' = [created EXCEPT ![k].open = FALSE]
  /\ UNCHANGED <<facts, creator>>

\* Bindings, support, instances and their health change.
FactsChange ==
  /\ facts.changes < MaxFactsChanges
  /\ \E next \in {[facts EXCEPT !.live = (@ \ {b}) \cup ({b} \ @)] : b \in PlannedBindings}
             \cup {[facts EXCEPT !.healthy = (@ \ {i}) \cup ({i} \ @)] : i \in Instances}
             \cup {[facts EXCEPT !.supported = (@ \ {b}) \cup ({b} \ @)] : b \in PlannedBindings}
             \cup {[facts EXCEPT !.registered = ~@]} :
       facts' = [next EXCEPT !.changes = @ + 1]
  /\ UNCHANGED <<created, creator>>

PlanningInit ==
  /\ facts \in [live : {PlannedBindings}, registered : {TRUE}, supported : {PlannedBindings},
                located : {Location}, healthy : {Instances}, changes : {0}]
  /\ created = [k \in Keys |-> Unplanned]
  /\ creator = [c \in Creators |-> Unplanned]

PlanningNext ==
  \/ \E c \in Creators :
       \/ \E k \in Keys : ReadKey(c, k)
       \/ PlanLocked(c) \/ InsertMigration(c)
  \/ \E k \in Keys : MigrationEnds(k)
  \/ FactsChange

PlanningSpec == PlanningInit /\ [][PlanningNext]_planningVars

-----------------------------------------------------------------------------
(* Properties *)

Unblocked(k) == created[k].material.blockers = {}

\* Concurrent creates never leave two open migrations that are both free to
\* move the same capability away from the same provider.
OneMigrationMayMove ==
  Cardinality({k \in OpenMigrations : Unblocked(k)}) <= 1

\* A plan without blockers that is not stale still moves every live binding
\* exactly once: from one bind step, to an instance that serves it now,
\* through one cohort, whose writes are frozen before it shifts.
FreshPlanMovesEveryBindingOnce ==
  \A k \in Rows : Unblocked(k) /\ ~Stale(k) =>
    LET plan == created[k].material.steps
        Naming(do, b) == {n \in DOMAIN plan : plan[n].do = do /\ b \in plan[n].bindings}
    IN \A b \in facts.live :
         /\ \E n \in Naming("bind", b) : plan[n].at \in Serving(facts, b) /\ Naming("bind", b) = {n}
         /\ \E n \in Naming("shift", b) : Naming("shift", b) = {n} /\ \A m \in Naming("freeze", b) : m < n
         /\ Selection[k].stateful <=> Naming("freeze", b) # {}

\* Planning lets at most one migration of a source move, and a plan that is
\* not stale moves each binding it selects exactly once.
PlanningPromises ==
  /\ [](OneMigrationMayMove /\ FreshPlanMovesEveryBindingOnce)
=============================================================================
