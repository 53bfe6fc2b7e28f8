----------------------------- MODULE MCChangeset -----------------------------
(***************************************************************************)
(* Instances of Changeset for TLC: a tenant, an engine instance and an     *)
(* administrative principal.  The changesets of a behaviour all name the   *)
(* target in focus, so that each kind gets the bounds it needs.            *)
(***************************************************************************)
EXTENDS Changeset, FiniteSets, TLC

CONSTANTS tenant, instance, principal, g1

VARIABLE focus

Change(kind, t, g) == [kind |-> kind, target |-> t, replaces |-> g]

TypeOfTarget == (tenant :> "TENANT") @@ (instance :> "ENGINE_INSTANCE")
                  @@ (principal :> "ADMINISTRATIVE_PRINCIPAL")
ChangesOfTargets ==
  {Change("TENANT_SUSPENSION", tenant, NoGrant),
   Change("TENANT_REINSTATEMENT", tenant, NoGrant),
   Change("ENGINE_INSTANCE_DESIRED_RELEASE", instance, NoGrant),
   Change("ADMINISTRATIVE_GRANT_ISSUANCE", principal, g1)}

\* Bounds per target: two changesets race for a tenant or a principal, two
\* keys for an instance's only changeset.
Limits ==
  (tenant :> [changesets |-> 2, revision |-> 4, target |-> 2, keys |-> 1, clients |-> 2]) @@
  (instance :> [changesets |-> 1, revision |-> 7, target |-> 3, keys |-> 2, clients |-> 2]) @@
  (principal :> [changesets |-> 2, revision |-> 4, target |-> 1, keys |-> 2, clients |-> 1])

Busy == {p \in Clients : tx[p] # None}
KeysNamed == {o.key : o \in operations} \cup ({tx[p].key : p \in Busy} \ {None})

WithinLimits ==
  LET l == Limits[focus] IN
  /\ \A c \in Changesets : /\ state[c] = "NONE" \/ (c <= l.changesets /\ TargetOf(c) = focus)
                           /\ revision[c] <= l.revision
  /\ \A p \in Busy : revision[tx[p].cs] < l.revision
  /\ Cardinality(Busy) <= l.clients
  /\ Cardinality(KeysNamed) <= l.keys
  /\ target[focus].revision <= l.target
  /\ failing \subseteq {focus}

FocusedInit == Init /\ focus \in Targets
FocusedNext ==
  /\ Next
  /\ UNCHANGED focus
  /\ \A t \in Targets \ {focus} : target'[t] = target[t]
  /\ WithinLimits'
FocusedSpec == FocusedInit /\ [][FocusedNext]_<<vars, focus>>

\* Clients, principals and keys are interchangeable.
Interchangeable ==
  Permutations(Clients) \cup Permutations(Principals) \cup Permutations(Keys)

\* base is written once and read by no command.
WithoutBase ==
  <<state, revision, desired, requester, plan, approval, reasons, outcome, decisions,
    operations, target, failing, superseded, tx, applied, consumed, focus>>

\* The order of creation decides between changesets of one target. One created
\* later never comes to await approval behind an open earlier one (the advisory
\* lock of SubmitChangeset). And, for changesets that change a tenant or an
\* instance, submitting the later one never makes the plan of the earlier one
\* stale, as readTarget's comment says (an issuance that replaces the same grant
\* may).
EarlierCreatedGoesFirst ==
  /\ AwaitsBehindNone
  /\ [][focus # principal => KeepsEarlierPlan]_vars
=============================================================================
