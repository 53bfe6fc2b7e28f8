------------------------- MODULE ChangesetInduction -------------------------
(***************************************************************************)
(* Proofs about Changeset, for every set of changesets, targets, desired   *)
(* changes, principals, keys and clients and every bound: type             *)
(* correctness, and that each conjunct of the inductive invariant is       *)
(* preserved by every step.                                                *)
(***************************************************************************)
EXTENDS Changeset, TLAPS

-----------------------------------------------------------------------------
(* Facts about the tables and the planner *)

\* Every kind's to_status is a status.
LEMMA KindStatuses == \A k \in DOMAIN Kinds : Kinds[k].to \in Statuses
<1>1. DOMAIN Kinds = {"TENANT_SUSPENSION", "TENANT_REINSTATEMENT", "MARKET_ACTIVATION",
        "MAPPING_ACTIVATION", "PROVIDER_ACTIVATION", "ENGINE_RELEASE_APPROVAL",
        "ENGINE_INSTANCE_DESIRED_RELEASE", "ADMINISTRATIVE_GRANT_ISSUANCE",
        "ADMINISTRATIVE_GRANT_DELEGATION"}
  BY DEF Kinds
<1>2. /\ Kinds["TENANT_SUSPENSION"].to = "suspended"
      /\ Kinds["TENANT_REINSTATEMENT"].to = "active"
      /\ Kinds["MARKET_ACTIVATION"].to = "ACTIVE"
      /\ Kinds["MAPPING_ACTIVATION"].to = "ACTIVE"
      /\ Kinds["PROVIDER_ACTIVATION"].to = "ACTIVE"
      /\ Kinds["ENGINE_RELEASE_APPROVAL"].to = "APPROVED"
      /\ Kinds["ENGINE_INSTANCE_DESIRED_RELEASE"].to = ""
      /\ Kinds["ADMINISTRATIVE_GRANT_ISSUANCE"].to = ""
      /\ Kinds["ADMINISTRATIVE_GRANT_DELEGATION"].to = ""
  BY Zenon DEF Kinds
<1> QED BY <1>1, <1>2, Zenon DEF Statuses

\* A direct route leads to the status of a registered target, and the one that
\* registers a target gives it a revision.
LEMMA RouteSound ==
  ASSUME NEW type, NEW from, NEW to, NEW bump, Route(type, from, to, bump)
  PROVE  to # "" /\ (from = "" => bump = 1)
  BY Zenon DEF Route, TenantRoute, MarketRoute, MappingRoute, ProviderRoute, ReleaseRoute, InstanceRoute,
         PrincipalRoute, GrantRoute

\* A plan made from what a transaction read is a plan.
LEMMA GenerateType ==
  ASSUME NEW d, NEW t \in Tx, NEW v \in Nat
  PROVE  Generate(d, t, v) \in Plan /\ Validate(d, t) \in SUBSET Codes
  BY Zenon DEF Generate, Validate, Plan, Tx, Max1, Codes

\* None is neither a plan, nor a transaction, nor a desired change.
LEMMA NoneApart == None \notin Plan /\ None \notin Tx /\ None \notin Changes
<1>1. None \notin Plan
  BY DEF None, Plan
<1>2. None \notin Tx
  BY DEF None, Tx
<1>3. None \notin Changes
  BY ChangesAssumption DEF None, DesiredChange
<1> QED BY <1>1, <1>2, <1>3

\* What a command's desired change can be.
LEMMA ChangeType ==
  ASSUME NEW d \in Changes
  PROVE  d.kind \in DOMAIN Kinds /\ d.target \in Targets /\ d.replaces \in Grants \cup {NoGrant}
  BY ChangesAssumption DEF DesiredChange

-----------------------------------------------------------------------------
(* Types, and what a transaction may rely on *)

\* Creating a changeset keeps the types.
LEMMA TypeCreate ==
  ASSUME TypeOK, NEW c \in Changesets, NEW d \in Changes, NEW by \in Principals,
         Create(c, d, by)
  PROVE  TypeOK'
  BY ChangeType DEF TypeOK, Create, Max1, States

\* Starting a transaction on a changeset keeps the types.
LEMMA TypeBegin ==
  ASSUME TypeOK, NEW p \in Clients, NEW c \in Changesets, desired[c] \in Changes,
         NEW op \in {"submit", "approve", "apply"}, NEW by \in Principals \cup {None},
         NEW key \in Keys \cup {None}, NEW expected \in Nat, NEW late \in BOOLEAN,
         Begin(p, op, c, by, key, expected, late)
  PROVE  TypeOK'
<1>1. TargetOf(c) \in Targets
  BY ChangeType DEF TargetOf
<1>2. tx' \in [Clients -> Tx \cup {None}]
  BY <1>1 DEF TypeOK, Begin, Tx
<1> QED BY <1>2 DEF TypeOK, Begin

\* readTarget's later statements change nothing but what they read.
LEMMA ReadLocksKeeps ==
  ASSUME TypeOK, NEW p \in Clients, ReadLocks(p)
  PROVE  /\ tx[p] \in Tx /\ tx'[p] \in Tx /\ tx' \in [Clients -> Tx \cup {None}]
         /\ tx'[p].op = tx[p].op /\ tx'[p].cs = tx[p].cs /\ tx'[p].by = tx[p].by
         /\ tx'[p].key = tx[p].key /\ tx'[p].expected = tx[p].expected
         /\ tx'[p].status = tx[p].status /\ tx'[p].revision = tx[p].revision
         /\ \A q \in Clients \ {p} : tx'[q] = tx[q]
<1> DEFINE l == LockedBy(tx[p].cs) # {}
           f == CheckFailures(tx[p].cs)
           n == [tx[p] EXCEPT !.ready = TRUE, !.locked = l, !.failed = f]
<1>1. tx[p] \in Tx
  BY Zenon DEF TypeOK, ReadLocks
<1>2. tx' = [tx EXCEPT ![p] = n]
  BY <1>1, Zenon DEF ReadLocks, TypeOK, Tx
<1>3. l \in BOOLEAN /\ f \in BOOLEAN
  BY DEF CheckFailures
<1> HIDE DEF l, f
<1>4. /\ n \in Tx /\ n.op = tx[p].op /\ n.cs = tx[p].cs /\ n.by = tx[p].by /\ n.key = tx[p].key
      /\ n.expected = tx[p].expected /\ n.status = tx[p].status /\ n.revision = tx[p].revision
  BY <1>1, <1>3, Zenon DEF Tx
<1> HIDE DEF n
<1> QED BY <1>1, <1>2, <1>4 DEF TypeOK

\* A transaction's first statement, which locks and reads, keeps the types.
LEMMA TypeReadLocks ==
  ASSUME TypeOK, NEW p \in Clients, ReadLocks(p)
  PROVE  TypeOK'
<1>1. tx' \in [Clients -> Tx \cup {None}]
  BY ReadLocksKeeps
<1> QED BY <1>1, Zenon DEF TypeOK, ReadLocks

\* A submission keeps the types: its plan is a plan, its blockers are blockers.
LEMMA TypeSubmit ==
  ASSUME TypeOK, NEW p \in Clients, SubmitChangeset(p)
  PROVE  TypeOK'
<1> DEFINE c == tx[p].cs
           v == Validate(desired[c], tx[p])
           s == SubmittedState(v)
<1>1. tx[p] \in Tx /\ c \in Changesets /\ tx[p].expected \in Nat
  BY DEF TypeOK, SubmitChangeset, Ready, Tx
<1>2. NextVersion(c) \in Nat
  BY <1>1 DEF TypeOK, NextVersion, Plan
<1>3. v \in SUBSET Codes /\ Generate(desired[c], tx[p], NextVersion(c)) \in Plan
  BY <1>1, <1>2, GenerateType, Zenon
<1>4. s \in States
  BY DEF SubmittedState, States, TerminalStates
<1> HIDE DEF c, v, s
<1>5. /\ state' = [state EXCEPT ![c] = s] /\ revision' = [revision EXCEPT ![c] = @ + 1]
      /\ consumed' = [consumed EXCEPT ![c] = @ \cup {tx[p].expected}]
      /\ approval' = [approval EXCEPT ![c] = 0] /\ reasons' = [reasons EXCEPT ![c] = v]
      /\ plan' = IF s = "INVALID" THEN plan
                 ELSE [plan EXCEPT ![c] = Generate(desired[c], tx[p], NextVersion(c))]
      /\ outcome' = IF s \in TerminalStates THEN [outcome EXCEPT ![c] = s] ELSE outcome
      /\ tx' = [tx EXCEPT ![p] = None]
      /\ UNCHANGED <<desired, requester, base, decisions, operations, target, failing,
                     superseded, applied>>
  BY DEF SubmitChangeset, Save, RecordOutcome, Finish, c, v, s
<1> QED BY <1>1, <1>3, <1>4, <1>5 DEF TypeOK

\* A save raises a revision.
LEMMA Raised ==
  ASSUME NEW S, NEW f \in [S -> Nat], NEW c
  PROVE  [f EXCEPT ![c] = @ + 1] \in [S -> Nat]
<1>1. \A x \in S : f[x] + 1 \in Nat
  OBVIOUS
<1> DEFINE g == [f EXCEPT ![c] = @ + 1]
<1>2. g = [x \in S |-> IF x = c THEN f[c] + 1 ELSE f[x]]
  BY Zenon
<1> QED BY Zenon, <1>1, <1>2

\* An approval keeps the types.
LEMMA TypeApprove ==
  ASSUME TypeOK, Underway, Planned, NEW p \in Clients, ApproveChangeset(p)
  PROVE  TypeOK'
<1> DEFINE c == tx[p].cs
<1>1. /\ tx[p] \in Tx /\ c \in Changesets /\ tx[p].expected \in Nat /\ tx[p].by \in Principals
      /\ state[c] = "AWAITING_APPROVAL"
  BY DEF TypeOK, ApproveChangeset, Ready, Tx, Underway, Allows, From
<1>2. plan[c] \in Plan /\ plan[c].version \in Nat
  BY <1>1 DEF TypeOK, Planned, Plan
<1>3. Decision(c, tx[p].by, "APPROVED")
        \in [cs : Changesets, version : Nat, decision : Decisions, by : Principals]
  BY <1>1, <1>2 DEF Decision, Decisions
<1> HIDE DEF c
<1>4. /\ state' = [state EXCEPT ![c] = "APPROVED"] /\ revision' = [revision EXCEPT ![c] = @ + 1]
      /\ consumed' = [consumed EXCEPT ![c] = @ \cup {tx[p].expected}]
      /\ approval' = [approval EXCEPT ![c] = plan[c].version]
      /\ decisions' = decisions \cup {Decision(c, tx[p].by, "APPROVED")}
      /\ tx' = [tx EXCEPT ![p] = None]
      /\ UNCHANGED <<desired, requester, base, plan, reasons, outcome, operations, target,
                     failing, superseded, applied>>
  BY DEF ApproveChangeset, Save, Finish, c
<1>5. state' \in [Changesets -> States] /\ revision' \in [Changesets -> Nat]
  <2>1. state \in [Changesets -> States] /\ revision \in [Changesets -> Nat]
    BY DEF TypeOK
  <2>2. "APPROVED" \in States
    BY DEF States
  <2>3. state' \in [Changesets -> States]
    BY Zenon, <1>4, <2>1, <2>2
  <2>4. revision' \in [Changesets -> Nat]
    BY <1>4, <2>1, Raised, Zenon
  <2> QED BY <2>3, <2>4
<1>6. consumed' \in [Changesets -> SUBSET Nat] /\ approval' \in [Changesets -> Nat]
  <2>1. consumed \in [Changesets -> SUBSET Nat] /\ approval \in [Changesets -> Nat]
    BY DEF TypeOK
  <2> QED BY <1>1, <1>2, <1>4, <2>1
<1>7. tx' \in [Clients -> Tx \cup {None}]
  <2>1. tx \in [Clients -> Tx \cup {None}]
    BY DEF TypeOK
  <2> QED BY <1>4, <2>1
<1> QED BY <1>3, <1>4, <1>5, <1>6, <1>7 DEF TypeOK

\* A rejection or a request for changes keeps the types.
LEMMA TypeDecline ==
  ASSUME TypeOK, Planned, NEW c \in Changesets, NEW by \in Principals,
         NEW expected \in 1..MaxRevision, NEW decision \in {"REJECTED", "CHANGES_REQUESTED"},
         DeclineChangeset(c, by, expected, decision)
  PROVE  TypeOK'
<1>1. plan[c] \in Plan /\ plan[c].version \in Nat
  BY DEF TypeOK, Planned, Plan, DeclineChangeset, Allows, From
<1>2. Decision(c, by, decision)
        \in [cs : Changesets, version : Nat, decision : Decisions, by : Principals]
  BY <1>1 DEF Decision, Decisions
<1>3. decision \in States /\ expected \in Nat
  BY BoundsAssumption DEF States, TerminalStates
<1> QED BY <1>2, <1>3 DEF TypeOK, DeclineChangeset, Save, RecordOutcome

\* A cancellation keeps the types.
LEMMA TypeCancel ==
  ASSUME TypeOK, NEW c \in Changesets, NEW expected \in 1..MaxRevision,
         CancelChangeset(c, expected)
  PROVE  TypeOK'
<1>1. expected \in Nat
  BY BoundsAssumption
<1> QED BY <1>1 DEF TypeOK, CancelChangeset, Save, RecordOutcome, States, TerminalStates

\* What an apply writes to a target is a target row.
LEMMA ApplyToTargetType ==
  ASSUME NEW d, NEW t \in [status : Statuses, revision : Nat], Kinds[d.kind].to \in Statuses
  PROVE  ApplyToTarget(d, t) \in [status : Statuses, revision : Nat]
<1> DEFINE to == Kinds[d.kind].to
<1> HIDE DEF to
<1>1. (IF to = "" THEN t.status ELSE to) \in Statuses
  BY Zenon DEF to
<1>2. (IF BumpsRevision(d.kind) THEN t.revision + 1 ELSE t.revision) \in Nat
  OBVIOUS
<1> QED BY <1>1, <1>2, Zenon DEF ApplyToTarget, to

\* An apply keeps the types.
LEMMA TypeApply ==
  ASSUME TypeOK, Created, Underway, Planned, NEW p \in Clients, ApplyChangeset(p)
  PROVE  TypeOK'
<1> DEFINE c == tx[p].cs
           d == desired[c]
<1>1. /\ tx[p] \in Tx /\ c \in Changesets /\ tx[p].expected \in Nat /\ tx[p].key \in Keys
      /\ state[c] = "APPROVED"
  BY DEF TypeOK, ApplyChangeset, Ready, Tx, Underway, Allows, From
<1>2. plan[c] \in Plan
  BY <1>1 DEF TypeOK, Planned
<1>3. /\ d \in Changes /\ d.target \in Targets /\ d.replaces \in Grants \cup {NoGrant}
      /\ Kinds[d.kind].to \in Statuses
  BY <1>1, ChangeType, KindStatuses DEF Created
<1>4. target[d.target] \in [status : Statuses, revision : Nat]
  BY <1>3 DEF TypeOK
<1>5. ApplyToTarget(d, target[d.target]) \in [status : Statuses, revision : Nat]
  BY <1>3, <1>4, ApplyToTargetType
<1>6. [cs |-> c, key |-> tx[p].key, plan |-> plan[c], found |-> target[d.target]] \in AppliedRecord
  BY <1>1, <1>2, <1>4 DEF AppliedRecord
<1> HIDE DEF c, d
<1>7. /\ state' = [state EXCEPT ![c] = "COMPLETED"] /\ revision' = [revision EXCEPT ![c] = @ + 1]
      /\ consumed' = [consumed EXCEPT ![c] = @ \cup {tx[p].expected}]
      /\ target' = [target EXCEPT ![d.target] = ApplyToTarget(d, @)]
      /\ superseded' = IF d.replaces = NoGrant THEN superseded
                       ELSE superseded \cup {d.replaces}
      /\ operations' = operations \cup
           {[key |-> tx[p].key, cs |-> c, expected |-> tx[p].expected]}
      /\ applied' = applied \cup {[cs |-> c, key |-> tx[p].key, plan |-> plan[c],
                                   found |-> target[d.target]]}
      /\ outcome' = [outcome EXCEPT ![c] = "COMPLETED"]
      /\ tx' = [tx EXCEPT ![p] = None]
      /\ UNCHANGED <<desired, requester, base, plan, approval, reasons, decisions, failing>>
  BY DEF ApplyChangeset, Save, RecordOutcome, Finish, TerminalStates, c, d
<1>8. /\ state' \in [Changesets -> States] /\ outcome' \in [Changesets -> States]
      /\ revision' \in [Changesets -> Nat] /\ consumed' \in [Changesets -> SUBSET Nat]
  <2>1. "COMPLETED" \in States
    BY DEF States, TerminalStates
  <2>2. /\ state \in [Changesets -> States] /\ outcome \in [Changesets -> States]
        /\ revision \in [Changesets -> Nat] /\ consumed \in [Changesets -> SUBSET Nat]
    BY DEF TypeOK
  <2>3. state' \in [Changesets -> States] /\ outcome' \in [Changesets -> States]
    BY Zenon, <1>7, <2>1, <2>2
  <2>4. revision' \in [Changesets -> Nat]
    BY <1>7, <2>2, Raised, Zenon
  <2>5. consumed' \in [Changesets -> SUBSET Nat]
    BY <1>1, <1>7, <2>2
  <2> QED BY <2>3, <2>4, <2>5
<1>9. target' \in [Targets -> [status : Statuses, revision : Nat]]
  <2>1. target \in [Targets -> [status : Statuses, revision : Nat]]
    BY DEF TypeOK
  <2> QED BY <1>3, <1>5, <1>7, <2>1
<1>10. tx' \in [Clients -> Tx \cup {None}]
  <2>1. tx \in [Clients -> Tx \cup {None}]
    BY DEF TypeOK
  <2> QED BY <1>7, <2>1
<1>11. /\ operations' \subseteq [key : Keys, cs : Changesets, expected : Nat]
       /\ superseded' \subseteq Grants
  <2>1. /\ operations \subseteq [key : Keys, cs : Changesets, expected : Nat]
        /\ superseded \subseteq Grants
    BY DEF TypeOK
  <2>2. [key |-> tx[p].key, cs |-> c, expected |-> tx[p].expected]
          \in [key : Keys, cs : Changesets, expected : Nat]
    BY <1>1
  <2> QED BY <1>3, <1>7, <2>1, <2>2
<1>12. applied' \subseteq AppliedRecord
  <2>1. applied \subseteq AppliedRecord
    BY DEF TypeOK
  <2> QED BY <1>6, <1>7, <2>1
<1> QED BY <1>7, <1>8, <1>9, <1>10, <1>11, <1>12 DEF TypeOK

\* Rollbacks, expiries, failing checks and the direct routes keep the types.
LEMMA TypeOutside ==
  ASSUME TypeOK,
         \/ \E p \in Clients : Rollback(p)
         \/ \E c \in Changesets : PlanExpires(c)
         \/ \E t \in Targets : ChecksChange(t)
         \/ \E t \in Targets, to \in Statuses, bump \in {0, 1} : DirectChange(t, to, bump)
  PROVE  TypeOK'
<1>1. CASE \E p \in Clients : Rollback(p)
  BY <1>1 DEF TypeOK, Rollback
<1>2. ASSUME NEW c \in Changesets, PlanExpires(c)
      PROVE  TypeOK'
  <2>1. plan[c] \in Plan
    BY <1>2 DEF TypeOK, PlanExpires
  <2>2. plan' = [plan EXCEPT ![c] = [plan[c] EXCEPT !.expired = TRUE]]
    BY <1>2 DEF PlanExpires, TypeOK
  <2>3. plan' \in [Changesets -> Plan \cup {None}]
    BY <2>1, <2>2, Zenon DEF TypeOK, Plan
  <2> QED BY <1>2, <2>3 DEF TypeOK, PlanExpires
<1>3. CASE \E t \in Targets : ChecksChange(t)
  BY <1>3 DEF TypeOK, ChecksChange
<1>4. CASE \E t \in Targets, to \in Statuses, bump \in {0, 1} : DirectChange(t, to, bump)
  BY <1>4, SMTT(30) DEF TypeOK, DirectChange
<1> QED BY <1>1, <1>2, <1>3, <1>4

\* The state of a changeset that no open transaction holds, and only of one,
\* moves; every other changeset keeps what Created, Underway and Planned speak of.
Base == TypeOK /\ Created /\ Underway /\ Planned

\* The base invariant holds at the start.
LEMMA BaseInit == Init => Base
<1> SUFFICES ASSUME Init PROVE Base
  OBVIOUS
<1>1. TypeOK
  BY Zenon DEF Init, TypeOK, States, Statuses
<1> QED BY <1>1, Zenon DEF Init, Base, Created, Underway, Planned

\* Every step keeps the types.
LEMMA TypeNext ==
  ASSUME Base, Next
  PROVE  TypeOK'
<1> USE DEF Base
<1>1. ASSUME NEW c \in Changesets, NEW d \in Changes, NEW by \in Principals, Create(c, d, by)
      PROVE  TypeOK'
  BY <1>1, TypeCreate
<1>2. ASSUME NEW p \in Clients, NEW c \in Changesets, NEW expected \in 1..MaxRevision,
             BeginSubmit(p, c, expected)
      PROVE  TypeOK'
  <2>1. state[c] # "NONE" /\ expected \in Nat
    BY <1>2, BoundsAssumption DEF BeginSubmit, Allows, From
  <2>2. desired[c] \in Changes
    BY <2>1 DEF Created
  <2> QED BY <1>2, <2>1, <2>2, TypeBegin, Zenon DEF BeginSubmit
<1>3. ASSUME NEW p \in Clients, NEW c \in Changesets, NEW expected \in 1..MaxRevision,
             NEW by \in Principals, BeginApprove(p, c, by, expected)
      PROVE  TypeOK'
  <2>1. state[c] = "AWAITING_APPROVAL" /\ expected \in Nat
    BY <1>3, BoundsAssumption DEF BeginApprove, Allows, From
  <2>2. desired[c] \in Changes
    BY <2>1 DEF Created
  <2>3. plan[c].expired \in BOOLEAN
    BY <2>1 DEF Planned, TypeOK, Plan
  <2> QED BY <1>3, <2>1, <2>2, <2>3, TypeBegin DEF BeginApprove
<1>4. ASSUME NEW p \in Clients, NEW c \in Changesets, NEW expected \in 1..MaxRevision,
             NEW key \in Keys, BeginApply(p, c, key, expected)
      PROVE  TypeOK'
  <2>1. state[c] = "APPROVED" /\ expected \in Nat
    BY <1>4, BoundsAssumption DEF BeginApply, Allows, From
  <2>2. desired[c] \in Changes
    BY <2>1 DEF Created
  <2>3. plan[c].expired \in BOOLEAN
    BY <2>1 DEF Planned, TypeOK, Plan
  <2> QED BY <1>4, <2>1, <2>2, <2>3, TypeBegin DEF BeginApply
<1>5. ASSUME NEW p \in Clients,
             \/ ReadLocks(p) \/ SubmitChangeset(p) \/ ApproveChangeset(p) \/ ApplyChangeset(p)
      PROVE  TypeOK'
  BY <1>5, TypeReadLocks, TypeSubmit, TypeApprove, TypeApply
<1>6. ASSUME NEW c \in Changesets, NEW expected \in 1..MaxRevision,
             \/ CancelChangeset(c, expected)
             \/ \E by \in Principals, decision \in {"REJECTED", "CHANGES_REQUESTED"} :
                  DeclineChangeset(c, by, expected, decision)
      PROVE  TypeOK'
  BY <1>6, TypeCancel, TypeDecline
<1>7. ASSUME \/ \E p \in Clients : Rollback(p)
             \/ \E c \in Changesets : PlanExpires(c)
             \/ \E t \in Targets : ChecksChange(t)
             \/ \E t \in Targets, to \in Statuses, bump \in {0, 1} : DirectChange(t, to, bump)
      PROVE  TypeOK'
  BY <1>7, TypeOutside
<1> HIDE DEF Base
<1> QED BY <1>1, <1>2, <1>3, <1>4, <1>5, <1>6, <1>7 DEF Next, Command

\* What a transaction holds when it commits.
LEMMA AtCommit ==
  ASSUME TypeOK, Underway, Created, NEW p \in Clients, NEW op, Ready(p, op)
  PROVE  /\ tx[p] \in Tx /\ tx[p].cs \in Changesets /\ tx[p].expected = revision[tx[p].cs]
         /\ revision[tx[p].cs] < MaxRevision
         /\ op = "submit" => state[tx[p].cs] \in {"DRAFT", "BLOCKED", "CHANGES_REQUESTED", "APPROVED"}
         /\ op = "approve" => /\ state[tx[p].cs] = "AWAITING_APPROVAL"
                              /\ tx[p].by \in Principals /\ tx[p].by # requester[tx[p].cs]
         /\ op = "apply" => state[tx[p].cs] = "APPROVED" /\ tx[p].key \in Keys
         /\ \A q \in Clients : q # p /\ tx[q] # None => tx[q].cs # tx[p].cs
         /\ op \in {"submit", "approve", "apply"} =>
              desired[tx[p].cs] \in Changes /\ requester[tx[p].cs] \in Principals
  BY DEF TypeOK, Underway, Created, Ready, Tx, Allows, From

\* A created changeset has a desired change and a requester.
LEMMA CreatedNext ==
  ASSUME Base, Next
  PROVE  Created'
<1> USE DEF Base
<1>1. ASSUME NEW c \in Changesets, NEW d \in Changes, NEW by \in Principals, Create(c, d, by)
      PROVE  Created'
  BY <1>1 DEF Created, Create, TypeOK
<1>2. ASSUME NEW p \in Clients,
             \/ \E c \in Changesets, expected \in 1..MaxRevision : BeginSubmit(p, c, expected)
             \/ \E c \in Changesets, expected \in 1..MaxRevision, by \in Principals :
                  BeginApprove(p, c, by, expected)
             \/ \E c \in Changesets, expected \in 1..MaxRevision, key \in Keys :
                  BeginApply(p, c, key, expected)
             \/ ReadLocks(p)
             \/ Rollback(p)
      PROVE  Created'
  BY <1>2, ZenonT(40) DEF Created, BeginSubmit, BeginApprove, BeginApply, Begin, ReadLocks, Rollback
<1>3. ASSUME NEW p \in Clients, SubmitChangeset(p)
      PROVE  Created'
  BY <1>3, AtCommit, Zenon DEF SubmitChangeset, Save, Created, TypeOK
<1>4. ASSUME NEW p \in Clients, ApproveChangeset(p)
      PROVE  Created'
  BY <1>4, AtCommit DEF ApproveChangeset, Save, Created, TypeOK
<1>5. ASSUME NEW p \in Clients, ApplyChangeset(p)
      PROVE  Created'
  BY <1>5, AtCommit, Zenon DEF ApplyChangeset, Save, Created, TypeOK
<1>6. ASSUME NEW c \in Changesets, NEW expected \in 1..MaxRevision,
             \/ CancelChangeset(c, expected)
             \/ \E by \in Principals, decision \in {"REJECTED", "CHANGES_REQUESTED"} :
                  DeclineChangeset(c, by, expected, decision)
      PROVE  Created'
  BY <1>6, Zenon DEF CancelChangeset, DeclineChangeset, Save, Created, TypeOK, Allows, From
<1>7. ASSUME \/ \E c \in Changesets : PlanExpires(c)
             \/ \E t \in Targets : ChecksChange(t)
             \/ \E t \in Targets, to \in Statuses, bump \in {0, 1} : DirectChange(t, to, bump)
      PROVE  Created'
  BY <1>7 DEF PlanExpires, ChecksChange, DirectChange, Created
<1> HIDE DEF Base
<1> QED BY <1>1, <1>2, <1>3, <1>4, <1>5, <1>6, <1>7 DEF Next, Command

\* What awaits a decision, is approved or was applied has a plan without blockers.
LEMMA PlannedNext ==
  ASSUME Base, Next
  PROVE  Planned'
<1> USE DEF Base
<1>1. ASSUME NEW c \in Changesets, NEW d \in Changes, NEW by \in Principals, Create(c, d, by)
      PROVE  Planned'
  BY <1>1 DEF Planned, Create, TypeOK
<1>2. ASSUME NEW p \in Clients,
             \/ \E c \in Changesets, expected \in 1..MaxRevision : BeginSubmit(p, c, expected)
             \/ \E c \in Changesets, expected \in 1..MaxRevision, by \in Principals :
                  BeginApprove(p, c, by, expected)
             \/ \E c \in Changesets, expected \in 1..MaxRevision, key \in Keys :
                  BeginApply(p, c, key, expected)
             \/ ReadLocks(p)
             \/ Rollback(p)
      PROVE  Planned'
  BY <1>2, Zenon DEF Planned, BeginSubmit, BeginApprove, BeginApply, Begin, ReadLocks, Rollback
<1>3. ASSUME NEW p \in Clients, SubmitChangeset(p)
      PROVE  Planned'
  <2> DEFINE c == tx[p].cs
             v == Validate(desired[c], tx[p])
             s == SubmittedState(v)
             g == Generate(desired[c], tx[p], NextVersion(c))
  <2>1. c \in Changesets
    BY <1>3, AtCommit DEF SubmitChangeset
  <2>2. g.blockers = v /\ g # None
    BY DEF Generate, None
  <2>3. s \in {"AWAITING_APPROVAL", "APPROVED", "COMPLETED"} => v = {} /\ s # "INVALID"
    BY DEF SubmittedState
  <2>4. /\ state' = [state EXCEPT ![c] = s]
        /\ plan' = IF s = "INVALID" THEN plan ELSE [plan EXCEPT ![c] = g]
    BY <1>3 DEF SubmitChangeset, Save
  <2> HIDE DEF c, v, s, g
  <2> QED BY <2>1, <2>2, <2>3, <2>4 DEF Planned, TypeOK
<1>4. ASSUME NEW p \in Clients, ApproveChangeset(p)
      PROVE  Planned'
  BY <1>4, AtCommit DEF ApproveChangeset, Save, Planned, TypeOK
<1>5. ASSUME NEW p \in Clients, ApplyChangeset(p)
      PROVE  Planned'
  BY <1>5, AtCommit, Zenon DEF ApplyChangeset, Save, Planned, TypeOK
<1>6. ASSUME NEW c \in Changesets, NEW expected \in 1..MaxRevision,
             \/ CancelChangeset(c, expected)
             \/ \E by \in Principals, decision \in {"REJECTED", "CHANGES_REQUESTED"} :
                  DeclineChangeset(c, by, expected, decision)
      PROVE  Planned'
  BY <1>6, ZenonT(40) DEF CancelChangeset, DeclineChangeset, Save, Planned, TypeOK
<1>7. ASSUME NEW c \in Changesets, PlanExpires(c)
      PROVE  Planned'
  <2>1. /\ plan[c] \in Plan /\ state' = state
        /\ plan' = [plan EXCEPT ![c] = [plan[c] EXCEPT !.expired = TRUE]]
    BY <1>7 DEF PlanExpires, TypeOK
  <2>2. /\ [plan[c] EXCEPT !.expired = TRUE] # None
        /\ [plan[c] EXCEPT !.expired = TRUE].blockers = plan[c].blockers
    BY <2>1 DEF Plan, None
  <2> QED BY <2>1, <2>2 DEF Planned, TypeOK
<1>8. ASSUME \/ \E t \in Targets : ChecksChange(t)
             \/ \E t \in Targets, to \in Statuses, bump \in {0, 1} : DirectChange(t, to, bump)
      PROVE  Planned'
  BY <1>8, Zenon DEF ChecksChange, DirectChange, Planned
<1> HIDE DEF Base
<1> QED BY <1>1, <1>2, <1>3, <1>4, <1>5, <1>6, <1>7, <1>8 DEF Next, Command

\* No two transactions in flight work on one changeset.
LEMMA OneHolder ==
  ASSUME Underway, NEW q \in Clients, NEW r \in Clients,
         tx[q] # None, tx[r] # None, tx[r].cs = tx[q].cs
  PROVE  r = q
BY DEF Underway

\* A command on a changeset that no transaction holds, or the commit of the one
\* that holds it, disturbs no other transaction.
LEMMA UnderwayKept ==
  ASSUME TypeOK, TypeOK', Underway, NEW c \in Changesets,
         NEW tx0 \in [Clients -> Tx \cup {None}],
         tx' = tx0,
         \A q \in Clients : tx'[q] # None => tx'[q] = tx[q] /\ tx[q].cs # c,
         \A o \in Changesets \ {c} : /\ state'[o] = state[o] /\ revision'[o] = revision[o]
                                     /\ requester'[o] = requester[o]
  PROVE  Underway'
<1> SUFFICES ASSUME NEW q \in Clients, tx'[q] # None
             PROVE  /\ tx'[q].expected = revision'[tx'[q].cs] /\ revision'[tx'[q].cs] < MaxRevision
                    /\ tx'[q].op = "submit" => Allows(state'[tx'[q].cs], "submit")
                    /\ tx'[q].op = "approve" => /\ Allows(state'[tx'[q].cs], "decide")
                                                /\ tx'[q].by \in Principals /\ tx'[q].by # requester'[tx'[q].cs]
                    /\ tx'[q].op = "apply" => Allows(state'[tx'[q].cs], "apply") /\ tx'[q].key \in Keys
                    /\ \A r \in Clients : tx'[r] # None /\ tx'[r].cs = tx'[q].cs => r = q
  BY DEF Underway
<1>1. tx'[q] = tx[q] /\ tx[q].cs \in Changesets \ {c}
  BY DEF TypeOK, Tx
<1>2. ASSUME NEW r \in Clients, tx'[r] # None, tx'[r].cs = tx'[q].cs
      PROVE  r = q
  <2>1. tx'[r] = tx[r]
    BY <1>2
  <2>2. tx[q] # None /\ tx[r] # None /\ tx[r].cs = tx[q].cs
    BY <1>1, <1>2, <2>1
  <2> QED BY <2>2, OneHolder
<1>3. /\ tx[q].expected = revision[tx[q].cs] /\ revision[tx[q].cs] < MaxRevision
      /\ tx[q].op = "submit" => Allows(state[tx[q].cs], "submit")
      /\ tx[q].op = "approve" => /\ Allows(state[tx[q].cs], "decide")
                                  /\ tx[q].by \in Principals /\ tx[q].by # requester[tx[q].cs]
      /\ tx[q].op = "apply" => Allows(state[tx[q].cs], "apply") /\ tx[q].key \in Keys
  BY <1>1 DEF Underway
<1>4. /\ state'[tx[q].cs] = state[tx[q].cs] /\ revision'[tx[q].cs] = revision[tx[q].cs]
      /\ requester'[tx[q].cs] = requester[tx[q].cs]
  BY <1>1
<1> QED BY <1>1, <1>2, <1>3, <1>4

\* What a transaction holds when it begins.
LEMMA UnderwayBegin ==
  ASSUME TypeOK, TypeOK', Underway, NEW p \in Clients, NEW c \in Changesets, ~RowLocked(c),
         NEW op \in {"submit", "approve", "apply"}, NEW by, NEW key, NEW late,
         NEW expected, expected = revision[c],
         op = "submit" => Allows(state[c], "submit"),
         op = "approve" => /\ Allows(state[c], "decide")
                           /\ by \in Principals /\ by # requester[c],
         op = "apply" => Allows(state[c], "apply") /\ key \in Keys,
         Begin(p, op, c, by, key, expected, late)
  PROVE  Underway'
<1>1. /\ tx'[p].cs = c /\ tx'[p].expected = revision[c] /\ revision[c] < MaxRevision
      /\ tx'[p].op = op /\ tx'[p].by = by /\ tx'[p].key = key /\ tx'[p] # None
  BY Zenon DEF Begin, TypeOK, None
<1>2. \A q \in Clients \ {p} : tx'[q] = tx[q]
  BY Zenon DEF Begin, TypeOK
<1>3. \A q \in Clients \ {p} : tx[q] # None => tx[q].cs # c
  BY DEF RowLocked
<1>4. state' = state /\ revision' = revision /\ requester' = requester
  BY DEF Begin
<1>5. \A q, r \in Clients : tx'[q] # None /\ tx'[r] # None /\ tx'[r].cs = tx'[q].cs => r = q
  <2> SUFFICES ASSUME NEW q \in Clients, NEW r \in Clients,
                      tx'[q] # None, tx'[r] # None, tx'[r].cs = tx'[q].cs
               PROVE  r = q
    OBVIOUS
  <2>1. CASE q = p
    BY <2>1, <1>1, <1>2, <1>3
  <2>2. CASE r = p
    BY <2>2, <1>1, <1>2, <1>3
  <2>3. CASE q # p /\ r # p
    <3>1. tx'[q] = tx[q] /\ tx'[r] = tx[r]
      BY <2>3, <1>2
    <3> QED BY <3>1, OneHolder
  <2> QED BY <2>1, <2>2, <2>3
<1>6. \A q \in Clients \ {p} : tx[q] # None =>
    /\ tx[q].expected = revision[tx[q].cs] /\ revision[tx[q].cs] < MaxRevision
    /\ tx[q].op = "submit" => Allows(state[tx[q].cs], "submit")
    /\ tx[q].op = "approve" => /\ Allows(state[tx[q].cs], "decide")
                               /\ tx[q].by \in Principals /\ tx[q].by # requester[tx[q].cs]
    /\ tx[q].op = "apply" => Allows(state[tx[q].cs], "apply") /\ tx[q].key \in Keys
  BY DEF Underway
<1> QED BY <1>1, <1>2, <1>4, <1>5, <1>6, ZenonT(40) DEF Underway, Allows

\* A transaction in flight keeps its changeset to itself.
LEMMA UnderwayNext ==
  ASSUME Base, Next
  PROVE  Underway'
<1> USE DEF Base
<1> TypeOK'
  BY TypeNext
<1>1. ASSUME NEW c \in Changesets, NEW d \in Changes, NEW by \in Principals, Create(c, d, by)
      PROVE  Underway'
  <2>1. \A q \in Clients : tx[q] # None => tx[q].cs # c
    BY <1>1, Zenon DEF Create, Underway, TypeOK, Tx, Allows, From
  <2> QED BY <1>1, <2>1, UnderwayKept, ZenonT(40) DEF Create, TypeOK
<1>2. ASSUME NEW p \in Clients, NEW c \in Changesets, NEW expected \in 1..MaxRevision,
             \/ BeginSubmit(p, c, expected)
             \/ \E by \in Principals : BeginApprove(p, c, by, expected)
             \/ \E key \in Keys : BeginApply(p, c, key, expected)
      PROVE  Underway'
  BY <1>2, UnderwayBegin, ZenonT(40) DEF BeginSubmit, BeginApprove, BeginApply, LockChangeset
<1>3. ASSUME NEW p \in Clients, ReadLocks(p)
      PROVE  Underway'
  <2>1. /\ tx'[p].cs = tx[p].cs /\ tx'[p].op = tx[p].op /\ tx'[p].by = tx[p].by
        /\ tx'[p].key = tx[p].key /\ tx'[p].expected = tx[p].expected
    BY <1>3, ReadLocksKeeps
  <2>2. \A q \in Clients \ {p} : tx'[q] = tx[q]
    BY <1>3, ReadLocksKeeps
  <2>3. tx[p] # None /\ state' = state /\ revision' = revision /\ requester' = requester
    BY <1>3, Zenon DEF ReadLocks
  <2>4. \A q, r \in Clients : tx'[q] # None /\ tx'[r] # None /\ tx'[r].cs = tx'[q].cs => r = q
    <3> SUFFICES ASSUME NEW q \in Clients, NEW r \in Clients,
                        tx'[q] # None, tx'[r] # None, tx'[r].cs = tx'[q].cs
                 PROVE  r = q
      OBVIOUS
    <3>1. tx[q] # None /\ tx'[q].cs = tx[q].cs
      BY <2>1, <2>2, <2>3
    <3>2. tx[r] # None /\ tx'[r].cs = tx[r].cs
      BY <2>1, <2>2, <2>3
    <3> QED BY <3>1, <3>2, OneHolder
  <2>5. ASSUME NEW q \in Clients, tx'[q] # None
        PROVE  /\ tx[q] # None /\ tx'[q].cs = tx[q].cs /\ tx'[q].op = tx[q].op
               /\ tx'[q].by = tx[q].by /\ tx'[q].key = tx[q].key
               /\ tx'[q].expected = tx[q].expected
    BY <2>1, <2>2, <2>3, <2>5
  <2> SUFFICES ASSUME NEW q \in Clients, tx'[q] # None
               PROVE  /\ tx'[q].expected = revision'[tx'[q].cs] /\ revision'[tx'[q].cs] < MaxRevision
                      /\ tx'[q].op = "submit" => Allows(state'[tx'[q].cs], "submit")
                      /\ tx'[q].op = "approve" => /\ Allows(state'[tx'[q].cs], "decide")
                                                  /\ tx'[q].by \in Principals /\ tx'[q].by # requester'[tx'[q].cs]
                      /\ tx'[q].op = "apply" => Allows(state'[tx'[q].cs], "apply") /\ tx'[q].key \in Keys
                      /\ \A r \in Clients : tx'[r] # None /\ tx'[r].cs = tx'[q].cs => r = q
    BY DEF Underway
  <2>6. /\ tx[q].expected = revision[tx[q].cs] /\ revision[tx[q].cs] < MaxRevision
        /\ tx[q].op = "submit" => Allows(state[tx[q].cs], "submit")
        /\ tx[q].op = "approve" => /\ Allows(state[tx[q].cs], "decide")
                                    /\ tx[q].by \in Principals /\ tx[q].by # requester[tx[q].cs]
        /\ tx[q].op = "apply" => Allows(state[tx[q].cs], "apply") /\ tx[q].key \in Keys
    BY <2>5 DEF Underway
  <2> QED BY <2>3, <2>4, <2>5, <2>6
<1>4. ASSUME NEW p \in Clients, Rollback(p)
      PROVE  Underway'
  BY <1>4 DEF Rollback, Underway, TypeOK, Allows
<1>5. ASSUME NEW p \in Clients,
             SubmitChangeset(p) \/ ApproveChangeset(p) \/ ApplyChangeset(p)
      PROVE  Underway'
  <2> DEFINE c == tx[p].cs
  <2>1. c \in Changesets /\ \A q \in Clients : q # p /\ tx[q] # None => tx[q].cs # c
    BY <1>5, AtCommit, Zenon DEF SubmitChangeset, ApproveChangeset, ApplyChangeset
  <2>2. /\ tx' = [tx EXCEPT ![p] = None] /\ requester' = requester
        /\ \E s : state' = [state EXCEPT ![c] = s]
        /\ revision' = [revision EXCEPT ![c] = @ + 1]
    BY <1>5, ZenonT(40) DEF SubmitChangeset, ApproveChangeset, ApplyChangeset, Save, Finish
  <2> HIDE DEF c
  <2> QED BY <2>1, <2>2, UnderwayKept, Zenon DEF TypeOK
<1>6. ASSUME NEW c \in Changesets, NEW expected \in 1..MaxRevision,
             \/ CancelChangeset(c, expected)
             \/ \E by \in Principals, decision \in {"REJECTED", "CHANGES_REQUESTED"} :
                  DeclineChangeset(c, by, expected, decision)
      PROVE  Underway'
  <2>1. /\ tx' = tx /\ requester' = requester /\ ~RowLocked(c)
        /\ \E s : state' = [state EXCEPT ![c] = s]
        /\ revision' = [revision EXCEPT ![c] = @ + 1]
    BY <1>6, Zenon DEF CancelChangeset, DeclineChangeset, Save, LockChangeset
  <2> QED BY <2>1, UnderwayKept DEF TypeOK, RowLocked
<1>7. ASSUME \/ \E c \in Changesets : PlanExpires(c)
             \/ \E t \in Targets : ChecksChange(t)
             \/ \E t \in Targets, to \in Statuses, bump \in {0, 1} : DirectChange(t, to, bump)
      PROVE  Underway'
  BY <1>7 DEF PlanExpires, ChecksChange, DirectChange, Underway, Allows
<1> HIDE DEF Base
<1> QED BY <1>1, <1>2, <1>3, <1>4, <1>5, <1>6, <1>7 DEF Next, Command

\* The base invariant holds in every state.
LEMMA BaseInvariant == Spec => []Base
<1>1. Base /\ [Next]_vars => Base'
  <2>1. Base /\ Next => Base'
    BY TypeNext, CreatedNext, UnderwayNext, PlannedNext DEF Base
  <2>2. Base /\ UNCHANGED vars => Base'
    <3> SUFFICES ASSUME Base, UNCHANGED vars
                 PROVE  Base'
      OBVIOUS
    <3>1. TypeOK'
      BY DEF Base, TypeOK, vars
    <3>2. Created'
      BY DEF Base, Created, vars
    <3>3. Underway'
      BY DEF Base, Underway, vars, Allows
    <3>4. Planned'
      BY DEF Base, Planned, vars
    <3> QED BY <3>1, <3>2, <3>3, <3>4 DEF Base
  <2> QED BY <2>1, <2>2
<1> QED BY BaseInit, <1>1, PTL DEF Spec

\* Every state of every behaviour is well typed: no command of the changeset
\* API, in any interleaving of transactions, stores what a column cannot hold.
THEOREM TypeCorrect == Spec => []TypeOK
<1>1. Base => TypeOK
  BY DEF Base
<1> QED BY BaseInvariant, <1>1, PTL

-----------------------------------------------------------------------------
(* The target an apply finds *)

\* A plan without blockers found its target in a status the change starts from.
LEMMA NoBlockers ==
  ASSUME NEW d, NEW t, Validate(d, t) = {}
  PROVE  t.status # "" /\ t.status \in Kinds[d.kind].from
<1>1. t.status # ""
  BY Zenon DEF Validate
<1>2. "TARGET_STATE_CONFLICT" \in Codes
  BY DEF Codes
<1> QED BY <1>1, <1>2, Zenon DEF Validate

\* The plan an apply commits was computed from the row it holds.
LEMMA FoundAsPlanned ==
  ASSUME Base, Registered, TargetHeld, NEW p \in Clients, ApplyChangeset(p)
  PROVE  LET c == tx[p].cs
             t == target[desired[c].target] IN
         /\ plan[c].status = t.status /\ plan[c].revision = t.revision /\ plan[c].blockers = {}
         /\ t.status # "" /\ t.status \in Kinds[desired[c].kind].from /\ t.revision >= 1
<1> DEFINE c == tx[p].cs
           d == desired[c]
           t == target[d.target]
           f == Generate(d, tx[p], 0)
<1>1. /\ c \in Changesets /\ state[c] = "APPROVED" /\ d \in Changes /\ d.target \in Targets
      /\ tx[p] # None /\ tx[p].op = "apply" /\ tx[p] \in Tx
  BY ZenonT(30), AtCommit, ChangeType DEF ApplyChangeset, Ready, Base
<1>2. tx[p].status = t.status /\ tx[p].revision = t.revision
  BY <1>1 DEF TargetHeld, TargetOf
<1>3. plan[c].blockers = {}
  BY <1>1 DEF Base, Planned
<1>4. Material(plan[c]) = Material(f)
  BY ZenonT(30) DEF ApplyChangeset, Stale
<1>5. plan[c].revision = f.revision /\ plan[c].status = f.status /\ plan[c].blockers = f.blockers
  BY <1>4 DEF Material
<1>6. /\ f.revision = Max1(tx[p].revision) /\ f.status = tx[p].status
      /\ f.blockers = Validate(d, tx[p])
  BY DEF Generate
<1>7. tx[p].status # "" /\ tx[p].status \in Kinds[d.kind].from
  BY <1>3, <1>5, <1>6, NoBlockers, Zenon
<1>8. t.revision \in Nat /\ t.revision >= 1
  BY <1>1, <1>2, <1>7, ZenonT(40) DEF Registered, Base, TypeOK
<1>9. Max1(tx[p].revision) = t.revision
  <2>1. tx[p].revision = t.revision
    BY <1>2
  <2> HIDE DEF t
  <2> QED BY <1>8, <2>1 DEF Max1
<1> QED BY <1>2, <1>3, <1>5, <1>6, <1>7, <1>8, <1>9, ZenonT(40)

\* What an apply makes of the target row.
LEMMA AppliedTarget ==
  ASSUME Base, Registered, TargetHeld, NEW p \in Clients, ApplyChangeset(p)
  PROVE  LET d == desired[tx[p].cs]
             t == target[d.target] IN
         /\ d \in Changes /\ d.target \in Targets
         /\ target' = [target EXCEPT ![d.target] = ApplyToTarget(d, t)]
         /\ ApplyToTarget(d, t).status # ""
         /\ ApplyToTarget(d, t).revision =
              IF BumpsRevision(d.kind) THEN t.revision + 1 ELSE t.revision
<1> DEFINE d == desired[tx[p].cs]
           t == target[d.target]
<1>1. d \in Changes /\ d.target \in Targets
  BY Zenon, AtCommit, ChangeType DEF ApplyChangeset, Base
<1>2. t.status # ""
  BY FoundAsPlanned, Zenon
<1>3. target' = [target EXCEPT ![d.target] = ApplyToTarget(d, t)]
  BY Zenon, <1>1 DEF ApplyChangeset, Base, TypeOK
<1> HIDE DEF d, t
<1>4. ApplyToTarget(d, t).status # ""
  BY <1>2, Zenon DEF ApplyToTarget
<1>5. ApplyToTarget(d, t).revision = IF BumpsRevision(d.kind) THEN t.revision + 1 ELSE t.revision
  BY DEF ApplyToTarget
<1> QED BY <1>1, <1>3, <1>4, <1>5, ZenonT(40) DEF d, t

\* Only an apply and the direct routes write a target row.
LEMMA TargetWriters ==
  ASSUME Base, Next
  PROVE  \/ \E p \in Clients : ApplyChangeset(p)
         \/ \E t \in Targets, to \in Statuses, bump \in {0, 1} : DirectChange(t, to, bump)
         \/ target' = target
<1>1. ASSUME NEW c \in Changesets, NEW d \in Changes, NEW by \in Principals, Create(c, d, by)
      PROVE  target' = target
  BY Zenon, <1>1 DEF Create
<1>2. ASSUME NEW p \in Clients, Command(p), ~ApplyChangeset(p)
      PROVE  target' = target
  BY <1>2, Zenon DEF Command, BeginSubmit, BeginApprove, BeginApply, Begin, ReadLocks, Rollback,
              SubmitChangeset, ApproveChangeset
<1>3. ASSUME NEW c \in Changesets, NEW expected \in 1..MaxRevision,
             \/ CancelChangeset(c, expected)
             \/ \E by \in Principals, decision \in {"REJECTED", "CHANGES_REQUESTED"} :
                  DeclineChangeset(c, by, expected, decision)
      PROVE  target' = target
  BY Zenon, <1>3 DEF CancelChangeset, DeclineChangeset
<1>4. ASSUME NEW c \in Changesets, PlanExpires(c)
      PROVE  target' = target
  BY <1>4 DEF PlanExpires
<1>5. ASSUME NEW t \in Targets, ChecksChange(t)
      PROVE  target' = target
  BY <1>5 DEF ChecksChange
<1> QED BY <1>1, <1>2, <1>3, <1>4, <1>5 DEF Next

\* A registered target keeps a revision.
LEMMA RegisteredNext ==
  ASSUME Base, Registered, TargetHeld, Next
  PROVE  Registered'
<1>1. ASSUME NEW p \in Clients, ApplyChangeset(p)
      PROVE  Registered'
  <2> DEFINE d == desired[tx[p].cs]
             t == target[d.target]
             n == ApplyToTarget(d, t)
  <2>1. d.target \in Targets /\ target' = [target EXCEPT ![d.target] = n]
    BY <1>1, AppliedTarget, Zenon
  <2>2. t.revision \in Nat /\ t.revision >= 1
    BY <1>1, <2>1, FoundAsPlanned, Zenon DEF Base, TypeOK
  <2>3. n.revision = IF BumpsRevision(d.kind) THEN t.revision + 1 ELSE t.revision
    BY <1>1, AppliedTarget, Zenon
  <2> HIDE DEF d, t, n
  <2>4. n.revision >= 1
    BY <2>2, <2>3
  <2> QED BY <2>1, <2>4, Zenon DEF Registered, Base, TypeOK
<1>2. ASSUME NEW t \in Targets, NEW to \in Statuses, NEW bump \in {0, 1},
             DirectChange(t, to, bump)
      PROVE  Registered'
  <2>1. target[t].status = "" => bump = 1
    BY <1>2, RouteSound, Zenon DEF DirectChange
  <2>2. target[t].revision \in Nat
    BY DEF Base, TypeOK
  <2>3. target'[t].revision = target[t].revision + bump
    BY <1>2 DEF DirectChange, Base, TypeOK
  <2>4. \A u \in Targets \ {t} : target'[u] = target[u]
    BY <1>2 DEF DirectChange, Base, TypeOK
  <2>5. target'[t].revision \in Nat
    BY TypeNext DEF TypeOK
  <2>6. bump = 1 \/ target[t].revision >= 1
    BY <2>1, Zenon DEF Registered
  <2>7. target'[t].revision >= 1
    BY <2>2, <2>3, <2>5, <2>6
  <2> QED BY <2>4, <2>7, Zenon DEF Registered
<1>3. CASE target' = target
  BY <1>3, ZenonT(40) DEF Registered
<1> QED BY <1>1, <1>2, <1>3, TargetWriters

\* The applies still in flight after a step were in flight before it, with the
\* same target rows.
LEMMA HeldKept ==
  ASSUME TargetHeld,
         \A q \in Clients : tx'[q] # None /\ tx'[q].op = "apply" =>
           /\ tx[q] # None /\ tx[q].op = "apply" /\ tx'[q].cs = tx[q].cs
           /\ tx'[q].status = tx[q].status /\ tx'[q].revision = tx[q].revision
           /\ desired'[tx[q].cs] = desired[tx[q].cs]
           /\ target'[desired[tx[q].cs].target] = target[desired[tx[q].cs].target]
  PROVE  TargetHeld'
<1> SUFFICES ASSUME NEW q \in Clients, tx'[q] # None, tx'[q].op = "apply"
             PROVE  /\ tx'[q].status = target'[desired'[tx'[q].cs].target].status
                    /\ tx'[q].revision = target'[desired'[tx'[q].cs].target].revision
                    /\ \A r \in Clients :
                         /\ tx'[r] # None /\ tx'[r].op = "apply"
                         /\ desired'[tx'[r].cs].target = desired'[tx'[q].cs].target
                         => r = q
  BY DEF TargetHeld, TargetOf
<1>1. desired'[tx'[q].cs] = desired[tx[q].cs]
  OBVIOUS
<1>2. /\ tx'[q].status = target'[desired'[tx'[q].cs].target].status
      /\ tx'[q].revision = target'[desired'[tx'[q].cs].target].revision
  <2>1. /\ tx[q] # None /\ tx[q].op = "apply"
        /\ tx'[q].status = tx[q].status /\ tx'[q].revision = tx[q].revision
        /\ target'[desired[tx[q].cs].target] = target[desired[tx[q].cs].target]
    OBVIOUS
  <2>2. /\ tx[q].status = target[desired[tx[q].cs].target].status
        /\ tx[q].revision = target[desired[tx[q].cs].target].revision
    BY <2>1 DEF TargetHeld, TargetOf
  <2> QED BY ZenonT(30), <1>1, <2>1, <2>2
<1>3. ASSUME NEW r \in Clients, tx'[r] # None, tx'[r].op = "apply",
             desired'[tx'[r].cs].target = desired'[tx'[q].cs].target
      PROVE  r = q
  <2>1. desired'[tx'[r].cs] = desired[tx[r].cs]
    BY <1>3
  <2>2. tx[r] # None /\ tx[r].op = "apply" /\ tx[q] # None /\ tx[q].op = "apply"
    BY <1>3
  <2>3. desired[tx[r].cs].target = desired[tx[q].cs].target
    BY <1>1, <1>3, <2>1
  <2> QED BY <2>2, <2>3 DEF TargetHeld, TargetOf
<1> QED BY <1>2, <1>3

\* The target an apply has locked stays as the apply read it.
LEMMA TargetHeldNext ==
  ASSUME Base, Registered, TargetHeld, Next
  PROVE  TargetHeld'
<1> USE DEF Base
<1>1. ASSUME NEW c \in Changesets, NEW d \in Changes, NEW by \in Principals, Create(c, d, by)
      PROVE  TargetHeld'
  <2>1. \A q \in Clients : tx[q] # None => tx[q].cs # c
    BY ZenonT(30), <1>1 DEF Create, Underway, TypeOK, Tx, Allows, From
  <2> QED BY <1>1, <2>1, HeldKept DEF Create, TypeOK
<1>2. ASSUME NEW p \in Clients, NEW c \in Changesets, NEW expected \in 1..MaxRevision,
             \/ BeginSubmit(p, c, expected)
             \/ \E by \in Principals : BeginApprove(p, c, by, expected)
      PROVE  TargetHeld'
  <2>1. /\ tx'[p].op # "apply" /\ \A q \in Clients \ {p} : tx'[q] = tx[q]
        /\ desired' = desired /\ target' = target
    <3>1. \E op \in {"submit", "approve"} : \E by, late : Begin(p, op, c, by, None, expected, late)
      BY <1>2, Zenon DEF BeginSubmit, BeginApprove
    <3>2. PICK op \in {"submit", "approve"} : \E by, late : Begin(p, op, c, by, None, expected, late)
      BY <3>1
    <3>3. tx'[p].op # "apply"
      BY <3>2 DEF Begin, TypeOK
    <3>4. \A q \in Clients \ {p} : tx'[q] = tx[q]
      BY <3>2 DEF Begin, TypeOK
    <3>5. desired' = desired /\ target' = target
      BY <3>2, Zenon DEF Begin
    <3> QED BY <3>3, <3>4, <3>5
  <2> QED BY <2>1, HeldKept
<1>3. ASSUME NEW p \in Clients, NEW c \in Changesets, NEW expected \in 1..MaxRevision,
             NEW key \in Keys, BeginApply(p, c, key, expected)
      PROVE  TargetHeld'
  <2> DEFINE t == desired[c].target
  <2>1. /\ tx'[p].status = target[t].status /\ tx'[p].revision = target[t].revision
        /\ tx'[p].cs = c
    BY <1>3 DEF BeginApply, Begin, TypeOK, TargetOf
  <2>2. \A q \in Clients \ {p} : tx'[q] = tx[q]
    BY <1>3 DEF BeginApply, Begin, TypeOK
  <2>3. desired' = desired /\ target' = target
    BY <1>3, Zenon DEF BeginApply, Begin
  <2>4. \A q \in Clients : tx[q] # None /\ tx[q].op = "apply" => desired[tx[q].cs].target # t
    BY <1>3 DEF BeginApply, TargetRowLocked, TargetOf
  <2> HIDE DEF t
  <2>5. desired[c].target = t
    BY DEF t
  <2>6. ASSUME NEW q \in Clients \ {p}, tx[q] # None, tx[q].op = "apply"
        PROVE  /\ tx[q].status = target[desired[tx[q].cs].target].status
               /\ tx[q].revision = target[desired[tx[q].cs].target].revision
    BY <2>6 DEF TargetHeld, TargetOf
  <2>7. ASSUME NEW q \in Clients \ {p}, tx[q] # None, tx[q].op = "apply",
               NEW r \in Clients \ {p}, tx[r] # None, tx[r].op = "apply",
               desired[tx[r].cs].target = desired[tx[q].cs].target
        PROVE  r = q
    BY <2>7 DEF TargetHeld, TargetOf
  <2>8. SUFFICES ASSUME NEW q \in Clients, tx'[q] # None, tx'[q].op = "apply"
                 PROVE  /\ tx'[q].status = target[desired[tx'[q].cs].target].status
                        /\ tx'[q].revision = target[desired[tx'[q].cs].target].revision
                        /\ \A r \in Clients :
                             /\ tx'[r] # None /\ tx'[r].op = "apply"
                             /\ desired[tx'[r].cs].target = desired[tx'[q].cs].target
                             => r = q
    BY <2>3, Zenon DEF TargetHeld, TargetOf
  <2>9. CASE q = p
    <3>1. desired[tx'[q].cs].target = t
      BY <2>1, <2>5, <2>9
    <3>2. ASSUME NEW r \in Clients \ {p}, tx'[r] # None, tx'[r].op = "apply"
          PROVE  desired[tx'[r].cs].target # t
      BY <2>2, <2>4, <3>2
    <3> QED BY <2>1, <2>9, <3>1, <3>2
  <2>10. CASE q # p
    <3>1. tx'[q] = tx[q] /\ tx[q] # None /\ tx[q].op = "apply"
      BY <2>2, <2>8, <2>10
    <3>2. desired[tx[q].cs].target # t
      BY <2>4, <3>1
    <3>3. ASSUME NEW r \in Clients, tx'[r] # None, tx'[r].op = "apply",
                 desired[tx'[r].cs].target = desired[tx'[q].cs].target
          PROVE  r = q
      <4>1. r # p
        BY <2>1, <2>5, <3>1, <3>2, <3>3
      <4>2. tx'[r] = tx[r]
        BY <2>2, <4>1
      <4> QED BY <2>7, <2>10, <3>1, <3>3, <4>1, <4>2
    <3> QED BY <2>6, <2>10, <3>1, <3>3
  <2> QED BY <2>9, <2>10
<1>4. ASSUME NEW p \in Clients, ReadLocks(p)
      PROVE  TargetHeld'
  <2>1. desired' = desired /\ target' = target /\ tx[p] # None
    BY <1>4, Zenon DEF ReadLocks
  <2> QED BY <1>4, <2>1, ReadLocksKeeps, HeldKept
<1>5. ASSUME NEW p \in Clients, Rollback(p) \/ SubmitChangeset(p) \/ ApproveChangeset(p)
      PROVE  TargetHeld'
  <2>1. tx' = [tx EXCEPT ![p] = None] /\ desired' = desired /\ target' = target
    BY ZenonT(30), <1>5 DEF Rollback, SubmitChangeset, ApproveChangeset, Finish
  <2> QED BY <2>1, HeldKept DEF TypeOK
<1>6. ASSUME NEW p \in Clients, ApplyChangeset(p)
      PROVE  TargetHeld'
  <2> DEFINE t == desired[tx[p].cs].target
  <2>1. t \in Targets /\ \E n : target' = [target EXCEPT ![t] = n]
    BY <1>6, AppliedTarget, ZenonT(40)
  <2>2. tx' = [tx EXCEPT ![p] = None] /\ desired' = desired
    BY <1>6, Zenon DEF ApplyChangeset, Finish
  <2>3. \A q \in Clients \ {p} : tx[q] # None /\ tx[q].op = "apply" => desired[tx[q].cs].target # t
    BY <1>6, ZenonT(40) DEF ApplyChangeset, Ready, TargetHeld, TargetOf
  <2>4. \A q \in Clients : tx[q] # None => desired[tx[q].cs].target \in Targets
    BY ChangeType DEF TypeOK, Tx, Underway, Created, Allows, From
  <2> HIDE DEF t
  <2> QED BY <2>1, <2>2, <2>3, <2>4, HeldKept DEF TypeOK
<1>7. ASSUME NEW t \in Targets, NEW to \in Statuses, NEW bump \in {0, 1},
             DirectChange(t, to, bump)
      PROVE  TargetHeld'
  <2>1. \A q \in Clients : tx[q] # None /\ tx[q].op = "apply" => desired[tx[q].cs].target # t
    BY <1>7 DEF DirectChange, TargetRowLocked, TargetOf
  <2>2. /\ tx' = tx /\ desired' = desired /\ \E n : target' = [target EXCEPT ![t] = n]
    BY <1>7, Zenon DEF DirectChange
  <2>3. \A q \in Clients : tx[q] # None => desired[tx[q].cs].target \in Targets
    BY ZenonT(30), ChangeType DEF TypeOK, Tx, Underway, Created, Allows, From
  <2> QED BY <2>1, <2>2, <2>3, HeldKept DEF TypeOK
<1>8. ASSUME \/ \E c \in Changesets, expected \in 1..MaxRevision :
                  \/ CancelChangeset(c, expected)
                  \/ \E by \in Principals, decision \in {"REJECTED", "CHANGES_REQUESTED"} :
                       DeclineChangeset(c, by, expected, decision)
             \/ \E c \in Changesets : PlanExpires(c)
             \/ \E t \in Targets : ChecksChange(t)
      PROVE  TargetHeld'
  <2>1. tx' = tx /\ desired' = desired /\ target' = target
    BY <1>8 DEF CancelChangeset, DeclineChangeset, PlanExpires, ChecksChange
  <2> QED BY <2>1 DEF TargetHeld, TargetOf
<1> HIDE DEF Base
<1> QED BY <1>1, <1>2, <1>3, <1>4, <1>5, <1>6, <1>7, <1>8 DEF Next, Command

-----------------------------------------------------------------------------
(* Approvals and applied plans *)

\* A step that leaves alone every approved or completed changeset but c, and
\* loses no decision, keeps them approved.
LEMMA ApprovedKept ==
  ASSUME Approved, NEW c,
         decisions \subseteq decisions',
         \A o \in Changesets \ {c} :
           /\ state'[o] = state[o] /\ requester'[o] = requester[o] /\ approval'[o] = approval[o]
           /\ plan'[o].version = plan[o].version,
         c \in Changesets /\ state'[c] \in {"APPROVED", "COMPLETED"} =>
           /\ approval'[c] = plan'[c].version
           /\ \E d \in decisions' : /\ d.cs = c /\ d.version = plan'[c].version
                                    /\ d.decision = "APPROVED" /\ d.by # requester'[c]
  PROVE  Approved'
<1> SUFFICES ASSUME NEW o \in Changesets, state'[o] \in {"APPROVED", "COMPLETED"}
             PROVE  /\ approval'[o] = plan'[o].version
                    /\ \E d \in decisions' : /\ d.cs = o /\ d.version = plan'[o].version
                                             /\ d.decision = "APPROVED" /\ d.by # requester'[o]
  BY DEF Approved
<1>1. CASE o = c
  BY <1>1
<1>2. CASE o # c
  BY <1>2 DEF Approved
<1> QED BY <1>1, <1>2

\* Expiry changes nothing of a plan but that it has expired.
LEMMA ExpiryKeeps ==
  ASSUME TypeOK, NEW c \in Changesets, PlanExpires(c)
  PROVE  /\ plan[c] \in Plan /\ plan'[c] \in Plan
         /\ plan'[c].version = plan[c].version /\ plan'[c].revision = plan[c].revision
         /\ plan'[c].status = plan[c].status /\ plan'[c].blockers = plan[c].blockers
         /\ \A o \in Changesets \ {c} : plan'[o] = plan[o]
<1>1. plan[c] \in Plan
  BY DEF PlanExpires, TypeOK
<1>2. plan' = [plan EXCEPT ![c] = [plan[c] EXCEPT !.expired = TRUE]]
  BY DEF PlanExpires, TypeOK
<1> DEFINE n == [plan[c] EXCEPT !.expired = TRUE]
<1>3. /\ n \in Plan /\ n.version = plan[c].version /\ n.revision = plan[c].revision
      /\ n.status = plan[c].status /\ n.blockers = plan[c].blockers
  BY <1>1, Zenon DEF Plan
<1> HIDE DEF n
<1>4. plan' = [plan EXCEPT ![c] = n]
  BY <1>2 DEF n
<1> QED BY <1>1, <1>3, <1>4 DEF TypeOK

\* The steps that write neither a changeset, nor a decision, nor what was applied.
Quiet ==
  \/ \E p \in Clients :
       \/ \E c \in Changesets, expected \in 1..MaxRevision :
            \/ BeginSubmit(p, c, expected)
            \/ \E by \in Principals : BeginApprove(p, c, by, expected)
            \/ \E key \in Keys : BeginApply(p, c, key, expected)
       \/ ReadLocks(p)
       \/ Rollback(p)
  \/ \E t \in Targets :
       \/ ChecksChange(t)
       \/ \E to \in Statuses, bump \in {0, 1} : DirectChange(t, to, bump)

\* A quiet step leaves the changesets and what they did alone.
LEMMA QuietKeeps ==
  Quiet => UNCHANGED <<state, revision, desired, requester, plan, approval, reasons, outcome,
                       decisions, operations, superseded, applied, consumed>>
<1>1. ASSUME NEW p \in Clients, NEW c \in Changesets, NEW expected \in 1..MaxRevision,
             \/ BeginSubmit(p, c, expected)
             \/ \E by \in Principals : BeginApprove(p, c, by, expected)
             \/ \E key \in Keys : BeginApply(p, c, key, expected)
      PROVE  UNCHANGED <<state, revision, desired, requester, plan, approval, reasons, outcome,
                         decisions, operations, superseded, applied, consumed>>
  BY Zenon, <1>1 DEF BeginSubmit, BeginApprove, BeginApply, Begin
<1>2. ASSUME NEW p \in Clients, ReadLocks(p) \/ Rollback(p)
      PROVE  UNCHANGED <<state, revision, desired, requester, plan, approval, reasons, outcome,
                         decisions, operations, superseded, applied, consumed>>
  BY <1>2, Zenon DEF ReadLocks, Rollback
<1>3. ASSUME NEW t \in Targets,
             \/ ChecksChange(t)
             \/ \E to \in Statuses, bump \in {0, 1} : DirectChange(t, to, bump)
      PROVE  UNCHANGED <<state, revision, desired, requester, plan, approval, reasons, outcome,
                         decisions, operations, superseded, applied, consumed>>
  BY <1>3 DEF ChecksChange, DirectChange
<1> QED BY <1>1, <1>2, <1>3 DEF Quiet

\* An approval stays one of the present plan, by another than the requester.
LEMMA ApprovedNext ==
  ASSUME Base, Approved, Next
  PROVE  Approved'
<1> USE DEF Base
<1>1. ASSUME NEW c \in Changesets, NEW d \in Changes, NEW by \in Principals, Create(c, d, by)
      PROVE  Approved'
  <2>1. state'[c] = "DRAFT"
    BY <1>1 DEF Create, TypeOK
  <2> QED BY <1>1, <2>1, ApprovedKept DEF Create, TypeOK
<1>2. ASSUME NEW p \in Clients, SubmitChangeset(p)
      PROVE  Approved'
  <2> DEFINE c == tx[p].cs
             s == SubmittedState(Validate(desired[c], tx[p]))
             g == Generate(desired[c], tx[p], NextVersion(c))
  <2>1. c \in Changesets
    BY ZenonT(30), <1>2, AtCommit DEF SubmitChangeset
  <2>2. s \notin {"APPROVED", "COMPLETED"}
    BY DEF SubmittedState
  <2>3. /\ state' = [state EXCEPT ![c] = s] /\ approval' = [approval EXCEPT ![c] = 0]
        /\ plan' = IF s = "INVALID" THEN plan ELSE [plan EXCEPT ![c] = g]
        /\ requester' = requester /\ decisions' = decisions
    BY ZenonT(30), <1>2 DEF SubmitChangeset, Save
  <2> HIDE DEF c, s, g
  <2> QED BY <2>1, <2>2, <2>3, ApprovedKept DEF TypeOK
<1>3. ASSUME NEW p \in Clients, ApproveChangeset(p)
      PROVE  Approved'
  <2> DEFINE c == tx[p].cs
             d == Decision(c, tx[p].by, "APPROVED")
  <2>1. c \in Changesets /\ tx[p].by # requester[c]
    BY ZenonT(30), <1>3, AtCommit DEF ApproveChangeset
  <2>2. /\ state' = [state EXCEPT ![c] = "APPROVED"]
        /\ approval' = [approval EXCEPT ![c] = plan[c].version]
        /\ plan' = plan /\ requester' = requester /\ decisions' = decisions \cup {d}
    BY <1>3 DEF ApproveChangeset, Save
  <2>3. d.cs = c /\ d.version = plan[c].version /\ d.decision = "APPROVED" /\ d.by = tx[p].by
    BY DEF Decision
  <2> HIDE DEF c, d
  <2> QED BY <2>1, <2>2, <2>3, ApprovedKept DEF TypeOK
<1>4. ASSUME NEW p \in Clients, ApplyChangeset(p)
      PROVE  Approved'
  <2> DEFINE c == tx[p].cs
  <2>1. c \in Changesets /\ state[c] = "APPROVED"
    BY <1>4, AtCommit, Zenon DEF ApplyChangeset
  <2>2. /\ state' = [state EXCEPT ![c] = "COMPLETED"] /\ approval' = approval
        /\ plan' = plan /\ requester' = requester /\ decisions' = decisions
    BY ZenonT(30), <1>4 DEF ApplyChangeset, Save
  <2> HIDE DEF c
  <2> QED BY <2>1, <2>2 DEF Approved, TypeOK
<1>5. ASSUME NEW c \in Changesets, NEW expected \in 1..MaxRevision,
             \/ CancelChangeset(c, expected)
             \/ \E by \in Principals, decision \in {"REJECTED", "CHANGES_REQUESTED"} :
                  DeclineChangeset(c, by, expected, decision)
      PROVE  Approved'
  <2>1. /\ \E s \in {"CANCELLED", "REJECTED", "CHANGES_REQUESTED"} : state' = [state EXCEPT ![c] = s]
        /\ approval' = approval /\ plan' = plan /\ requester' = requester
        /\ decisions \subseteq decisions'
    BY Zenon, <1>5 DEF CancelChangeset, DeclineChangeset, Save
  <2> QED BY <2>1, ApprovedKept DEF TypeOK
<1>6. ASSUME NEW c \in Changesets, PlanExpires(c)
      PROVE  Approved'
  <2>1. \A o \in Changesets : plan'[o].version = plan[o].version
    BY <1>6, ExpiryKeeps
  <2> QED BY <1>6, <2>1 DEF PlanExpires, Approved
<1>7. ASSUME Quiet
      PROVE  Approved'
  BY <1>7, QuietKeeps DEF Approved
<1> HIDE DEF Base
<1> QED BY <1>1, <1>2, <1>3, <1>4, <1>5, <1>6, <1>7 DEF Next, Command, Quiet

\* A changeset that has ended is left alone by every step, but for the expiry of
\* its plan.
Untouched(c) ==
  /\ state'[c] = state[c] /\ revision'[c] = revision[c] /\ approval'[c] = approval[c]
  /\ outcome'[c] = outcome[c] /\ desired'[c] = desired[c] /\ requester'[c] = requester[c]
  /\ reasons'[c] = reasons[c] /\ consumed'[c] = consumed[c]
  /\ plan'[c].version = plan[c].version
  /\ \A d \in decisions' : d.cs = c => d \in decisions

\* A step changes at most one changeset, and none that has ended.
LEMMA OthersUntouched ==
  ASSUME Base, Next
  PROVE  \/ \A o \in Changesets : Untouched(o)
         \/ \E c \in Changesets : /\ state[c] \notin TerminalStates
                                  /\ \A o \in Changesets \ {c} : Untouched(o)
<1> USE DEF Base
<1> DEFINE Only(c) == /\ state[c] \notin TerminalStates
                      /\ \A o \in Changesets \ {c} : Untouched(o)
<1>1. ASSUME NEW c \in Changesets, NEW d \in Changes, NEW by \in Principals, Create(c, d, by)
      PROVE  Only(c)
  BY <1>1 DEF Create, TypeOK, Untouched, TerminalStates
<1>2. ASSUME NEW p \in Clients, SubmitChangeset(p)
      PROVE  \E c \in Changesets : Only(c)
  <2> DEFINE c == tx[p].cs
  <2>1. c \in Changesets /\ state[c] \notin TerminalStates
    BY Zenon, <1>2, AtCommit DEF SubmitChangeset, TerminalStates
  <2>2. /\ \E s : state' = [state EXCEPT ![c] = s] /\ (outcome' = outcome \/ outcome' = [outcome EXCEPT ![c] = s])
        /\ revision' = [revision EXCEPT ![c] = @ + 1]
        /\ consumed' = [consumed EXCEPT ![c] = @ \cup {tx[p].expected}]
        /\ approval' = [approval EXCEPT ![c] = 0] /\ \E v : reasons' = [reasons EXCEPT ![c] = v]
        /\ plan' = plan \/ \E g : plan' = [plan EXCEPT ![c] = g]
        /\ UNCHANGED <<desired, requester, decisions>>
    BY <1>2, Zenon DEF SubmitChangeset, Save, RecordOutcome
  <2> HIDE DEF c
  <2>3. \A o \in Changesets \ {c} : Untouched(o)
    BY <2>1, <2>2 DEF TypeOK, Untouched
  <2> QED BY <2>1, <2>3
<1>3. ASSUME NEW p \in Clients, ApproveChangeset(p)
      PROVE  \E c \in Changesets : Only(c)
  <2> DEFINE c == tx[p].cs
  <2>1. c \in Changesets /\ state[c] \notin TerminalStates
    BY ZenonT(30), <1>3, AtCommit DEF ApproveChangeset, TerminalStates
  <2>2. /\ state' = [state EXCEPT ![c] = "APPROVED"]
        /\ revision' = [revision EXCEPT ![c] = @ + 1]
        /\ consumed' = [consumed EXCEPT ![c] = @ \cup {tx[p].expected}]
        /\ approval' = [approval EXCEPT ![c] = plan[c].version]
        /\ decisions' = decisions \cup {Decision(c, tx[p].by, "APPROVED")}
        /\ UNCHANGED <<desired, requester, plan, reasons, outcome>>
    BY ZenonT(30), <1>3 DEF ApproveChangeset, Save
  <2>3. Decision(c, tx[p].by, "APPROVED").cs = c
    BY DEF Decision
  <2> HIDE DEF c
  <2>4. \A o \in Changesets \ {c} : Untouched(o)
    BY <2>1, <2>2, <2>3 DEF TypeOK, Untouched
  <2> QED BY <2>1, <2>4
<1>4. ASSUME NEW p \in Clients, ApplyChangeset(p)
      PROVE  \E c \in Changesets : Only(c)
  <2> DEFINE c == tx[p].cs
  <2>1. c \in Changesets /\ state[c] \notin TerminalStates
    BY <1>4, AtCommit DEF ApplyChangeset, TerminalStates
  <2>2. /\ state' = [state EXCEPT ![c] = "COMPLETED"]
        /\ revision' = [revision EXCEPT ![c] = @ + 1]
        /\ consumed' = [consumed EXCEPT ![c] = @ \cup {tx[p].expected}]
        /\ outcome' = outcome \/ outcome' = [outcome EXCEPT ![c] = "COMPLETED"]
        /\ UNCHANGED <<desired, requester, plan, approval, reasons, decisions>>
    BY <1>4, Zenon DEF ApplyChangeset, Save, RecordOutcome
  <2> HIDE DEF c
  <2>3. \A o \in Changesets \ {c} : Untouched(o)
    BY <2>1, <2>2 DEF TypeOK, Untouched
  <2> QED BY <2>1, <2>3
<1>5. ASSUME NEW c \in Changesets, NEW expected \in 1..MaxRevision, CancelChangeset(c, expected)
      PROVE  Only(c)
  BY ZenonT(30), <1>5 DEF CancelChangeset, Save, RecordOutcome, Allows, From, TypeOK, Untouched, TerminalStates
<1>6. ASSUME NEW c \in Changesets, NEW expected \in 1..MaxRevision, NEW by \in Principals,
             NEW decision \in {"REJECTED", "CHANGES_REQUESTED"},
             DeclineChangeset(c, by, expected, decision)
      PROVE  Only(c)
  <2>1. Decision(c, by, decision).cs = c
    BY DEF Decision
  <2>2. /\ state[c] \notin TerminalStates /\ state' = [state EXCEPT ![c] = decision]
        /\ revision' = [revision EXCEPT ![c] = @ + 1]
        /\ consumed' = [consumed EXCEPT ![c] = @ \cup {expected}]
        /\ outcome' = outcome \/ outcome' = [outcome EXCEPT ![c] = decision]
        /\ decisions' = decisions \cup {Decision(c, by, decision)}
        /\ UNCHANGED <<desired, requester, plan, approval, reasons>>
    BY <1>6 DEF DeclineChangeset, Save, RecordOutcome, Allows, From, TerminalStates
  <2> QED BY <2>1, <2>2 DEF TypeOK, Untouched
<1>7. ASSUME NEW c \in Changesets, PlanExpires(c)
      PROVE  \A o \in Changesets : Untouched(o)
  <2>1. \A o \in Changesets : plan'[o].version = plan[o].version
    BY <1>7, ExpiryKeeps
  <2> QED BY <1>7, <2>1 DEF PlanExpires, Untouched
<1>8. ASSUME Quiet
      PROVE  \A o \in Changesets : Untouched(o)
  BY <1>8, QuietKeeps DEF Untouched
<1> HIDE DEF Base, Only
<1>9. (\A o \in Changesets : Untouched(o)) \/ \E c \in Changesets : Only(c)
  BY <1>1, <1>2, <1>3, <1>4, <1>5, <1>6, <1>7, <1>8 DEF Next, Command, Quiet
<1> QED BY <1>9 DEF Only

\* A changeset that ended stays as it ended, whatever commands, retries and
\* direct changes follow: no handler's guard lets a terminal state through.
THEOREM EndedStaysEnded == Spec => EndedIsFinal
<1> DEFINE Final == \A c \in Changesets : state[c] \in TerminalStates =>
       /\ state'[c] = state[c] /\ revision'[c] = revision[c] /\ approval'[c] = approval[c]
       /\ outcome'[c] = outcome[c]
       /\ \A d \in decisions' : d.cs = c => d \in decisions
<1>1. Base /\ [Next]_vars => [Final]_vars
  <2>1. Base /\ Next => Final
    BY ZenonT(30), OthersUntouched DEF Untouched
  <2> QED BY <2>1
<1>2. Spec => [][Final]_vars
  BY <1>1, BaseInvariant, PTL DEF Spec
<1> QED BY <1>2 DEF EndedIsFinal

\* What a committed apply leaves behind.
ApplyRecord(p) == [cs |-> tx[p].cs, key |-> tx[p].key, plan |-> plan[tx[p].cs],
                   found |-> target[desired[tx[p].cs].target]]

\* What the commit of an apply writes.
LEMMA ApplyEffects ==
  ASSUME Base, NEW p \in Clients, ApplyChangeset(p)
  PROVE  LET c == tx[p].cs
             a == ApplyRecord(p) IN
         /\ c \in Changesets /\ state[c] = "APPROVED" /\ state'[c] = "COMPLETED"
         /\ a.cs = c /\ a.key = tx[p].key /\ a.plan = plan[c] /\ a.found = target[desired[c].target]
         /\ applied' = applied \cup {a}
         /\ \A o \in operations : o.key # a.key
         /\ \E o \in operations' : o.key = a.key /\ o.cs = c
         /\ operations \subseteq operations' /\ superseded \subseteq superseded'
         /\ desired[c] \in Changes
         /\ desired[c].replaces # NoGrant => desired[c].replaces \in superseded'
         /\ UNCHANGED <<desired, requester, plan, approval, decisions>>
<1> DEFINE c == tx[p].cs
           a == ApplyRecord(p)
           o == [key |-> tx[p].key, cs |-> c, expected |-> tx[p].expected]
<1>1. c \in Changesets /\ state[c] = "APPROVED" /\ desired[c] \in Changes
  BY AtCommit, Zenon DEF ApplyChangeset, Base
<1>2. /\ a.cs = c /\ a.key = tx[p].key /\ a.plan = plan[c] /\ a.found = target[desired[c].target]
      /\ o.key = tx[p].key /\ o.cs = c
  BY DEF ApplyRecord
<1>3. /\ state' = [state EXCEPT ![c] = "COMPLETED"] /\ applied' = applied \cup {a}
      /\ operations' = operations \cup {o}
      /\ superseded' = IF desired[c].replaces = NoGrant THEN superseded
                       ELSE superseded \cup {desired[c].replaces}
      /\ UNCHANGED <<desired, requester, plan, approval, decisions>>
  BY Zenon DEF ApplyChangeset, Save, ApplyRecord
<1>4. \A x \in operations : x.key # tx[p].key
  BY Zenon DEF ApplyChangeset
<1> HIDE DEF c, a, o
<1>5. state'[c] = "COMPLETED"
  BY <1>1, <1>3 DEF Base, TypeOK
<1>6. /\ \A x \in operations : x.key # a.key
      /\ \E x \in operations' : x.key = a.key /\ x.cs = c
      /\ operations \subseteq operations' /\ superseded \subseteq superseded'
      /\ desired[c].replaces # NoGrant => desired[c].replaces \in superseded'
  BY <1>2, <1>3, <1>4, Zenon
<1> QED BY Zenon, <1>1, <1>2, <1>3, <1>5, <1>6 DEF c, a

\* Only an apply adds to what was applied.
LEMMA OnlyApplies ==
  ASSUME Base, Next
  PROVE  \/ \E p \in Clients : ApplyChangeset(p)
         \/ /\ UNCHANGED <<applied, operations, superseded>>
            /\ \A c \in Changesets : state'[c] = "COMPLETED" => state[c] = "COMPLETED"
<1> DEFINE Rest == /\ UNCHANGED <<applied, operations, superseded>>
                   /\ \A c \in Changesets : state'[c] = "COMPLETED" => state[c] = "COMPLETED"
<1> USE DEF Base
<1>1. ASSUME NEW c \in Changesets, NEW d \in Changes, NEW by \in Principals, Create(c, d, by)
      PROVE  Rest
  BY <1>1 DEF Create, TypeOK
<1>2. ASSUME NEW p \in Clients, SubmitChangeset(p)
      PROVE  Rest
  <2> DEFINE s == SubmittedState(Validate(desired[tx[p].cs], tx[p]))
  <2>1. s # "COMPLETED"
    BY Zenon DEF SubmittedState
  <2>2. /\ state' = [state EXCEPT ![tx[p].cs] = s]
        /\ UNCHANGED <<applied, operations, superseded>>
    BY <1>2, Zenon DEF SubmitChangeset, Save
  <2> HIDE DEF s
  <2> QED BY <2>1, <2>2 DEF TypeOK
<1>3. ASSUME NEW p \in Clients, ApproveChangeset(p)
      PROVE  Rest
  BY <1>3 DEF ApproveChangeset, Save, TypeOK
<1>4. ASSUME NEW c \in Changesets, NEW expected \in 1..MaxRevision,
             \/ CancelChangeset(c, expected)
             \/ \E by \in Principals, decision \in {"REJECTED", "CHANGES_REQUESTED"} :
                  DeclineChangeset(c, by, expected, decision)
      PROVE  Rest
  BY <1>4 DEF CancelChangeset, DeclineChangeset, Save, TypeOK
<1>5. ASSUME (\E c \in Changesets : PlanExpires(c)) \/ Quiet
      PROVE  Rest
  BY <1>5, QuietKeeps DEF PlanExpires
<1> HIDE DEF Base, Rest
<1>6. (\E p \in Clients : ApplyChangeset(p)) \/ Rest
  BY <1>1, <1>2, <1>3, <1>4, <1>5 DEF Next, Command, Quiet
<1> QED BY <1>6 DEF Rest

\* What was applied stays what it was.
LEMMA AppliedUntouched ==
  ASSUME Base, Recorded, Next, NEW a \in applied
  PROVE  a.cs \in Changesets /\ Untouched(a.cs)
<1>1. a.cs \in Changesets /\ state[a.cs] \in TerminalStates
  BY DEF Base, TypeOK, AppliedRecord, Recorded, TerminalStates
<1> QED BY ZenonT(30), <1>1, OthersUntouched

\* What was applied keeps its ended changeset, its operation and its superseded grant.
LEMMA RecordedNext ==
  ASSUME Base, Recorded, Next
  PROVE  Recorded'
<1>1. ASSUME NEW a \in applied, operations \subseteq operations', superseded \subseteq superseded'
      PROVE  /\ state'[a.cs] = "COMPLETED" /\ a.plan.version = plan'[a.cs].version
             /\ \E o \in operations' : o.key = a.key /\ o.cs = a.cs
             /\ desired'[a.cs].replaces # NoGrant => desired'[a.cs].replaces \in superseded'
  BY <1>1, AppliedUntouched DEF Recorded, Untouched
<1>2. ASSUME NEW p \in Clients, ApplyChangeset(p)
      PROVE  Recorded'
  <2> DEFINE c == tx[p].cs
             n == ApplyRecord(p)
  <2>1. /\ state'[c] = "COMPLETED" /\ n.cs = c /\ n.plan = plan[c] /\ applied' = applied \cup {n}
        /\ \E o \in operations' : o.key = n.key /\ o.cs = c
        /\ operations \subseteq operations' /\ superseded \subseteq superseded'
        /\ desired[c].replaces # NoGrant => desired[c].replaces \in superseded'
        /\ desired' = desired /\ plan' = plan
    BY <1>2, ApplyEffects
  <2> HIDE DEF c, n
  <2> QED BY ZenonT(30), <1>1, <2>1 DEF Recorded
<1>3. CASE UNCHANGED <<applied, operations, superseded>>
  BY Zenon, <1>1, <1>3 DEF Recorded
<1> QED BY <1>2, <1>3, OnlyApplies
=============================================================================
