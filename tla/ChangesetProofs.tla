-------------------------- MODULE ChangesetProofs ---------------------------
(***************************************************************************)
(* Proofs about Changeset, for every set of changesets, targets, desired   *)
(* changes, principals, keys and clients and every bound:                  *)
(* the inductive invariant and the safety properties that follow from it.  *)
(***************************************************************************)
EXTENDS ChangesetInduction

-----------------------------------------------------------------------------
(* The inductive invariant, and the safety properties that follow *)

\* The inductive invariant holds in every state.
LEMMA InductiveInvariant == Spec => []Inductive
<1> DEFINE Rest == Registered /\ TargetHeld /\ Approved /\ Recorded
<1>1. ASSUME Init PROVE Rest
  <2>1. Registered
    BY <1>1, Zenon DEF Init, Registered
  <2>2. TargetHeld
    BY <1>1, Zenon DEF Init, TargetHeld
  <2>3. Approved
    BY <1>1, Zenon DEF Init, Approved
  <2>4. Recorded
    BY <1>1, Zenon DEF Init, Recorded
  <2> QED BY <2>1, <2>2, <2>3, <2>4
<1>2. Base /\ Rest /\ [Next]_vars => Rest'
  <2>1. Base /\ Rest /\ Next => Rest'
    BY RegisteredNext, TargetHeldNext, ApprovedNext, RecordedNext
  <2>2. Registered /\ UNCHANGED vars => Registered'
    BY Zenon DEF Registered, vars
  <2>3. TargetHeld /\ UNCHANGED vars => TargetHeld'
    BY SMTT(30) DEF TargetHeld, TargetOf, vars
  <2>4. Approved /\ UNCHANGED vars => Approved'
    BY DEF Approved, vars
  <2>5. Recorded /\ UNCHANGED vars => Recorded'
    BY DEF Recorded, vars
  <2> QED BY <2>1, <2>2, <2>3, <2>4, <2>5
<1>3. Base /\ Rest => Inductive
  BY DEF Base, Inductive
<1> HIDE DEF Rest
<1> QED BY <1>1, <1>2, <1>3, BaseInvariant, PTL DEF Spec

\* Four eyes on the exact plan: for any number of changesets and concurrent
\* clients, whatever ApplyChangeset applied is a plan that somebody other than
\* the requester approved by its version, and no later plan replaced it.
THEOREM OnlyApprovedPlansApply == Spec => []AppliedAsApproved
<1>1. Inductive => AppliedAsApproved
  <2> SUFFICES ASSUME Inductive, NEW a \in applied
               PROVE  /\ \E d \in decisions : /\ d.cs = a.cs /\ d.version = a.plan.version
                                              /\ d.decision = "APPROVED" /\ d.by # requester[a.cs]
                      /\ a.plan.version = plan[a.cs].version
    BY DEF AppliedAsApproved
  <2>1. a.cs \in Changesets
    BY DEF Inductive, TypeOK, AppliedRecord
  <2>2. state[a.cs] = "COMPLETED" /\ a.plan.version = plan[a.cs].version
    BY DEF Inductive, Recorded
  <2> QED BY <2>1, <2>2 DEF Inductive, Approved
<1> QED BY <1>1, InductiveInvariant, PTL

\* What is applied is what was reviewed: freshlyStale under the row locks makes
\* every apply find its target as the approved plan says.
THEOREM AppliesFindThePlannedTarget == Spec => []AppliedToThePlannedTarget
<1>1. Init => AppliedToThePlannedTarget
  BY Zenon DEF Init, AppliedToThePlannedTarget
<1>2. Inductive /\ AppliedToThePlannedTarget /\ [Next]_vars => AppliedToThePlannedTarget'
  <2> SUFFICES ASSUME Inductive, AppliedToThePlannedTarget, [Next]_vars
               PROVE  AppliedToThePlannedTarget'
    OBVIOUS
  <2>0. Base
    BY DEF Base, Inductive
  <2>1. ASSUME Next, NEW a \in applied
        PROVE  /\ a.plan.status = a.found.status /\ a.plan.revision = a.found.revision
               /\ a.plan.blockers = {} /\ a.found.status \in Kinds[desired'[a.cs].kind].from
    <3>1. desired'[a.cs] = desired[a.cs]
      BY <2>0, <2>1, AppliedUntouched DEF Inductive, Untouched
    <3> QED BY <3>1 DEF AppliedToThePlannedTarget
  <2>2. ASSUME Next, NEW p \in Clients, ApplyChangeset(p)
        PROVE  AppliedToThePlannedTarget'
    <3> DEFINE c == tx[p].cs
               t == target[desired[c].target]
               n == ApplyRecord(p)
    <3>1. /\ n.cs = c /\ n.plan = plan[c] /\ n.found = t /\ applied' = applied \cup {n}
          /\ desired' = desired
      BY <2>0, <2>2, ApplyEffects
    <3>2. /\ plan[c].status = t.status /\ plan[c].revision = t.revision /\ plan[c].blockers = {}
          /\ t.status \in Kinds[desired[c].kind].from
      BY <2>0, <2>2, FoundAsPlanned, Zenon DEF Inductive
    <3> HIDE DEF c, t, n
    <3> QED BY <2>1, <2>2, <3>1, <3>2 DEF AppliedToThePlannedTarget
  <2>3. CASE UNCHANGED vars
    BY <2>3 DEF AppliedToThePlannedTarget, vars
  <2>4. CASE Next /\ applied' = applied
    BY <2>1, <2>4 DEF AppliedToThePlannedTarget
  <2> QED BY <2>0, <2>2, <2>3, <2>4, OnlyApplies
<1> QED BY <1>1, <1>2, InductiveInvariant, PTL DEF Spec

\* A changeset is COMPLETED exactly when it was applied, once and under one
\* idempotency key, however applies are retried, duplicated or interleaved.
THEOREM AppliedOnce == Spec => []CompletedIffAppliedOnce
<1>1. Init => CompletedIffAppliedOnce
  BY Zenon DEF Init, CompletedIffAppliedOnce
<1>2. Inductive /\ CompletedIffAppliedOnce /\ [Next]_vars => CompletedIffAppliedOnce'
  <2> SUFFICES ASSUME Inductive, CompletedIffAppliedOnce, [Next]_vars
               PROVE  CompletedIffAppliedOnce'
    OBVIOUS
  <2>0. Base /\ Recorded
    BY DEF Base, Inductive
  <2>1. ASSUME Next, NEW p \in Clients, ApplyChangeset(p)
        PROVE  CompletedIffAppliedOnce'
    <3> DEFINE c == tx[p].cs
               n == ApplyRecord(p)
    <3>1. /\ c \in Changesets /\ state[c] = "APPROVED" /\ state'[c] = "COMPLETED" /\ n.cs = c
          /\ applied' = applied \cup {n} /\ \A o \in operations : o.key # n.key
      BY <2>0, <2>1, ApplyEffects
    <3>2. \A a \in applied : a.cs # c /\ a.key # n.key
      BY <2>0, <3>1 DEF Recorded
    <3>3. \A o \in Changesets \ {c} : state'[o] = "COMPLETED" <=> state[o] = "COMPLETED"
      BY <2>0, <2>1, <3>1 DEF ApplyChangeset, Save, Base, TypeOK
    <3> HIDE DEF c, n
    <3> QED BY <3>1, <3>2, <3>3 DEF CompletedIffAppliedOnce
  <2>2. CASE /\ Next /\ applied' = applied
             /\ \A c \in Changesets : state'[c] = "COMPLETED" => state[c] = "COMPLETED"
    <3>1. \A c \in Changesets : state[c] = "COMPLETED" => state'[c] = "COMPLETED"
      BY <2>0, <2>2, OthersUntouched DEF Untouched, TerminalStates
    <3> QED BY <2>2, <3>1 DEF CompletedIffAppliedOnce
  <2>3. CASE UNCHANGED vars
    BY <2>3 DEF CompletedIffAppliedOnce, vars
  <2> QED BY <2>0, <2>1, <2>2, <2>3, OnlyApplies
<1> QED BY <1>1, <1>2, InductiveInvariant, PTL DEF Spec

\* No step lowers a target's revision.
LEMMA RevisionsGrow ==
  ASSUME Inductive, Next, NEW t \in Targets
  PROVE  /\ target[t].revision \in Nat /\ target'[t].revision \in Nat
         /\ target[t].revision <= target'[t].revision
<1>0. Base /\ Registered /\ TargetHeld
  BY DEF Base, Inductive
<1>1. target[t].revision \in Nat /\ target'[t].revision \in Nat
  BY <1>0, TypeNext DEF Base, TypeOK
<1>2. ASSUME NEW p \in Clients, ApplyChangeset(p)
      PROVE  target[t].revision <= target'[t].revision
  <2> DEFINE d == desired[tx[p].cs]
             n == ApplyToTarget(d, target[d.target])
  <2>1. d.target \in Targets /\ target' = [target EXCEPT ![d.target] = n]
    BY <1>0, <1>2, AppliedTarget, Zenon
  <2>2. n.revision = IF BumpsRevision(d.kind) THEN target[d.target].revision + 1
                     ELSE target[d.target].revision
    BY <1>0, <1>2, AppliedTarget, Zenon
  <2> HIDE DEF d, n
  <2>3. target'[t] = IF t = d.target THEN n ELSE target[t]
    BY <1>0, <2>1 DEF Base, TypeOK
  <2> QED BY <1>1, <2>2, <2>3
<1>3. ASSUME NEW u \in Targets, NEW to \in Statuses, NEW bump \in {0, 1},
             DirectChange(u, to, bump)
      PROVE  target[t].revision <= target'[t].revision
  <2>1. target'[t].revision = IF t = u THEN target[t].revision + bump ELSE target[t].revision
    BY <1>0, <1>3 DEF DirectChange, Base, TypeOK
  <2> QED BY <1>1, <2>1
<1>4. CASE target' = target
  BY <1>1, <1>4
<1> QED BY <1>0, <1>1, <1>2, <1>3, <1>4, TargetWriters

\* Whether an apply bumps the revision is a matter of its target's type.
LEMMA BumpsByType ==
  ASSUME NEW d \in Changes, NEW e \in Changes, d.target = e.target
  PROVE  BumpsRevision(d.kind) <=> BumpsRevision(e.kind)
<1>1. Kinds[d.kind].target = Kinds[e.kind].target
  BY ChangesAssumption
<1> HIDE DEF Kinds
<1> QED BY <1>1 DEF BumpsRevision

\* No lost update: a revision of a tenant, market, mapping, provider or engine
\* instance is the basis of at most one applied plan, and the target has moved
\* past it.
THEOREM NoLostUpdate == Spec => []OnePlanPerRevision
<1>1. Init => OnePlanPerRevision
  BY Zenon DEF Init, OnePlanPerRevision
<1>2. Inductive /\ OnePlanPerRevision /\ [Next]_vars => OnePlanPerRevision'
  <2> SUFFICES ASSUME Inductive, OnePlanPerRevision, [Next]_vars
               PROVE  OnePlanPerRevision'
    OBVIOUS
  <2>0. Base /\ Recorded /\ Registered /\ TargetHeld
    BY DEF Base, Inductive
  <2>1. ASSUME NEW a \in applied
        PROVE  /\ desired[a.cs] \in Changes /\ desired[a.cs].target \in Targets
               /\ a.plan.revision \in Nat
    <3>1. a.cs \in Changesets /\ state[a.cs] = "COMPLETED" /\ a.plan \in Plan
      BY <2>0 DEF Recorded, Base, TypeOK, AppliedRecord
    <3> QED BY <2>0, <3>1, ChangeType DEF Base, Created, Plan
  <2>2. ASSUME Next, NEW a \in applied
        PROVE  /\ desired'[a.cs] = desired[a.cs]
               /\ BumpsRevision(desired[a.cs].kind) =>
                    a.plan.revision < target'[desired[a.cs].target].revision
    <3>1. desired'[a.cs] = desired[a.cs]
      BY <2>0, <2>2, AppliedUntouched DEF Untouched
    <3>2. BumpsRevision(desired[a.cs].kind) =>
            a.plan.revision < target[desired[a.cs].target].revision
      BY DEF OnePlanPerRevision, TargetOf
    <3> QED BY <2>1, <2>2, <3>1, <3>2, RevisionsGrow
  <2>3. CASE Next /\ applied' = applied
    <3>1. \A a, b \in applied :
            /\ BumpsRevision(desired[a.cs].kind) /\ desired[a.cs].target = desired[b.cs].target
            => a = b \/ a.plan.revision # b.plan.revision
      BY DEF OnePlanPerRevision, TargetOf
    <3> QED BY <2>2, <2>3, <3>1 DEF OnePlanPerRevision, TargetOf
  <2>4. ASSUME Next, NEW p \in Clients, ApplyChangeset(p)
        PROVE  OnePlanPerRevision'
    <3> DEFINE d == desired[tx[p].cs]
               n == ApplyRecord(p)
    <3>1. /\ n.cs = tx[p].cs /\ n.plan = plan[tx[p].cs] /\ applied' = applied \cup {n}
          /\ desired' = desired /\ d \in Changes /\ d.target \in Targets
      BY <2>0, <2>4, ApplyEffects, ChangeType
    <3>2. n.plan.revision = target[d.target].revision /\ target[d.target].revision \in Nat
      BY <2>0, <2>4, <3>1, FoundAsPlanned, Zenon DEF Base, TypeOK
    <3>3. ASSUME BumpsRevision(d.kind)
          PROVE  n.plan.revision < target'[d.target].revision
      <4>1. /\ target' = [target EXCEPT ![d.target] = ApplyToTarget(d, target[d.target])]
            /\ ApplyToTarget(d, target[d.target]).revision = target[d.target].revision + 1
        BY <2>0, <2>4, <3>3, AppliedTarget, Zenon
      <4>2. target'[d.target].revision = target[d.target].revision + 1
        BY <2>0, <3>1, <4>1, Zenon DEF Base, TypeOK
      <4> HIDE DEF d, n
      <4> QED BY <3>2, <4>2
    <3>4. ASSUME NEW a \in applied, desired[a.cs].target = d.target,
                 BumpsRevision(d.kind) \/ BumpsRevision(desired[a.cs].kind)
          PROVE  a.plan.revision # n.plan.revision
      <4>1. BumpsRevision(desired[a.cs].kind)
        BY <2>1, <3>1, <3>4, BumpsByType
      <4>2. a.plan.revision < target[d.target].revision
        BY <3>4, <4>1 DEF OnePlanPerRevision, TargetOf
      <4>3. a.plan.revision \in Nat
        BY <2>1
      <4> HIDE DEF d, n
      <4> QED BY <3>2, <4>2, <4>3
    <3>5. desired'[n.cs] = d
      BY <3>1
    <3> HIDE DEF d, n
    <3>6. \A a, b \in applied :
            /\ BumpsRevision(desired[a.cs].kind) /\ desired[a.cs].target = desired[b.cs].target
            => a = b \/ a.plan.revision # b.plan.revision
      BY DEF OnePlanPerRevision, TargetOf
    <3>7. ASSUME NEW a \in applied', BumpsRevision(desired'[a.cs].kind)
          PROVE  a.plan.revision < target'[desired'[a.cs].target].revision
      <4>1. CASE a \in applied
        BY <2>2, <2>4, <3>7, <4>1
      <4>2. CASE a = n
        BY <3>3, <3>5, <3>7, <4>2
      <4> QED BY <3>1, <4>1, <4>2
    <3>8. ASSUME NEW a \in applied', NEW b \in applied', a # b,
                 BumpsRevision(desired'[a.cs].kind),
                 desired'[a.cs].target = desired'[b.cs].target
          PROVE  a.plan.revision # b.plan.revision
      <4>1. CASE a \in applied /\ b \in applied
        BY <3>1, <3>6, <3>8, <4>1
      <4>2. CASE a \in applied /\ b = n
        BY <3>1, <3>4, <3>5, <3>8, <4>2
      <4>3. CASE a = n /\ b \in applied
        BY <3>1, <3>4, <3>5, <3>8, <4>3
      <4> QED BY <3>1, <3>8, <4>1, <4>2, <4>3
    <3> QED BY <3>7, <3>8 DEF OnePlanPerRevision, TargetOf
  <2>5. CASE UNCHANGED vars
    BY <2>5, SMTT(30) DEF OnePlanPerRevision, TargetOf, vars
  <2> QED BY <2>0, <2>3, <2>4, <2>5, OnlyApplies
<1> QED BY <1>1, <1>2, InductiveInvariant, PTL DEF Spec

\* No administrative grant is replaced by two applied issuances: the check
\* applyGrantChange repeats at commit sees what an earlier apply superseded.
THEOREM GrantsReplacedOnce == Spec => []GrantReplacedOnce
<1>1. Init => GrantReplacedOnce
  BY Zenon DEF Init, GrantReplacedOnce
<1>2. Inductive /\ GrantReplacedOnce /\ [Next]_vars => GrantReplacedOnce'
  <2> SUFFICES ASSUME Inductive, GrantReplacedOnce, [Next]_vars
               PROVE  GrantReplacedOnce'
    OBVIOUS
  <2>0. Base /\ Recorded
    BY DEF Base, Inductive
  <2>1. ASSUME Next, NEW a \in applied
        PROVE  desired'[a.cs] = desired[a.cs]
    BY <2>0, <2>1, AppliedUntouched DEF Untouched
  <2>2. ASSUME Next, NEW p \in Clients, ApplyChangeset(p)
        PROVE  GrantReplacedOnce'
    <3> DEFINE d == desired[tx[p].cs]
               n == ApplyRecord(p)
    <3>1. /\ n.cs = tx[p].cs /\ applied' = applied \cup {n} /\ desired' = desired /\ d \in Changes
      BY <2>0, <2>2, ApplyEffects
    <3>2. ASSUME d.replaces # NoGrant
          PROVE  d.replaces \notin superseded
      <4>1. Kinds[d.kind].target = "ADMINISTRATIVE_PRINCIPAL"
        <5>1. d.kind = "ADMINISTRATIVE_GRANT_ISSUANCE"
          BY <3>1, <3>2, ChangesAssumption
        <5>2. Kinds["ADMINISTRATIVE_GRANT_ISSUANCE"].target = "ADMINISTRATIVE_PRINCIPAL"
          BY Zenon DEF Kinds
        <5> QED BY <5>1, <5>2
      <4>2. ~CheckFailures(tx[p].cs)
        BY <2>2, <4>1, Zenon DEF ApplyChangeset, TargetAccepts
      <4>3. HasPlanChecks(d.kind)
        BY <4>1 DEF HasPlanChecks
      <4> QED BY <3>2, <4>2, <4>3 DEF CheckFailures, ReplacedGrantFailure
    <3>3. \A a \in applied : desired[a.cs].replaces # NoGrant => desired[a.cs].replaces \in superseded
      BY <2>0 DEF Recorded
    <3>4. desired'[n.cs] = d
      BY <3>1
    <3> HIDE DEF d, n
    <3> QED BY <3>1, <3>2, <3>3, <3>4 DEF GrantReplacedOnce
  <2>3. CASE Next /\ applied' = applied
    BY <2>1, <2>3 DEF GrantReplacedOnce
  <2>4. CASE UNCHANGED vars
    BY <2>4 DEF GrantReplacedOnce, vars
  <2> QED BY <2>0, <2>2, <2>3, <2>4, OnlyApplies
<1> QED BY <1>1, <1>2, InductiveInvariant, PTL DEF Spec

-----------------------------------------------------------------------------
(* If-Match *)

\* A changeset that exists has a revision.
Numbered ==
  \A c \in Changesets : IF state[c] = "NONE" THEN revision[c] = 0 ELSE revision[c] >= 1

\* What a step does to the revision of a changeset: nothing, create it, or use
\* up the revision the command named.
RevisionStep(c) ==
  \/ state'[c] = state[c] /\ revision'[c] = revision[c] /\ consumed'[c] = consumed[c]
  \/ /\ state[c] = "NONE" /\ state'[c] # "NONE" /\ revision'[c] = 1
     /\ consumed'[c] = consumed[c]
  \/ /\ state[c] # "NONE" /\ state'[c] # "NONE" /\ revision[c] < MaxRevision
     /\ revision'[c] = revision[c] + 1 /\ consumed'[c] = consumed[c] \cup {revision[c]}

\* What each step does to a changeset's revision.
LEMMA RevisionSteps ==
  ASSUME Base, Next, NEW c \in Changesets
  PROVE  RevisionStep(c)
<1> USE DEF Base
<1>1. ASSUME NEW o \in Changesets, NEW d \in Changes, NEW by \in Principals, Create(o, d, by)
      PROVE  RevisionStep(c)
  BY <1>1 DEF Create, TypeOK, RevisionStep
<1>2. ASSUME NEW o \in Changesets, NEW s \in States \ {"NONE"}, Save(o, revision[o], s),
             state[o] # "NONE", revision[o] < MaxRevision
      PROVE  RevisionStep(c)
  BY <1>2 DEF Save, TypeOK, RevisionStep
<1>3. ASSUME NEW p \in Clients, SubmitChangeset(p)
      PROVE  RevisionStep(c)
  <2> DEFINE s == SubmittedState(Validate(desired[tx[p].cs], tx[p]))
  <2>1. s \in States \ {"NONE"}
    BY DEF SubmittedState, States, TerminalStates
  <2>2. /\ tx[p].cs \in Changesets /\ tx[p].expected = revision[tx[p].cs]
        /\ revision[tx[p].cs] < MaxRevision /\ state[tx[p].cs] # "NONE"
    BY <1>3, AtCommit DEF SubmitChangeset
  <2>3. Save(tx[p].cs, tx[p].expected, s)
    BY <1>3 DEF SubmitChangeset
  <2> HIDE DEF s
  <2> QED BY <1>2, <2>1, <2>2, <2>3
<1>4. ASSUME NEW p \in Clients, ApproveChangeset(p) \/ ApplyChangeset(p)
      PROVE  RevisionStep(c)
  <2>1. /\ tx[p].cs \in Changesets /\ tx[p].expected = revision[tx[p].cs]
        /\ revision[tx[p].cs] < MaxRevision /\ state[tx[p].cs] # "NONE"
    BY <1>4, AtCommit, Zenon DEF ApproveChangeset, ApplyChangeset
  <2>2. Save(tx[p].cs, tx[p].expected, "APPROVED") \/ Save(tx[p].cs, tx[p].expected, "COMPLETED")
    BY <1>4, Zenon DEF ApproveChangeset, ApplyChangeset
  <2>3. {"APPROVED", "COMPLETED"} \subseteq States \ {"NONE"}
    BY DEF States, TerminalStates
  <2> QED BY <1>2, <2>1, <2>2, <2>3
<1>5. ASSUME NEW o \in Changesets, NEW expected \in 1..MaxRevision,
             \/ CancelChangeset(o, expected)
             \/ \E by \in Principals, decision \in {"REJECTED", "CHANGES_REQUESTED"} :
                  DeclineChangeset(o, by, expected, decision)
      PROVE  RevisionStep(c)
  <2>1. /\ expected = revision[o] /\ revision[o] < MaxRevision /\ state[o] # "NONE"
        /\ \E s \in {"CANCELLED", "REJECTED", "CHANGES_REQUESTED"} : Save(o, expected, s)
    BY <1>5 DEF CancelChangeset, DeclineChangeset, LockChangeset, Allows, From
  <2>2. {"CANCELLED", "REJECTED", "CHANGES_REQUESTED"} \subseteq States \ {"NONE"}
    BY DEF States, TerminalStates
  <2> QED BY <1>2, <2>1, <2>2
<1>6. ASSUME (\E o \in Changesets : PlanExpires(o)) \/ Quiet
      PROVE  RevisionStep(c)
  BY <1>6, QuietKeeps DEF PlanExpires, RevisionStep
<1> HIDE DEF Base
<1> QED BY <1>1, <1>3, <1>4, <1>5, <1>6 DEF Next, Command, Quiet

\* Every revision was named by exactly one command that took effect: lockChangeset
\* lets no duplicated, delayed or concurrent command act on a state its caller
\* has not seen.
THEOREM RevisionsNamedOnce == Spec => []EveryRevisionNamedOnce
<1> DEFINE Both == Numbered /\ EveryRevisionNamedOnce
<1>1. ASSUME Init PROVE Both
  <2>1. {n \in 1..MaxRevision : n < 0} = {}
    BY BoundsAssumption
  <2>2. \A c \in Changesets : state[c] = "NONE" /\ revision[c] = 0 /\ consumed[c] = {}
    BY <1>1, Zenon DEF Init
  <2> QED BY <2>1, <2>2 DEF Numbered, EveryRevisionNamedOnce
<1>2. Base /\ Both /\ [Next]_vars => Both'
  <2> SUFFICES ASSUME Base, Both, [Next]_vars
               PROVE  Both'
    OBVIOUS
  <2>1. CASE UNCHANGED vars
    BY <2>1 DEF Numbered, EveryRevisionNamedOnce, vars
  <2>2. ASSUME Next, NEW c \in Changesets
        PROVE  /\ IF state'[c] = "NONE" THEN revision'[c] = 0 ELSE revision'[c] >= 1
               /\ consumed'[c] = {n \in 1..MaxRevision : n < revision'[c]}
    <3>1. RevisionStep(c)
      BY <2>2, RevisionSteps
    <3>2. revision[c] \in Nat /\ MaxRevision \in Nat
      BY BoundsAssumption DEF Base, TypeOK
    <3>3. /\ IF state[c] = "NONE" THEN revision[c] = 0 ELSE revision[c] >= 1
          /\ consumed[c] = {n \in 1..MaxRevision : n < revision[c]}
      BY DEF Numbered, EveryRevisionNamedOnce
    <3> QED BY <3>1, <3>2, <3>3 DEF RevisionStep
  <2> QED BY <2>1, <2>2 DEF Numbered, EveryRevisionNamedOnce
<1>3. Both => EveryRevisionNamedOnce
  OBVIOUS
<1> HIDE DEF Both
<1> QED BY <1>1, <1>2, <1>3, BaseInvariant, PTL DEF Spec

-----------------------------------------------------------------------------
(* What the table rows of open changesets satisfy together *)

\* Of two changesets of a target that await approval or are approved, the later
\* one finds the earlier in its way: the semantic lock readTarget computes
\* makes its plan stale, for any number of changesets and clients.
THEOREM OneLivePlan == Spec => []OneLivePlanPerTarget
<1>1. ASSUME Inductive, NEW c \in Changesets, NEW o \in Changesets, o < c,
             {state[c], state[o]} \subseteq {"AWAITING_APPROVAL", "APPROVED"},
             TargetOf(c) = TargetOf(o)
      PROVE  FreshlyStale(c)
  <2> DEFINE fresh == Generate(desired[c], ReadNow(c), 0)
  <2>1. LockedBy(c) # {}
    BY <1>1 DEF LockedBy, OpenStates
  <2>2. ReadNow(c).locked
    BY Zenon, <2>1 DEF ReadNow
  <2>3. "TARGET_LOCKED" \in Codes
    BY DEF Codes
  <2>4. Validate(desired[c], ReadNow(c)) # {}
    BY <2>2, <2>3, Zenon DEF Validate
  <2>5. fresh.blockers # {}
    BY <2>4 DEF Generate
  <2>6. plan[c].blockers = {}
    BY <1>1 DEF Inductive, Planned
  <2>7. Material(plan[c]) # Material(fresh)
    BY <2>5, <2>6 DEF Material
  <2> QED BY <2>7 DEF FreshlyStale, Stale
<1>2. Inductive => OneLivePlanPerTarget
  <2> SUFFICES ASSUME Inductive, NEW c \in Changesets, NEW o \in Changesets, c # o,
                      {state[c], state[o]} \subseteq {"AWAITING_APPROVAL", "APPROVED"},
                      TargetOf(c) = TargetOf(o)
               PROVE  FreshlyStale(c) \/ FreshlyStale(o)
    BY DEF OneLivePlanPerTarget
  <2>1. o < c \/ c < o
    BY ChangesetsAssumption
  <2>2. CASE o < c
    BY <1>1, <2>2
  <2>3. CASE c < o
    <3>1. {state[o], state[c]} \subseteq {"AWAITING_APPROVAL", "APPROVED"} /\ TargetOf(o) = TargetOf(c)
      OBVIOUS
    <3> QED BY <1>1, <2>3, <3>1
  <2> QED BY <2>1, <2>2, <2>3
<1> QED BY <1>2, InductiveInvariant, PTL

\* Submissions in flight are of different targets, and one that has found its
\* target unlocked still would.
Serial ==
  \A p \in Clients : tx[p] # None /\ tx[p].op = "submit" =>
    /\ \A q \in Clients : tx[q] # None /\ tx[q].op = "submit"
                          /\ TargetOf(tx[q].cs) = TargetOf(tx[p].cs) => q = p
    /\ tx[p].ready /\ ~tx[p].locked => LockedBy(tx[p].cs) = {}

\* The changeset of a submission in flight exists.
LEMMA SubmitsCreated ==
  ASSUME TypeOK, Underway, NEW p \in Clients, tx[p] # None, tx[p].op = "submit"
  PROVE  tx[p].cs \in Changesets /\ state[tx[p].cs] # "NONE"
BY DEF TypeOK, Tx, Underway, Allows, From

\* A step that begins no submission keeps submissions apart when what it opens
\* is of no target that another submission holds.
LEMMA SerialKept ==
  ASSUME TypeOK, Underway, Serial,
         \A q \in Clients : tx'[q] # None => tx'[q] = tx[q],
         \A o \in Changesets : state[o] # "NONE" => desired'[o] = desired[o],
         \A o \in Changesets : state'[o] \in OpenStates =>
           /\ state[o] # "NONE"
           /\ \/ state[o] \in OpenStates
              \/ \A q \in Clients : tx'[q] # None /\ tx[q].op = "submit" => TargetOf(tx[q].cs) # TargetOf(o)
  PROVE  Serial'
<1> SUFFICES ASSUME NEW p \in Clients, tx'[p] # None, tx'[p].op = "submit"
             PROVE  /\ \A q \in Clients : tx'[q] # None /\ tx'[q].op = "submit"
                                          /\ TargetOf(tx[q].cs)' = TargetOf(tx[p].cs)' => q = p
                    /\ tx'[p].ready /\ ~tx'[p].locked => LockedBy(tx[p].cs)' = {}
  BY DEF Serial, TargetOf, LockedBy
<1>1. tx'[p] = tx[p] /\ tx[p] # None /\ tx[p].op = "submit"
  OBVIOUS
<1>2. ASSUME NEW q \in Clients, tx'[q] # None, tx'[q].op = "submit"
      PROVE  /\ tx'[q] = tx[q] /\ tx[q].cs \in Changesets
             /\ desired'[tx[q].cs] = desired[tx[q].cs]
  BY <1>2, SubmitsCreated
<1>3. ASSUME NEW q \in Clients, tx'[q] # None, tx'[q].op = "submit",
             TargetOf(tx[q].cs)' = TargetOf(tx[p].cs)'
      PROVE  q = p
  <2>1. TargetOf(tx[q].cs) = TargetOf(tx[p].cs)
    BY <1>1, <1>2, <1>3 DEF TargetOf
  <2> QED BY <1>1, <1>2, <1>3, <2>1 DEF Serial
<1>4. ASSUME tx'[p].ready, ~tx'[p].locked, NEW o \in LockedBy(tx[p].cs)'
      PROVE  FALSE
  <2>1. /\ o \in Changesets /\ o < tx[p].cs /\ state'[o] \in OpenStates
        /\ desired'[o].target = desired'[tx[p].cs].target
    BY <1>1, <1>4 DEF LockedBy, TargetOf
  <2>2. TargetOf(o) = TargetOf(tx[p].cs)
    BY <1>1, <1>2, <2>1 DEF TargetOf
  <2>3. state[o] \in OpenStates
    BY <1>1, <2>1, <2>2
  <2>4. o \in LockedBy(tx[p].cs)
    BY <2>1, <2>2, <2>3 DEF LockedBy
  <2> QED BY <1>1, <1>4, <2>4 DEF Serial
<1>5. tx'[p].ready /\ ~tx'[p].locked => LockedBy(tx[p].cs)' = {}
  BY <1>4, Zenon
<1> QED BY <1>3, <1>5, Zenon

\* A transaction that begins holds its target alone if it submits.
LEMMA SerialBegin ==
  ASSUME TypeOK, Serial, NEW p \in Clients, NEW c \in Changesets,
         NEW op \in {"submit", "approve", "apply"}, NEW by, NEW key, NEW late, NEW expected,
         op = "submit" => ~SubmitLocked(TargetOf(c)),
         Begin(p, op, c, by, key, expected, late)
  PROVE  Serial'
<1>1. /\ tx'[p].cs = c /\ tx'[p].op = op /\ tx'[p].ready = FALSE
      /\ tx[p] = None
  BY Zenon DEF Begin, TypeOK, None
<1>2. \A q \in Clients \ {p} : tx'[q] = tx[q]
  BY Zenon DEF Begin, TypeOK
<1>3. state' = state /\ desired' = desired
  BY DEF Begin
<1>4. \A o : TargetOf(o)' = TargetOf(o) /\ LockedBy(o)' = LockedBy(o)
  BY <1>3 DEF TargetOf, LockedBy
<1> SUFFICES ASSUME NEW q \in Clients, tx'[q] # None, tx'[q].op = "submit"
             PROVE  /\ \A r \in Clients : tx'[r] # None /\ tx'[r].op = "submit"
                                          /\ desired'[tx'[r].cs].target = desired'[tx'[q].cs].target => r = q
                    /\ tx'[q].ready /\ ~tx'[q].locked =>
                         {o \in Changesets : o < tx'[q].cs /\ state'[o] \in OpenStates
                                             /\ desired'[o].target = desired'[tx'[q].cs].target} = {}
  BY DEF Serial, TargetOf, LockedBy
<1>5. ASSUME NEW r \in Clients, tx'[r] # None, tx'[r].op = "submit",
             desired'[tx'[r].cs].target = desired'[tx'[q].cs].target
      PROVE  r = q
  <2>1. CASE r = p /\ q # p
    BY <1>1, <1>2, <1>3, <1>5, <2>1 DEF SubmitLocked, TargetOf
  <2>2. CASE q = p /\ r # p
    BY <1>1, <1>2, <1>3, <1>5, <2>2 DEF SubmitLocked, TargetOf
  <2>3. CASE q # p /\ r # p
    <3>1. tx'[q] = tx[q] /\ tx'[r] = tx[r]
      BY <1>2, <2>3
    <3> QED BY <1>3, <1>5, <3>1 DEF Serial, TargetOf
  <2> QED BY <2>1, <2>2, <2>3
<1>6. ASSUME tx'[q].ready, ~tx'[q].locked
      PROVE  {o \in Changesets : o < tx'[q].cs /\ state'[o] \in OpenStates
                                 /\ desired'[o].target = desired'[tx'[q].cs].target} = {}
  <2>1. q # p
    BY <1>1, <1>6
  <2>2. tx'[q] = tx[q]
    BY <1>2, <2>1
  <2>3. LockedBy(tx[q].cs) = {}
    BY <1>6, <2>2 DEF Serial
  <2> QED BY <1>3, <2>2, <2>3 DEF LockedBy, TargetOf
<1> QED BY <1>5, <1>6, Zenon

\* Submissions stay apart.
LEMMA SerialNext ==
  ASSUME Base, Serial, Next
  PROVE  Serial'
<1> USE DEF Base
<1>1. ASSUME NEW c \in Changesets, NEW d \in Changes, NEW by \in Principals, Create(c, d, by)
      PROVE  Serial'
  <2>1. /\ tx' = tx /\ state[c] = "NONE"
        /\ \A o \in Changesets \ {c} : state'[o] = state[o] /\ desired'[o] = desired[o]
        /\ state'[c] = "DRAFT"
    BY <1>1 DEF Create, TypeOK
  <2> QED BY <2>1, SerialKept DEF OpenStates
<1>2. ASSUME NEW p \in Clients, NEW c \in Changesets, NEW expected \in 1..MaxRevision,
             \/ BeginSubmit(p, c, expected)
             \/ \E by \in Principals : BeginApprove(p, c, by, expected)
             \/ \E key \in Keys : BeginApply(p, c, key, expected)
      PROVE  Serial'
  BY <1>2, SerialBegin, ZenonT(40) DEF BeginSubmit, BeginApprove, BeginApply
<1>3. ASSUME NEW p \in Clients, ReadLocks(p)
      PROVE  Serial'
  <2> DEFINE c == tx[p].cs
  <2>1. /\ tx[p] \in Tx /\ tx'[p].op = tx[p].op /\ tx'[p].cs = c
        /\ \A q \in Clients \ {p} : tx'[q] = tx[q]
    BY <1>3, ReadLocksKeeps
  <2>2. tx[p] # None /\ state' = state /\ desired' = desired
    BY <1>3, Zenon DEF ReadLocks
  <2>3. tx'[p].locked <=> LockedBy(c) # {}
    <3> DEFINE l == LockedBy(c) # {}
               f == CheckFailures(c)
    <3>1. tx' = [tx EXCEPT ![p] = [tx[p] EXCEPT !.ready = TRUE, !.locked = l, !.failed = f]]
      BY <1>3, <2>1, Zenon DEF ReadLocks, TypeOK, Tx
    <3> HIDE DEF l, f
    <3>2. [tx[p] EXCEPT !.ready = TRUE, !.locked = l, !.failed = f].locked = l
      BY <2>1, Zenon DEF Tx
    <3>3. tx'[p].locked = l
      BY <3>1, <3>2, Zenon DEF TypeOK
    <3> QED BY <3>3 DEF l
  <2> SUFFICES ASSUME NEW q \in Clients, tx'[q] # None, tx'[q].op = "submit"
               PROVE  /\ \A r \in Clients : tx'[r] # None /\ tx'[r].op = "submit"
                                            /\ desired'[tx'[r].cs].target = desired'[tx'[q].cs].target => r = q
                      /\ tx'[q].ready /\ ~tx'[q].locked =>
                           {o \in Changesets : o < tx'[q].cs /\ state'[o] \in OpenStates
                                               /\ desired'[o].target = desired'[tx'[q].cs].target} = {}
    BY DEF Serial, TargetOf, LockedBy
  <2>4. ASSUME NEW r \in Clients, tx'[r] # None, tx'[r].op = "submit"
        PROVE  tx[r] # None /\ tx[r].op = "submit" /\ tx'[r].cs = tx[r].cs
    BY <2>1, <2>2, <2>4
  <2>5. ASSUME NEW r \in Clients, tx'[r] # None, tx'[r].op = "submit",
               desired'[tx'[r].cs].target = desired'[tx'[q].cs].target
        PROVE  r = q
    BY <2>2, <2>4, <2>5 DEF Serial, TargetOf
  <2>6. ASSUME tx'[q].ready, ~tx'[q].locked
        PROVE  LockedBy(tx[q].cs) = {}
    <3>1. CASE q = p
      BY <2>3, <2>6, <3>1, Zenon
    <3>2. CASE q # p
      BY <2>1, <2>4, <2>6, <3>2 DEF Serial
    <3> QED BY <3>1, <3>2
  <2>7. LockedBy(tx[q].cs) = {o \in Changesets : o < tx'[q].cs /\ state'[o] \in OpenStates
                                               /\ desired'[o].target = desired'[tx'[q].cs].target}
    BY <2>2, <2>4 DEF LockedBy, TargetOf
  <2> QED BY <2>5, <2>6, <2>7, Zenon
<1>4. ASSUME NEW p \in Clients, SubmitChangeset(p)
      PROVE  Serial'
  <2> DEFINE c == tx[p].cs
  <2>1. /\ tx[p] # None /\ tx[p].op = "submit" /\ c \in Changesets
        /\ state[c] \in {"DRAFT", "BLOCKED", "CHANGES_REQUESTED", "APPROVED"}
    BY <1>4, AtCommit DEF SubmitChangeset, Ready
  <2>2. /\ tx' = [tx EXCEPT ![p] = None] /\ desired' = desired
        /\ \E s : state' = [state EXCEPT ![c] = s]
    BY <1>4, Zenon DEF SubmitChangeset, Save, Finish
  <2>3. \A q \in Clients : tx'[q] # None => tx'[q] = tx[q] /\ q # p
    BY <2>2 DEF TypeOK
  <2>4. \A q \in Clients : tx'[q] # None /\ tx[q].op = "submit" => TargetOf(tx[q].cs) # TargetOf(c)
    BY <2>1, <2>3 DEF Serial
  <2>5. \A o \in Changesets \ {c} : state'[o] = state[o]
    BY <2>2 DEF TypeOK
  <2> HIDE DEF c
  <2>6. \A o \in Changesets : state'[o] \in OpenStates =>
           /\ state[o] # "NONE"
           /\ \/ state[o] \in OpenStates
              \/ \A q \in Clients : tx'[q] # None /\ tx[q].op = "submit" => TargetOf(tx[q].cs) # TargetOf(o)
    BY <2>1, <2>4, <2>5 DEF OpenStates
  <2> QED BY <2>2, <2>3, <2>6, SerialKept
<1>5. ASSUME NEW p \in Clients, ApproveChangeset(p) \/ ApplyChangeset(p) \/ Rollback(p)
      PROVE  Serial'
  <2> DEFINE c == tx[p].cs
  <2>1. /\ tx' = [tx EXCEPT ![p] = None] /\ desired' = desired
        /\ \/ state' = state
           \/ c \in Changesets /\ state[c] \in OpenStates /\ \E s : state' = [state EXCEPT ![c] = s]
    BY <1>5, AtCommit, ZenonT(40) DEF ApproveChangeset, ApplyChangeset, Rollback, Save, Finish, OpenStates
  <2>2. \A q \in Clients : tx'[q] # None => tx'[q] = tx[q]
    BY <2>1 DEF TypeOK
  <2> HIDE DEF c
  <2>3. \A o \in Changesets : state'[o] \in OpenStates => state[o] # "NONE" /\ state[o] \in OpenStates
    BY <2>1 DEF TypeOK, OpenStates
  <2> QED BY <2>1, <2>2, <2>3, SerialKept
<1>6. ASSUME NEW c \in Changesets, NEW expected \in 1..MaxRevision,
             \/ CancelChangeset(c, expected)
             \/ \E by \in Principals, decision \in {"REJECTED", "CHANGES_REQUESTED"} :
                  DeclineChangeset(c, by, expected, decision)
      PROVE  Serial'
  <2>1. /\ tx' = tx /\ desired' = desired
        /\ \E s : state' = [state EXCEPT ![c] = s] /\ (s \in OpenStates => state[c] = "AWAITING_APPROVAL")
    <3>1. ASSUME CancelChangeset(c, expected)
          PROVE  /\ tx' = tx /\ desired' = desired /\ state' = [state EXCEPT ![c] = "CANCELLED"]
                 /\ "CANCELLED" \notin OpenStates
      BY <3>1 DEF CancelChangeset, Save, OpenStates
    <3>2. ASSUME NEW by \in Principals, NEW decision \in {"REJECTED", "CHANGES_REQUESTED"},
                 DeclineChangeset(c, by, expected, decision)
          PROVE  /\ tx' = tx /\ desired' = desired /\ state' = [state EXCEPT ![c] = decision]
                 /\ state[c] = "AWAITING_APPROVAL"
      BY <3>2 DEF DeclineChangeset, Save, Allows, From
    <3> QED BY <1>6, <3>1, <3>2
  <2>2. \A o \in Changesets : state'[o] \in OpenStates => state[o] # "NONE" /\ state[o] \in OpenStates
    BY <2>1 DEF TypeOK, OpenStates
  <2> QED BY <2>1, <2>2, SerialKept
<1>7. ASSUME \/ \E c \in Changesets : PlanExpires(c)
             \/ \E t \in Targets : ChecksChange(t)
             \/ \E t \in Targets, to \in Statuses, bump \in {0, 1} : DirectChange(t, to, bump)
      PROVE  Serial'
  BY <1>7 DEF PlanExpires, ChecksChange, DirectChange, Serial, TargetOf, LockedBy
<1> HIDE DEF Base
<1> QED BY <1>1, <1>2, <1>3, <1>4, <1>5, <1>6, <1>7 DEF Next, Command

\* For any number of changesets and concurrent submissions, the advisory lock of
\* SubmitChangeset makes what LockedBy found hold until the commit.
THEOREM NoneAwaitsBehindAnother == Spec => AwaitsBehindNone
<1> DEFINE Behind == \A c \in Changesets :
             state[c] # "AWAITING_APPROVAL" /\ state'[c] = "AWAITING_APPROVAL" => LockedBy(c) = {}
<1>1. Init => Serial
  BY Zenon DEF Init, Serial
<1>2. Base /\ Serial /\ [Next]_vars => Serial'
  <2>1. Serial /\ UNCHANGED vars => Serial'
    BY DEF Serial, TargetOf, LockedBy, vars
  <2> QED BY <2>1, SerialNext
<1>3. Base /\ Serial /\ [Next]_vars => [Behind]_vars
  <2> SUFFICES ASSUME Base, Serial, Next, NEW c \in Changesets,
                      state[c] # "AWAITING_APPROVAL", state'[c] = "AWAITING_APPROVAL"
               PROVE  LockedBy(c) = {}
    OBVIOUS
  <2> USE DEF Base
  <2>1. ASSUME NEW p \in Clients, SubmitChangeset(p)
        PROVE  LockedBy(c) = {}
    <3> DEFINE v == Validate(desired[tx[p].cs], tx[p])
    <3>1. /\ tx[p] \in Tx /\ tx[p] # None /\ tx[p].op = "submit" /\ tx[p].ready
          /\ state' = [state EXCEPT ![tx[p].cs] = SubmittedState(v)]
      BY <2>1, AtCommit DEF SubmitChangeset, Ready, Save
    <3> HIDE DEF v
    <3>2. c = tx[p].cs /\ SubmittedState(v) = "AWAITING_APPROVAL"
      BY <3>1 DEF TypeOK
    <3>3. v = {}
      BY <3>2 DEF SubmittedState
    <3>4. ~tx[p].locked
      <4>1. "TARGET_LOCKED" \in Codes
        BY DEF Codes
      <4> QED BY <3>3, <4>1, Zenon DEF v, Validate
    <3> QED BY <3>1, <3>2, <3>4 DEF Serial
  <2>2. CASE ~\E p \in Clients : SubmitChangeset(p)
    <3>1. ASSUME NEW o \in Changesets, NEW d \in Changes, NEW by \in Principals, Create(o, d, by)
          PROVE  FALSE
      BY <3>1 DEF Create, TypeOK
    <3>2. ASSUME NEW p \in Clients, ApproveChangeset(p) \/ ApplyChangeset(p)
          PROVE  FALSE
      <4>1. \/ state' = [state EXCEPT ![tx[p].cs] = "APPROVED"]
            \/ state' = [state EXCEPT ![tx[p].cs] = "COMPLETED"]
        BY <3>2, Zenon DEF ApproveChangeset, ApplyChangeset, Save
      <4> QED BY <4>1 DEF TypeOK
    <3>3. ASSUME NEW o \in Changesets, NEW expected \in 1..MaxRevision,
                 \/ CancelChangeset(o, expected)
                 \/ \E by \in Principals, decision \in {"REJECTED", "CHANGES_REQUESTED"} :
                      DeclineChangeset(o, by, expected, decision)
          PROVE  FALSE
      <4>1. \E s : state' = [state EXCEPT ![o] = s] /\ s # "AWAITING_APPROVAL"
        BY <3>3, Zenon DEF CancelChangeset, DeclineChangeset, Save
      <4> QED BY <4>1 DEF TypeOK
    <3>4. ASSUME state' = state
          PROVE  FALSE
      BY <3>4
    <3>5. Quiet \/ (\E o \in Changesets : PlanExpires(o)) => state' = state
      BY QuietKeeps, Zenon DEF PlanExpires
    <3> HIDE DEF Base
    <3> QED BY <2>2, <3>1, <3>2, <3>3, <3>4, <3>5 DEF Next, Command, Quiet
  <2> QED BY <2>1, <2>2
<1> HIDE DEF Behind
<1>4. Spec => [][Behind]_vars
  BY <1>1, <1>2, <1>3, BaseInvariant, PTL DEF Spec
<1> QED BY <1>4 DEF AwaitsBehindNone, Behind

\* What a committed command may leave in a row, and what it may rely on.
RowOK(c) ==
  /\ state[c] \in {"INVALID", "BLOCKED"} <=> reasons[c] # {}
  /\ state[c] \in {"APPROVED", "COMPLETED"} => approval[c] # 0
  /\ state[c] = "COMPLETED" => \E o \in operations : o.cs = c
  /\ outcome[c] = IF state[c] \in TerminalStates THEN state[c] ELSE "NONE"

\* A row a step leaves alone stays in order.
LEMMA RowKept ==
  ASSUME NEW c \in Changesets, RowOK(c), state'[c] = state[c], reasons'[c] = reasons[c],
         approval'[c] = approval[c], outcome'[c] = outcome[c], operations \subseteq operations'
  PROVE  RowOK(c)'
  BY DEF RowOK

\* Plans are numbered from one.
LEMMA PlansNumberedNext ==
  ASSUME Base, PlansNumbered, Next
  PROVE  PlansNumbered'
<1>0. plan \in [Changesets -> Plan \cup {None}]
  BY DEF Base, TypeOK
<1>1. ASSUME NEW p \in Clients, SubmitChangeset(p)
      PROVE  PlansNumbered'
  <2> DEFINE c == tx[p].cs
             g == Generate(desired[c], tx[p], NextVersion(c))
  <2>1. c \in Changesets
    BY <1>1, AtCommit DEF SubmitChangeset, Base
  <2>2. plan' = plan \/ plan' = [plan EXCEPT ![c] = g]
    BY <1>1, Zenon DEF SubmitChangeset
  <2>3. g.version = NextVersion(c)
    BY DEF Generate
  <2>4. plan[c] # None => plan[c].version \in Nat
    BY <1>0, <2>1 DEF Plan
  <2>5. NextVersion(c) >= 1
    BY <2>1, <2>4 DEF NextVersion, PlansNumbered
  <2> HIDE DEF c, g
  <2>6. \A o \in Changesets : plan'[o] = plan[o] \/ plan'[o] = g
    BY <1>0, <2>1, <2>2
  <2> QED BY <2>3, <2>5, <2>6, Zenon DEF PlansNumbered
<1>2. ASSUME NEW c \in Changesets, PlanExpires(c)
      PROVE  PlansNumbered'
  <2>1. \A o \in Changesets : plan'[o].version = plan[o].version
    BY <1>2, ExpiryKeeps DEF Base
  <2>2. \A o \in Changesets : o # c => plan'[o] = plan[o]
    BY <1>0, <1>2 DEF PlanExpires
  <2>3. plan[c] # None
    BY <1>2 DEF PlanExpires
  <2> QED BY <2>1, <2>2, <2>3, Zenon DEF PlansNumbered
<1>3. CASE plan' = plan
  BY <1>3, Zenon DEF PlansNumbered
<1>4. ASSUME NEW p \in Clients, Command(p), ~SubmitChangeset(p)
      PROVE  plan' = plan
  BY Zenon, <1>4 DEF Command, BeginSubmit, BeginApprove, BeginApply, Begin, ReadLocks, Rollback,
     ApproveChangeset, ApplyChangeset
<1>5. ASSUME NEW c \in Changesets, NEW expected \in 1..MaxRevision,
             \/ CancelChangeset(c, expected)
             \/ \E by \in Principals, decision \in {"REJECTED", "CHANGES_REQUESTED"} :
                  DeclineChangeset(c, by, expected, decision)
      PROVE  plan' = plan
  BY <1>5 DEF CancelChangeset, DeclineChangeset
<1>6. ASSUME NEW t \in Targets,
             \/ ChecksChange(t)
             \/ \E to \in Statuses, bump \in {0, 1} : DirectChange(t, to, bump)
      PROVE  plan' = plan
  BY <1>6 DEF ChecksChange, DirectChange
<1>7. ASSUME NEW c \in Changesets, NEW d \in Changes, NEW by \in Principals, Create(c, d, by)
      PROVE  plan' = plan
  BY <1>7 DEF Create
<1> QED BY <1>1, <1>2, <1>3, <1>4, <1>5, <1>6, <1>7 DEF Next

\* Every step keeps the CHECK constraints of every row.
LEMMA RowNext ==
  ASSUME Base, PlansNumbered, Next, NEW o \in Changesets, \A c \in Changesets : RowOK(c)
  PROVE  RowOK(o)'
<1> USE DEF Base
<1>1. ASSUME NEW c \in Changesets, NEW d \in Changes, NEW by \in Principals, Create(c, d, by)
      PROVE  RowOK(o)'
  BY <1>1, SMTT(30) DEF Create, TypeOK, RowOK, TerminalStates
<1>2. ASSUME NEW p \in Clients, SubmitChangeset(p)
      PROVE  RowOK(o)'
  <2> DEFINE c == tx[p].cs
             v == Validate(desired[c], tx[p])
             s == SubmittedState(v)
  <2>1. c \in Changesets /\ state[c] \notin TerminalStates
    BY <1>2, AtCommit DEF SubmitChangeset, TerminalStates
  <2>2. /\ state' = [state EXCEPT ![c] = s] /\ operations' = operations
        /\ approval' = [approval EXCEPT ![c] = 0] /\ reasons' = [reasons EXCEPT ![c] = v]
        /\ outcome' = IF s \in TerminalStates THEN [outcome EXCEPT ![c] = s] ELSE outcome
    BY <1>2, Zenon DEF SubmitChangeset, Save, RecordOutcome
  <2>3. /\ s \in {"INVALID", "BLOCKED", "AWAITING_APPROVAL"}
        /\ s \in {"INVALID", "BLOCKED"} <=> v # {}
    BY DEF SubmittedState
  <2> HIDE DEF c, v, s
  <2>4. CASE o = c
    <3>1. state'[c] = s /\ reasons'[c] = v
      BY <2>1, <2>2 DEF TypeOK
    <3>2. outcome[c] = "NONE"
      BY <2>1 DEF RowOK
    <3>3. outcome'[c] = IF s \in TerminalStates THEN s ELSE "NONE"
      BY <2>1, <2>2, <3>2 DEF TypeOK
    <3> QED BY <2>3, <2>4, <3>1, <3>3 DEF RowOK
  <2>5. CASE o # c
    <3>1. /\ state'[o] = state[o] /\ reasons'[o] = reasons[o] /\ approval'[o] = approval[o]
          /\ outcome'[o] = outcome[o]
      BY <2>1, <2>2, <2>5 DEF TypeOK
    <3> QED BY <2>2, <3>1, RowKept
  <2> QED BY <2>4, <2>5
<1>3. ASSUME NEW p \in Clients, ApproveChangeset(p)
      PROVE  RowOK(o)'
  <2> DEFINE c == tx[p].cs
  <2>1. c \in Changesets /\ state[c] = "AWAITING_APPROVAL"
    BY <1>3, AtCommit DEF ApproveChangeset
  <2>2. /\ state' = [state EXCEPT ![c] = "APPROVED"]
        /\ approval' = [approval EXCEPT ![c] = plan[c].version]
        /\ UNCHANGED <<reasons, outcome, operations>>
    BY <1>3 DEF ApproveChangeset, Save
  <2>3. plan[c].version # 0
    <3>1. plan[c] # None
      BY <2>1, Zenon DEF Planned
    <3> QED BY <2>1, <3>1 DEF PlansNumbered
  <2> HIDE DEF c
  <2>4. CASE o = c
    BY <2>1, <2>2, <2>3, <2>4 DEF TypeOK, RowOK, TerminalStates
  <2>5. CASE o # c
    <3>1. state'[o] = state[o] /\ approval'[o] = approval[o]
      BY <2>1, <2>2, <2>5 DEF TypeOK
    <3> QED BY <2>2, <3>1, RowKept
  <2> QED BY <2>4, <2>5
<1>4. ASSUME NEW p \in Clients, ApplyChangeset(p)
      PROVE  RowOK(o)'
  <2> DEFINE c == tx[p].cs
  <2>1. /\ c \in Changesets /\ state[c] = "APPROVED" /\ operations \subseteq operations'
        /\ \E x \in operations' : x.cs = c
    BY <1>4, ApplyEffects
  <2>2. /\ state' = [state EXCEPT ![c] = "COMPLETED"]
        /\ outcome' = [outcome EXCEPT ![c] = "COMPLETED"]
        /\ UNCHANGED <<reasons, approval>>
    BY <1>4, Zenon DEF ApplyChangeset, Save, RecordOutcome, TerminalStates
  <2> HIDE DEF c
  <2>4. CASE o = c
    BY <2>1, <2>2, <2>4 DEF TypeOK, RowOK, TerminalStates
  <2>5. CASE o # c
    <3>1. state'[o] = state[o] /\ outcome'[o] = outcome[o]
      BY <2>1, <2>2, <2>5 DEF TypeOK
    <3> QED BY <2>1, <2>2, <3>1, RowKept
  <2> QED BY <2>4, <2>5
<1>5. ASSUME NEW c \in Changesets, NEW expected \in 1..MaxRevision, CancelChangeset(c, expected)
      PROVE  RowOK(o)'
  BY <1>5 DEF CancelChangeset, Save, RecordOutcome, TypeOK, RowOK, TerminalStates
<1>6. ASSUME NEW c \in Changesets, NEW expected \in 1..MaxRevision, NEW by \in Principals,
             NEW decision \in {"REJECTED", "CHANGES_REQUESTED"},
             DeclineChangeset(c, by, expected, decision)
      PROVE  RowOK(o)'
  <2>1. /\ state[c] = "AWAITING_APPROVAL" /\ state' = [state EXCEPT ![c] = decision]
        /\ outcome' = IF decision = "REJECTED" THEN [outcome EXCEPT ![c] = decision] ELSE outcome
        /\ UNCHANGED <<reasons, approval, operations>>
    BY Zenon, <1>6 DEF DeclineChangeset, Save, RecordOutcome, Allows, From, TerminalStates
  <2> QED BY <2>1 DEF TypeOK, RowOK, TerminalStates
<1>7. ASSUME NEW c \in Changesets, PlanExpires(c)
      PROVE  RowOK(o)'
  BY <1>7, RowKept DEF PlanExpires
<1>8. ASSUME Quiet
      PROVE  RowOK(o)'
  <2>1. UNCHANGED <<state, reasons, approval, outcome, operations>>
    BY <1>8, QuietKeeps
  <2> QED BY <2>1, RowKept
<1> HIDE DEF Base
<1> QED BY <1>1, <1>2, <1>3, <1>4, <1>5, <1>6, <1>7, <1>8 DEF Next, Command, Quiet

\* The CHECK constraints of the changeset table, and the outcome row of a
\* terminal state, hold after every commit of every interleaving.
THEOREM RowsMeetConstraints == Spec => []RowConstraints
<1> DEFINE Rows == PlansNumbered /\ \A c \in Changesets : RowOK(c)
<1>1. Init => Rows
  <2>1. Init => PlansNumbered
    BY Zenon DEF Init, PlansNumbered
  <2>2. Init => \A c \in Changesets : RowOK(c)
    BY Zenon DEF Init, RowOK, TerminalStates
  <2> QED BY <2>1, <2>2
<1>2. Base /\ Rows /\ [Next]_vars => Rows'
  <2>1. Base /\ Rows /\ Next => Rows'
    BY PlansNumberedNext, RowNext
  <2>2. Rows /\ UNCHANGED vars => Rows'
    BY DEF vars, PlansNumbered, RowOK
  <2> QED BY <2>1, <2>2
<1>3. Rows => RowConstraints
  BY DEF RowConstraints, RowOK
<1> HIDE DEF Rows
<1> QED BY <1>1, <1>2, <1>3, BaseInvariant, PTL DEF Spec

\* Everything the changeset tables promise, for every instance.
THEOREM ChangesetsKeepPromises == Spec => ChangesetPromises
BY TypeCorrect, AppliesFindThePlannedTarget, NoLostUpdate, AppliedOnce, GrantsReplacedOnce,
   RowsMeetConstraints, RevisionsNamedOnce, EndedStaysEnded, PTL DEF ChangesetPromises
=============================================================================
