---------------------------- MODULE MCAdmission ----------------------------
(***************************************************************************)
(* The components that admit people and organisations: identities,         *)
(* organisation admission, counterparties with the provider organisations  *)
(* they are linked to, and tenant onboarding. Each is run for itself:      *)
(* focus names the one at work, the others stand still, and the state      *)
(* space is the sum of theirs.                                             *)
(***************************************************************************)
EXTENDS IdentityTransactions, OrganisationAdmission, Counterparties, TenantOnboarding, TLC

CONSTANTS a, b, k1, k2, dan, p1  \* model values

VARIABLE focus  \* the component at work

\* Admission: a new account for an organisation of its own, and an existing
\* account for one that a reviewer resolved to it.
AskedAdmission(t, n, res, c, m) ==
  [tenant |-> t, name |-> n, resolution |-> res, cites |-> c, checked |-> IF c THEN n ELSE OtherName,
   mode |-> m, account |-> "acc"]
MCRegisteredOrg == "t1" :> "o1" @@ "t2" :> "o2"
MCAdmRequests ==
  {AskedAdmission("t1", "n1", "none", TRUE, "NEW_ACCOUNT"), AskedAdmission("t2", "n2", "o1", FALSE, "EXISTING_ACCOUNT")}
MCGovernedOrgs == "og" :> "n1"

\* Onboarding: two admission decisions, one of which a worker applied for.
MCOnbRequestIds == <<"r1", "r2">>
MCOnbDecisions ==
  {[id |-> "d1", applicant |-> "ann", decider |-> dan, isolation |-> "rls"],
   [id |-> "d2", applicant |-> p1, decider |-> "eve", isolation |-> ""]}
MCOnbPeople == {p1, a, b}

\* a and b are the sessions, the reviewers, the reconcilers and the workers
\* who neither applied nor decided: one permutation serves every component.
Interchangeable == Permutations({k1, k2}) \cup Permutations({a, b})
-----------------------------------------------------------------------------
allVars == <<focus, txVars, admVars, cpVars, iamVars, onbVars>>

FocusedInit ==
  /\ focus \in {"identity", "admission", "counterparty", "iam", "onboarding"}
  /\ TxInit
  /\ AdmissionInit
  /\ focus # "admission" => profiles = [o \in AdmOrgs |-> ProfileAfter("UNVERIFIED", "UNVERIFIED")]
  /\ CounterpartiesInit /\ IamInit
  /\ OnboardingInit

FocusedNext ==
  \/ /\ focus = "identity" /\ TxNext
     /\ UNCHANGED <<focus, admVars, cpVars, iamVars, onbVars>>
  \/ /\ focus = "admission" /\ AdmissionNext
     /\ UNCHANGED <<focus, txVars, cpVars, iamVars, onbVars>>
  \/ /\ focus = "counterparty" /\ CounterpartiesNext
     /\ UNCHANGED <<focus, txVars, admVars, iamVars, onbVars>>
  \/ /\ focus = "iam" /\ IamNext
     /\ UNCHANGED <<focus, txVars, admVars, cpVars, onbVars>>
  \/ /\ focus = "onboarding" /\ OnboardingNext
     /\ UNCHANGED <<focus, txVars, admVars, cpVars, iamVars>>

FocusedSpec == FocusedInit /\ [][FocusedNext]_allVars
=============================================================================
