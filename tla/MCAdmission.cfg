SPECIFICATION FocusedSpec
CONSTANTS
  a = a
  b = b
  k1 = k1
  k2 = k2
  dan = dan
  p1 = p1
  PrincipalIds = {1, 2}
  IssuerKeys = {k1, k2}
  ReferenceKeys = {r}
  MemberTenants = {t}
  SetStatuses = {"DISABLED"}
  Sessions = {a, b}
  AdmTenants = {"t1", "t2"}
  RegisteredOrg <- MCRegisteredOrg
  AdmOrgs = {"o1", "o2", "og"}
  AdmRequests <- MCAdmRequests
  LegalNames = {"n1", "n2"}
  OtherName = "other"
  Reviewers = {a, b}
  AdmAccounts = {"acc"}
  GovernedOrgs <- MCGovernedOrgs
  Reviewed = {"o1", "og"}
  LegacyRecords = {1, 2}
  BatchSize = 1
  Reconcilers = {a, b}
  SharedIdentifiers = {"x", "y"}
  IamOrgs = {"i1"}
  LinkableOrgs = {"o1", "o2"}
  LastLinkDay = 1
  OnbDecisions <- MCOnbDecisions
  OnbIsolations = {"rls", "schema"}
  OnbNames = {"n1"}
  OnbPeople <- MCOnbPeople
  OnbOrgs = {"fp"}
  OnbLegalEntities = {"le1"}
  OnbKeys = {"k1", "k2"}
  OnbRequestIds <- MCOnbRequestIds
  MaxReplaced = 1
  BootstrapOpen = TRUE
SYMMETRY Interchangeable
CHECK_DEADLOCK FALSE
PROPERTIES
  IdentityPromises
  AdmissionPromises
  CounterpartyPromises
  OnboardingPromises
