SPECIFICATION FocusedSpec
CONSTANTS
  Creates <- MCCreates
  AppCountries = {"KE", "UG"}
  EditSessions = {"s1", "s2"}
  Deciders = {"d1", "d2"}
  Roster <- MCRoster
  BridgeOrgs = {"o1", "o2"}
  BridgeMarkets = {"KE", "UG"}
  MaxDraftEdits = 2
  OrgIds = {"own", "top", "mid", "aff"}
  Holdings <- MCHoldings
  PlatformKeys <- MCPlatformKeys
  OperatingOrgs = {"aff"}
  Windows <- MCWindows
  EstablishedRows <- MCEstablished
  EndDays = {1, 2}
  MaxRowsPerKey = 2
  MaxChanges = 4
  MaxControlDepth = 2
  LastDay = 2
  ApplicantCalls = {"a1", "a2"}
  CallKeyOf <- MCCallKeyOf
  Applicant = "ann"
  ReviewerClaims = {"r1"}
  Verifiers = {"v1", "v2"}
  Asserters = {"v1"}
  Sources = {"esrc_ursb", "esrc_cipc", "esrc_sarsvat"}
  KindsOf <- MCKindsOf
  Disputes = {"d1"}
  EvidenceIds = {"e1", "e2"}
  SourceOf <- MCSourceOf
  ObservationKeys = {"o1"}
  MaxCases = 1
  MaxChecks = 1
  Requirements = {"q1"}
  ReviewRoster <- MCReviewRoster
  PolicyApprover <- MCPolicyApprover
  SourceApprover <- MCSourceApprover
  EvidenceVerifier = "v"
  MaxRevisions = 2
  MaxResults = 2
  MaxIntents = 2
  ScanProofs = {"p1", "p2"}
  RetainUntil = 2
  DeleteAfter = 3
  OrphanGrace = 1
  QuarantineDays = 1
  MaxApprovals = 1
  LastCustodyDay = 3
  SobOffers <- MCSobOffers
  SobHolders <- MCSobHolders
  Configs = {"c1", "c2"}
  MandateOrder <- MCMandateOrder
  CtxExpires = 3
  OpLease = 1
  MaxVersions = 2
  LastOpDay = 3
  MaxCeased = 1
  AsgIds = {"a1", "a2"}
  AsgOffers <- MCAsgOffers
  AsgHands <- MCAsgHands
  AskedCells = {"ke", "ug"}
  EstateTTL = 2
  EvidenceEnds = 3
  ProfileUntil = 3
  MaxAsgRevision = 4
  LastEstDay = 3
  ClsCalls <- MCClsCalls
  Workforce = {"w"}
  AppliedBy = "ann"
  MaxRecords = 3
  AnswerLease = 1
  LastClsDay = 2
CHECK_DEADLOCK FALSE
PROPERTIES
  ApplicationPromises
  BridgePromises
  AffiliationPromises
  VerificationPromises
  ReviewPromises
  CustodyPromises
  OperatingPromises
  EstatePromises
  ClassificationPromises
