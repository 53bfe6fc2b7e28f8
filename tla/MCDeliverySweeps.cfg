SPECIFICATION FairSweeps
CONSTANTS
  Foci = {"drift", "authority", "groups", "billing", "mandate"}
  Reports <- MCReports
  DigestOwner <- MCDigestOwner
  OwnReleases = {"r1", "r2"}
  Undesired = Undesired
  Grace <- MCGrace
  Effect <- MCEffect
  MinTTL = 1
  MaxTTL = 1
  MaxTime = 2
  MaxObservations = 2
  MaxPolicyChanges = 1
  Bound <- MCBound
  People = {"p1", "p2"}
  Asked <- MCAsked
  Mappings <- MCMappings
  Probes <- MCProbes
  MaxGrants = 3
  MaxIssued = 1
  MaxBootstrap = 1
  LastTick = 1
  Judged <- MCJudged
  Enforced = {"listed", "back"}
  RolledBack = {"back"}
  EnforcedFor = {"t"}
  Criteria <- MCCriteria
  LastDay = 1
  MaxJudged = 3
  MaxKeys = 2
  MaxFailures = 1
  GroupRoot = 1
  ControlEdges <- MCControlEdges
  MaxDepth = 3
  GroupWorkers = {w1, w2}
  MaxGraphMoves = 2
  MaxOverruns = 1
  MaxDeriveErrors = 1
  Sponsorships <- MCSponsorships
  Deferrals <- MCDeferrals
  Hands <- MCHands
  Admission <- MCAdmissionOf
  GraceMonths = 2
  Milestones = {1, 2}
  SweepLimit = 1
  LastMonth = 4
  Relays = {"x", "y"}
  MaxEvents = 3
  MaxMishaps = 2
  BatchLimit = 2
  Projectors = {"p1", "p2"}
  MaxVersion = 4
  MaxOutages = 1
  DsPlans <- MCDsPlans
  DsOrgs = {"o1", "o2"}
  DsPeople = {"m", "c"}
  MaxInHand = 2
  MaxProposed = 2
  MaxRowMoves = 1
  LastDsDay = 2
  Mandates = {"m1", "m2"}
  Cells = {"x", "y"}
  Offers <- MCOffers
  Officers <- MCOfficers
  Evidence = {"e1", "e2"}
  LastMandateDay = 3
  MandateLease = 1
CHECK_DEADLOCK FALSE
PROPERTIES
  DriftPromises
  AuthorityPromises
  GroupPromises
  BillingPromises
  MandatePromises
