SPECIFICATION FocusedSpec
CONSTANTS
  k1 = k1
  k2 = k2
  r1 = r1
  r2 = r2
  r3 = r3
  i1 = i1
  i2 = i2
  Requests <- MCRequests
  LastCohort = 2
  Administrators = {a, b}
  NoOne = NoOne
  PlannedBindings = {1, 2}
  Instances = {1, 2}
  LastPlanned = 2
  Creators = {x, y}
  Keys = {k1, k2}
  Selection <- MCSelection
  Location <- MCLocation
  MaxFactsChanges = 2
  Releases = {r1, r2, r3}
  ReleaseEngine <- MCReleaseEngine
  Contents <- MCContents
  Providers = {"p"}
  Registration <- MCRegistration
  Catalogue = {1}
  Deployed = {i1, i2}
  Deployment <- MCDeployment
  ControlPlane = "staging"
  Recorders = {a, b}
  NoPrincipal = NoPrincipal
  NoRelease = NoRelease
  MaxDesired = 3
  Calls = {"c1", "c2", "c3"}
  CallKey <- MCCallKey
  CallOffers <- MCCallOffers
  Proposer <- MCProposer
  Approvers = {"ann", "bob"}
  ExtRefs = {"x", "y"}
  TenantEntities = {"e1", "e2"}
  CtxMarkets = {"", "KE", "UG"}
  LastMapDay = 3
  DecBindings <- MCDecBindings
  DecOrder <- MCDecOrder
  Criticality = "CRITICAL"
  DecContextEnds = 4
  HealthLife = 2
  ReportedStatus = {"HEALTHY", "DEGRADED"}
  ReportDays = {1, 2}
  MaxReports = 2
  MaxDecMoves = 4
  CacheTTL = 2
  LastDecDay = 3
  CtxOrgs = {"pri", "buyer"}
  CtxPrimary = "pri"
  CtxCountries = {"KE", "UG"}
  RuntimeCaller = "engine"
  DevCaller = "dev"
  ErpProvisioner = "prov"
  LeaseEnds = 2
  CtxAsks <- MCAsks
  ContextTTL = 2
  MaxContexts = 1
  MaxCtxMoves = 1
  LastCtxDay = 3
  MktConfigs <- MCMktConfigs
  MktOrder <- MCMktOrder
  MktCalls <- MCMktCalls
  MktCountries = {"KE", "UG"}
  MktMakers = {"a", "b"}
  MktActivators = {"b", "c"}
  MaxMktRevision = 2
  LastMktDay = 2
SYMMETRY Interchangeable
CHECK_DEADLOCK FALSE
PROPERTIES
  MigrationPromises
  PlanningPromises
  ReleasePromises
  MappingPromises
  
  ContextPromises
  MarketPromises
