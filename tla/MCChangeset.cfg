SPECIFICATION FocusedSpec
CONSTANTS
  tenant = tenant
  instance = instance
  principal = principal
  g1 = g1
  Changesets = {1, 2}
  Targets = {tenant, instance, principal}
  TargetType <- TypeOfTarget
  Changes <- ChangesOfTargets
  Principals = {alice, bob}
  Keys = {k1, k2}
  Grants = {g1}
  NoGrant = NoGrant
  Clients = {p1, p2}
  MaxRevision = 7
  MaxTargetRevision = 3
INVARIANTS
  AppliedAsApproved
  OneLivePlanPerTarget
PROPERTIES
  ChangesetPromises
  EarlierCreatedGoesFirst
CHECK_DEADLOCK FALSE
SYMMETRY Interchangeable
VIEW WithoutBase
