SPECIFICATION Spec
CONSTANTS
  l1 = l1
  l2 = l2
  l3 = l3
  p1 = p1
  p2 = p2
  u1 = u1
  u2 = u2
  ana = ana
  bob = bob
  admin = admin
  Logins = {l1, l2, l3}
  Replicas = {p1, p2}
  Updates = {u1, u2}
  Email <- EmailAddresses
  Slug <- NameSlugs
  AdminEmail = admin
  AdminSlug = "default"
  Fields = {"pii_enabled", "timezone"}
  Free = {"pii_enabled"}
  MaxFaults = 1
SYMMETRY Interchangeable
INVARIANTS
  TypeOK
  OneOrgPerUser
  ReplicasAgree
  RefusedForCause
  SessionIsOwn
  BootstrapEnsures
PROPERTIES
  UntouchedUnlessOverlapped
CONSTRAINT Apart
CHECK_DEADLOCK FALSE
