SPECIFICATION Spec
CONSTANTS
  c1 = c1
  c2 = c2
  n1 = n1
  n2 = n2
  r1 = r1
  r2 = r2
  Clusters = {c1, c2}
  Nodes = {n1, n2}
  Builds = {b1}
  Requests = {r1, r2}
  ClusterSlugs = {"k1", "k2"}
  Slugs = {"a", "b"}
  Tenants = {"t1", "t2"}
  Hostnames = {"b"}
  Networks = {"infra"}
  Interfaces = {"wg0"}
  ClusterForms <- mcClusterForms
  NodeForms <- mcNodeForms
  ClusterSeeds <- mcClusterSeeds
  NodeSeeds <- mcNodeSeeds
  FirstRows <- mcFirstRows
  Overrides <- mcOverrides
  Defaults <- mcDefaults
  Pool = 6
  MaxOps = 3
  MaxCalls = 2
SYMMETRY mcSymmetry
INVARIANTS
  TypeOK
  LockStep
  MinionGetsOwnPillar
  LayersJoin
  IdentityBaked
  StoredIsAuthorised
  SuggestedIsFree
PROPERTIES
  EntriesKept
  TunnelHandedOut
CHECK_DEADLOCK FALSE
