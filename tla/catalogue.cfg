SPECIFICATION MCSpec
CONSTANTS
  x86 = x86
  arm = arm
  e1 = e1
  e2 = e2
  q1 = q1
  q2 = q2
  Versions = {1, 2, 3}
  Targets = {x86, arm}
  Variants = {1, 2}
  Editions = {1, 2}
  SeedReleases <- mcReleases
  SeedDefault <- mcDefault
  SeedImages <- mcImages
  SeedShared <- mcShared
  Candidates = {3}
  None = None
  RecipeNumbers = {1, 2, 3}
  Editors = {e1, e2}
  Seeder = seeder
  Seeds = {1, 2}
  SeedVersion <- mcSeedVersion
  SeedStates <- mcSeedStates
  NoVersion = NoVersion
  NoRow = NoRow
  Supported = {x86, arm}
  NodeTarget = arm
  MaxBuilds = 1
  Readers = {q1, q2}
  Caps = {0, 2}
  Bakings = 2
  MaxCount = 3
  Templates = {"a-b.pkr.hcl", "a/b.pkr.hcl"}
  SlugOf <- mcSlugOf
  Formulas = {"alloy"}
  NoTemplate = NoTemplate
  MaxChanges = 3
SYMMETRY mcSymmetry
INVARIANTS
  TypeOK
  NoDangling
  SeedHolds
  OneCurrent
  PathsAgree
  CountWithinCap
  ServedIsCounted
  ChecksumFits
PROPERTIES
  StaysRevoked
  SyncReconciles
CHECK_DEADLOCK FALSE
