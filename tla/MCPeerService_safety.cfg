\* Three orders for two addresses, with failures, one connection each.
SPECIFICATION PSSpec
CONSTANTS
  None = None
  r1 = r1
  r2 = r2
  a1 = a1
  p1 = p1
  p2 = p2
  Resellers = {r1, r2}
  Admins = {}
  Packages = {p1, p2}
  Orders = {o1, o2, o3}
  TopUps = {}
  Clients = {"api"}
  SubnetSize = 4
  MaxNumeric = 5
  PoolSize = 3
  MaxTime = 1
  Faults = {"statement", "session", "commit", "commit_reply", "awg_add"}
  MaxFaults = 2
  OpeningBalance <- MCOpeningBalance
  OpeningPackages <- MCOpeningPackages
SYMMETRY OrderSymmetry
INVARIANTS
  BooksBalance
  AnswersAreTruthful
  DistinctAddresses
  ConflictMeansProgress
  ExhaustionIsReal
  RowsInv
