\* Orders, removals and the worker, over time, with failures and restarts.
SPECIFICATION Spec
CONSTANTS
  None = None
  r1 = r1
  r2 = r2
  a1 = a1
  p1 = p1
  p2 = p2
  Resellers = {r1, r2}
  Admins = {}
  Packages = {p1}
  Orders = {o1, o2}
  TopUps = {}
  TopUpTargets = {}
  TopUpAmounts = {}
  Removals = {d1}
  Edits = {}
  PriceInputs = {}
  DaysInputs = {}
  Clients = {"api"}
  SubnetSize = 4
  MaxNumeric = 5
  PoolSize = 2
  MaxTime = 2
  Faults = {"statement", "commit", "commit_reply", "awg_add", "stop", "crash"}
  MaxFaults = 2
  OpeningBalance <- MCOpeningBalance
  OpeningPackages <- MCOpeningPackages
SYMMETRY OrderSymmetry
INVARIANTS
  TypeOK
  PaidPeerServed
  ExpiredOffInterface
  ServiceInv
PROPERTY
  NoResurrection
