\* The worker and the process over time, with stops and crashes, one connection.
SPECIFICATION Spec
CONSTANTS
  None = None
  r1 = r1
  r2 = r2
  a1 = a1
  p1 = p1
  p2 = p2
  Resellers = {r1}
  Admins = {}
  Packages = {p1}
  Orders = {o1, o2}
  TopUps = {}
  TopUpTargets = {}
  TopUpAmounts = {}
  Removals = {d1}
  Edits = {}
  PriceInputs = {}
  DaysInputs = {}
  Clients = {"api"}
  SubnetSize = 4
  MaxNumeric = 5
  PoolSize = 1
  MaxTime = 2
  Faults = {"statement", "awg_remove", "stop", "crash"}
  MaxFaults = 2
  OpeningBalance <- MCOpeningBalance
  OpeningPackages <- MCOpeningPackages
PROPERTIES
  ExpiredEventuallyMarked
  ShutdownEnds
