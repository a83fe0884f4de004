\* A database session ends while its order is between INSERT and awg.
SPECIFICATION Spec
CONSTANTS
  None = None
  r1 = r1
  r2 = r2
  a1 = a1
  p1 = p1
  p2 = p2
  Resellers = {r1}
  Admins = {}
  Packages = {p1}
  Orders = {o1, o2}
  TopUps = {}
  TopUpTargets = {}
  TopUpAmounts = {}
  Removals = {}
  Edits = {}
  PriceInputs = {}
  DaysInputs = {}
  Clients = {"api"}
  SubnetSize = 4
  MaxNumeric = 5
  PoolSize = 2
  MaxTime = 0
  Faults = {"session"}
  MaxFaults = 1
  OpeningBalance <- MCOpeningBalance
  OpeningPackages <- MCOpeningPackages
INVARIANT
  PaidPeerServed
