\* Orders of two resellers, a top-up and a package edit: two connections, one lock each.
SPECIFICATION Spec
CONSTANTS
  None = None
  r1 = r1
  r2 = r2
  a1 = a1
  p1 = p1
  p2 = p2
  Resellers = {r1, r2}
  Admins = {}
  Packages = {p1}
  Orders = {o1, o2}
  TopUps = {t1}
  TopUpTargets = {r1}
  TopUpAmounts = {0, 20}
  Removals = {}
  Edits = {e1}
  PriceInputs = {}
  DaysInputs = {2}
  Clients = {"api"}
  SubnetSize = 4
  MaxNumeric = 5
  PoolSize = 2
  MaxTime = 0
  Faults = {"session"}
  MaxFaults = 1
  OpeningBalance <- MCOpeningBalance
  OpeningPackages <- MCOpeningPackages
PROPERTY
  EveryRequestAnswered
