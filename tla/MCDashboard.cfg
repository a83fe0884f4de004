\* A page view while peers are bought, removed and expire.
SPECIFICATION DashboardSpec
CONSTANTS
  Pages = {g1}
  None = None
  r1 = r1
  p1 = p1
  Resellers = {r1}
  Admins = {}
  Packages = {p1}
  Orders = {o1, o2}
  TopUps = {t1}
  TopUpTargets = {r1}
  TopUpAmounts = {10}
  Removals = {}
  Edits = {}
  PriceInputs = {}
  DaysInputs = {}
  Clients = {"api"}
  SubnetSize = 4
  MaxNumeric = 5
  PoolSize = 1
  MaxTime = 2
  Faults = {"statement"}
  MaxFaults = 1
  OpeningBalance <- MCOpeningBalance
  OpeningPackages <- MCOpeningPackages
SYMMETRY OrderSymmetry
INVARIANTS
  NoPeerDropped
  
  MoneyShownInv
