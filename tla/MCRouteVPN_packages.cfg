\* Orders and package edits from both clients, with failures.
SPECIFICATION Spec
CONSTANTS
  None = None
  r1 = r1
  r2 = r2
  a1 = a1
  p1 = p1
  p2 = p2
  Resellers = {r1}
  Admins = {}
  Packages = {p1, p2}
  Orders = {o1, o2}
  TopUps = {}
  TopUpTargets = {}
  TopUpAmounts = {}
  Removals = {}
  Edits = {e1, e2}
  PriceInputs <- MCPriceInputs
  DaysInputs = {2}
  Clients = {"api", "web"}
  SubnetSize = 4
  MaxNumeric = 5
  PoolSize = 1
  MaxTime = 0
  Faults = {"statement", "crash"}
  MaxFaults = 1
  OpeningBalance <- MCOpeningBalance
  OpeningPackages <- MCOpeningPackages
SYMMETRY TicketSymmetry
INVARIANT
  RowsHavePackages
PROPERTY
  ImplementsReselling
