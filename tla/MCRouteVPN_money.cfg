\* Orders of two resellers and top-ups of one, from the API and the web form.
\* Four transactions for three connections: one can wait for one that waits.
SPECIFICATION Spec
CONSTANTS
  None = None
  r1 = r1
  r2 = r2
  a1 = a1
  p1 = p1
  p2 = p2
  Resellers = {r1, r2}
  Admins = {a1}
  Packages = {p1}
  Orders = {o1, o2}
  TopUps = {t1, t2}
  TopUpTargets = {r1, a1, None}
  TopUpAmounts = {15}
  Removals = {}
  Edits = {}
  PriceInputs = {}
  DaysInputs = {}
  Clients = {"api", "web"}
  SubnetSize = 4
  MaxNumeric = 5
  PoolSize = 3
  MaxTime = 0
  Faults = {"statement", "session", "commit", "commit_reply", "awg_add", "crash", "reboot"}
  MaxFaults = 1
  OpeningBalance <- MCOpeningBalance
  OpeningPackages <- MCOpeningPackages
SYMMETRY TicketSymmetry
INVARIANTS
  BooksInv
  TopUpsCountOnce
  ChargedForWhatIsHeld
  LocksInv
  NoCircularWait
  PoolNeverStuck
PROPERTY
  ImplementsReselling
