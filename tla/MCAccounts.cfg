\* Two processes that start on an empty database; three requests to a process
\* that serves, and is restarted.
SPECIFICATION Spec
CONSTANTS
  None = None
  admin = admin
  alice = alice
  bob = bob
  pw1 = pw1
  pw2 = pw2
  blank = blank
  long = long
  s1 = s1
  s2 = s2
  weak = weak
  p1 = p1
  Deployments <- MCDeployments
  Servers = {p1, p2}
  Environments <- MCEnvironments
  Emails = {admin, alice, bob}
  Passwords = {pw1, pw2, blank, long}
  Secrets = {s1, s2, weak}
  Ports = {1, 2}
  WeakSecrets = {weak}
  AdminEmail = admin
  DefaultPass = None
  LongPasswords = {long}
  Faults = {"start", "crash", "statement", "reply"}
  MaxFaults = 3
  Requests <- MCRequests
  LoginForms <- MCLoginForms
  AccountForms <- MCAccountForms
  Blank = blank
  ShortPasswords = {blank}
  Second = 2
  Lifetime = 3
  MaxTime = 3
INVARIANTS
  SessionsInv
  OneAdministrator
  ServingMeansReady
  CreatedMeansYours
PROPERTIES
  ImplementsSessions
  ValidFor24Hours
  EventuallyServes
CHECK_DEADLOCK FALSE
