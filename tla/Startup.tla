------------------------------ MODULE Startup ------------------------------
(***************************************************************************)
(* cmd/server/main.go from Load to Listen, run by several processes over   *)
(* one database: migrations, then the default administrator, which is      *)
(* counted first and inserted later.  Every error up to Listen is a        *)
(* log.Fatalf, and a process that ends is started again.                   *)
(*                                                                         *)
(* users is a sequence of rows, and the index of a row stands for its id.  *)
(* A password stands for its bcrypt hash.                                  *)
(***************************************************************************)
EXTENDS Integers, Sequences, FiniteSets

CONSTANTS
  Servers,        \* processes that run main
  Environments,   \* what .env says, in the order of its edits
  Emails, Passwords, Secrets, Ports,
  WeakSecrets,    \* values of JWT_SECRET that are the default or too short
  AdminEmail,     \* ADMIN_EMAIL, which no edit of .env changes
  DefaultPass,    \* the default of ADMIN_PASSWORD
  LongPasswords,  \* more than the 72 bytes bcrypt takes
  Deployments,    \* what the model starts from
  Faults,         \* kinds of failure this instance may suffer
  MaxFaults,      \* bound on the number of failures
  None

Config == [email : Emails, password : Passwords, secret : Secrets,
           port : Ports, keys : BOOLEAN]

UserRow == [email : Emails, password : Passwords, role : {"admin", "reseller"},
            creator : Nat \union {None}]

AdminsIn(rows) == {i \in DOMAIN rows : rows[i].role = "admin"}

\* The rows of a deployment: the UNIQUE index of users.email, and no
\* administrator but the one that start-up inserts, with a password it hashed,
\* before anybody can insert another row.
Seeded(rows) ==
  /\ \A i, j \in DOMAIN rows : rows[i].email = rows[j].email => i = j
  /\ \A i \in AdminsIn(rows) : rows[i].email = AdminEmail

ASSUME StartupAssumption ==
  /\ Environments \in Seq(Config)
  /\ \A n \in DOMAIN Environments : Environments[n].email = AdminEmail
  /\ \A d \in Deployments :
       /\ d.processes \subseteq Servers /\ d.env \in DOMAIN Environments
       /\ d.users \in Seq(UserRow) /\ Seeded(d.users)
       /\ d.users # <<>> => AdminsIn(d.users) # {}
       /\ \A i \in AdminsIn(d.users) : d.users[i].password \notin LongPasswords
       /\ d.faults \in 0 .. MaxFaults
  /\ Faults \subseteq {"start", "crash", "statement", "reply"}
  /\ MaxFaults \in Nat
  /\ None \notin Servers \union Config \union Nat

VARIABLES
  env,        \* edits of the .env file so far
  main,       \* where each process is in main
  cfg,        \* the configuration it loaded
  schema,     \* the tables exist
  migrating,  \* the process whose transaction is creating them
  users,      \* the users table
  faults      \* failures so far

startupVars == <<env, main, cfg, schema, migrating, users, faults>>

Starting == {"migrating", "creating", "colliding", "counting",
             "seeding", "listening"}

StartupTypeOK ==
  /\ env \in DOMAIN Environments
  /\ main \in [Servers -> Starting \union {"absent", "down", "serving"}]
  /\ cfg \in [Servers -> Config \union {None}]
  /\ schema \in BOOLEAN
  /\ migrating \in Servers \union {None}
  /\ users \in Seq(UserRow)
  /\ faults \in 0 .. MaxFaults

\* A new deployment has no users and no process yet; another one serves, and
\* has failures behind it.
StartupInit(d) ==
  LET new == d.users = <<>>
  IN  /\ env = d.env
      /\ main = [p \in Servers |-> IF p \notin d.processes THEN "absent"
                                  ELSE IF new THEN "down" ELSE "serving"]
      /\ cfg = [p \in Servers |-> IF new THEN None ELSE Environments[env]]
      /\ schema = ~new
      /\ migrating = None
      /\ users = d.users
      /\ faults = d.faults

----------------------------------------------------------------------------

Fault(kind) ==
  /\ kind \in Faults
  /\ faults < MaxFaults
  /\ faults' = faults + 1

Goto(p, s) == main' = [main EXCEPT ![p] = s]

\* Config.Validate.
Validates(c) == c.secret \notin WeakSecrets /\ c.keys /\ c.password # DefaultPass

\* The UNIQUE index of users.email.
Taken(email) == \E i \in DOMAIN users : users[i].email = email

DotEnv == Environments[env]

\* An operator edits .env.  Only a process that starts reads it.
EditEnv ==
  /\ \E p \in Servers : main[p] = "down"
  /\ env + 1 \in DOMAIN Environments
  /\ env' = env + 1
  /\ UNCHANGED <<main, cfg, schema, migrating, users, faults>>

\* Load, Validate, NewPostgres.  A configuration that is refused is read again
\* at the next start, which changes nothing.
Load(p) ==
  /\ main[p] = "down"
  /\ Validates(DotEnv)
  /\ cfg' = [cfg EXCEPT ![p] = DotEnv]
  /\ Goto(p, "migrating")
  /\ UNCHANGED <<env, schema, migrating, users, faults>>

\* RunMigrations is one implicit transaction.  On an empty database CREATE
\* TABLE IF NOT EXISTS sees no table that another transaction is creating; it
\* waits for that transaction on a unique index of the catalog.
Migrate(p) ==
  /\ main[p] = "migrating"
  /\ \/ schema /\ Goto(p, "counting") /\ UNCHANGED migrating
     \/ ~schema /\ migrating = None /\ Goto(p, "creating") /\ migrating' = p
     \/ ~schema /\ migrating # None /\ Goto(p, "colliding") /\ UNCHANGED migrating
  /\ UNCHANGED <<env, cfg, schema, users, faults>>

CommitTables(p) ==
  /\ main[p] = "creating"
  /\ schema' = TRUE
  /\ migrating' = None
  /\ Goto(p, "counting")
  /\ UNCHANGED <<env, cfg, users, faults>>

\* The other transaction has committed, and this one fails on the duplicate
\* key, or it was rolled back, and this one goes on.
CollisionEnds(p) ==
  /\ main[p] = "colliding"
  /\ migrating = None
  /\ IF schema THEN Goto(p, "down") /\ UNCHANGED migrating
               ELSE Goto(p, "creating") /\ migrating' = p
  /\ UNCHANGED <<env, cfg, schema, users, faults>>

\* Mutant of CountAdmins: every start seeds.
SeedAtEveryStart(p) ==
  /\ main[p] = "counting"
  /\ Goto(p, "seeding")
  /\ UNCHANGED <<env, cfg, schema, migrating, users, faults>>

\* SELECT COUNT(*) ... role='admin' of EnsureDefaultAdmin.
CountAdmins(p) ==
  /\ main[p] = "counting"
  /\ Goto(p, IF AdminsIn(users) = {} THEN "seeding" ELSE "listening")
  /\ UNCHANGED <<env, cfg, schema, migrating, users, faults>>

AdminRow(c) == [email |-> c.email, password |-> c.password, role |-> "admin",
                creator |-> None]

\* Mutant of SeedAdmin: users.email is not UNIQUE.
SeedUnchecked(p) ==
  /\ main[p] = "seeding"
  /\ IF cfg[p].password \in LongPasswords
     THEN Goto(p, "down") /\ UNCHANGED users
     ELSE Goto(p, "listening") /\ users' = Append(users, AdminRow(cfg[p]))
  /\ UNCHANGED <<env, cfg, schema, migrating, faults>>

\* Mutant of SeedAdmin: its error is only logged.
SeedErrorIgnored(p) ==
  /\ main[p] = "seeding"
  /\ users' = IF cfg[p].password \in LongPasswords \/ Taken(cfg[p].email)
              THEN users ELSE Append(users, AdminRow(cfg[p]))
  /\ Goto(p, "listening")
  /\ UNCHANGED <<env, cfg, schema, migrating, faults>>

\* The hash and the INSERT, which commits on its own; its reply may be lost.
SeedAdmin(p) ==
  LET c == cfg[p]
      refused == c.password \in LongPasswords \/ Taken(c.email)
  IN  /\ main[p] = "seeding"
      /\ \/ refused /\ Goto(p, "down") /\ UNCHANGED <<users, faults>>
         \/ /\ ~refused
            /\ users' = Append(users, AdminRow(c))
            /\ \/ Goto(p, "listening") /\ UNCHANGED faults
               \/ Fault("reply") /\ Goto(p, "down")
      /\ UNCHANGED <<env, cfg, schema, migrating>>

\* The worker is started, then the port is taken if no process has it.
Listen(p) ==
  LET portInUse == \E o \in Servers : main[o] = "serving" /\ cfg[o].port = cfg[p].port
  IN  /\ main[p] = "listening"
      /\ Goto(p, IF portInUse THEN "down" ELSE "serving")
      /\ UNCHANGED <<env, cfg, schema, migrating, users, faults>>

\* A call of main fails (NewPostgres, RunMigrations, NewValkey, a statement),
\* or the process is killed, before it serves.  The tables it was creating are
\* rolled back.
Fatal(p) ==
  /\ main[p] \in Starting
  /\ Fault("start")
  /\ Goto(p, "down")
  /\ migrating' = IF migrating = p THEN None ELSE migrating
  /\ UNCHANGED <<env, cfg, schema, users>>

MainStep(p) ==
  \/ Load(p)
  \/ Migrate(p) \/ CommitTables(p) \/ CollisionEnds(p)
  \/ CountAdmins(p) \/ SeedAdmin(p)
  \/ Listen(p)

StartStep == \E p \in Servers : MainStep(p) \/ Fatal(p)

----------------------------------------------------------------------------
(* Properties. *)

\* README.md: the default administrator is created on first boot.  However the
\* starts of several processes interleave and fail, there is never a second
\* one: the count is stale when the INSERT runs, and only the UNIQUE email is
\* in its way, which is why AdminEmail does not change.
OneAdministrator == Cardinality(AdminsIn(users)) <= 1

\* A process that serves has its tables and somebody who can administer it.
ServingMeansReady ==
  \A p \in Servers : main[p] = "serving" =>
    /\ schema
    /\ \E i \in AdminsIn(users) : users[i].password \notin LongPasswords

\* What ServingMeansReady needs: past the migrations the tables are there, and
\* past the administrator's INSERT a row that bcrypt made is.
MainReady ==
  /\ \A p \in Servers :
       /\ main[p] \in {"counting", "seeding", "listening", "serving"} => schema
       /\ main[p] \in {"listening", "serving"} => AdminsIn(users) # {}
  /\ \A i \in AdminsIn(users) : users[i].password \notin LongPasswords

\* Once .env stays one that main can start from, some process comes to serve
\* and one goes on serving: collisions of two starts, a lost reply and failed
\* calls are all cured by starting again.
EventuallyServes ==
  <>[](Validates(DotEnv) /\ DotEnv.password \notin LongPasswords)
    => <>[](\E p \in Servers : main[p] = "serving")
============================================================================
