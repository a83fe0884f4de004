--------------------------- MODULE AccountsProofs ---------------------------
(***************************************************************************)
(* Accounts, start-up and sessions, for any number of processes, requests, *)
(* restarts, failures and accounts.  There is never a second administrator *)
(* and an administrator who is told that a reseller was created has        *)
(* created it: both follow from AccountsInv, which every step of main and  *)
(* of a handler preserves.  Sessions are the second part.                  *)
(***************************************************************************)
EXTENDS Accounts, FiniteSetTheorems, TLAPS

\* An INSERT into users.
LEMMA AppendRow ==
  ASSUME NEW S, NEW rows \in Seq(S), NEW row \in S
  PROVE  /\ Append(rows, row) \in Seq(S)
         /\ DOMAIN Append(rows, row) = DOMAIN rows \union {Len(rows) + 1}
         /\ Len(rows) + 1 \notin DOMAIN rows
         /\ \A i \in DOMAIN rows : Append(rows, row)[i] = rows[i]
         /\ Append(rows, row)[Len(rows) + 1] = row
  OBVIOUS

\* The UNIQUE index admits a row whose email nobody has.
LEMMA SeededAppend ==
  ASSUME NEW rows \in Seq(UserRow), NEW row \in UserRow, Seeded(rows),
         \A i \in DOMAIN rows : rows[i].email # row.email,
         row.role = "admin" => row.email = AdminEmail
  PROVE  Seeded(Append(rows, row))
<1> DEFINE more == Append(rows, row)
<1>1. /\ DOMAIN more = DOMAIN rows \union {Len(rows) + 1}
      /\ \A i \in DOMAIN rows : more[i] = rows[i]
      /\ more[Len(rows) + 1] = row
  BY AppendRow
<1> HIDE DEF more
<1>2. \A i, j \in DOMAIN more : more[i].email = more[j].email => i = j
  BY <1>1 DEF Seeded
<1>3. \A i \in AdminsIn(more) : more[i].email = AdminEmail
  BY <1>1 DEF Seeded, AdminsIn
<1> QED BY <1>2, <1>3 DEF Seeded, more

\* A new deployment and one that serves both satisfy the invariant.
LEMMA InitInv == Init => AccountsInv
<1> SUFFICES ASSUME NEW d \in Deployments, StartupInit(d), RequestsInit(d)
             PROVE  AccountsInv
  BY DEF Init
<1> USE DEF StartupInit, RequestsInit
<1>1. StartupTypeOK
  BY StartupAssumption DEF StartupTypeOK
<1>2. AccountsTypeOK
  BY <1>1, AccountsAssumption DEF AccountsTypeOK
<1>3. RequestsReady
  BY StartupAssumption DEF RequestsReady, Ready, InFlight, Starting
<1>4. OneEmail
  BY StartupAssumption DEF OneEmail
<1>5. CreatedRowExists
  BY DEF CreatedRowExists
<1> QED BY <1>2, <1>3, <1>4, <1>5 DEF AccountsInv

----------------------------------------------------------------------------
(* The steps of main. *)

\* Failures keep to their bound.
LEMMA FaultBound ==
  ASSUME AccountsInv, (\E kind \in Faults : Fault(kind)) \/ UNCHANGED faults
  PROVE  faults' \in 0 .. MaxFaults
  BY StartupAssumption DEF AccountsInv, AccountsTypeOK, StartupTypeOK, Fault

\* A step of main that inserts no row and keeps the processes' variables typed.
LEMMA MainQuiet ==
  ASSUME AccountsInv, StartupTypeOK', UNCHANGED <<users, now, requestVars>>,
         \A p \in Servers :
           \/ cfg'[p] = cfg[p] /\ (main'[p] \in Starting \union {"serving"}
                                     => main[p] \in Starting \union {"serving"})
           \/ cfg'[p] = DotEnv
  PROVE  AccountsInv'
  <1>1. AccountsTypeOK'
    BY DEF AccountsInv, AccountsTypeOK, requestVars
  <1>2. DotEnv \in Config /\ DotEnv.email = AdminEmail
    BY StartupAssumption DEF AccountsInv, AccountsTypeOK, StartupTypeOK, DotEnv
  <1>3. RequestsReady'
    BY <1>2, StartupAssumption
       DEF AccountsInv, AccountsTypeOK, RequestsReady, Ready, requestVars, InFlight
  <1>4. OneEmail'
    BY <1>2 DEF AccountsInv, OneEmail
  <1>5. CreatedRowExists'
    BY DEF AccountsInv, CreatedRowExists, NewReseller, requestVars
  <1> QED
    BY <1>1, <1>3, <1>4, <1>5 DEF AccountsInv

\* A step of main or a handler that inserts one row keeps AccountsInv's part
\* about the table, and no row of before is lost.
LEMMA InsertRow ==
  ASSUME AccountsInv, NEW row \in UserRow, users' = Append(users, row),
         ~Taken(row.email), row.role = "admin" => row.email = AdminEmail
  PROVE  /\ users' \in Seq(UserRow)
         /\ Seeded(users')
         /\ \A i \in DOMAIN users : i \in DOMAIN users' /\ users'[i] = users[i]
         /\ Len(users) + 1 \in DOMAIN users' /\ users'[Len(users) + 1] = row
  <1>1. users \in Seq(UserRow) /\ Seeded(users)
    BY DEF AccountsInv, AccountsTypeOK, StartupTypeOK, OneEmail
  <1>2. Seeded(users')
    BY <1>1, SeededAppend DEF Taken
  <1>3. /\ users' \in Seq(UserRow)
        /\ DOMAIN users' = DOMAIN users \union {Len(users) + 1}
        /\ \A i \in DOMAIN users : users'[i] = users[i]
        /\ users'[Len(users) + 1] = row
    BY <1>1, AppendRow
  <1> QED
    BY <1>2, <1>3

\* The administrator is inserted under the one ADMIN_EMAIL.
LEMMA SeedStep ==
  ASSUME AccountsInv, NEW p \in Servers, SeedAdmin(p), UNCHANGED <<now, requestVars>>
  PROVE  AccountsInv'
  <1> USE DEF AccountsInv
  <1>1. cfg[p] \in Config /\ cfg[p].email = AdminEmail
    BY StartupAssumption DEF SeedAdmin, RequestsReady, OneEmail, Starting
  <1>2. /\ main' \in [Servers -> Starting \union {"absent", "down", "serving"}]
        /\ UNCHANGED <<env, cfg, schema, migrating>>
        /\ \A o \in Servers : main'[o] \in Starting \union {"serving"}
                                => main[o] \in Starting \union {"serving"}
    BY DEF SeedAdmin, Goto, AccountsTypeOK, StartupTypeOK, Starting
  <1>3. faults' \in 0 .. MaxFaults
    BY FaultBound DEF SeedAdmin, Fault
  <1>4. \/ users' = users
        \/ users' = Append(users, AdminRow(cfg[p])) /\ ~Taken(cfg[p].email)
    BY DEF SeedAdmin
  <1>5. CASE users' = users
    <2>1. StartupTypeOK'
      BY <1>2, <1>3, <1>5 DEF AccountsTypeOK, StartupTypeOK
    <2> QED
      BY <2>1, <1>2, <1>5, MainQuiet
  <1>6. CASE users' = Append(users, AdminRow(cfg[p])) /\ ~Taken(cfg[p].email)
    <2>1. AdminRow(cfg[p]) \in UserRow
      BY <1>1 DEF AdminRow, UserRow, Config
    <2>2. /\ users' \in Seq(UserRow)
          /\ Seeded(users')
          /\ \A i \in DOMAIN users : i \in DOMAIN users' /\ users'[i] = users[i]
      BY <2>1, <1>1, <1>6, InsertRow DEF AdminRow
    <2>3. AccountsTypeOK'
      BY <2>2, <1>2, <1>3 DEF AccountsTypeOK, StartupTypeOK, requestVars
    <2>4. RequestsReady'
      BY <1>2 DEF RequestsReady, Ready, requestVars
    <2>5. OneEmail' /\ CreatedRowExists'
      BY <2>2, <1>2 DEF OneEmail, CreatedRowExists, NewReseller, requestVars
    <2> QED
      BY <2>3, <2>4, <2>5
  <1> QED
    BY <1>4, <1>5, <1>6

\* Every step of main, its failures, and an edit of .env.
LEMMA StartInv ==
  ASSUME AccountsInv, StartStep \/ EditEnv, UNCHANGED <<now, requestVars>>
  PROVE  AccountsInv'
  <1> USE DEF AccountsInv
  <1>1. CASE EditEnv
    <2>1. StartupTypeOK'
      BY <1>1 DEF EditEnv, AccountsTypeOK, StartupTypeOK
    <2> QED
      BY <2>1, <1>1, MainQuiet DEF EditEnv
  <1>2. ASSUME NEW p \in Servers, MainStep(p) \/ Fatal(p), ~SeedAdmin(p)
        PROVE  AccountsInv'
    <2>1. /\ UNCHANGED <<env, users>>
          /\ schema' \in BOOLEAN
          /\ migrating' \in Servers \union {None}
      BY <1>2 DEF MainStep, Load, Migrate, CommitTables, CollisionEnds, CountAdmins,
             Listen, Fatal, AccountsTypeOK, StartupTypeOK
    <2>2. faults' \in 0 .. MaxFaults
      BY <1>2, FaultBound DEF MainStep, Load, Migrate, CommitTables, CollisionEnds,
             CountAdmins, Listen, Fatal, Fault
    <2>3. CASE Load(p)
      <3>1. DotEnv \in Config
        BY StartupAssumption DEF AccountsTypeOK, StartupTypeOK, DotEnv
      <3>2. /\ main' \in [Servers -> Starting \union {"absent", "down", "serving"}]
            /\ cfg' \in [Servers -> Config \union {None}]
            /\ \A o \in Servers : o = p \/ (main'[o] = main[o] /\ cfg'[o] = cfg[o])
            /\ cfg'[p] = DotEnv
        BY <2>3, <3>1 DEF Load, Goto, Starting, AccountsTypeOK, StartupTypeOK
      <3>3. StartupTypeOK'
        BY <2>1, <2>2, <3>2 DEF AccountsTypeOK, StartupTypeOK
      <3> QED
        BY <3>2, <3>3, <2>1, MainQuiet
    <2>4. CASE ~Load(p)
      <3>1. main[p] \in Starting /\ cfg' = cfg
        BY <1>2, <2>4 DEF MainStep, Migrate, CommitTables, CollisionEnds,
               CountAdmins, Listen, Fatal, Starting
      <3>2. main' \in [Servers -> Starting \union {"absent", "down", "serving"}]
        BY <1>2, <2>4 DEF MainStep, Migrate, CommitTables, CollisionEnds,
               CountAdmins, Listen, Fatal, Goto, Starting, AccountsTypeOK, StartupTypeOK
      <3>3. \A o \in Servers \ {p} : main'[o] = main[o]
        BY <1>2, <2>4 DEF MainStep, Migrate, CommitTables, CollisionEnds,
               CountAdmins, Listen, Fatal, Goto, AccountsTypeOK, StartupTypeOK
      <3>4. StartupTypeOK'
        BY <2>1, <2>2, <3>1, <3>2 DEF AccountsTypeOK, StartupTypeOK
      <3> QED
        BY <3>1, <3>3, <3>4, <2>1, MainQuiet
    <2> QED
      BY <2>3, <2>4
  <1> QED
    BY <1>1, <1>2, SeedStep DEF StartStep, MainStep

----------------------------------------------------------------------------
(* The steps of a handler. *)

\* A step of request q that leaves the processes and the other requests alone,
\* and loses no row.
LEMMA OneRequest ==
  ASSUME AccountsInv, AccountsTypeOK', NEW q \in Requests,
         UNCHANGED <<main, cfg>>,
         Seeded(users'),
         \A i \in DOMAIN users : i \in DOMAIN users' /\ users'[i] = users[i],
         \A r \in Requests \ {q} :
           /\ step'[r] = step[r] /\ form'[r] = form[r] /\ server'[r] = server[r]
           /\ session'[r] = session[r] /\ token'[r] = token[r],
         step[q] # "out",
         step[q] = "in" => step'[q] = "out" /\ token'[q] = token[q],
         Ready(q)',
         step'[q] = "created" => \E i \in DOMAIN users' : users'[i] = NewReseller(q)'
  PROVE  AccountsInv'
  <1> USE DEF AccountsInv
  <1>1. ASSUME NEW r \in Requests \ {q}
        PROVE  Ready(r)'
    <2>1. Ready(r)
      BY DEF RequestsReady
    <2>2. session[r] # None => session[r] \in Requests
      BY DEF AccountsTypeOK
    <2> QED
      BY <2>1, <2>2 DEF Ready
  <1>2. RequestsReady'
    BY <1>1 DEF RequestsReady
  <1>3. OneEmail'
    BY DEF OneEmail
  <1>4. ASSUME NEW r \in Requests \ {q}, step[r] = "created"
        PROVE  \E i \in DOMAIN users' : users'[i] = NewReseller(r)'
    <2>1. PICK i \in DOMAIN users : users[i] = NewReseller(r)
      BY <1>4 DEF CreatedRowExists
    <2>2. session[r] \in Requests /\ step[session[r]] \in {"in", "out"}
      <3>1. session[r] \in Requests
        BY <1>4 DEF RequestsReady, Ready
      <3>2. session[r] # None
        BY <3>1, StartupAssumption, AccountsAssumption
      <3> QED
        BY <3>1, <3>2 DEF RequestsReady, Ready
    <2>3. token'[session[r]] = token[session[r]]
      BY <2>2
    <2> QED
      BY <2>1, <2>3 DEF NewReseller
  <1>5. CreatedRowExists'
    BY <1>4 DEF CreatedRowExists
  <1> QED
    BY <1>2, <1>3, <1>5

\* The tables and the processes are as they were.
LEMMA TablesUntouched ==
  ASSUME AccountsInv, UNCHANGED <<env, main, cfg, schema, migrating, users>>,
         (\E kind \in Faults : Fault(kind)) \/ UNCHANGED faults
  PROVE  /\ StartupTypeOK' /\ Seeded(users')
         /\ \A i \in DOMAIN users : i \in DOMAIN users' /\ users'[i] = users[i]
  BY FaultBound DEF AccountsInv, AccountsTypeOK, StartupTypeOK, OneEmail

\* A request that is received is nobody's session.
LEMMA ReceiveInv ==
  ASSUME AccountsInv, NEW q \in Requests, NEW p \in Servers,
         ReceiveLogin(q, p) \/ ReceiveCreate(q, p) \/ ReceiveMe(q, p)
  PROVE  AccountsInv'
  <1> USE DEF AccountsInv
  <1>1. /\ UNCHANGED <<startupVars, now, token, until>>
        /\ step[q] = "new" /\ main[p] = "serving"
        /\ server' = [server EXCEPT ![q] = p]
    BY DEF ReceiveLogin, ReceiveCreate, ReceiveMe, Receive
  <1>2. StartupTypeOK' /\ Seeded(users') /\ UNCHANGED <<main, cfg, users>>
    BY <1>1, TablesUntouched DEF startupVars
  <1>3. cfg[p] \in Config /\ p # None
    BY <1>1, StartupAssumption DEF RequestsReady
  <1>4. CASE ReceiveLogin(q, p)
    <2>1. PICK f \in Form, s \in {"checking", "invalid"} :
            /\ step' = [step EXCEPT ![q] = s]
            /\ form' = [form EXCEPT ![q] = f]
            /\ since' = [since EXCEPT ![q] = now]
            /\ UNCHANGED session
      BY <1>4, AccountsAssumption DEF ReceiveLogin, Receive, Answer
    <2>2. AccountsTypeOK'
      BY <2>1, <1>1, <1>2 DEF AccountsTypeOK, InFlight, Answers
    <2>3. Ready(q)'
      BY <2>1, <1>1, <1>2, <1>3
         DEF RequestsReady, Ready, AccountsTypeOK, InFlight
    <2> QED
      BY <2>1, <2>2, <2>3, <1>1, <1>2, OneRequest DEF AccountsTypeOK
  <1>5. CASE ReceiveCreate(q, p)
    <2>1. PICK h \in Requests, f \in Form,
               s \in {"unauthorized", "forbidden", "invalid", "inserting"} :
            /\ step[h] = "in"
            /\ step' = [step EXCEPT ![q] = s]
            /\ form' = [form EXCEPT ![q] = f]
            /\ session' = [session EXCEPT ![q] = h]
            /\ UNCHANGED since
      BY <1>5, AccountsAssumption DEF ReceiveCreate, Receive, Answer
    <2>2. AccountsTypeOK'
      BY <2>1, <1>1, <1>2 DEF AccountsTypeOK, InFlight, Answers
    <2>3. Ready(q)'
      BY <2>1, <1>1, <1>2, <1>3
         DEF RequestsReady, Ready, AccountsTypeOK, InFlight
    <2> QED
      BY <2>1, <2>2, <2>3, <1>1, <1>2, OneRequest DEF AccountsTypeOK
  <1>6. CASE ReceiveMe(q, p)
    <2>1. PICK h \in Requests, s \in {"unauthorized", "reading"} :
            /\ step[h] = "in"
            /\ step' = [step EXCEPT ![q] = s]
            /\ session' = [session EXCEPT ![q] = h]
            /\ UNCHANGED <<form, since>>
      BY <1>6 DEF ReceiveMe, Receive, Answer
    <2>2. AccountsTypeOK'
      BY <2>1, <1>1, <1>2 DEF AccountsTypeOK, InFlight, Answers
    <2>3. Ready(q)'
      BY <2>1, <1>1, <1>2, <1>3
         DEF RequestsReady, Ready, AccountsTypeOK, InFlight
    <2> QED
      BY <2>1, <2>2, <2>3, <1>1, <1>2, OneRequest DEF AccountsTypeOK
  <1> QED
    BY <1>4, <1>5, <1>6

\* The token of a login is made for a row, with a secret that was loaded.
LEMMA AuthenticateInv ==
  ASSUME AccountsInv, NEW q \in Requests, Authenticate(q)
  PROVE  AccountsInv'
  <1> USE DEF AccountsInv
  <1>1. /\ step[q] = "checking" /\ form[q] \in Form /\ cfg[server[q]] \in Config
        /\ now \in Int
    <2>1. step[q] = "checking" /\ Ready(q) /\ now \in Int
      BY DEF Authenticate, RequestsReady, AccountsTypeOK
    <2>2. server[q] \in Servers /\ server[q] # None
      BY <2>1, StartupAssumption DEF Ready, InFlight
    <2> QED
      BY <2>1, <2>2 DEF Ready
  <1>2. /\ UNCHANGED <<env, main, cfg, schema, migrating, users, now, form, server,
                       session, since>>
        /\ (\E kind \in Faults : Fault(kind)) \/ UNCHANGED faults
    BY DEF Authenticate, ButUsers, Fault
  <1>3. StartupTypeOK' /\ Seeded(users')
    BY <1>2, TablesUntouched
  <1>4. ASSUME NEW i \in DOMAIN users
        PROVE  TokenFor(q, i) \in Token
    <2>1. users[i] \in UserRow /\ i \in Nat \ {0}
      BY DEF AccountsTypeOK, StartupTypeOK
    <2>2. WholeSeconds(now + Lifetime) \in Int
      BY <1>1, AccountsAssumption DEF WholeSeconds
    <2> QED
      BY <2>1, <2>2, <1>1 DEF TokenFor, Token, UserRow, Config
  <1>5. PICK s \in {"in", "signed", "refused"}, t \in Token \union {None}, u \in Int :
          /\ step' = [step EXCEPT ![q] = s]
          /\ token' = [token EXCEPT ![q] = t]
          /\ until' = [until EXCEPT ![q] = u]
          /\ s # "refused" => t \in Token
    <2>1. CASE \E i \in DOMAIN users :
                 /\ Matches(form[q], i)
                 /\ token' = [token EXCEPT ![q] = TokenFor(q, i)]
                 /\ Answer(q, IF form[q].via = "api" THEN "in" ELSE "signed")
                 /\ until' = [until EXCEPT ![q] = TokenFor(q, i).exp]
      BY <2>1, <1>4 DEF Answer, Token
    <2>2. CASE Answer(q, "refused") /\ UNCHANGED <<token, until>>
      BY <2>2 DEF Answer, AccountsTypeOK
    <2> QED
      BY <2>1, <2>2 DEF Authenticate
  <1>6. AccountsTypeOK'
    BY <1>2, <1>3, <1>5 DEF AccountsTypeOK, InFlight, Answers
  <1>7. Ready(q)'
    BY <1>1, <1>2, <1>5 DEF RequestsReady, Ready, AccountsTypeOK, InFlight
  <1> QED
    BY <1>1, <1>2, <1>3, <1>5, <1>6, <1>7, OneRequest DEF AccountsTypeOK

\* The steps that only set a date or an answer.
LEMMA AnswerInv ==
  ASSUME AccountsInv, NEW q \in Requests, SetCookie(q) \/ Logout(q) \/ ReadMe(q)
  PROVE  AccountsInv'
  <1> USE DEF AccountsInv
  <1>1. /\ UNCHANGED <<env, main, cfg, schema, migrating, users, now, form, server,
                       session, token, since>>
        /\ (\E kind \in Faults : Fault(kind)) \/ UNCHANGED faults
    BY DEF SetCookie, Logout, ReadMe, ButUsers, Fault, startupVars
  <1>2. StartupTypeOK' /\ Seeded(users')
    BY <1>1, TablesUntouched
  <1>3. PICK s \in {"in", "out", "ok", "not_found"} :
          /\ step' = [step EXCEPT ![q] = s]
          /\ s = "in" => step[q] = "signed"
          /\ s = "out" => step[q] = "in"
          /\ s \in {"ok", "not_found"} => step[q] = "reading"
    BY DEF SetCookie, Logout, ReadMe, Answer
  <1>4. until' \in [Requests -> Int]
    <2>1. WholeSeconds(now + Lifetime) \in Int
      BY AccountsAssumption DEF WholeSeconds, AccountsTypeOK
    <2> QED
      BY <2>1 DEF SetCookie, Logout, ReadMe, AccountsTypeOK
  <1>5. AccountsTypeOK'
    BY <1>1, <1>2, <1>3, <1>4 DEF AccountsTypeOK, InFlight, Answers
  <1>6. Ready(q)'
    BY <1>1, <1>3 DEF RequestsReady, Ready, AccountsTypeOK, InFlight
  <1> QED
    BY <1>1, <1>2, <1>3, <1>5, <1>6, OneRequest DEF AccountsTypeOK

\* The row of a new reseller, if it is inserted, is the one asked for.
LEMMA InsertInv ==
  ASSUME AccountsInv, NEW q \in Requests, InsertReseller(q)
  PROVE  AccountsInv'
  <1> USE DEF AccountsInv
  <1>1. step[q] = "inserting" /\ Ready(q)
    BY DEF InsertReseller, RequestsReady
  <1>2. /\ UNCHANGED <<env, main, cfg, schema, migrating, now, form, server,
                       session, token, until, since>>
        /\ (\E kind \in Faults : Fault(kind)) \/ UNCHANGED faults
    BY DEF InsertReseller, ButUsers, Fault
  <1>3. PICK s \in {"created", "failed", "duplicate"} :
          /\ step' = [step EXCEPT ![q] = s]
          /\ \/ /\ users' = Append(users, NewReseller(q))
                /\ ~Taken(NewReseller(q).email)
             \/ users' = users /\ s # "created"
    BY DEF InsertReseller, Answer
  <1>4. /\ StartupTypeOK' /\ Seeded(users')
        /\ \A i \in DOMAIN users : i \in DOMAIN users' /\ users'[i] = users[i]
        /\ s = "created" => \E i \in DOMAIN users' : users'[i] = NewReseller(q)
    <2>1. CASE users' = users /\ s # "created"
      BY <2>1, <1>2, TablesUntouched
    <2>2. CASE users' = Append(users, NewReseller(q)) /\ ~Taken(NewReseller(q).email)
      <3>1. form[q] \in Form /\ token[session[q]] \in Token
        <4>1. form[q] \in Form /\ session[q] \in Requests
          BY <1>1 DEF Ready
        <4>2. session[q] # None
          BY <4>1, StartupAssumption, AccountsAssumption
        <4>3. step[session[q]] \in {"in", "out"}
          BY <4>2, <1>1 DEF Ready
        <4> QED
          BY <4>1, <4>3 DEF RequestsReady, Ready
      <3>2. NewReseller(q) \in UserRow /\ NewReseller(q).role = "reseller"
        BY <3>1 DEF NewReseller, UserRow, Form, Token
      <3>3. /\ users' \in Seq(UserRow)
            /\ Seeded(users')
            /\ \A i \in DOMAIN users : i \in DOMAIN users' /\ users'[i] = users[i]
            /\ Len(users) + 1 \in DOMAIN users'
            /\ users'[Len(users) + 1] = NewReseller(q)
        BY <2>2, <3>2, InsertRow
      <3>4. faults' \in 0 .. MaxFaults
        BY <1>2, FaultBound
      <3> QED
        BY <3>3, <3>4, <1>2 DEF AccountsTypeOK, StartupTypeOK
    <2> QED
      BY <1>3, <2>1, <2>2
  <1>5. AccountsTypeOK'
    BY <1>2, <1>3, <1>4 DEF AccountsTypeOK, InFlight, Answers
  <1>6. Ready(q)'
    BY <1>1, <1>2, <1>3 DEF RequestsReady, Ready, AccountsTypeOK, InFlight
  <1>7. NewReseller(q)' = NewReseller(q)
    BY <1>2 DEF NewReseller
  <1> QED
    BY <1>1, <1>2, <1>3, <1>4, <1>5, <1>6, <1>7, OneRequest DEF AccountsTypeOK

\* A crash takes its requests' answers with it, and no row and no token.
LEMMA CrashInv ==
  ASSUME AccountsInv, NEW p \in Servers, Crash(p)
  PROVE  AccountsInv'
  <1> USE DEF AccountsInv
  <1>1. /\ UNCHANGED <<env, cfg, schema, migrating, users, now, form, server,
                       session, token, until, since>>
        /\ main' = [main EXCEPT ![p] = "down"]
        /\ step' = [q \in Requests |-> IF server[q] = p /\ step[q] \in InFlight
                                       THEN "no_reply" ELSE step[q]]
    BY DEF Crash, Goto
  <1>2. faults' \in 0 .. MaxFaults
    BY FaultBound DEF Crash, Fault
  <1>3. AccountsTypeOK'
    BY <1>1, <1>2 DEF AccountsTypeOK, StartupTypeOK, InFlight, Answers
  <1>4. ASSUME NEW q \in Requests
        PROVE  Ready(q)' /\ (step'[q] = "created" => step[q] = "created")
    BY <1>1 DEF RequestsReady, Ready, AccountsTypeOK, InFlight
  <1>5. RequestsReady'
    BY <1>1, <1>4 DEF RequestsReady, AccountsTypeOK, StartupTypeOK, Starting
  <1>6. OneEmail' /\ CreatedRowExists'
    BY <1>1, <1>4 DEF OneEmail, CreatedRowExists, NewReseller
  <1> QED
    BY <1>3, <1>5, <1>6

\* The clock is bounded, and only the clock moves.
LEMMA TickInv ==
  ASSUME AccountsInv, Tick
  PROVE  AccountsInv'
  <1>1. /\ UNCHANGED <<env, main, cfg, schema, migrating, users, faults, step, form,
                       server, session, token, until, since>>
        /\ now' \in 0 .. MaxTime
    BY AccountsAssumption
       DEF Tick, startupVars, requestVars, AccountsInv, AccountsTypeOK
  <1> QED
    BY <1>1 DEF AccountsInv, AccountsTypeOK, StartupTypeOK, RequestsReady, Ready,
                OneEmail, CreatedRowExists, NewReseller

----------------------------------------------------------------------------
(* The theorems. *)

\* Every step of main, of a handler, of a failure and of the clock keeps the
\* types, what handlers rely on, one email for one account, and the rows that
\* administrators were told of.
LEMMA AccountsNext ==
  ASSUME AccountsInv, [Next]_vars
  PROVE  AccountsInv'
  <1>1. CASE UNCHANGED vars
    BY <1>1 DEF vars, startupVars, requestVars, AccountsInv, AccountsTypeOK,
                StartupTypeOK, RequestsReady, Ready, OneEmail, CreatedRowExists,
                NewReseller
  <1>2. CASE (StartStep \/ EditEnv) /\ UNCHANGED <<now, requestVars>>
    BY <1>2, StartInv
  <1>3. ASSUME NEW q \in Requests, Handle(q)
        PROVE  AccountsInv'
    BY <1>3, ReceiveInv, AuthenticateInv, AnswerInv, InsertInv DEF Handle
  <1>4. ASSUME NEW p \in Servers, Crash(p)
        PROVE  AccountsInv'
    BY <1>4, CrashInv
  <1>5. CASE Tick
    BY <1>5, TickInv
  <1> QED
    BY <1>1, <1>2, <1>3, <1>4, <1>5 DEF Next

\* The inductive invariant holds in every state of every behaviour.
THEOREM AccountsInvariant == Spec => []AccountsInv
  <1>1. Init => AccountsInv
    BY InitInv
  <1>2. AccountsInv /\ [Next]_vars => AccountsInv'
    BY AccountsNext
  <1> QED
    BY <1>1, <1>2, PTL DEF Spec

\* README.md: the default administrator is created on first boot.  However many
\* processes start at once, fail and start again, it is created once.
THEOREM OneAdministratorEver == Spec => []OneAdministrator
  <1>1. AccountsInv => OneAdministrator
    <2> SUFFICES ASSUME AccountsInv
                 PROVE  Cardinality(AdminsIn(users)) <= 1
      BY DEF OneAdministrator
    <2>1. \A i, j \in AdminsIn(users) : i = j
      BY DEF AccountsInv, OneEmail, Seeded, AdminsIn
    <2>2. CASE AdminsIn(users) = {}
      BY <2>2, FS_EmptySet
    <2>3. CASE AdminsIn(users) # {}
      <3>1. PICK i : AdminsIn(users) = {i}
        BY <2>1, <2>3
      <3> QED
        BY <3>1, FS_Singleton
    <2> QED
      BY <2>2, <2>3
  <1> QED
    BY <1>1, AccountsInvariant, PTL

\* An administrator who is told that a reseller was created finds the row of
\* this request, and no other with its email, for ever after.
THEOREM CreatedStaysYours == Spec => []CreatedMeansYours
  <1>1. AccountsInv => CreatedMeansYours
    <2> SUFFICES ASSUME AccountsInv, NEW q \in Requests, step[q] = "created"
                 PROVE  /\ {i \in DOMAIN users : users[i].email = form[q].email}
                             = {i \in DOMAIN users : users[i] = NewReseller(q)}
                        /\ \E i \in DOMAIN users : users[i] = NewReseller(q)
      BY DEF CreatedMeansYours
    <2>1. PICK i \in DOMAIN users : users[i] = NewReseller(q)
      BY DEF AccountsInv, CreatedRowExists
    <2>2. users[i].email = form[q].email
      BY <2>1 DEF NewReseller
    <2>3. \A j \in DOMAIN users :
            users[j].email = form[q].email <=> users[j] = NewReseller(q)
      BY <2>1, <2>2 DEF AccountsInv, OneEmail, Seeded, NewReseller
    <2> QED
      BY <2>1, <2>3
  <1> QED
    BY <1>1, AccountsInvariant, PTL

----------------------------------------------------------------------------
(* Sessions and start-up: SessionsInv is inductive, a session lasts its 24  *)
(* hours, a process that serves is ready to, and Accounts implements        *)
(* Sessions.                                                                *)

\* Dropping the parts of a second makes a date earlier by less than a second.
LEMMA RoundedDown ==
  ASSUME NEW t \in Int
  PROVE  /\ WholeSeconds(t) \in Int
         /\ WholeSeconds(t) <= t /\ WholeSeconds(t) > t - Second
  <1>1. Second \in Nat \ {0}
    BY AccountsAssumption
  <1>2. t \div Second \in Int /\ t % Second \in 0 .. Second - 1
    BY <1>1
  <1>3. t = Second * (t \div Second) + (t % Second)
    BY <1>1
  <1> QED
    BY <1>1, <1>2, <1>3 DEF WholeSeconds

\* Every deployment starts with its administrator, or with no row at all.
LEMMA InitSessions == Init => SessionsInv
  <1> SUFFICES ASSUME NEW d \in Deployments, StartupInit(d), RequestsInit(d)
               PROVE  SessionsInv
    BY DEF Init
  <1>1. AccountsInv
    BY InitInv DEF Init
  <1>2. MainReady
    BY StartupAssumption DEF StartupInit, MainReady
  <1>3. \A q \in Requests : TokenReady(q)
    BY DEF RequestsInit, TokenReady
  <1> QED
    BY <1>1, <1>2, <1>3 DEF SessionsInv

----------------------------------------------------------------------------
(* The table only grows. *)

RowsLast == \A i \in DOMAIN users : i \in DOMAIN users' /\ users'[i] = users[i]

Inserts(row) ==
  /\ row \in UserRow /\ users' = Append(users, row) /\ ~Taken(row.email)

\* What an INSERT leaves of the table, and where its row is.
LEMMA InsertedRow ==
  ASSUME AccountsInv, NEW row, Inserts(row)
  PROVE  /\ RowsLast
         /\ DOMAIN users' = DOMAIN users \union {Len(users) + 1}
         /\ users'[Len(users) + 1] = row
  <1>1. users \in Seq(UserRow)
    BY DEF AccountsInv, AccountsTypeOK, StartupTypeOK
  <1> QED
    BY <1>1, AppendRow DEF Inserts, RowsLast

\* main inserts the administrator, when there is none, and nobody else.
LEMMA StartRows ==
  ASSUME AccountsInv, StartStep \/ EditEnv
  PROVE  \/ users' = users
         \/ \E p \in Servers : /\ SeedAdmin(p) /\ Inserts(AdminRow(cfg[p]))
                               /\ AdminsIn(users) = {}
                               /\ cfg[p].password \notin LongPasswords
  <1> SUFFICES ASSUME users' # users
               PROVE  \E p \in Servers : /\ SeedAdmin(p) /\ Inserts(AdminRow(cfg[p]))
                                         /\ AdminsIn(users) = {}
                                         /\ cfg[p].password \notin LongPasswords
    OBVIOUS
  <1>1. PICK p \in Servers : SeedAdmin(p)
    BY DEF StartStep, EditEnv, MainStep, Load, Migrate, CommitTables, CollisionEnds,
           CountAdmins, Listen, Fatal
  <1>2. cfg[p] \in Config /\ cfg[p].email = AdminEmail
    BY <1>1, StartupAssumption DEF SeedAdmin, AccountsInv, RequestsReady, OneEmail, Starting
  <1>3. /\ users' = Append(users, AdminRow(cfg[p]))
        /\ ~Taken(cfg[p].email) /\ cfg[p].password \notin LongPasswords
    BY <1>1 DEF SeedAdmin
  <1>4. AdminRow(cfg[p]) \in UserRow /\ AdminRow(cfg[p]).email = cfg[p].email
    BY <1>2 DEF AdminRow, UserRow, Config
  <1>5. AdminsIn(users) = {}
    BY <1>2, <1>3 DEF AccountsInv, OneEmail, Seeded, Taken, AdminsIn
  <1> QED
    BY <1>1, <1>3, <1>4, <1>5 DEF Inserts

\* A request inserts the reseller it was asked for, in the name of its session.
LEMMA RequestRows ==
  ASSUME AccountsInv, NEW q \in Requests, Handle(q)
  PROVE  users' = users \/ (InsertReseller(q) /\ Inserts(NewReseller(q)))
  <1> SUFFICES ASSUME users' # users
               PROVE  InsertReseller(q) /\ Inserts(NewReseller(q))
    OBVIOUS
  <1>1. InsertReseller(q)
    BY DEF Handle, ReceiveLogin, ReceiveCreate, ReceiveMe, Receive, Authenticate,
           SetCookie, Logout, ReadMe, startupVars
  <1>2. /\ users' = Append(users, NewReseller(q)) /\ ~Taken(NewReseller(q).email)
        /\ step[q] = "inserting" /\ Ready(q)
    BY <1>1 DEF InsertReseller, AccountsInv, RequestsReady
  <1>3. form[q] \in Form /\ session[q] \in Requests /\ session[q] # None
    BY <1>2, StartupAssumption, AccountsAssumption DEF Ready
  <1>4. token[session[q]] \in Token
    BY <1>2, <1>3 DEF AccountsInv, RequestsReady, Ready
  <1>5. NewReseller(q) \in UserRow
    BY <1>3, <1>4 DEF NewReseller, UserRow, Form, Token
  <1> QED
    BY <1>1, <1>2, <1>5 DEF Inserts

----------------------------------------------------------------------------
(* A process that serves is ready. *)

\* Start-up goes past the migrations with the tables, and past the seeding with an
\* administrator.
LEMMA StartReady ==
  ASSUME AccountsInv, MainReady, StartStep \/ EditEnv
  PROVE  MainReady'
  <1>1. CASE users' = users
    <2>1. CASE EditEnv
      BY <1>1, <2>1 DEF EditEnv, MainReady, AdminsIn
    <2>2. ASSUME NEW p \in Servers, MainStep(p) \/ Fatal(p)
          PROVE  MainReady'
      <3>1. /\ \A o \in Servers \ {p} : main'[o] = main[o]
            /\ schema => schema'
        BY <2>2 DEF MainStep, Load, Migrate, CommitTables, CollisionEnds, CountAdmins,
               SeedAdmin, Listen, Fatal, Goto, AccountsInv, AccountsTypeOK, StartupTypeOK
      <3>2. /\ main'[p] \in {"counting", "seeding", "listening", "serving"} => schema'
            /\ main'[p] \in {"listening", "serving"} =>
                 main[p] = "listening" \/ AdminsIn(users) # {}
        <4>1. users # Append(users, AdminRow(cfg[p]))
          BY DEF AccountsInv, AccountsTypeOK, StartupTypeOK
        <4> QED
          BY <1>1, <2>2, <4>1
             DEF MainStep, Load, Migrate, CommitTables, CollisionEnds, CountAdmins,
               SeedAdmin, Listen, Fatal, Goto, MainReady,
               AccountsInv, AccountsTypeOK, StartupTypeOK
      <3> QED
        BY <1>1, <3>1, <3>2 DEF MainReady, AdminsIn
    <2> QED
      BY <2>1, <2>2 DEF StartStep
  <1>2. ASSUME NEW p \in Servers, SeedAdmin(p), Inserts(AdminRow(cfg[p])),
               cfg[p].password \notin LongPasswords
        PROVE  MainReady'
    <2>1. /\ \A i \in DOMAIN users : users'[i] = users[i]
          /\ DOMAIN users' = DOMAIN users \union {Len(users) + 1}
          /\ users'[Len(users) + 1] = AdminRow(cfg[p])
      BY <1>2, InsertedRow DEF RowsLast
    <2>2. /\ AdminsIn(users') = AdminsIn(users) \union {Len(users) + 1}
          /\ \A i \in AdminsIn(users') : users'[i].password \notin LongPasswords
      BY <1>2, <2>1 DEF AdminsIn, AdminRow, MainReady
    <2>3. /\ \A o \in Servers \ {p} : main'[o] = main[o]
          /\ main[p] = "seeding" /\ schema' = schema
      BY <1>2 DEF SeedAdmin, Goto, AccountsInv, AccountsTypeOK, StartupTypeOK
    <2> QED
      BY <2>2, <2>3 DEF MainReady
  <1> QED
    BY <1>1, <1>2, StartRows

\* Requests, and processes that end, take neither from those that serve.
LEMMA RequestReady ==
  ASSUME AccountsInv, MainReady, UNCHANGED schema,
         \A p \in Servers : main'[p] = main[p] \/ main'[p] = "down",
         users' = users \/ (\E q \in Requests : Inserts(NewReseller(q)))
  PROVE  MainReady'
  <1>1. CASE users' = users
    BY <1>1 DEF MainReady, AdminsIn
  <1>2. ASSUME NEW q \in Requests, Inserts(NewReseller(q))
        PROVE  MainReady'
    <2>1. /\ \A i \in DOMAIN users : users'[i] = users[i]
          /\ DOMAIN users' = DOMAIN users \union {Len(users) + 1}
          /\ users'[Len(users) + 1] = NewReseller(q)
      BY <1>2, InsertedRow DEF RowsLast
    <2>2. AdminsIn(users') = AdminsIn(users)
      BY <2>1 DEF AdminsIn, NewReseller
    <2>3. \A i \in AdminsIn(users) : users'[i] = users[i]
      BY <2>1 DEF AdminsIn
    <2> QED
      BY <2>2, <2>3 DEF MainReady
  <1> QED
    BY <1>1, <1>2

----------------------------------------------------------------------------
(* Tokens agree with the table and last a day. *)

\* A request that does not move keeps its token, whoever joins the table.
LEMMA TokenStays ==
  ASSUME AccountsInv, NEW q \in Requests, TokenReady(q), RowsLast,
         now' \in Int, now <= now',
         step'[q] = step[q] \/ step'[q] = "no_reply",
         token'[q] = token[q], until'[q] = until[q], since'[q] = since[q],
         session'[q] = session[q],
         session[q] # None => token'[session[q]] = token[session[q]]
  PROVE  TokenReady(q)'
  <1>1. now \in Int /\ since[q] \in Int
    BY DEF AccountsInv, AccountsTypeOK
  <1>2. step[q] = "inserting" => session[q] # None
    <2>1. None \notin Requests
      BY StartupAssumption, AccountsAssumption
    <2> QED
      BY <2>1 DEF AccountsInv, RequestsReady, Ready
  <1> QED
    BY <1>1, <1>2 DEF TokenReady, RowsLast

\* A step of one request: the others, and whoever's session it is, stay.
LEMMA OneToken ==
  ASSUME SessionsInv, NEW q \in Requests, RowsLast, now' = now,
         \A r \in Requests \ {q} :
           /\ step'[r] = step[r] /\ session'[r] = session[r] /\ token'[r] = token[r]
           /\ until'[r] = until[r] /\ since'[r] = since[r],
         step[q] \in {"in", "out"} => token'[q] = token[q],
         TokenReady(q)'
  PROVE  \A r \in Requests : TokenReady(r)'
  <1> SUFFICES ASSUME NEW r \in Requests \ {q}
               PROVE  TokenReady(r)'
    OBVIOUS
  <1>1. AccountsInv /\ TokenReady(r) /\ now \in Int
    BY DEF SessionsInv, AccountsInv, AccountsTypeOK
  <1>2. session[r] # None => token'[session[r]] = token[session[r]]
    <2> SUFFICES ASSUME session[r] # None
                 PROVE  token'[session[r]] = token[session[r]]
      OBVIOUS
    <2>1. session[r] \in Requests /\ step[session[r]] \in {"in", "out"}
      BY <1>1 DEF AccountsInv, AccountsTypeOK, RequestsReady, Ready
    <2> QED
      BY <2>1
  <1> QED
    BY <1>1, <1>2, TokenStays

\* Only an administrator's session gets as far as the INSERT.
LEMMA ReceiveToken ==
  ASSUME SessionsInv, NEW q \in Requests, NEW p \in Servers,
         ReceiveLogin(q, p) \/ ReceiveCreate(q, p) \/ ReceiveMe(q, p)
  PROVE  \A r \in Requests : TokenReady(r)'
  <1>1. /\ step[q] = "new" /\ UNCHANGED <<users, now, token, until>> /\ RowsLast
    BY DEF ReceiveLogin, ReceiveCreate, ReceiveMe, Receive, startupVars, RowsLast
  <1>2. /\ AccountsTypeOK /\ now \in Int /\ token[q] = None
    BY <1>1 DEF SessionsInv, AccountsInv, AccountsTypeOK, TokenReady
  <1>3. \A r \in Requests \ {q} :
          /\ step'[r] = step[r] /\ session'[r] = session[r] /\ since'[r] = since[r]
    BY <1>2 DEF ReceiveLogin, ReceiveCreate, ReceiveMe, Receive, Answer, AccountsTypeOK
  <1>4. TokenReady(q)'
    <2>1. /\ step'[q] \in {"checking", "invalid", "unauthorized", "forbidden",
                           "inserting", "reading"}
          /\ step'[q] = "checking" => since'[q] = now
          /\ step'[q] = "inserting" => token[session'[q]].role = "admin"
      BY <1>2 DEF ReceiveLogin, ReceiveCreate, ReceiveMe, Receive, Answer, RequireRole,
                  AccountsTypeOK
    <2> QED
      BY <1>1, <1>2, <2>1 DEF TokenReady
  <1> QED
    BY <1>1, <1>3, <1>4, OneToken

\* A token is made for a row whose email and password were typed.
LEMMA AuthenticateToken ==
  ASSUME SessionsInv, NEW q \in Requests, Authenticate(q)
  PROVE  \A r \in Requests : TokenReady(r)'
  <1>1. /\ step[q] = "checking" /\ token[q] = None /\ since[q] <= now
        /\ UNCHANGED <<users, now, session, since>> /\ RowsLast
    BY DEF Authenticate, ButUsers, RowsLast, SessionsInv, TokenReady
  <1>2. AccountsTypeOK /\ now \in Int /\ since[q] \in Int /\ Lifetime \in Int
        /\ Second \in Int
    BY AccountsAssumption DEF SessionsInv, AccountsInv, AccountsTypeOK
  <1>3. \A r \in Requests \ {q} :
          /\ step'[r] = step[r] /\ token'[r] = token[r] /\ until'[r] = until[r]
    BY <1>2 DEF Authenticate, Answer, AccountsTypeOK
  <1>4. TokenReady(q)'
    <2>1. CASE step'[q] = "refused" /\ token' = token
      BY <1>1, <2>1 DEF TokenReady
    <2>2. ASSUME NEW i \in DOMAIN users,
                 token' = [token EXCEPT ![q] = TokenFor(q, i)],
                 Answer(q, IF form[q].via = "api" THEN "in" ELSE "signed"),
                 until' = [until EXCEPT ![q] = TokenFor(q, i).exp]
          PROVE  TokenReady(q)'
      <3>1. /\ token'[q] = TokenFor(q, i) /\ step'[q] \in {"in", "signed"}
            /\ until'[q] = token'[q].exp
        BY <1>2, <2>2 DEF Answer, AccountsTypeOK
      <3>2. /\ token'[q].exp = WholeSeconds(now + Lifetime)
            /\ token'[q].user = i /\ token'[q].role = users[i].role
        BY <3>1 DEF TokenFor
      <3>3. /\ WholeSeconds(now + Lifetime) \in Int
            /\ WholeSeconds(now + Lifetime) > now + Lifetime - Second
        BY <1>2, RoundedDown
      <3>4. token'[q].exp > since[q] + Lifetime - Second
        BY <1>1, <1>2, <3>2, <3>3
      <3> QED
        BY <1>1, <3>1, <3>2, <3>4 DEF TokenReady
    <2>3. CASE Answer(q, "refused") /\ UNCHANGED token
      BY <1>2, <2>1, <2>3 DEF Answer, AccountsTypeOK
    <2> QED
      BY <2>2, <2>3 DEF Authenticate
  <1> QED
    BY <1>1, <1>3, <1>4, OneToken

\* The cookie's date is computed from a later clock than the login's.
LEMMA AnswerToken ==
  ASSUME SessionsInv, NEW q \in Requests,
         SetCookie(q) \/ Logout(q) \/ InsertReseller(q) \/ ReadMe(q), RowsLast
  PROVE  \A r \in Requests : TokenReady(r)'
  <1>1. UNCHANGED <<now, session, token, since>>
    BY DEF SetCookie, Logout, InsertReseller, ReadMe, ButUsers
  <1>2. AccountsTypeOK /\ now \in Int /\ since[q] \in Int /\ Lifetime \in Int
        /\ Second \in Int /\ TokenReady(q)
    BY AccountsAssumption DEF SessionsInv, AccountsInv, AccountsTypeOK
  <1>3. \A r \in Requests \ {q} : step'[r] = step[r] /\ until'[r] = until[r]
    BY <1>2 DEF SetCookie, Logout, InsertReseller, ReadMe, Answer, AccountsTypeOK
  <1>4. TokenReady(q)'
    <2>1. CASE SetCookie(q)
      <3>1. /\ step[q] = "signed" /\ step'[q] = "in" /\ UNCHANGED users
            /\ until'[q] = WholeSeconds(now + Lifetime)
        BY <1>2, <2>1 DEF SetCookie, Answer, AccountsTypeOK, startupVars
      <3>2. /\ WholeSeconds(now + Lifetime) \in Int
            /\ WholeSeconds(now + Lifetime) > now + Lifetime - Second
        BY <1>2, RoundedDown
      <3>3. until'[q] > since[q] + Lifetime - Second
        BY <1>2, <3>1, <3>2 DEF TokenReady
      <3> QED
        BY <1>1, <1>2, <3>1, <3>3 DEF TokenReady
    <2>2. CASE ~SetCookie(q)
      <3>1. /\ step'[q] \in {"out", "created", "failed", "duplicate", "ok", "not_found"}
            /\ step'[q] = "out" => step[q] = "in"
            /\ until'[q] = until[q]
        BY <1>2, <2>2 DEF Logout, InsertReseller, ReadMe, Answer, AccountsTypeOK
      <3> QED
        BY <1>1, <1>2, <3>1 DEF TokenReady, RowsLast
    <2> QED
      BY <2>1, <2>2
  <1> QED
    BY <1>1, <1>3, <1>4, OneToken

----------------------------------------------------------------------------

\* Every step keeps what sessions rely on.
LEMMA SessionsNext ==
  ASSUME SessionsInv, [Next]_vars
  PROVE  SessionsInv'
  <1>1. /\ AccountsInv' /\ AccountsInv /\ MainReady
        /\ \A q \in Requests : TokenReady(q)
    BY AccountsNext DEF SessionsInv
  <1>2. now \in Int /\ now + 1 \in Int
    BY <1>1 DEF AccountsInv, AccountsTypeOK
  <1>3. CASE UNCHANGED vars
    <2>1. MainReady'
      BY <1>1, <1>3 DEF vars, startupVars, MainReady, AdminsIn
    <2>2. RowsLast
      BY <1>3 DEF vars, startupVars, RowsLast
    <2>3. \A q \in Requests : TokenReady(q)'
      BY <1>1, <1>2, <1>3, <2>2, TokenStays DEF vars, requestVars
    <2> QED
      BY <1>1, <2>1, <2>3 DEF SessionsInv
  <1>4. CASE (StartStep \/ EditEnv) /\ UNCHANGED <<now, requestVars>>
    <2>1. MainReady'
      BY <1>1, <1>4, StartReady
    <2>2. RowsLast
      BY <1>1, <1>4, StartRows, InsertedRow DEF RowsLast
    <2>3. \A q \in Requests : TokenReady(q)'
      BY <1>1, <1>2, <1>4, <2>2, TokenStays DEF requestVars
    <2> QED
      BY <1>1, <2>1, <2>3 DEF SessionsInv
  <1>5. ASSUME NEW q \in Requests, Handle(q)
        PROVE  SessionsInv'
    <2>1. users' = users \/ (InsertReseller(q) /\ Inserts(NewReseller(q)))
      BY <1>1, <1>5, RequestRows
    <2>2. UNCHANGED <<schema, main>>
      BY <1>5 DEF Handle, ReceiveLogin, ReceiveCreate, ReceiveMe, Receive, Authenticate,
             SetCookie, Logout, InsertReseller, ReadMe, ButUsers, startupVars
    <2>3. MainReady'
      BY <1>1, <2>1, <2>2, RequestReady
    <2>4. RowsLast
      BY <1>1, <2>1, InsertedRow DEF RowsLast
    <2>5. \A r \in Requests : TokenReady(r)'
      BY <1>5, <2>4, ReceiveToken, AuthenticateToken, AnswerToken DEF Handle
    <2> QED
      BY <1>1, <2>3, <2>5 DEF SessionsInv
  <1>6. ASSUME NEW p \in Servers, Crash(p)
        PROVE  SessionsInv'
    <2>1. /\ UNCHANGED <<schema, users, now, session, token, until, since>>
          /\ \A o \in Servers : main'[o] = main[o] \/ main'[o] = "down"
          /\ \A q \in Requests : step'[q] = step[q] \/ step'[q] = "no_reply"
      BY <1>1, <1>6 DEF Crash, Goto, AccountsInv, AccountsTypeOK, StartupTypeOK
    <2>2. MainReady' /\ RowsLast
      BY <1>1, <2>1, RequestReady DEF RowsLast
    <2>3. \A q \in Requests : TokenReady(q)'
      BY <1>1, <1>2, <2>1, <2>2, TokenStays
    <2> QED
      BY <1>1, <2>2, <2>3 DEF SessionsInv
  <1>7. CASE Tick
    <2>1. now' = now + 1 /\ UNCHANGED <<startupVars, requestVars>>
      BY <1>7 DEF Tick
    <2>2. MainReady' /\ RowsLast
      BY <1>1, <2>1 DEF startupVars, MainReady, AdminsIn, RowsLast
    <2>3. \A q \in Requests : TokenReady(q)'
      BY <1>1, <1>2, <2>1, <2>2, TokenStays DEF requestVars
    <2> QED
      BY <1>1, <2>2, <2>3 DEF SessionsInv
  <1> QED
    BY <1>3, <1>4, <1>5, <1>6, <1>7 DEF Next

\* The inductive invariant holds in every state of every behaviour.
THEOREM SessionsInvariant == Spec => []SessionsInv
  <1>1. Init => SessionsInv
    BY InitSessions
  <1>2. SessionsInv /\ [Next]_vars => SessionsInv'
    BY SessionsNext
  <1> QED
    BY <1>1, <1>2, PTL DEF Spec

\* However many starts collide, fail or lose a reply, a process that serves
\* has its tables and an administrator who can log in.
THEOREM ServingAlwaysReady == Spec => []ServingMeansReady
  <1>1. SessionsInv => ServingMeansReady
    BY DEF SessionsInv, MainReady, ServingMeansReady
  <1> QED
    BY <1>1, SessionsInvariant, PTL

\* A request that is turned away for its session: the day is over, or the
\* secret has changed.
LEMMA TurnedAway ==
  ASSUME SessionsInv, [Next]_vars, NEW q \in Requests,
         step[q] = "new", step'[q] = "unauthorized"
  PROVE  LET h == session'[q]
         IN  \/ now - since[h] > Lifetime - Second
             \/ token[h].secret # cfg[server'[q]].secret
  <1>1. AccountsTypeOK /\ \A r \in Requests : TokenReady(r)
    BY DEF SessionsInv, AccountsInv
  <1>2. PICK p \in Servers : ReceiveCreate(q, p) \/ ReceiveMe(q, p)
    <2>1. PICK r \in Requests : Handle(r)
      BY <1>1 DEF Next, vars, requestVars, Crash, Tick
    <2>2. r = q /\ \E p \in Servers : ReceiveCreate(q, p) \/ ReceiveMe(q, p)
      <3>1. \E s : Answer(r, s)
        BY <2>1 DEF Handle, ReceiveLogin, ReceiveCreate, ReceiveMe, Receive, Authenticate,
               SetCookie, Logout, InsertReseller, ReadMe
      <3>2. r = q
        BY <1>1, <3>1 DEF Answer, AccountsTypeOK
      <3>3. ~Authenticate(q) /\ ~SetCookie(q) /\ ~Logout(q)
            /\ ~InsertReseller(q) /\ ~ReadMe(q)
        BY DEF Authenticate, SetCookie, Logout, InsertReseller, ReadMe
      <3>4. \A p \in Servers : ~ReceiveLogin(q, p)
        BY <1>1 DEF ReceiveLogin, Receive, Answer, AccountsTypeOK
      <3> QED
        BY <2>1, <3>2, <3>3, <3>4 DEF Handle
    <2> QED
      BY <2>2
  <1>3. PICK h \in Requests : /\ step[h] = "in" /\ ~Accepted(h, p)
                              /\ session' = [session EXCEPT ![q] = h]
                              /\ server' = [server EXCEPT ![q] = p]
    BY <1>1, <1>2 DEF ReceiveCreate, ReceiveMe, Receive, Answer, AccountsTypeOK
  <1>4. session'[q] = h /\ server'[q] = p
    BY <1>1, <1>3 DEF AccountsTypeOK
  <1>5. \/ now >= until[h] \/ now >= token[h].exp
        \/ token[h].secret # cfg[p].secret
    <2>1. token[h] \in Token
      BY <1>3 DEF SessionsInv, AccountsInv, RequestsReady, Ready
    <2> QED
      BY <1>1, <1>3, <2>1 DEF Accepted, Sent, Token, AccountsTypeOK
  <1>6. /\ until[h] > since[h] + Lifetime - Second
        /\ token[h].exp > since[h] + Lifetime - Second
        /\ now \in Int /\ since[h] \in Int /\ until[h] \in Int /\ token[h].exp \in Int
    <2>1. token[h] \in Token
      BY <1>3 DEF SessionsInv, AccountsInv, RequestsReady, Ready
    <2> QED
      BY <1>1, <1>3, <2>1 DEF TokenReady, Token, AccountsTypeOK
  <1> QED
    BY <1>4, <1>5, <1>6, AccountsAssumption

\* API.md: a token is "valid for 24 hours", whatever restarts meanwhile.
THEOREM SessionsLastADay == Spec => ValidFor24Hours
  <1>1. SessionsInv /\ [Next]_vars =>
          [\A q \in Requests :
             step[q] = "new" /\ step'[q] = "unauthorized" =>
               LET h == session'[q]
               IN  \/ now - since[h] > Lifetime - Second
                   \/ token[h].secret # cfg[server'[q]].secret]_vars
    BY TurnedAway
  <1> QED
    BY <1>1, SessionsInvariant, PTL DEF Spec, ValidFor24Hours

----------------------------------------------------------------------------
(* The abstract specification: the sessions and whoever acts, as mapped by *)
(* Table.                                                                  *)

SessionOf(q) == [user |-> token[q].user, email |-> form[q].email,
                 password |-> form[q].password, until |-> token[q].exp]

Opened == {SessionOf(q) : q \in Signed}

ActsFor(q) == IF step[q] \in {"inserting", "reading"} THEN token[session[q]].user ELSE None

Acting == [q \in Requests |-> ActsFor(q)]

\* A session stays as it was opened.
LEMMA OpenedStays ==
  ASSUME token' = token, \A q \in Signed : form'[q] = form[q]
  PROVE  Opened' = Opened
  <1>1. Signed' = Signed
    BY DEF Signed
  <1>2. \A q \in Signed : SessionOf(q)' = SessionOf(q)
    BY DEF SessionOf
  <1> QED
    BY <1>1, <1>2 DEF Opened

\* A step nobody sees.
LEMMA UnseenRequest ==
  ASSUME UNCHANGED <<users, now>>, Opened' = Opened,
         \A q \in Requests : ActsFor(q)' = ActsFor(q)
  PROVE  UNCHANGED Table!vars
  <1>1. Acting' = Acting
    BY DEF Acting
  <1> QED
    BY <1>1 DEF Table!vars, Acting, ActsFor, Opened, SessionOf

\* A request that leaves the others alone, and is nobody's session or keeps its
\* token.
LEMMA OthersAct ==
  ASSUME SessionsInv, NEW q \in Requests,
         \A r \in Requests \ {q} :
           step'[r] = step[r] /\ session'[r] = session[r] /\ token'[r] = token[r],
         step[q] \in {"in", "out"} => token'[q] = token[q]
  PROVE  \A r \in Requests \ {q} : ActsFor(r)' = ActsFor(r)
  <1> SUFFICES ASSUME NEW r \in Requests \ {q}, step[r] \in {"inserting", "reading"}
               PROVE  token'[session[r]] = token[session[r]]
    BY DEF ActsFor
  <1>1. None \notin Requests
    BY StartupAssumption, AccountsAssumption
  <1>2. session[r] \in Requests /\ step[session[r]] \in {"in", "out"}
    BY <1>1 DEF SessionsInv, AccountsInv, RequestsReady, Ready
  <1> QED
    BY <1>2

\* Whoever acts has the token of a login, so an account.
LEMMA ActorIsSomebody ==
  ASSUME SessionsInv, NEW q \in Requests, step[q] \in {"inserting", "reading"}
  PROVE  /\ session[q] \in Signed /\ token[session[q]] \in Token
         /\ ActsFor(q) = token[session[q]].user /\ ActsFor(q) # None
         /\ ActsFor(q) \in DOMAIN users
         /\ users[ActsFor(q)].role = token[session[q]].role
  <1>1. None \notin Requests /\ None \notin Nat /\ None \notin Token
    BY StartupAssumption, AccountsAssumption
  <1>2. session[q] \in Requests /\ token[session[q]] \in Token
    BY <1>1 DEF SessionsInv, AccountsInv, RequestsReady, Ready
  <1>3. token[session[q]] # None /\ token[session[q]].user \in Nat
    BY <1>1, <1>2 DEF Token
  <1> QED
    BY <1>1, <1>2, <1>3 DEF ActsFor, Signed, SessionsInv, TokenReady

----------------------------------------------------------------------------

\* Before the first request the table of sessions is empty.
LEMMA InitSessionsRefines == Init => Table!Init
  <1> SUFFICES ASSUME NEW d \in Deployments, StartupInit(d), RequestsInit(d)
               PROVE  Table!Init
    BY DEF Init
  <1>1. \A i, j \in DOMAIN users : users[i].email = users[j].email => i = j
    BY StartupAssumption DEF StartupInit, Seeded
  <1>2. Opened = {} /\ Acting = [q \in Requests |-> None] /\ now = 0
    BY DEF RequestsInit, Opened, Signed, Acting, ActsFor
  <1> QED
    BY <1>1, <1>2 DEF Table!Init, Opened, SessionOf, Acting, ActsFor

\* An INSERT is a new account in the abstract table.
LEMMA InsertRefines ==
  ASSUME AccountsInv, NEW row, Inserts(row)
  PROVE  Table!NewAccount(row.role, row.creator)
  <1>1. users \in Seq(UserRow) /\ row \in UserRow
    BY DEF AccountsInv, AccountsTypeOK, StartupTypeOK, Inserts
  <1>2. Len(users') = Len(users) + 1 /\ users'[Len(users')] = row
    BY <1>1 DEF Inserts
  <1>3. \A i \in DOMAIN users : users[i].email # row.email
    BY DEF Inserts, Taken
  <1> QED
    BY <1>1, <1>2, <1>3 DEF Table!NewAccount, Inserts

\* The abstract specification sees of main that it inserts an administrator.
LEMMA StartRefines ==
  ASSUME SessionsInv, StartStep \/ EditEnv, UNCHANGED <<now, requestVars>>
  PROVE  Table!FirstAdministrator \/ UNCHANGED Table!vars
  <1>1. Opened' = Opened /\ \A q \in Requests : ActsFor(q)' = ActsFor(q)
    <2>1. Opened' = Opened
      BY OpenedStays DEF requestVars
    <2> QED
      BY <2>1 DEF requestVars, ActsFor
  <1>2. CASE users' = users
    BY <1>1, <1>2, UnseenRequest
  <1>3. ASSUME NEW p \in Servers, Inserts(AdminRow(cfg[p])), AdminsIn(users) = {}
        PROVE  Table!FirstAdministrator
    <2>1. Table!NewAccount("admin", None)
      <3>1. /\ AdminRow(cfg[p]).role = "admin" /\ AdminRow(cfg[p]).creator = None
        BY DEF AdminRow
      <3>2. Table!NewAccount(AdminRow(cfg[p]).role, AdminRow(cfg[p]).creator)
        BY <1>3, InsertRefines DEF SessionsInv
      <3> QED
        BY <3>1, <3>2
    <2>2. Acting' = Acting
      BY <1>1 DEF Acting
    <2>3. \A i \in DOMAIN users : users[i].role # "admin"
      BY <1>3 DEF AdminsIn
    <2> QED
      BY <1>1, <2>1, <2>2, <2>3
         DEF Table!FirstAdministrator, Opened, SessionOf, Acting, ActsFor
  <1> QED
    BY <1>2, <1>3, StartRows DEF SessionsInv

\* A request that got past the middleware acts for an open session.
LEMMA ReceiveRefines ==
  ASSUME SessionsInv, NEW q \in Requests, NEW p \in Servers,
         ReceiveLogin(q, p) \/ ReceiveCreate(q, p) \/ ReceiveMe(q, p)
  PROVE  Table!Begin(q) \/ UNCHANGED Table!vars
  <1>1. /\ AccountsTypeOK /\ step[q] = "new" /\ token[q] = None
        /\ UNCHANGED <<users, now, token>>
    BY DEF ReceiveLogin, ReceiveCreate, ReceiveMe, Receive, startupVars, SessionsInv,
           AccountsInv, TokenReady
  <1>2. \A r \in Requests \ {q} :
          step'[r] = step[r] /\ session'[r] = session[r] /\ form'[r] = form[r]
    BY <1>1 DEF ReceiveLogin, ReceiveCreate, ReceiveMe, Receive, Answer, AccountsTypeOK
  <1>3. Opened' = Opened
    BY <1>1, <1>2, OpenedStays DEF Signed
  <1>4. \A r \in Requests \ {q} : ActsFor(r)' = ActsFor(r)
    BY <1>1, <1>2, OthersAct
  <1>5. ActsFor(q) = None
    BY <1>1 DEF ActsFor
  <1>6. CASE step'[q] \in {"inserting", "reading"}
    <2>1. PICK h \in Requests :
            /\ step[h] = "in" /\ Accepted(h, p)
            /\ session' = [session EXCEPT ![q] = h]
      BY <1>1, <1>6 DEF ReceiveLogin, ReceiveCreate, ReceiveMe, Receive, Answer,
                        AccountsTypeOK
    <2>2. h \in Signed
      <3>1. token[h] \in Token /\ None \notin Token
        BY <2>1, AccountsAssumption DEF SessionsInv, AccountsInv, RequestsReady, Ready
      <3> QED
        BY <3>1 DEF Signed
    <2>3. ActsFor(q)' = SessionOf(h).user /\ now < SessionOf(h).until
          /\ SessionOf(h) \in Opened
      BY <1>1, <1>6, <2>1, <2>2 DEF ActsFor, SessionOf, Accepted, Opened, AccountsTypeOK
    <2>4. Acting[q] = None /\ Acting' = [Acting EXCEPT ![q] = SessionOf(h).user]
      BY <1>4, <1>5, <2>3 DEF Acting
    <2>5. \E s \in Opened : now < s.until /\ Acting' = [Acting EXCEPT ![q] = s.user]
      BY <2>3, <2>4
    <2> QED
      BY <1>1, <1>3, <2>4, <2>5 DEF Table!Begin, Opened, SessionOf, Acting, ActsFor
  <1>7. CASE step'[q] \notin {"inserting", "reading"}
    <2>1. ActsFor(q)' = None
      BY <1>7 DEF ActsFor
    <2> QED
      BY <1>1, <1>3, <1>4, <1>5, <2>1, UnseenRequest
  <1> QED
    BY <1>6, <1>7

\* A token is a session, opened with the email and the password of its account.
LEMMA AuthenticateRefines ==
  ASSUME SessionsInv, NEW q \in Requests, Authenticate(q)
  PROVE  Table!OpenSession \/ UNCHANGED Table!vars
  <1>1. /\ AccountsTypeOK /\ step[q] = "checking" /\ token[q] = None
        /\ UNCHANGED <<users, now, form, session>>
    BY DEF Authenticate, ButUsers, SessionsInv, AccountsInv, TokenReady
  <1>2. \A r \in Requests \ {q} : step'[r] = step[r] /\ token'[r] = token[r]
    BY <1>1 DEF Authenticate, Answer, AccountsTypeOK
  <1>3. \A r \in Requests : ActsFor(r)' = ActsFor(r)
    <2>1. \A r \in Requests \ {q} : ActsFor(r)' = ActsFor(r)
      BY <1>1, <1>2, OthersAct
    <2>2. step'[q] \in {"in", "signed", "refused"}
      BY <1>1 DEF Authenticate, Answer, AccountsTypeOK
    <2>3. ActsFor(q) = None /\ ActsFor(q)' = None
      BY <1>1, <2>2 DEF ActsFor
    <2> QED
      BY <2>1, <2>3
  <1>4. ASSUME NEW i \in DOMAIN users, Matches(form[q], i),
               token' = [token EXCEPT ![q] = TokenFor(q, i)]
        PROVE  Table!OpenSession
    <2>1. token'[q] = TokenFor(q, i) /\ TokenFor(q, i) # None
      <3>1. cfg[server[q]].secret \in Secrets
        <4>1. server[q] \in Servers /\ server[q] # None
          BY <1>1, StartupAssumption
             DEF SessionsInv, AccountsInv, RequestsReady, Ready, InFlight
        <4> QED
          BY <4>1 DEF SessionsInv, AccountsInv, RequestsReady, Ready, Config
      <3>2. users[i].role \in {"admin", "reseller"} /\ i \in Nat \ {0}
        <4>1. users \in Seq(UserRow)
          BY <1>1 DEF AccountsTypeOK, StartupTypeOK
        <4>2. users[i] \in UserRow /\ i \in Nat \ {0}
          BY <4>1
        <4> QED
          BY <4>2 DEF UserRow
      <3>3. WholeSeconds(now + Lifetime) \in Int
        BY <1>1, RoundedDown, AccountsAssumption DEF AccountsTypeOK
      <3>4. TokenFor(q, i) \in Token
        BY <3>1, <3>2, <3>3 DEF TokenFor, Token
      <3> QED
        BY <1>1, <1>4, <3>4, AccountsAssumption DEF AccountsTypeOK
    <2>2. Signed' = Signed \union {q} /\ q \notin Signed
      BY <1>1, <1>2, <2>1 DEF Signed
    <2>3. \A r \in Signed : SessionOf(r)' = SessionOf(r)
      BY <1>1, <1>2, <2>2 DEF SessionOf, Signed
    <2>4. Opened' = Opened \union {SessionOf(q)'}
      BY <2>2, <2>3 DEF Opened
    <2>5. /\ users[SessionOf(q)'.user].email = SessionOf(q)'.email
          /\ users[SessionOf(q)'.user].password = SessionOf(q)'.password
          /\ SessionOf(q)'.until <= now + Lifetime
      <3>1. WholeSeconds(now + Lifetime) <= now + Lifetime
        BY <1>1, RoundedDown, AccountsAssumption DEF AccountsTypeOK
      <3> QED
        BY <1>1, <1>4, <2>1, <3>1 DEF SessionOf, TokenFor, Matches
    <2>6. \E s \in Opened' : /\ Opened' = Opened \union {s}
                             /\ users[s.user].email = s.email
                             /\ users[s.user].password = s.password
                             /\ s.until <= now + Lifetime
      BY <2>4, <2>5
    <2>7. Acting' = Acting
      BY <1>3 DEF Acting
    <2> QED
      BY <1>1, <2>6, <2>7 DEF Table!OpenSession, Opened, SessionOf, Acting, ActsFor
  <1>5. CASE UNCHANGED token
    <2>1. Opened' = Opened
      BY <1>1, <1>5, OpenedStays
    <2> QED
      BY <1>1, <1>3, <2>1, UnseenRequest
  <1> QED
    BY <1>4, <1>5 DEF Authenticate

\* The steps that end a request, or only set a date.
LEMMA AnswerRefines ==
  ASSUME SessionsInv, NEW q \in Requests,
         SetCookie(q) \/ Logout(q) \/ InsertReseller(q) \/ ReadMe(q)
  PROVE  Table!End(q) \/ UNCHANGED Table!vars
  <1>1. /\ AccountsTypeOK /\ UNCHANGED <<now, form, session, token>>
    BY DEF SetCookie, Logout, InsertReseller, ReadMe, ButUsers, SessionsInv, AccountsInv
  <1>2. \A r \in Requests \ {q} : step'[r] = step[r]
    BY <1>1 DEF SetCookie, Logout, InsertReseller, ReadMe, Answer, AccountsTypeOK
  <1>3. Opened' = Opened /\ \A r \in Requests \ {q} : ActsFor(r)' = ActsFor(r)
    BY <1>1, <1>2, OpenedStays, OthersAct
  <1>4. ActsFor(q)' = None
    <2>1. step'[q] \in {"in", "out", "created", "failed", "duplicate", "ok", "not_found"}
      BY <1>1 DEF SetCookie, Logout, InsertReseller, ReadMe, Answer, AccountsTypeOK
    <2> QED
      BY <2>1 DEF ActsFor
  <1>5. CASE SetCookie(q) \/ Logout(q)
    <2>1. UNCHANGED users /\ ActsFor(q) = None
      BY <1>5 DEF SetCookie, Logout, startupVars, ActsFor
    <2> QED
      BY <1>1, <1>3, <1>4, <2>1, UnseenRequest
  <1>6. CASE InsertReseller(q) \/ ReadMe(q)
    <2>1. step[q] \in {"inserting", "reading"} /\ (InsertReseller(q) => step[q] = "inserting")
      BY <1>6 DEF InsertReseller, ReadMe
    <2>2. /\ ActsFor(q) # None /\ ActsFor(q) = token[session[q]].user
          /\ users[ActsFor(q)].role = token[session[q]].role
      BY <2>1, ActorIsSomebody
    <2>3. \/ UNCHANGED users
          \/ users[ActsFor(q)].role = "admin" /\ Table!NewAccount("reseller", ActsFor(q))
      <3> SUFFICES ASSUME users' # users
                   PROVE  /\ users[ActsFor(q)].role = "admin"
                          /\ Table!NewAccount("reseller", ActsFor(q))
        OBVIOUS
      <3>1. InsertReseller(q) /\ Inserts(NewReseller(q))
        BY <1>6, RequestRows DEF Handle, SessionsInv
      <3>2. users[ActsFor(q)].role = "admin"
        BY <2>1, <2>2, <3>1 DEF SessionsInv, TokenReady
      <3>3. Table!NewAccount(NewReseller(q).role, NewReseller(q).creator)
        BY <3>1, InsertRefines DEF SessionsInv
      <3>4. NewReseller(q).role = "reseller" /\ NewReseller(q).creator = ActsFor(q)
        BY <2>2 DEF NewReseller
      <3> QED
        BY <3>2, <3>3, <3>4
    <2>4. Acting[q] = ActsFor(q) /\ Acting' = [Acting EXCEPT ![q] = None]
      BY <1>3, <1>4 DEF Acting
    <2>5. /\ Acting[q] # None
          /\ \/ UNCHANGED users
             \/ users[Acting[q]].role = "admin" /\ Table!NewAccount("reseller", Acting[q])
      BY <2>2, <2>3, <2>4
    <2> QED
      BY <1>1, <1>3, <2>4, <2>5
         DEF Table!End, Opened, SessionOf, Acting, ActsFor
  <1> QED
    BY <1>5, <1>6

\* A crash ends the requests of its process, and no session.
LEMMA CrashRefines ==
  ASSUME SessionsInv, NEW p \in Servers, Crash(p)
  PROVE  Table!EndSome
  <1> DEFINE Q == {q \in Requests : server[q] = p /\ step[q] \in InFlight}
  <1>1. /\ UNCHANGED <<users, now, form, session, token>>
        /\ step' = [q \in Requests |-> IF q \in Q THEN "no_reply" ELSE step[q]]
    BY DEF Crash
  <1>2. Opened' = Opened
    BY <1>1, OpenedStays
  <1>3. Acting' = [q \in Requests |-> IF q \in Q THEN None ELSE Acting[q]]
    BY <1>1 DEF Acting, ActsFor
  <1>4. Q \in SUBSET Requests
    OBVIOUS
  <1> HIDE DEF Q
  <1> QED
    BY <1>1, <1>2, <1>3, <1>4 DEF Table!EndSome, Opened, SessionOf, Acting, ActsFor

\* Every step is a step of the abstract specification or none.
LEMMA SessionsRefine ==
  ASSUME SessionsInv, [Next]_vars
  PROVE  [Table!Next]_(Table!vars)
  <1>1. CASE UNCHANGED vars
    <2>1. Opened' = Opened /\ \A q \in Requests : ActsFor(q)' = ActsFor(q)
      BY <1>1, OpenedStays DEF vars, requestVars, ActsFor
    <2> QED
      BY <1>1, <2>1, UnseenRequest DEF vars, startupVars
  <1>2. CASE (StartStep \/ EditEnv) /\ UNCHANGED <<now, requestVars>>
    BY <1>2, StartRefines DEF Table!Next
  <1>3. ASSUME NEW q \in Requests, Handle(q)
        PROVE  [Table!Next]_(Table!vars)
    BY <1>3, ReceiveRefines, AuthenticateRefines, AnswerRefines DEF Handle, Table!Next
  <1>4. ASSUME NEW p \in Servers, Crash(p)
        PROVE  [Table!Next]_(Table!vars)
    BY <1>4, CrashRefines DEF Table!Next
  <1>5. CASE Tick
    <2>1. /\ UNCHANGED <<startupVars, requestVars>> /\ now' = now + 1
      BY <1>5 DEF Tick
    <2>2. Opened' = Opened /\ \A q \in Requests : ActsFor(q)' = ActsFor(q)
      BY <2>1, OpenedStays DEF requestVars, ActsFor
    <2>3. Acting' = Acting
      BY <2>2 DEF Acting
    <2>4. Table!Tick
      BY <2>1, <2>2, <2>3 DEF Table!Tick, Opened, SessionOf, Acting, ActsFor, startupVars
    <2> QED
      BY <2>4 DEF Table!Next
  <1> QED
    BY <1>1, <1>2, <1>3, <1>4, <1>5 DEF Next

\* Tokens that no process remembers amount to a table of sessions: whoever
\* creates a reseller is an administrator who gave that account's password no
\* more than 24 hours before, and no email ever has two accounts.
THEOREM AccountsImplementSessions == Spec => ImplementsSessions
  <1>1. Init => Table!Init
    BY InitSessionsRefines
  <1>2. SessionsInv /\ [Next]_vars => [Table!Next]_(Table!vars)
    BY SessionsRefine
  <1> QED
    BY <1>1, <1>2, SessionsInvariant, PTL DEF Spec, ImplementsSessions, Table!Spec
=============================================================================
