------------------------------ MODULE Accounts ------------------------------
(***************************************************************************)
(* Accounts and sessions: Login, Me and AdminCreateReseller of the API,    *)
(* Login, Logout and CreateReseller of the web pages, and the middleware   *)
(* in front of them.  There is no session on the server.  What a client    *)
(* may do is in its token, which any process with the same JWT_SECRET      *)
(* accepts until it expires, after any number of restarts.                 *)
(*                                                                         *)
(* Time is counted in parts of a second, because tokens and cookies carry  *)
(* whole seconds.                                                          *)
(***************************************************************************)
EXTENDS Startup

CONSTANTS
  Requests,        \* by the order in which they arrive
  LoginForms,      \* what clients type to log in, and through which client
  AccountForms,    \* what administrators type to create a reseller
  Blank,           \* an email or a password left empty
  ShortPasswords,  \* fewer than the 6 characters the API wants
  Second,          \* parts of a second that the clock tells apart
  Lifetime,        \* 24 hours
  MaxTime          \* bound on the clock

Form == [via : {"api", "web"}, email : Emails, password : Passwords]

Token == [user : Nat \ {0}, role : {"admin", "reseller"}, secret : Secrets,
          exp : Int]

ASSUME AccountsAssumption ==
  /\ Requests \subseteq Nat
  /\ LoginForms \subseteq Form /\ AccountForms \subseteq Form
  /\ Second \in Nat \ {0} /\ Lifetime \in Nat \ {0} /\ MaxTime \in Nat
  /\ \A d \in Deployments : d.requests \subseteq Requests
  /\ None \notin Form \union Token

VARIABLES
  now,
  step,     \* where each request is in its handler, or how it was answered
  form,     \* what was typed
  server,   \* the process that serves it
  session,  \* the login whose token it was sent with
  token,    \* of a login: the claims and exp
  until,    \* of a login: expires_at of the answer, Expires of the cookie
  since     \* of a login: when it was received

requestVars == <<step, form, server, session, token, until, since>>
vars == <<startupVars, now, requestVars>>

InFlight == {"checking", "signed", "inserting", "reading"}
Answers  == {"in", "out", "refused", "created", "duplicate", "failed", "ok",
             "not_found", "invalid", "unauthorized", "forbidden", "no_reply"}

AccountsTypeOK ==
  /\ StartupTypeOK
  /\ now \in 0 .. MaxTime
  /\ step \in [Requests -> {"absent", "new"} \union InFlight \union Answers]
  /\ form \in [Requests -> Form \union {None}]
  /\ server \in [Requests -> Servers \union {None}]
  /\ session \in [Requests -> Requests \union {None}]
  /\ token \in [Requests -> Token \union {None}]
  /\ until \in [Requests -> Int]
  /\ since \in [Requests -> Int]

\* What a handler relies on: a step finds the variables that the steps before
\* it set, and a session is a login that has ended with a token.
Ready(q) ==
  /\ server[q] # None => cfg[server[q]] \in Config
  /\ step[q] \in InFlight => server[q] \in Servers
  /\ step[q] \in {"checking", "signed", "in", "out", "inserting", "created"}
       => form[q] \in Form
  /\ step[q] \in {"signed", "in", "out"} => token[q] \in Token
  /\ step[q] \in {"inserting", "reading", "created"} => session[q] \in Requests
  /\ session[q] # None => step[session[q]] \in {"in", "out"}

RequestsReady ==
  /\ \A p \in Servers : main[p] \in Starting \union {"serving"} => cfg[p] \in Config
  /\ \A q \in Requests : Ready(q)

\* Every process has the ADMIN_EMAIL that the administrator's row has.
OneEmail ==
  /\ Seeded(users)
  /\ \A p \in Servers : cfg[p] # None => cfg[p].email = AdminEmail

RequestsInit(d) ==
  /\ now = 0
  /\ step = [q \in Requests |-> IF q \in d.requests THEN "new" ELSE "absent"]
  /\ form = [q \in Requests |-> None]
  /\ server = [q \in Requests |-> None]
  /\ session = [q \in Requests |-> None]
  /\ token = [q \in Requests |-> None]
  /\ until = [q \in Requests |-> 0]
  /\ since = [q \in Requests |-> 0]

Init == \E d \in Deployments : StartupInit(d) /\ RequestsInit(d)

----------------------------------------------------------------------------
(* Logging in and out. *)

Answer(q, s) == step' = [step EXCEPT ![q] = s]

ButUsers == UNCHANGED <<env, main, cfg, schema, migrating, now>>

\* jwt.NumericDate and the dates of cookies: whole seconds, rounded down.
WholeSeconds(t) == (t \div Second) * Second

Receive(q, p, s) ==
  /\ step[q] = "new"
  /\ \A r \in Requests : r < q => step[r] # "new"
  /\ main[p] = "serving"
  /\ server' = [server EXCEPT ![q] = p]
  /\ Answer(q, s)
  /\ UNCHANGED <<startupVars, now, token, until>>

\* The API wants both fields; the web form takes what it gets.
ReceiveLogin(q, p) ==
  \E f \in LoginForms :
    /\ Receive(q, p, IF f.via = "api" /\ Blank \in {f.email, f.password}
                     THEN "invalid" ELSE "checking")
    /\ form' = [form EXCEPT ![q] = f]
    /\ since' = [since EXCEPT ![q] = now]
    /\ UNCHANGED session

\* Mutant of Matches: the hash is not compared.
MatchesEmail(f, i) == users[i].email = f.email

Matches(f, i) == users[i].email = f.email /\ users[i].password = f.password

\* Mutant of TokenFor: the id of the row is not copied.
TokenForZero(q, i) ==
  [user |-> 0, role |-> users[i].role, secret |-> cfg[server[q]].secret,
   exp |-> WholeSeconds(now + Lifetime)]

\* The claims of row i, signed by the process that serves q.
TokenFor(q, i) ==
  [user |-> i, role |-> users[i].role, secret |-> cfg[server[q]].secret,
   exp |-> WholeSeconds(now + Lifetime)]

\* AuthenticateUser and the token; the API answers with exp.  An error of the
\* SELECT is answered like a wrong password.
Authenticate(q) ==
  /\ step[q] = "checking"
  /\ \/ \E i \in DOMAIN users :
          /\ Matches(form[q], i)
          /\ token' = [token EXCEPT ![q] = TokenFor(q, i)]
          /\ Answer(q, IF form[q].via = "api" THEN "in" ELSE "signed")
          /\ until' = [until EXCEPT ![q] = TokenFor(q, i).exp]
          /\ UNCHANGED faults
     \/ /\ \A i \in DOMAIN users : ~Matches(form[q], i)
        /\ Answer(q, "refused")
        /\ UNCHANGED <<token, until, faults>>
     \/ Fault("statement") /\ Answer(q, "refused") /\ UNCHANGED <<token, until>>
  /\ ButUsers
  /\ UNCHANGED <<users, form, server, session, since>>

\* Mutant of SetCookie: a cookie for half the lifetime.
SetShortCookie(q) ==
  /\ step[q] = "signed"
  /\ until' = [until EXCEPT ![q] = WholeSeconds(now + Lifetime \div 2)]
  /\ Answer(q, "in")
  /\ UNCHANGED <<startupVars, now, form, server, session, token, since>>

\* The web handler reads the clock again for the cookie.
SetCookie(q) ==
  /\ step[q] = "signed"
  /\ until' = [until EXCEPT ![q] = WholeSeconds(now + Lifetime)]
  /\ Answer(q, "in")
  /\ UNCHANGED <<startupVars, now, form, server, session, token, since>>

\* The browser forgets its cookie; the token it held stays what it was.
Logout(q) ==
  /\ step[q] = "in"
  /\ form[q].via = "web"
  /\ \E p \in Servers : main[p] = "serving"
  /\ Answer(q, "out")
  /\ UNCHANGED <<startupVars, now, form, server, session, token, until, since>>

----------------------------------------------------------------------------
(* Requests with a session. *)

\* The client sends what it has: a browser nothing once the cookie is over.
Sent(h) == form[h].via = "api" \/ now < until[h]

\* Auth and BearerAuth: the signature and exp.
Accepted(h, p) ==
  Sent(h) /\ token[h].secret = cfg[p].secret /\ now < token[h].exp

\* The role is the token's; the users table is not asked.
RequireRole(h, role) == token[h].role = role

\* AdminCreateReseller behind BearerAuth and RequireRole; the web form behind
\* Auth and RequireRole checks no field.
ReceiveCreate(q, p) ==
  \E h \in Requests, f \in AccountForms :
    /\ step[h] = "in" /\ f.via = form[h].via
    /\ Receive(q, p,
         IF ~Accepted(h, p) THEN "unauthorized"
         ELSE IF ~RequireRole(h, "admin") THEN "forbidden"
         ELSE IF f.via = "api" /\ (f.email = Blank \/ f.password \in ShortPasswords)
              THEN "invalid"
         ELSE "inserting")
    /\ form' = [form EXCEPT ![q] = f]
    /\ session' = [session EXCEPT ![q] = h]
    /\ UNCHANGED since

NewReseller(q) == [email |-> form[q].email, password |-> form[q].password,
                   role |-> "reseller", creator |-> token[session[q]].user]

\* Mutant of InsertReseller: ON CONFLICT DO NOTHING.
InsertOrIgnore(q) ==
  /\ step[q] = "inserting"
  /\ users' = IF Taken(form[q].email) THEN users ELSE Append(users, NewReseller(q))
  /\ Answer(q, "created")
  /\ ButUsers
  /\ UNCHANGED <<faults, form, server, session, token, until, since>>

\* The hash and the INSERT; created_by references the creator's row.
InsertReseller(q) ==
  LET row == NewReseller(q)
      hashed == row.password \notin LongPasswords
      inserted == hashed /\ ~Taken(row.email) /\ row.creator \in DOMAIN users
  IN  /\ step[q] = "inserting"
      /\ \/ /\ inserted
            /\ users' = Append(users, row)
            /\ \/ Answer(q, "created") /\ UNCHANGED faults
               \/ Answer(q, "failed") /\ Fault("reply")
         \/ hashed /\ ~inserted /\ Answer(q, "duplicate") /\ UNCHANGED <<users, faults>>
         \/ ~hashed /\ Answer(q, "failed") /\ UNCHANGED <<users, faults>>
         \/ Fault("statement") /\ Answer(q, "failed") /\ UNCHANGED users
      /\ ButUsers
      /\ UNCHANGED <<form, server, session, token, until, since>>

\* GET /auth/me, for either role.
ReceiveMe(q, p) ==
  \E h \in Requests :
    /\ step[h] = "in" /\ form[h].via = "api"
    /\ Receive(q, p, IF Accepted(h, p) THEN "reading" ELSE "unauthorized")
    /\ session' = [session EXCEPT ![q] = h]
    /\ UNCHANGED <<form, since>>

\* Me reads the row of the id in the token.
ReadMe(q) ==
  /\ step[q] = "reading"
  /\ \/ /\ Answer(q, IF token[session[q]].user \in DOMAIN users THEN "ok" ELSE "not_found")
        /\ UNCHANGED faults
     \/ Fault("statement") /\ Answer(q, "not_found")
  /\ ButUsers
  /\ UNCHANGED <<users, form, server, session, token, until, since>>

----------------------------------------------------------------------------

\* The process dies, and its requests get no answer.
Crash(p) ==
  /\ main[p] = "serving"
  /\ Fault("crash")
  /\ Goto(p, "down")
  /\ step' = [q \in Requests |-> IF server[q] = p /\ step[q] \in InFlight
                                 THEN "no_reply" ELSE step[q]]
  /\ UNCHANGED <<env, cfg, schema, migrating, users, now, form, server, session,
                 token, until, since>>

Tick ==
  /\ now < MaxTime
  /\ now' = now + 1
  /\ UNCHANGED <<startupVars, requestVars>>

Handle(q) ==
  \/ \E p \in Servers : ReceiveLogin(q, p) \/ ReceiveCreate(q, p) \/ ReceiveMe(q, p)
  \/ Authenticate(q) \/ SetCookie(q) \/ Logout(q)
  \/ InsertReseller(q) \/ ReadMe(q)

Next ==
  \/ (StartStep \/ EditEnv) /\ UNCHANGED <<now, requestVars>>
  \/ \E q \in Requests : Handle(q)
  \/ \E p \in Servers : Crash(p)
  \/ Tick

\* main runs, and a process that has ended is started again.
Fairness == \A p \in Servers : WF_vars(MainStep(p) /\ UNCHANGED <<faults, now, requestVars>>)

Spec == Init /\ [][Next]_vars /\ Fairness

----------------------------------------------------------------------------
(* The abstract specification. *)

Signed == {q \in Requests : token[q] # None}

Table == INSTANCE Sessions
  WITH sessions <- {[user |-> token[q].user, email |-> form[q].email,
                     password |-> form[q].password, until |-> token[q].exp]
                      : q \in Signed},
       acting <- [q \in Requests |-> IF step[q] \in {"inserting", "reading"}
                                     THEN token[session[q]].user ELSE None]

\* Tokens that nobody keeps a list of amount to a table of sessions: whoever
\* creates a reseller was an administrator who had given its password no more
\* than a day before, whatever restarts and expires meanwhile, and the role in
\* the token is still that of the row.
ImplementsSessions == Table!Spec

----------------------------------------------------------------------------
(* Properties. *)

\* The row an administrator was told of.
CreatedRowExists ==
  \A q \in Requests : step[q] = "created" =>
    \E i \in DOMAIN users : users[i] = NewReseller(q)

\* The invariant of the proofs: OneAdministrator and CreatedMeansYours follow.
AccountsInv == AccountsTypeOK /\ RequestsReady /\ OneEmail /\ CreatedRowExists

\* A token has the id and the role of a row, which never change; it and its
\* cookie last a day from the login, less the rounding; and whoever is about to
\* insert a reseller has an administrator's.
TokenReady(q) ==
  /\ step[q] \in {"absent", "new", "checking"} => token[q] = None
  /\ token[q] # None => /\ token[q].user \in DOMAIN users
                        /\ users[token[q].user].role = token[q].role
  /\ step[q] \in {"checking", "signed"} => since[q] <= now
  /\ step[q] \in {"signed", "in", "out"} =>
       \A date \in {token[q].exp, until[q]} : date > since[q] + Lifetime - Second
  /\ step[q] = "inserting" => token[session[q]].role = "admin"

\* The inductive form of what sessions promise: ImplementsSessions and
\* ValidFor24Hours follow.
SessionsInv == AccountsInv /\ MainReady /\ \A q \in Requests : TokenReady(q)

\* An administrator who is told that the reseller was created has created it:
\* the row has the password and the creator of this request, and no other
\* row has the email, though another may have asked for it at the same time.
CreatedMeansYours ==
  \A q \in Requests : step[q] = "created" =>
    {i \in DOMAIN users : users[i].email = form[q].email}
      = {i \in DOMAIN users : users[i] = NewReseller(q)}
    /\ \E i \in DOMAIN users : users[i] = NewReseller(q)

\* API.md: a token is "valid for 24 hours".  A request sent with the session of
\* a login is turned away only when 24 hours less the rounding have passed
\* since that login was received, or when JWT_SECRET has been changed; the
\* cookie, whose date is computed later, does not end before its token, and a
\* crash or a restart ends no session.
ValidFor24Hours ==
  [][\A q \in Requests :
       step[q] = "new" /\ step'[q] = "unauthorized" =>
         LET h == session'[q]
         IN  \/ now - since[h] > Lifetime - Second
             \/ token[h].secret # cfg[server'[q]].secret]_vars
============================================================================
