------------------------------ MODULE Sessions ------------------------------
(***************************************************************************)
(* What the accounts of RouteVPN promise, as if the server kept a table of *)
(* sessions: a session is opened with an account's email and password and  *)
(* ends Lifetime later at the latest; whoever acts has a session that has  *)
(* not ended; only an administrator opens accounts, after the first one.   *)
(***************************************************************************)
EXTENDS Integers, Sequences

CONSTANTS Requests, Lifetime, None

VARIABLES
  users,      \* the accounts
  sessions,   \* sessions opened so far
  acting,     \* for each request, the account it acts for
  now         \* the clock

vars == <<users, sessions, acting, now>>

Init ==
  /\ \A i, j \in DOMAIN users : users[i].email = users[j].email => i = j
  /\ sessions = {}
  /\ acting = [q \in Requests |-> None]
  /\ now = 0

\* One account is added, under an email that nobody has.
NewAccount(role, creator) ==
  /\ Len(users') = Len(users) + 1
  /\ LET row == users'[Len(users')]
     IN  /\ users' = Append(users, row)
         /\ \A i \in DOMAIN users : users[i].email # row.email
         /\ row.role = role /\ row.creator = creator

FirstAdministrator ==
  /\ \A i \in DOMAIN users : users[i].role # "admin"
  /\ NewAccount("admin", None)
  /\ UNCHANGED <<sessions, acting, now>>

OpenSession ==
  /\ \E s \in sessions' :
       /\ sessions' = sessions \union {s}
       /\ users[s.user].email = s.email
       /\ users[s.user].password = s.password
       /\ s.until <= now + Lifetime
  /\ UNCHANGED <<users, acting, now>>

Begin(q) ==
  /\ acting[q] = None
  /\ \E s \in sessions : now < s.until /\ acting' = [acting EXCEPT ![q] = s.user]
  /\ UNCHANGED <<users, sessions, now>>

\* Only an administrator's request opens an account, at most one, and signs it.
End(q) ==
  /\ acting[q] # None
  /\ acting' = [acting EXCEPT ![q] = None]
  /\ \/ UNCHANGED users
     \/ users[acting[q]].role = "admin" /\ NewAccount("reseller", acting[q])
  /\ UNCHANGED <<sessions, now>>

\* All the requests of a process that ends.
EndSome ==
  /\ \E Q \in SUBSET Requests :
       acting' = [q \in Requests |-> IF q \in Q THEN None ELSE acting[q]]
  /\ UNCHANGED <<users, sessions, now>>

Tick == now' = now + 1 /\ UNCHANGED <<users, sessions, acting>>

Next ==
  \/ FirstAdministrator \/ OpenSession
  \/ \E q \in Requests : Begin(q) \/ End(q)
  \/ EndSome \/ Tick

Spec == Init /\ [][Next]_vars
============================================================================
