----------------------------- MODULE MCAccounts -----------------------------
(* Values for the constants of Accounts. *)
EXTENDS Accounts, TLC

CONSTANTS admin, alice, bob, pw1, pw2, blank, long, s1, s2, weak, p1

Env(secret, password, port) ==
  [email |-> admin, password |-> password, secret |-> secret, port |-> port, keys |-> TRUE]

MCEnvironments ==
  <<Env(s1, long, 1), Env(weak, pw1, 1), Env(s1, pw1, 1), Env(s2, pw2, 2)>>

User(email, role) ==
  [email |-> email, password |-> pw1, role |-> role,
   creator |-> IF role = "admin" THEN None ELSE 1]

MCDeployments ==
  {[env |-> 1, processes |-> Servers, users |-> <<>>,
    faults |-> 0, requests |-> {}],
   [env |-> 3, processes |-> {p1},
    users |-> <<User(admin, "admin"), User(alice, "reseller")>>,
    faults |-> 2, requests |-> Requests]}

Typed(via, email, password) == [via |-> via, email |-> email, password |-> password]

MCLoginForms ==
  {Typed("api", admin, pw1), Typed("web", admin, pw1), Typed("api", alice, pw1),
   Typed("api", bob, pw1)}

MCAccountForms ==
  {Typed("api", bob, pw1), Typed("api", bob, pw2), Typed("api", bob, long),
   Typed("web", bob, blank)}

MCRequests == 1 .. 3
============================================================================
