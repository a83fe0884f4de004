----------------------------- MODULE Reselling -----------------------------
(***************************************************************************)
(* What RouteVPN promises, without locks, transactions, processes or       *)
(* failures: purchases, top-ups and the end of a subscription happen each  *)
(* in one step, at the balance and on the rows of that instant.  RouteVPN  *)
(* implements this module.                                                 *)
(***************************************************************************)
EXTENDS Integers

CONSTANTS Resellers, Packages, Orders, Address, Amount, None

VARIABLES
  balance,    \* of every reseller
  credited, debited,
  packages,   \* on sale
  peers,      \* sold
  quotes,     \* what a buyer has been quoted and may still accept
  now

vars == <<balance, credited, debited, packages, peers, quotes, now>>

Quote == [owner : Resellers, package : Packages, price : Int, days : Int]

Sold == {o \in Orders : peers[o] # None}

\* A buyer is quoted the price and the days of a package on sale.
GetQuote(o) ==
  /\ o \notin Sold
  /\ quotes[o] = None
  /\ \E u \in Resellers, p \in Packages :
       /\ packages[p] # None
       /\ quotes' = [quotes EXCEPT ![o] =
            [owner |-> u, package |-> p,
             price |-> packages[p].price, days |-> packages[p].days]]
  /\ UNCHANGED <<balance, credited, debited, packages, peers, now>>

\* Buyers may be turned away for any reason, several at once.
Withdraw ==
  /\ \E S \in SUBSET Orders :
       quotes' = [o \in Orders |-> IF o \in S THEN None ELSE quotes[o]]
  /\ UNCHANGED <<balance, credited, debited, packages, peers, now>>

\* A purchase at the price quoted: the balance of this instant covers it and
\* is charged, the address is no other row's, and the days are counted from a
\* time not later than now.
Buy(o) ==
  LET q == quotes[o]
  IN  /\ q # None
      /\ o \notin Sold
      /\ packages[q.package] # None
      /\ balance[q.owner] >= q.price
      /\ balance[q.owner] - q.price \in Amount
      /\ balance' = [balance EXCEPT ![q.owner] = @ - q.price]
      /\ debited' = [debited EXCEPT ![q.owner] = @ + q.price]
      /\ \E a \in Address \ {peers[x].ip : x \in Sold}, start \in 0 .. now :
           peers' = [peers EXCEPT ![o] =
             [owner |-> q.owner, package |-> q.package, ip |-> a,
              expiry |-> start + q.days, status |-> "active"]]
      /\ quotes' = [quotes EXCEPT ![o] = None]
      /\ UNCHANGED <<credited, packages, now>>

\* A top-up adds the same amount to the balance and to the ledger.
TopUp ==
  \E u \in Resellers, amount \in Amount :
    /\ balance[u] + amount \in Amount
    /\ balance' = [balance EXCEPT ![u] = @ + amount]
    /\ credited' = [credited EXCEPT ![u] = @ + amount]
    /\ UNCHANGED <<debited, packages, peers, quotes, now>>

End(o) ==
  /\ o \in Sold
  /\ peers' = [peers EXCEPT ![o].status = "expired"]
  /\ UNCHANGED <<balance, credited, debited, packages, quotes, now>>

\* Packages come, change and go; one that was sold to anybody stays.
EditPackage(p) ==
  /\ \A x \in Packages \ {p} : packages'[x] = packages[x]
  /\ packages'[p] = None => \A o \in Sold : peers[o].package # p
  /\ UNCHANGED <<balance, credited, debited, peers, quotes, now>>

Tick ==
  /\ now' = now + 1
  /\ UNCHANGED <<balance, credited, debited, packages, peers, quotes>>

Init ==
  /\ peers = [o \in Orders |-> None]
  /\ quotes = [o \in Orders |-> None]
  /\ balance = credited
  /\ \A u \in Resellers : debited[u] = 0
  /\ now = 0

Next ==
  \/ \E o \in Orders : GetQuote(o) \/ Buy(o) \/ End(o)
  \/ Withdraw
  \/ TopUp
  \/ \E p \in Packages : EditPackage(p)
  \/ Tick

Spec == Init /\ [][Next]_vars
============================================================================
