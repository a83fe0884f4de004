----------------------------- MODULE MCRouteVPN -----------------------------
(* Values for the constants of RouteVPN. *)
EXTENDS RouteVPN, TLC

CONSTANTS r1, r2, a1, p1, p2

\* Every reseller can pay for two peers of the ordinary package.
MCOpeningBalance == [u \in Users |-> IF u \in Resellers THEN 4 ELSE 0]

\* p1 is an ordinary package; p2 can be created.
MCOpeningPackages ==
  [p \in Packages |-> IF p = p1 THEN [price |-> 2, days |-> 1] ELSE None]

\* No number, a price to round, one that NUMERIC(12,2) cannot hold, and a
\* negative one that the web form takes.
MCPriceInputs == {None, 15, 60, -20}

OrderSymmetry == Permutations(Orders)
TicketSymmetry == OrderSymmetry \union Permutations(TopUps) \union Permutations(Edits)
=============================================================================
