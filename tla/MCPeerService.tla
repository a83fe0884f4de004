--------------------------- MODULE MCPeerService ---------------------------
(* Values for the constants of PeerService. *)
EXTENDS PeerService, TLC

CONSTANTS r1, r2, a1, p1, p2

\* r1 can pay twice, r2 once.
MCOpeningBalance == [u \in Users |-> IF u = r1 THEN 4 ELSE IF u = r2 THEN 2 ELSE 0]

\* p1 is an ordinary package; p2 does not exist.
MCOpeningPackages ==
  [p \in Packages |-> IF p = p1 THEN [price |-> 2, days |-> 1] ELSE None]

OrderSymmetry == Permutations(Orders)
============================================================================
