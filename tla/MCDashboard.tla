---------------------------- MODULE MCDashboard ----------------------------
(* Values for the constants of Dashboard. *)
EXTENDS Dashboard, TLC

CONSTANTS r1, p1

MCOpeningBalance == [u \in Users |-> 4]
MCOpeningPackages == [p \in Packages |-> [price |-> 2, days |-> 1]]
OrderSymmetry == Permutations(Orders)
============================================================================
