----------------------------- MODULE MCListing -----------------------------
(* Values for the constants of Listing. *)
EXTENDS Listing

MCRows == 1 .. 4
MCPageNumbers == {-1, 0, 2, 3, 43, 44, 87, 200}   \* MaxInt is 127
============================================================================
