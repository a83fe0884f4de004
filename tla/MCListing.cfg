\* Walks over lists that rows only join, and jumps to pages up to and past the width of int.
SPECIFICATION Spec
CONSTANTS
  Rows <- MCRows
  Filters = {"all", "expired"}
  PageNumbers <- MCPageNumbers
  DefaultPerPage = 2
  MaxPerPage = 3
  PerPageValues = {0, 1, 3, 4}
  WebLimit = 3
  MaxInt = 127
INVARIANTS
  WalkMissesNothing
  FullBeforeTheLast
  RepeatsAreJoins
  ListingInv
CHECK_DEADLOCK FALSE
