------------------------------ MODULE Listing ------------------------------
(***************************************************************************)
(* The paginated lists of api/handlers.go (AdminListPeers,                 *)
(* ResellerListPeers, AdminListTransactions, ResellerListTransactions and  *)
(* AdminListResellers): ORDER BY created_at DESC LIMIT $1 OFFSET $2, the   *)
(* offset computed from the query parameters in machine integers, after a  *)
(* SELECT COUNT of its own for the total of the answer.  The web lists are *)
(* one SELECT of the newest 100 rows, or of all.                           *)
(*                                                                         *)
(* A client walks a list page by page until a page comes back short.       *)
(* Meanwhile rows are inserted and peers expire.  created_at is the start  *)
(* of the inserting transaction, so rows can appear in any order.  No two  *)
(* rows have the same: the order of such rows is not fixed by the SELECT.  *)
(***************************************************************************)
EXTENDS Integers, Sequences, FiniteSets, SequencesExt

CONSTANTS
  Rows,             \* rows by their created_at: a larger number is later
  Filters,          \* values of ?status= the client may use
  PageNumbers,      \* values of ?page= a client may ask for out of order
  DefaultPerPage,   \* 25
  MaxPerPage,       \* 100
  PerPageValues,    \* values of ?per_page=
  WebLimit,         \* 100, of the web lists that have a LIMIT
  MaxInt            \* the largest int, 2^63 - 1

ASSUME ListingAssumption ==
  /\ Rows \subseteq Nat
  /\ Filters \subseteq {"all", "active", "expired"}
  /\ PageNumbers \subseteq Int /\ PerPageValues \subseteq Int
  /\ MaxPerPage \in Nat /\ DefaultPerPage \in 1 .. MaxPerPage /\ WebLimit \in Nat
  /\ MaxInt \in Nat \ {0}

\* A table of PostgreSQL holds fewer rows than int counts.
ASSUME FewRows == IsFiniteSet(Rows) /\ Cardinality(Rows) < MaxInt

VARIABLES
  status,    \* of the rows inserted so far, "absent" for the others
  query,     \* the filter and the per_page of the client's walk
  next,      \* the page the walk asks for next, 0 when it is over
  asked,     \* the request in its handler: page, per_page, total; page 0: none
  seen,      \* rows the walk was shown
  shown,     \* how many rows that were, each as often as it was shown
  owed,      \* rows that matched when the walk began
  reply      \* the last answer: page, size, total, error and rows

vars == <<status, query, next, asked, seen, shown, owed, reply>>

----------------------------------------------------------------------------
(* parsePagination and the offset. *)

\* Two's complement.
Wrap(n) == ((n + MaxInt + 1) % (2 * (MaxInt + 1))) - MaxInt - 1

\* strconv.Atoi returns the nearest int and an error that is dropped.
Atoi(n) == IF n > MaxInt THEN MaxInt ELSE IF n < -MaxInt - 1 THEN -MaxInt - 1 ELSE n

Page(n) == IF Atoi(n) < 1 THEN 1 ELSE Atoi(n)

PerPage(n) == IF Atoi(n) < 1 \/ Atoi(n) > MaxPerPage THEN DefaultPerPage ELSE Atoi(n)

\* Mutant of Offset: pages counted from 0.
OffsetFromZero(page, perPage) == Wrap(page * perPage)

Offset(page, perPage) == Wrap((page - 1) * perPage)

----------------------------------------------------------------------------
(* The SELECT. *)

Present == {r \in Rows : status[r] # "absent"}

Matching(filter) ==
  {r \in Present : filter = "all" \/ status[r] = filter}

\* The rows of S in the order of before.
Ordered(S, before(_, _)) ==
  CHOOSE s \in SetToSeqs(S) : \A i, j \in DOMAIN s : i < j => before(s[i], s[j])

\* Mutant of Newest: ORDER BY status, created_at DESC.
ByStatus(S) ==
  Ordered(S, LAMBDA a, b : IF status[a] = status[b] THEN a > b ELSE status[a] = "active")

Newest(S) == Ordered(S, LAMBDA a, b : a > b)

Least(a, b) == IF a <= b THEN a ELSE b

\* Mutant of Counted: the clauses are added to one of the two queries only.
CountedUnfiltered == Cardinality(Present)

Counted == Cardinality(Matching(query.filter))

\* One page; PostgreSQL refuses a negative OFFSET and the handler answers 500.
Select(request) ==
  LET rows == Newest(Matching(query.filter))
      offset == Offset(request.page, request.perPage)
  IN  [page |-> request.page, perPage |-> request.perPage,
       total |-> request.total, error |-> IF offset < 0 THEN "refused" ELSE "none",
       rows |-> IF offset < 0 THEN <<>>
                ELSE SubSeq(rows, offset + 1, Least(Len(rows), offset + request.perPage))]

----------------------------------------------------------------------------

Idle == [page |-> 0, perPage |-> 0, total |-> 0]

NoReply == [page |-> 0, perPage |-> 0, total |-> 0, error |-> "none", rows |-> <<>>]

Init ==
  /\ status \in [Rows -> {"absent", "active", "expired"}]
  /\ query \in [filter : Filters, perPage : {PerPage(n) : n \in PerPageValues}]
  /\ next = 1
  /\ asked = Idle
  /\ seen = {}
  /\ shown = 0
  /\ owed = Matching(query.filter)
  /\ reply = NoReply

Insert(r) ==
  /\ status[r] = "absent"
  /\ status' = [status EXCEPT ![r] = "active"]
  /\ UNCHANGED <<query, next, asked, seen, shown, owed, reply>>

Expire(r) ==
  /\ status[r] = "active"
  /\ status' = [status EXCEPT ![r] = "expired"]
  /\ UNCHANGED <<query, next, asked, seen, shown, owed, reply>>

\* SELECT COUNT(*); its error is ignored, and the total is then 0.
Ask(page) ==
  /\ asked = Idle
  /\ \E total \in {Counted, 0} :
       asked' = [page |-> page, perPage |-> query.perPage, total |-> total]

\* The walk asks for its next page.
AskNext ==
  /\ next > 0
  /\ Ask(Page(next))
  /\ UNCHANGED <<status, query, next, seen, shown, owed, reply>>

\* A client asks for a page by its number.
JumpTo(n) ==
  /\ next = 1
  /\ Ask(Page(n))
  /\ next' = 0
  /\ owed' = {}
  /\ UNCHANGED <<status, query, seen, shown, reply>>

\* SELECT of the rows, and the answer.
ReadPage ==
  LET answer == Select(asked)
  IN  /\ asked # Idle
      /\ asked' = Idle
      /\ reply' = answer
      /\ seen' = seen \union ToSet(answer.rows)
      /\ shown' = shown + Len(answer.rows)
      /\ next' = IF next = 0 \/ Len(answer.rows) < query.perPage THEN 0 ELSE next + 1
      /\ UNCHANGED <<status, query, owed>>

\* The SELECT of the rows fails, and the answer is 500: the walk asks again.
ReadFails ==
  /\ asked # Idle
  /\ asked' = Idle
  /\ reply' = [Select(asked) EXCEPT !.error = "failed", !.rows = <<>>]
  /\ UNCHANGED <<status, query, next, seen, shown, owed>>

\* The list of resellers and that of a reseller's peers have no LIMIT and no filter.
WebLimits ==
  IF query.filter = "all" THEN {WebLimit, Cardinality(Rows)} ELSE {WebLimit}

\* A web page shows the newest rows and no total.  The error of its SELECT is
\* ignored: the page then shows the rows that came before it.
OpenWebList ==
  /\ next = 1 /\ asked = Idle
  /\ \E limit \in WebLimits :
       LET answer == Select([page |-> 1, perPage |-> limit, total |-> 0])
       IN  \E n \in 0 .. Len(answer.rows) :
             reply' = [answer EXCEPT !.rows = SubSeq(@, 1, n)]
  /\ next' = 0
  /\ owed' = {}
  /\ UNCHANGED <<status, query, asked, seen, shown>>

Next ==
  \/ \E r \in Rows : Insert(r) \/ Expire(r)
  \/ AskNext \/ (\E n \in PageNumbers : JumpTo(n))
  \/ ReadPage \/ ReadFails
  \/ OpenWebList

Spec == Init /\ [][Next]_vars

----------------------------------------------------------------------------
(* Properties. *)

\* A walk over a list that rows only join misses none of the rows that were
\* there when it began: what is inserted meanwhile pushes rows to later pages.
\* (Rows leave ?status=active when they expire; that list is not covered.)
WalkMissesNothing ==
  next = 0 => owed \subseteq seen

\* The total and the rows are of two instants.  A page that the total says has
\* another after it is full all the same, and its offset does not wrap: a client
\* that goes on while pages are full reaches every page that the total promised.
\* (The list is not ?status=active.  A page beyond the total may be any other
\* page, once its offset wraps to a positive one.)
FullBeforeTheLast ==
  reply.page * reply.perPage < reply.total /\ reply.error # "failed"
    => reply.error = "none" /\ Len(reply.rows) = reply.perPage

\* A walk is shown a row twice only because rows joined the list meanwhile and
\* moved it to a page still to come: there are no more repetitions than such rows.
RepeatsAreJoins ==
  shown <= Cardinality(seen) + Cardinality(Matching(query.filter) \ owed)

\* The place of a row of the list, counted from the newest.
Rank(r) == Cardinality({x \in Matching(query.filter) : x >= r})

\* The places on the pages that the walk has behind it.
Behind == (next - 1) * query.perPage

\* Types, and a request of the walk asks for its next page.
ListingTypeOK ==
  /\ status \in [Rows -> {"absent", "active", "expired"}]
  /\ query \in [filter : Filters, perPage : 1 .. MaxPerPage]
  /\ next \in Nat
  /\ asked # Idle => /\ asked.page \in 1 .. MaxInt /\ asked.perPage = query.perPage
                     /\ next > 0 => asked.page = Page(next)

\* What is owed stays in the list, the pages behind the walk were full, and of
\* what is owed it has been shown what still lies on them.
WalkInv ==
  /\ owed \subseteq Matching(query.filter)
  /\ asked.total \in 0 .. Counted
  /\ next > 0 => /\ Behind <= Counted
                 /\ \A r \in owed : Rank(r) <= Behind => r \in seen
  /\ WalkMissesNothing
  /\ FullBeforeTheLast

\* Rows that the walk was shown and that pages still to come will show again.
Ahead == {r \in seen : Rank(r) > Behind}

\* The repetitions so far and those ahead are no more than the rows that joined.
RepeatsInv ==
  /\ seen \subseteq Matching(query.filter)
  /\ shown \in Nat
  /\ next = 1 \/ (next = 0 /\ asked # Idle) => seen = {} /\ shown = 0
  /\ next > 0 => shown + Cardinality(Ahead)
                   <= Cardinality(seen) + Cardinality(Matching(query.filter) \ owed)
  /\ RepeatsAreJoins

\* The inductive form of WalkMissesNothing, FullBeforeTheLast and RepeatsAreJoins,
\* for lists that rows only join: the places of rows only grow, so a walk is never
\* overtaken.
ListingInv ==
  /\ ListingTypeOK
  /\ "active" \notin Filters => WalkInv /\ RepeatsInv
============================================================================
