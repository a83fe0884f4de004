----------------------------- MODULE Dashboard -----------------------------
(***************************************************************************)
(* The statistics pages: AdminStats, AdminGetReseller and ResellerStats of *)
(* api/handlers.go and the two Dashboard handlers of internal/handlers.    *)
(* Each figure comes from a SELECT of its own, with no transaction around  *)
(* them, so purchases, top-ups and the worker go on between two figures of *)
(* one page.                                                               *)
(***************************************************************************)
EXTENDS RouteVPN, Sequences

CONSTANT Pages   \* requests for pages

VARIABLES
  page,    \* which page each request is for, and about whom
  shown    \* the figures it has read, in order

dashboardVars == <<page, shown>>
allVars == <<vars, dashboardVars>>

\* Mutant of Figures: the sums before their parts.
FiguresReversed(kind) ==
  CASE kind = "admin"    -> <<"active", "expired", "total", "revenue", "credits">>
    [] kind = "detail"   -> <<"revenue", "total", "balance">>
    [] kind = "reseller" -> <<"revenue", "total", "active", "balance">>

\* The figures of a page, in the order in which its handler selects them.  The
\* web pages read the same ones in the same order, less some of the admin's.
Figures(kind) ==
  CASE kind = "admin"    -> <<"total", "active", "expired", "revenue", "credits">>
    [] kind = "detail"   -> <<"balance", "total", "revenue">>
    [] kind = "reseller" -> <<"balance", "total", "active", "revenue">>

\* The administrator's page is about everybody (None); a reseller's own page
\* and the detail that an administrator asks for are about one.
Views == [kind : {"admin"}, of : {None}]
         \union [kind : {"reseller", "detail"}, of : Resellers]

Mine(v) == IF v = None THEN Users ELSE {v}

PeersOf(v) == {o \in Committed : peers[o].owner \in Mine(v)}

Total(column, v) == MapThenSumSet(LAMBDA u : column[u], Mine(v))

Figure(f, v) ==
  CASE f = "total"   -> Cardinality(PeersOf(v))
    [] f = "active"  -> Cardinality({o \in PeersOf(v) : peers[o].status = "active"})
    [] f = "expired" -> Cardinality({o \in PeersOf(v) : peers[o].status = "expired"})
    [] f = "revenue" -> Total(debited, v)
    [] f = "credits" -> Total(credited, v)
    [] f = "balance" -> Total(balance, v)

DashboardInit ==
  /\ Init
  /\ page = [g \in Pages |-> None]
  /\ shown = [g \in Pages |-> <<>>]

OpenPage(g) ==
  /\ phase = "serving"
  /\ page[g] = None
  /\ \E v \in Views : page' = [page EXCEPT ![g] = v]
  /\ UNCHANGED <<vars, shown>>

\* db.Get of the next figure, on any connection of the pool.  An error is
\* ignored and the figure stays 0, but for the row of a detail: without it the
\* reseller is "not found".
ReadFigure(g) ==
  LET figures == Figures(page[g].kind)
      n == Len(shown[g]) + 1
      reseller == page[g].kind = "detail" /\ n = 1
  IN  /\ HandlersRun
      /\ page[g] # None
      /\ n <= Len(figures)
      /\ \/ /\ PoolFree
            /\ shown' = [shown EXCEPT ![g] = Append(@, Figure(figures[n], page[g].of))]
            /\ UNCHANGED <<faults, page>>
         \/ /\ Fault("statement")
            /\ IF reseller THEN page' = [page EXCEPT ![g] = None] /\ UNCHANGED shown
               ELSE shown' = [shown EXCEPT ![g] = Append(@, 0)] /\ UNCHANGED page
      /\ UNCHANGED <<tableVars, txVars, iface, now, requestVars, workerVars, phase>>

DashboardNext ==
  \/ Next /\ UNCHANGED dashboardVars
  \/ \E g \in Pages : OpenPage(g) \/ ReadFigure(g)

DashboardSpec == DashboardInit /\ [][DashboardNext]_allVars

----------------------------------------------------------------------------
(* Properties: what a page shows although its figures are of several       *)
(* instants, and no statement failed.                                      *)

\* The value of a figure, when the page has read it.
Shows(g, f) ==
  LET figures == Figures(page[g].kind)
  IN  shown[g][CHOOSE i \in DOMAIN figures : figures[i] = f]

Complete(g, kinds) ==
  /\ page[g] # None
  /\ page[g].kind \in kinds
  /\ Len(shown[g]) = Len(Figures(page[g].kind))

\* No peer is missing from an administrator's page: the total counts none that
\* neither "active" nor "expired" counts.  A peer that expires between the two
\* is counted twice, never dropped.
NoPeerDropped ==
  \A g \in Pages :
    Complete(g, {"admin"}) /\ faults = 0 =>
      Shows(g, "total") <= Shows(g, "active") + Shows(g, "expired")

\* What figure i of the administrator's page g is, or would be if it were read
\* now.
Counted(g, i) ==
  IF page[g] # None /\ i \in DOMAIN shown[g] THEN shown[g][i]
  ELSE Figure(Figures("admin")[i], None)

IsSequence(s) == s \in Seq({s[i] : i \in DOMAIN s})

PageReady(g) ==
  /\ IsSequence(shown[g])
  /\ page[g] = None => shown[g] = <<>>
  /\ page[g] # None => Len(shown[g]) <= Len(Figures(page[g].kind))
  /\ page[g] # None /\ page[g].kind = "admin" /\ faults = 0 =>
       /\ \A i \in 1 .. 3 : Counted(g, i) \in Nat
       /\ Counted(g, 1) <= Counted(g, 2) + Counted(g, 3)

\* The inductive form of NoPeerDropped: the counts that have been read and those
\* that are still to be read drop no peer.
DashboardInv ==
  /\ ServiceInv
  /\ page \in [Pages -> Views \union {None}]
  /\ DOMAIN shown = Pages
  /\ \A g \in Pages : PageReady(g)

\* No money is missing from a page about a reseller, its own or the detail that
\* an administrator sees: balance and total spent account for all that was
\* credited when the page was opened.
NoMoneyDropped ==
  \A g \in Pages :
    Complete(g, {"reseller", "detail"}) /\ faults = 0 =>
      Shows(g, "balance") + Shows(g, "revenue") >= OpeningBalance[page[g].of]

\* No administrator has given a package a negative price: the API refuses one, the
\* web form does not, and a purchase at such a price pays the buyer.
NoNegativePrice ==
  /\ \A p \in Packages : OpeningPackages[p] # None => OpeningPackages[p].price >= 0
  /\ \A m \in PriceInputs : m # None => m >= 0

\* Then no order is ever quoted one.
PricesInv ==
  NoNegativePrice =>
    /\ \A p \in Packages : packages[p] # None => packages[p].price >= 0
    /\ \A e \in Edits : edit[e] # "new" => form[e].price \in PriceInputs \union {None}
    /\ \A o \in Orders : step[o] # "new" => tx[o].price >= 0

\* What figure i of page g is, or would be if it were read now from the column.
Told(g, i, column) == IF i \in DOMAIN shown[g] THEN shown[g][i] ELSE column[page[g].of]

Had(g)   == Told(g, 1, balance)
Spent(g) == Told(g, Len(Figures(page[g].kind)), debited)

MoneyReady(g) ==
  page[g] # None /\ page[g].kind \in {"reseller", "detail"} /\ faults = 0 =>
    /\ Had(g) \in Int /\ Spent(g) \in Int
    /\ Had(g) + Spent(g) >= OpeningBalance[page[g].of]

\* The inductive form of NoMoneyDropped: the balance is read first, and what is
\* spent after that shows in the total that is still to be read.
MoneyShownInv ==
  /\ DashboardInv
  /\ PricesInv
  /\ \A u \in Resellers : credited[u] >= OpeningBalance[u]
  /\ NoNegativePrice => \A g \in Pages : MoneyReady(g)
============================================================================
