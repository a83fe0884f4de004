------------------------------ MODULE RouteVPN ------------------------------
(***************************************************************************)
(* The server process of cmd/server/main.go: the handlers, each request in *)
(* its own goroutine, and the expiry worker, over one database and one     *)
(* interface.  The process can be told to stop, can crash, and is started  *)
(* again; the database and, unless the host restarts, the interface stay.  *)
(***************************************************************************)
EXTENDS PeerService, Billing, PeerAdmin, PackageAdmin, ExpiryWorker,
        FiniteSetsExt

VARIABLE phase   \* of the process: serving, draining, closing or down

requestVars == <<orderVars, billingVars, removalVars, packageVars>>
vars == <<storeVars, requestVars, workerVars, phase>>

TypeOK ==
  /\ PSTypeOK
  /\ BillingTypeOK
  /\ PeerAdminTypeOK
  /\ PackageAdminTypeOK
  /\ WorkerTypeOK
  /\ phase \in {"serving", "draining", "closing", "down"}

\* The inductive form of TypeOK.
TypeInv ==
  /\ TypeOK
  /\ OrdersReady /\ TopUpsReady /\ RemovalsReady /\ EditsReady /\ WorkerReady

Init ==
  /\ PSInit
  /\ BillingInit
  /\ PeerAdminInit
  /\ PackageAdminInit
  /\ WorkerInit
  /\ phase = "serving"

----------------------------------------------------------------------------
(* Requests: accepted while serving, finished while serving or draining. *)

ButOrders    == UNCHANGED <<billingVars, removalVars, packageVars, workerVars, phase>>
ButTopUps    == UNCHANGED <<orderVars, removalVars, packageVars, workerVars, phase>>
ButRemovals  == UNCHANGED <<orderVars, billingVars, packageVars, workerVars, phase>>
ButEdits     == UNCHANGED <<orderVars, billingVars, removalVars, workerVars, phase>>
ButTheWorker == UNCHANGED <<requestVars, phase>>

Accept ==
  /\ phase = "serving"
  /\ \/ \E o \in Orders : ReceiveOrder(o) /\ ButOrders
     \/ \E t \in TopUps : ReceiveTopUp(t) /\ ButTopUps
     \/ \E d \in Removals : ReceiveRemoval(d) /\ ButRemovals
     \/ \E e \in Edits : ReceiveEdit(e) /\ ButEdits

\* Mutant of HandlersRun: requests stop where they are when the signal comes.
HandlersStop == phase = "serving"

HandlersRun == phase \in {"serving", "draining"}

RunOrder(o)   == HandlersRun /\ (OrderStep(o) \/ OrderFailure(o)) /\ ButOrders
RunTopUp(t)   == HandlersRun /\ (TopUpStep(t) \/ TopUpFailure(t)) /\ ButTopUps
RunRemoval(d) == HandlersRun /\ RemovalStep(d) /\ ButRemovals
RunEdit(e)    == HandlersRun /\ EditStep(e) /\ ButEdits

RunWorker == phase # "down" /\ WorkerStep /\ ButTheWorker
RunTimer  == phase # "down" /\ HourPasses /\ ButTheWorker

----------------------------------------------------------------------------
(* The process. *)

NothingInFlight ==
  /\ \A o \in Orders : step[o] \notin InFlight
  /\ \A t \in TopUps : topup[t] \notin TopUpInFlight
  /\ \A d \in Removals : removal[d] \notin RemovalInFlight
  /\ \A e \in Edits : edit[e] \notin EditInFlight

\* SIGINT or SIGTERM: app.Shutdown() stops accepting and waits.
SignalStop ==
  /\ phase = "serving"
  /\ Fault("stop")
  /\ phase' = "draining"
  /\ UNCHANGED <<tableVars, txVars, iface, now, requestVars, workerVars>>

\* Shutdown returned; main's deferred w.Stop() and db.Close() run.
ShutdownReturns ==
  /\ phase = "draining"
  /\ NothingInFlight
  /\ phase' = "closing"
  /\ Stop
  /\ UNCHANGED <<storeVars, requestVars>>

\* main returns without waiting for the worker's goroutine.
Exit ==
  /\ phase = "closing"
  /\ phase' = "down"
  /\ WorkerDies
  /\ UNCHANGED <<storeVars, requestVars>>

\* No reply reaches the clients whose requests were in flight.
Cut(reached, inFlight) ==
  [r \in DOMAIN reached |-> IF reached[r] \in inFlight THEN "no_reply" ELSE reached[r]]

\* The process is killed, or the host goes down with it: the kernel then
\* forgets the peers of the interface, which no code puts back.
Crash ==
  /\ phase # "down"
  /\ \/ Fault("crash") /\ UNCHANGED iface
     \/ Fault("reboot") /\ iface' = [o \in Orders |-> None]
  /\ phase' = "down"
  /\ DropAllTxs
  /\ WorkerDies
  /\ step' = Cut(step, InFlight)
  /\ topup' = Cut(topup, TopUpInFlight)
  /\ removal' = Cut(removal, RemovalInFlight)
  /\ edit' = Cut(edit, EditInFlight)
  /\ UNCHANGED <<tableVars, now, tx, credit, removee, form, issued>>

\* main() again.  docker-compose.yml: `restart: unless-stopped`.
Restart ==
  /\ phase = "down"
  /\ phase' = "serving"
  /\ WorkerStarts
  /\ UNCHANGED <<storeVars, requestVars>>

TimePasses == Tick /\ UNCHANGED <<requestVars, workerVars, phase>>

Next ==
  \/ Accept
  \/ \E o \in Orders : RunOrder(o)
  \/ \E t \in TopUps : RunTopUp(t)
  \/ \E d \in Removals : RunRemoval(d)
  \/ \E e \in Edits : RunEdit(e)
  \/ RunWorker \/ RunTimer
  \/ TimePasses
  \/ SignalStop \/ ShutdownReturns \/ Exit \/ Crash \/ Restart

\* Goroutines are scheduled, PostgreSQL and awg answer, the timer fires, and
\* the process, once it is down, is started again.  Nothing forces a failure.
Fairness ==
  /\ \A o \in Orders : WF_vars(RunOrder(o) /\ UNCHANGED faults)
  /\ \A t \in TopUps : WF_vars(RunTopUp(t) /\ UNCHANGED faults)
  /\ \A d \in Removals : WF_vars(RunRemoval(d) /\ UNCHANGED faults)
  /\ \A e \in Edits : WF_vars(RunEdit(e) /\ UNCHANGED faults)
  /\ WF_vars(RunWorker /\ UNCHANGED faults)
  /\ WF_vars(RunTimer)
  /\ WF_vars(ShutdownReturns \/ Exit \/ Restart)

Spec == Init /\ [][Next]_vars /\ Fairness

----------------------------------------------------------------------------
(* The abstract specification: a quote lives as long as its transaction. *)

Quoted(o) == [owner |-> tx[o].owner, package |-> tx[o].package,
              price |-> tx[o].price, days |-> tx[o].days]

OfResellers(column) == [u \in Resellers |-> column[u]]

Abstract == INSTANCE Reselling
  WITH quotes <- [o \in Orders |-> IF step[o] \in InTx THEN Quoted(o) ELSE None],
       balance <- OfResellers(balance),
       credited <- OfResellers(credited),
       debited <- OfResellers(debited)

ASSUME NoneIsNoQuote == None \notin Abstract!Quote

\* Every behaviour of the server is one of the abstract specification: the
\* interleaved statements of purchases, top-ups, edits, removals and the
\* worker, with their failures, amount to atomic steps.
ImplementsReselling == Abstract!Spec

----------------------------------------------------------------------------
(* Properties: what resellers and their clients rely on. *)

\* The inductive form of BooksBalance.
BooksInv == TypeInv /\ BooksBalance /\ DebitsHeld /\ CreditsHeld

\* Transactions that Beginx has returned and that nothing has ended.
Open == {o \in Orders : step[o] \in InTx}
        \union {t \in TopUps : topup[t] \in {"begun", "credited"}}

\* The statement that t has sent returns only when x ends: x has locked the row
\* of users that it asks for, or has inserted its address and not committed.
WaitsFor(t, x) ==
  /\ Alive(t)
  /\ \/ /\ t \in Orders /\ step[t] = "quoted"
        /\ rowLock[tx[t].owner] = x
     \/ /\ t \in TopUps /\ topup[t] = "begun" /\ credit[t].target \in Resellers
        /\ rowLock[credit[t].target] = x
     \/ /\ t \in Orders /\ step[t] = "allocated" /\ x \in Orders \ {t}
        /\ uncommitted[x] # None /\ uncommitted[x].ip = tx[t].ip

WaitsForNobody(t) == \A x \in Txs : ~WaitsFor(t, x)

\* Nobody waits in a circle: whoever waits for a lock or for an address waits
\* for an open transaction that waits for nobody, or that itself waits only for
\* such ones.  CreatePeer takes the row of users before it inserts an address,
\* and a top-up takes one row.
NoCircularWait ==
  \A t, x \in Txs :
    WaitsFor(t, x) =>
      /\ x \in Open
      /\ \A y \in Txs : WaitsFor(x, y) => y \in Open /\ WaitsForNobody(y)

\* When no connection is free, one of those that hold them is an open transaction
\* that waits for nobody, and will give its connection back.
PoolNeverStuck == ~PoolFree => \E t \in conns : t \in Open /\ WaitsForNobody(t)

\* t has written the balance of u in a transaction that has not ended.
HasWritten(t, u) ==
  \/ t \in Orders /\ step[t] \in HasDebited /\ tx[t].owner = u
  \/ t \in TopUps /\ topup[t] = "credited" /\ credit[t].target = u

\* What both need: connections and row locks are held by open transactions, and
\* a lock by one that has written the row.
LocksInv ==
  /\ conns = Open
  /\ \A u \in Users :
       rowLock[u] # None => Alive(rowLock[u]) /\ HasWritten(rowLock[u], u)

\* A peer that was paid for, has not reached its expiry date and was not
\* removed by an administrator is on the interface with its own address: no
\* other order, rolled back or not, and no worker run takes it away.
PaidPeerServed ==
  \A o \in Committed :
    (peers[o].status = "active" /\ peers[o].expiry >= now
       /\ \A d \in Removals : removee[d] # o)
    => iface[o] = peers[o].ip

\* A peer whose row says expired is not on the interface: the worker and the
\* administrator take it off before they say so, and no order that is still
\* running puts it back.
ExpiredOffInterface ==
  \A o \in Committed : peers[o].status = "expired" => iface[o] = None

\* A committed peer that is off the interface stays off, and a row never
\* changes except from active to expired.
NoResurrection ==
  [][\A o \in Committed :
       /\ iface[o] = None => iface'[o] = None
       /\ \/ peers'[o] = peers[o]
          \/ peers'[o] = [peers[o] EXCEPT !.status = "expired"]]_vars

\* The worker takes a row for expired only after its expiry date.
WorkerIsLate ==
  /\ \A o \in batch : peers[o].expiry < now
  /\ worker = "update" => peers[current].expiry < now

\* What PaidPeerServed needs: while no session is lost and the host stays up,
\* an order that waits for its COMMIT is on the interface too.
ServedInv ==
  {"session", "reboot"} \intersect Faults = {} =>
    /\ broken = {}
    /\ PaidPeerServed
    /\ \A o \in Orders : step[o] = "onInterface" => iface[o] = tx[o].ip
    /\ \A d \in Removals : removal[d] = "new" => removee[d] = None

\* What ExpiredOffInterface needs: while `awg set ... remove` works, whoever is
\* about to say that a peer is expired has taken it off.
OffInv ==
  "awg_remove" \notin Faults =>
    /\ ExpiredOffInterface
    /\ \A d \in Removals : removal[d] = "off" => iface[removee[d]] = None
    /\ worker = "update" => iface[current] = None

\* The inductive form of what the server promises of rows and of the interface.
ServiceInv ==
  BooksInv /\ RowsInv /\ RowsHavePackages /\ WorkerIsLate /\ ServedInv /\ OffInv

\* What resellers were charged is what their peers were quoted: no charge
\* without a row and no row without its charge, whatever failed half-way.
ChargedForWhatIsHeld ==
  \A u \in Resellers :
    debited[u] = MapThenSumSet(LAMBDA o : tx[o].price,
                               {o \in Committed : peers[o].owner = u})

\* Top-ups count once: what a reseller was credited is the sum of the top-ups
\* answered with success, plus some of those whose COMMIT reported an error or
\* whose answer was cut off; one that was refused counts for nothing.
TopUpsCountOnce ==
  \A u \in Resellers :
    \E doubtful \in SUBSET {t \in TopUps : topup[t] \in {"commit_error", "no_reply"}} :
      credited[u] - OpeningBalance[u] =
        MapThenSumSet(Cents, {t \in TopUps : /\ credit[t] # None /\ credit[t].target = u
                                             /\ \/ topup[t] \in {"committed", "done"}
                                                \/ t \in doubtful})

\* Every purchase, top-up and package edit that got in is answered: nobody
\* waits for ever for a row lock, for the address another order is inserting,
\* for a row that uses the package, or for a connection of the pool, though an
\* order holds its connection and its locks across a call to awg.
EveryRequestAnswered ==
  /\ \A o \in Orders : step[o] = "arrived" ~> step[o] \in Answered
  /\ \A t \in TopUps : topup[t] = "arrived" ~> topup[t] \in TopUpAnswered
  /\ \A e \in Edits : edit[e] = "arrived" ~> edit[e] \in EditAnswered

\* A peer past its expiry date is marked expired, after failed statements,
\* dropped ticks, crashes and restarts.
ExpiredEventuallyMarked ==
  \A o \in Orders :
    o \in Expired ~> (o \in Committed /\ peers[o].status = "expired")

\* A process told to stop ends, though the worker is never waited for.
ShutdownEnds == phase = "draining" ~> phase = "down"
============================================================================
