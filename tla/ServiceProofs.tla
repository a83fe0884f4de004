---------------------------- MODULE ServiceProofs ----------------------------
(* Rows, addresses, packages and the interface of the whole server, and that  *)
(* it implements Reselling, for every value of the constants.                 *)
EXTENDS RouteVPNProofs, FiniteSetTheorems

\* What no step does to a committed row but end it, and to its place on the
\* interface but lose it.
Lasts(o) ==
  /\ \/ peers'[o] = peers[o]
     \/ peers'[o] = [peers[o] EXCEPT !.status = "expired"]
  /\ iface[o] = None => iface'[o] = None

\* Such a row keeps everything but its status.
LEMMA LastingRow ==
  ASSUME StoreAssumption, StoreTypeOK, NEW o \in Committed, Lasts(o)
  PROVE  /\ o \in Committed'
         /\ peers'[o].ip = peers[o].ip /\ peers'[o].expiry = peers[o].expiry
         /\ peers'[o].package = peers[o].package /\ peers'[o].owner = peers[o].owner
         /\ peers'[o].status \in {peers[o].status, "expired"}
  <1>1. peers[o] \in PeerRow /\ o \in Orders
    BY DEF Committed, StoreTypeOK
  <1>2. peers'[o] \in PeerRow
    BY <1>1 DEF Lasts, PeerRow
  <1> QED
    BY <1>1, <1>2 DEF Lasts, PeerRow, Committed, StoreAssumption

----------------------------------------------------------------------------
(* Orders. *)

\* What an order that is on its way to the interface has inserted.
LEMMA WaitingRow ==
  ASSUME OrdersInv, RowsInv, NEW o \in Orders, step[o] \in HasInserted, Alive(o)
  PROVE  /\ peers[o] = None /\ RowOf(o) = uncommitted[o] /\ RowOf(o) # None
         /\ uncommitted[o] = NewRow(o) /\ RowOf(o).ip = tx[o].ip
  <1>1. peers[o] = None /\ uncommitted[o] # None
    BY DEF RowsInv, RowReady, HasRow, HasInserted, OrdersInv, OrdersReady
  <1> QED
    BY <1>1 DEF RowsInv, RowReady, RowOf, NewRow

\* awg is told of an address only for an order whose row is not committed.
LEMMA OrderOnInterface ==
  ASSUME OrdersInv, RowsInv, NEW o \in Orders,
         ReceiveOrder(o) \/ OrderStep(o) \/ OrderFailure(o)
  PROVE  \/ iface' = iface
         \/ /\ AddToInterface(o) /\ step[o] = "inserted" /\ step'[o] = "onInterface"
            /\ peers[o] = None /\ tx[o].ip \in Address
            /\ iface' = [x \in Orders |-> IF x = o THEN tx[o].ip
                                          ELSE IF iface[x] = tx[o].ip THEN Unrouted
                                          ELSE iface[x]]
  <1>1. CASE AddToInterface(o)
    <2>1. step[o] = "inserted" /\ peers[o] = None /\ tx[o].ip \in Address
      BY <1>1 DEF AddToInterface, RowsInv, RowReady, HasRow, OrdersInv, OrdersReady,
                  HasAddress
    <2> QED
      BY <1>1, <2>1 DEF AddToInterface, AddPeer, Goto, OrdersInv, PSTypeOK
  <1>2. CASE ~AddToInterface(o)
    BY <1>2 DEF OrderStep, OrderFailure, ReceiveOrder, BeginOrder, RefuseInsufficient,
           DebitReseller, AllocateIP, InsertPeer, CommitOrder, AnswerOrder,
           StatementFails, AddToInterfaceFails, CommitReplyLost, CommitFails, SessionLost,
           LoseSession, Publish, RollbackOrder, storeVars
  <1> QED
    BY <1>1, <1>2

\* An order puts no peer of a committed row on the interface, and changes no row
\* that is committed.
LEMMA OrderLasts ==
  ASSUME StoreAssumption, OrdersInv, DebitsHeld, RowsInv, NEW o \in Orders,
         ReceiveOrder(o) \/ OrderStep(o) \/ OrderFailure(o)
  PROVE  \A x \in Committed : Lasts(x) /\ peers'[x] = peers[x]
  <1> SUFFICES ASSUME NEW x \in Committed
               PROVE  Lasts(x) /\ peers'[x] = peers[x]
    OBVIOUS
  <1>1. x \in Orders /\ peers[x] # None /\ peers'[x] = peers[x]
    BY OrderRowsOnly DEF Committed
  <1>2. iface[x] = None => iface'[x] = None
    <2>1. None \notin Address
      BY DEF Address, StoreAssumption
    <2> QED
      BY <1>1, <2>1, OrderOnInterface
  <1> QED
    BY <1>1, <1>2 DEF Lasts

\* The foreign key is checked when the row is inserted.
LEMMA OrderPackages ==
  ASSUME StoreAssumption, OrdersInv, DebitsHeld, RowsInv, RowsHavePackages,
         NEW o \in Orders, ReceiveOrder(o) \/ OrderStep(o) \/ OrderFailure(o)
  PROVE  RowsHavePackages'
  <1>1. packages' = packages
    BY DEF OrderStep, OrderFailure, ReceiveOrder, BeginOrder, RefuseInsufficient,
           DebitReseller, AllocateIP, InsertPeer, AddToInterface, CommitOrder, AnswerOrder,
           StatementFails, AddToInterfaceFails, CommitReplyLost, CommitFails, SessionLost,
           LoseSession, Publish, RollbackOrder, storeVars, tableVars
  <1>2. \A x \in Orders \ {o} : peers'[x] = peers[x] /\ uncommitted'[x] = uncommitted[x]
    BY OrderRowsOnly
  <1>3. peers'[o] \in {peers[o], uncommitted[o]}
    BY DEF OrderStep, OrderFailure, ReceiveOrder, BeginOrder, RefuseInsufficient,
           DebitReseller, AllocateIP, InsertPeer, AddToInterface, CommitOrder, AnswerOrder,
           StatementFails, AddToInterfaceFails, CommitReplyLost, CommitFails, SessionLost,
           LoseSession, Publish, RollbackOrder, storeVars, tableVars, OrdersInv, PSTypeOK,
           StoreTypeOK
  <1>4. \/ uncommitted'[o] \in {uncommitted[o], None}
        \/ uncommitted'[o] = NewRow(o) /\ packages[tx[o].package] # None
    <2>1. CASE InsertPeer(o)
      BY <2>1 DEF InsertPeer, RollbackOrder, EndTx, DropRow, OrdersInv, PSTypeOK,
                  StoreTypeOK
    <2>2. CASE ~InsertPeer(o)
      BY <2>2 DEF OrderStep, OrderFailure, ReceiveOrder, BeginOrder, RefuseInsufficient,
           DebitReseller, AllocateIP, AddToInterface, CommitOrder, AnswerOrder,
           StatementFails, AddToInterfaceFails, CommitReplyLost, CommitFails, SessionLost,
           LoseSession, Publish, RollbackOrder, EndTx, DropRow, storeVars, txVars
    <2> QED
      BY <2>1, <2>2
  <1>5. NewRow(o).package = tx[o].package
    BY DEF NewRow
  <1> QED
    BY <1>1, <1>2, <1>3, <1>4, <1>5 DEF RowsHavePackages

\* While no session is lost, an order's address is routed to its peer from the
\* call to awg on.
LEMMA OrderServed ==
  ASSUME StoreAssumption, OrdersInv, DebitsHeld, RowsInv, ServedInv,
         NEW o \in Orders, ReceiveOrder(o) \/ OrderStep(o) \/ OrderFailure(o),
         UNCHANGED removalVars
  PROVE  ServedInv'
  <1> SUFFICES ASSUME {"session", "reboot"} \intersect Faults = {}
               PROVE  /\ broken' = {}
                      /\ PaidPeerServed'
                      /\ \A x \in Orders : step'[x] = "onInterface" => iface'[x] = tx'[x].ip
    BY DEF ServedInv, removalVars
  <1>1. broken = {} /\ PaidPeerServed
        /\ \A x \in Orders : step[x] = "onInterface" => iface[x] = tx[x].ip
    BY DEF ServedInv
  <1>2. broken' = {}
    BY <1>1 DEF OrderStep, OrderFailure, ReceiveOrder, BeginOrder, RefuseInsufficient,
           DebitReseller, AllocateIP, InsertPeer, AddToInterface, CommitOrder, AnswerOrder,
           StatementFails, AddToInterfaceFails, CommitReplyLost, CommitFails, SessionLost,
           LoseSession, Publish, RollbackOrder, EndTx, Fault, storeVars, txVars
  <1>3. \A x \in Orders : Alive(x)
    BY <1>1 DEF Alive
  <1>4. \A x \in Orders \ {o} : step'[x] = step[x] /\ tx'[x] = tx[x] /\ peers'[x] = peers[x]
    BY OrderRowsOnly
  <1>5. ASSUME NEW x \in Orders \ {o}, RowOf(x) # None, iface[x] = RowOf(x).ip
        PROVE  iface'[x] = iface[x]
    <2>1. CASE iface' = iface
      BY <2>1
    <2>2. CASE AddToInterface(o)
      <3>1. RowOf(o) # None /\ RowOf(o).ip = tx[o].ip
        BY <2>2, <1>3, WaitingRow DEF AddToInterface, HasInserted
      <3>2. RowOf(x).ip # tx[o].ip
        BY <1>5, <3>1 DEF RowsInv, DistinctAddresses
      <3> QED
        BY <2>2, <1>5, <3>2 DEF AddToInterface, AddPeer
    <2> QED
      BY <2>1, <2>2, OrderOnInterface
  <1>6. ASSUME NEW x \in Orders, step'[x] = "onInterface"
        PROVE  iface'[x] = tx'[x].ip
    <2>1. CASE x # o
      <3>1. step[x] = "onInterface" /\ iface[x] = tx[x].ip /\ tx'[x] = tx[x]
        BY <1>1, <1>4, <1>6, <2>1
      <3>2. RowOf(x) # None /\ RowOf(x).ip = tx[x].ip
        BY <3>1, <1>3, WaitingRow DEF HasInserted
      <3> QED
        BY <2>1, <3>1, <3>2, <1>5
    <2>2. CASE x = o
      <3>1. AddToInterface(o)
        BY <1>1, <1>6, <2>2 DEF OrderStep, OrderFailure, ReceiveOrder, BeginOrder,
           RefuseInsufficient, DebitReseller, AllocateIP, InsertPeer, CommitOrder,
           AnswerOrder, StatementFails, AddToInterfaceFails, CommitReplyLost, CommitFails,
           SessionLost, LoseSession, Fault, RollbackOrder, Goto, OrdersInv, PSTypeOK
      <3> QED
        BY <2>2, <3>1 DEF AddToInterface, AddPeer
    <2> QED
      BY <2>1, <2>2
  <1>7. ASSUME NEW x \in Committed', peers'[x].status = "active", peers'[x].expiry >= now',
               \A d \in Removals : removee'[d] # x
        PROVE  iface'[x] = peers'[x].ip
    <2>1. x \in Orders /\ peers'[x] # None /\ now' = now
      BY <1>7, OrderRowsOnly DEF Committed
    <2>2. CASE x \in Committed
      <3>1. peers'[x] = peers[x] /\ peers[x] # None
        BY <2>2, OrderLasts DEF Committed
      <3>2. iface[x] = peers[x].ip
        BY <1>1, <1>7, <2>1, <2>2, <3>1 DEF PaidPeerServed, removalVars
      <3>3. CASE x # o
        BY <3>1, <3>2, <3>3, <2>1, <1>5 DEF RowOf
      <3>4. CASE x = o
        BY <3>1, <3>2, <3>4, OrderOnInterface
      <3> QED
        BY <3>3, <3>4
    <2>3. CASE x \notin Committed
      <3>1. x = o /\ peers[o] = None /\ peers'[o] # None
        BY <2>1, <2>3, <1>4 DEF Committed
      <3>2. CommitOrder(o) \/ CommitReplyLost(o)
        BY <3>1 DEF OrderStep, OrderFailure, ReceiveOrder, BeginOrder, RefuseInsufficient,
           DebitReseller, AllocateIP, InsertPeer, AddToInterface, AnswerOrder,
           StatementFails, AddToInterfaceFails, CommitFails, SessionLost, LoseSession,
           RollbackOrder, storeVars, tableVars
      <3>3. step[o] = "onInterface" /\ Publish(o)
        BY <3>2 DEF CommitOrder, CommitReplyLost
      <3>4. peers'[o] = uncommitted[o] /\ iface' = iface
        BY <3>3 DEF Publish, OrdersInv, PSTypeOK, StoreTypeOK
      <3>5. uncommitted[o].ip = tx[o].ip
        BY <3>3, <1>3, WaitingRow DEF HasInserted
      <3> QED
        BY <1>1, <3>1, <3>3, <3>4, <3>5
    <2> QED
      BY <2>2, <2>3
  <1> QED
    BY <1>2, <1>6, <1>7 DEF PaidPeerServed

----------------------------------------------------------------------------
(* Steps that leave the worker and the removals where they are. *)

\* The peers of the worker's batch do not become younger.
LEMMA LateStays ==
  ASSUME StoreAssumption, BooksInv, WorkerIsLate, UNCHANGED workerVars,
         \A x \in Committed : Lasts(x), now' \in Int, now <= now'
  PROVE  WorkerIsLate'
  <1>1. StoreTypeOK /\ batch \subseteq Committed
        /\ (worker = "update" => current \in Committed) /\ now \in Int
    BY StoreAssumption DEF BooksInv, TypeInv, TypeOK, PSTypeOK, StoreTypeOK, WorkerReady
  <1>2. \A x \in Committed : peers'[x].expiry = peers[x].expiry /\ peers[x].expiry \in Int
    BY <1>1, LastingRow DEF StoreTypeOK, Committed, PeerRow
  <1> QED
    BY <1>1, <1>2 DEF WorkerIsLate, workerVars

\* What is off the interface stays off, as long as no other peer expires.
LEMMA OffStays ==
  ASSUME BooksInv, OffInv, UNCHANGED <<workerVars, removalVars>>,
         \A x \in Committed : Lasts(x),
         \A x \in Committed' :
           peers'[x].status = "expired" => x \in Committed /\ peers[x].status = "expired"
  PROVE  OffInv'
  <1> SUFFICES ASSUME "awg_remove" \notin Faults
               PROVE  /\ ExpiredOffInterface'
                      /\ \A d \in Removals : removal'[d] = "off" => iface'[removee'[d]] = None
                      /\ worker' = "update" => iface'[current'] = None
    BY DEF OffInv
  <1>1. ExpiredOffInterface'
    BY DEF OffInv, ExpiredOffInterface, Lasts
  <1>2. \A d \in Removals : removal[d] = "off" => removee[d] \in Committed
    BY DEF BooksInv, TypeInv, RemovalsReady
  <1>3. worker = "update" => current \in Committed
    BY DEF BooksInv, TypeInv, WorkerReady
  <1> QED
    BY <1>1, <1>2, <1>3 DEF OffInv, Lasts, workerVars, removalVars

\* A step of an order keeps the invariant and lets the committed rows last.
LEMMA OrderStepService ==
  ASSUME StoreAssumption, ServiceInv, NEW o \in Orders, ButOrders,
         ReceiveOrder(o) \/ OrderStep(o) \/ OrderFailure(o)
  PROVE  ServiceInv' /\ \A x \in Committed : Lasts(x)
  <1>1. BooksInv /\ OrdersInv /\ DebitsHeld /\ RowsInv /\ RowsHavePackages /\ ServedInv
        /\ UNCHANGED <<workerVars, removalVars>>
    BY DEF ServiceInv, BooksInv, TypeInv, TypeOK, OrdersInv, ButOrders
  <1>2. \A x \in Committed : Lasts(x) /\ peers'[x] = peers[x]
    BY <1>1, OrderLasts
  <1>3. now' = now /\ now \in Int
    BY <1>1, OrderRowsOnly, StoreAssumption DEF OrdersInv, PSTypeOK, StoreTypeOK
  <1>4. \A x \in Committed' : peers'[x].status = "expired" => x \in Committed
    <2> SUFFICES ASSUME NEW x \in Committed', x \notin Committed
                 PROVE  peers'[x].status = "active"
      BY DEF PeerRow
    <2>1. x \in Orders /\ peers[x] = None /\ peers'[x] # None
      BY DEF Committed
    <2>2. x = o
      BY <1>1, <2>1, OrderRowsOnly
    <2>3. CommitOrder(o) \/ CommitReplyLost(o)
      BY <2>1, <2>2 DEF OrderStep, OrderFailure, ReceiveOrder, BeginOrder,
         RefuseInsufficient, DebitReseller, AllocateIP, InsertPeer, AddToInterface,
         AnswerOrder, StatementFails, AddToInterfaceFails, CommitFails, SessionLost,
         LoseSession, RollbackOrder, storeVars, tableVars
    <2>4. /\ step[o] = "onInterface" /\ Alive(o) /\ Publish(o)
      BY <2>3 DEF CommitOrder, CommitReplyLost
    <2>5. peers'[o] = NewRow(o)
      BY <1>1, <2>4, WaitingRow DEF Publish, HasInserted, OrdersInv, PSTypeOK, StoreTypeOK
    <2> QED
      BY <2>2, <2>5 DEF NewRow
  <1>5. BooksInv' /\ RowsInv' /\ RowsHavePackages' /\ ServedInv'
    BY <1>1, OrderStepBooks, OrderRows, OrderPackages, OrderServed
  <1>6. WorkerIsLate'
    BY <1>1, <1>2, <1>3, LateStays DEF ServiceInv
  <1>7. OffInv'
    BY <1>1, <1>2, <1>4, OffStays DEF ServiceInv
  <1> QED
    BY <1>2, <1>5, <1>6, <1>7 DEF ServiceInv

----------------------------------------------------------------------------
(* Everybody else. *)

\* Steps that only end rows keep rows, addresses, answers and packages.
LEMMA RowsEnd ==
  ASSUME StoreAssumption, ServiceInv, UNCHANGED <<uncommitted, packages, step, tx>>,
         \A x \in Orders : Alive(x)' <=> Alive(x),
         Committed' = Committed, \A x \in Committed : Lasts(x),
         now' \in Int, now <= now'
  PROVE  RowsInv' /\ RowsHavePackages'
  <1>1. StoreTypeOK /\ now \in Int
    BY StoreAssumption DEF ServiceInv, BooksInv, TypeInv, TypeOK, PSTypeOK, StoreTypeOK
  <1>2. \A x \in Committed : /\ peers'[x].ip = peers[x].ip
                             /\ peers'[x].package = peers[x].package
    BY <1>1, LastingRow
  <1>3. \A x \in Orders : /\ x \in Committed <=> peers[x] # None
                          /\ x \in Committed' <=> peers'[x] # None
    BY DEF Committed
  <1>4. \A x \in Orders : /\ peers'[x] = None <=> peers[x] = None
                          /\ peers[x] # None => peers'[x].ip = peers[x].ip
    BY <1>2, <1>3
  <1>5. RowsInv'
    BY <1>1, <1>4, RowsFrame DEF ServiceInv
  <1>6. RowsHavePackages'
    BY <1>2, <1>3 DEF ServiceInv, RowsHavePackages
  <1> QED
    BY <1>5, <1>6

\* Neither a top-up nor the passing of time moves a peer.
LEMMA ServedStays ==
  ASSUME BooksInv, ServedInv, UNCHANGED <<peers, iface, step, tx, removalVars>>,
         now \in Int, now' \in Int, now <= now',
         "session" \notin Faults => broken' \subseteq broken
  PROVE  ServedInv'
  <1> SUFFICES ASSUME {"session", "reboot"} \intersect Faults = {}
               PROVE  /\ broken' = {}
                      /\ PaidPeerServed'
                      /\ \A o \in Orders : step'[o] = "onInterface" => iface'[o] = tx'[o].ip
                      /\ \A d \in Removals : removal'[d] = "new" => removee'[d] = None
    BY DEF ServedInv
  <1>1. \A x \in Committed : peers[x].expiry \in Int
    BY DEF BooksInv, TypeInv, TypeOK, PSTypeOK, StoreTypeOK, PeerRow, Committed
  <1>2. PaidPeerServed'
    BY <1>1 DEF ServedInv, PaidPeerServed, Committed, removalVars
  <1> QED
    BY <1>2 DEF ServedInv, removalVars

\* A top-up has nothing to do with packages, rows or the interface.
LEMMA TopUpStepService ==
  ASSUME StoreAssumption, BillingAssumption, ServiceInv, NEW t \in TopUps, ButTopUps,
         ReceiveTopUp(t) \/ TopUpStep(t) \/ TopUpFailure(t)
  PROVE  ServiceInv' /\ \A x \in Committed : Lasts(x)
  <1>1. BooksInv' /\ BooksInv
    BY TopUpStepBooks DEF ServiceInv
  <1>2. UNCHANGED <<packages, peers, iface, now>>
        /\ ("session" \notin Faults => broken' \subseteq broken)
    BY DEF ReceiveTopUp, TopUpStep, TopUpFailure, BeginTopUp, CreditBalance, CreditNobody,
           CommitTopUp, AnswerTopUp, TopUpStatementFails, TopUpCommitReplyLost,
           TopUpCommitFails, TopUpSessionLost, LoseSession, Fault, PublishTopUp,
           RollbackTopUp, EndTx, storeVars, tableVars, txVars
  <1>3. \A x \in Orders : uncommitted'[x] = uncommitted[x] /\ (Alive(x)' <=> Alive(x))
    <2>1. TopUpsInv /\ OrdersInv /\ CreditsHeld
      BY <1>1 DEF BooksInv, TypeInv, TypeOK, PSTypeOK, TopUpsInv, OrdersInv
    <2>2. Isolated(t)
      BY <1>1, <2>1, TopUpBooks, TopUpHolds DEF BooksInv
    <2>3. \A x \in Orders : x \in Txs \ {t} /\ x \in Orders \ {t}
      BY DEF StoreAssumption, Txs
    <2> QED
      BY <2>2, <2>3 DEF Isolated
  <1>4. uncommitted' = uncommitted
    BY <1>1, <1>3 DEF BooksInv, TypeInv, TypeOK, PSTypeOK, StoreTypeOK
  <1>5. UNCHANGED <<step, tx, removalVars, workerVars>>
    BY DEF ButTopUps, orderVars
  <1>6. Committed' = Committed /\ \A x \in Committed : Lasts(x)
    BY <1>2 DEF Committed, Lasts
  <1>7. now \in Int /\ now' \in Int /\ now <= now'
    BY <1>1, <1>2, StoreAssumption DEF BooksInv, TypeInv, TypeOK, PSTypeOK, StoreTypeOK
  <1>8. RowsInv' /\ RowsHavePackages'
    BY <1>2, <1>3, <1>4, <1>5, <1>6, <1>7, RowsEnd
  <1>9. WorkerIsLate' /\ OffInv'
    BY <1>1, <1>2, <1>5, <1>6, <1>7, LateStays, OffStays DEF ServiceInv
  <1>10. ServedInv'
    BY <1>1, <1>2, <1>5, <1>7, ServedStays DEF ServiceInv
  <1> QED
    BY <1>1, <1>6, <1>8, <1>9, <1>10 DEF ServiceInv

\* A removal takes off and ends the peer it names, and no other.
LEMMA RemovalStepService ==
  ASSUME StoreAssumption, ServiceInv, NEW d \in Removals, ButRemovals,
         ReceiveRemoval(d) \/ RemovalStep(d)
  PROVE  ServiceInv' /\ \A x \in Committed : Lasts(x)
  <1>1. /\ BooksInv' /\ BooksInv /\ StoreTypeOK
        /\ PeerAdminTypeOK /\ RemovalsReady /\ PeerAdminTypeOK'
    BY RemovalStepBooks DEF ServiceInv, BooksInv, TypeInv, TypeOK, PSTypeOK
  <1>2. /\ Committed' = Committed /\ UNCHANGED moneyVars
        /\ UNCHANGED <<step, tx, workerVars>>
    BY <1>1, RemovalTypes DEF ButRemovals, orderVars
  <1>3. packages' = packages /\ now' = now
        /\ \A e \in Removals \ {d} : removal'[e] = removal[e] /\ removee'[e] = removee[e]
    BY <1>1 DEF ReceiveRemoval, RemovalStep, FindRemovee, TakeOff, MarkRemoved, RemovalGoto,
                storeVars, tableVars, PeerAdminTypeOK
  <1>4. now \in Int
    BY <1>1, StoreAssumption DEF StoreTypeOK
  <1>5. \/ iface' = iface
        \/ /\ removal[d] = "found" /\ removee[d] \in Committed /\ UNCHANGED peers
           /\ iface' = [iface EXCEPT ![removee[d]] = None]
    BY <1>1 DEF ReceiveRemoval, RemovalStep, FindRemovee, TakeOff, MarkRemoved, RemovePeer,
                RemovalsReady, storeVars, tableVars
  <1>6. \/ peers' = peers
        \/ /\ removal[d] = "off" /\ removee[d] \in Committed /\ UNCHANGED iface
           /\ peers' = [peers EXCEPT ![removee[d]].status = "expired"]
    BY <1>1 DEF ReceiveRemoval, RemovalStep, FindRemovee, TakeOff, MarkRemoved,
                RemovalsReady, storeVars, tableVars
  <1>7. ASSUME NEW x \in Committed
        PROVE  /\ Lasts(x)
               /\ x # removee[d] => peers'[x] = peers[x] /\ iface'[x] = iface[x]
    <2>1. x \in Orders
      BY DEF Committed
    <2> QED
      BY <2>1, <1>1, <1>5, <1>6 DEF Lasts, StoreTypeOK
  <1>8. RowsInv' /\ RowsHavePackages'
    BY <1>2, <1>3, <1>4, <1>7, RowsEnd DEF moneyVars, Alive
  <1>9. WorkerIsLate'
    BY <1>1, <1>2, <1>3, <1>4, <1>7, LateStays DEF ServiceInv
  <1>10. ServedInv'
    <2> SUFFICES ASSUME {"session", "reboot"} \intersect Faults = {}
                 PROVE  /\ broken' = {}
                        /\ PaidPeerServed'
                        /\ \A o \in Orders : step'[o] = "onInterface" => iface'[o] = tx'[o].ip
                        /\ \A e \in Removals : removal'[e] = "new" => removee'[e] = None
      BY DEF ServedInv
    <2>1. /\ broken = {} /\ PaidPeerServed
          /\ \A o \in Orders : step[o] = "onInterface" => iface[o] = tx[o].ip
          /\ \A e \in Removals : removal[e] = "new" => removee[e] = None
      BY DEF ServiceInv, ServedInv
    <2>2. removal'[d] # "new" /\ (removee'[d] = removee[d] \/ removee[d] = None)
      BY <1>1, <2>1 DEF ReceiveRemoval, RemovalStep, FindRemovee, TakeOff, MarkRemoved,
                        RemovalGoto, PeerAdminTypeOK
    <2>3. ASSUME NEW o \in Orders, step'[o] = "onInterface"
          PROVE  iface'[o] = tx'[o].ip
      <3>1. o \notin Committed
        BY <1>2, <2>3 DEF ServiceInv, RowsInv, RowReady, HasRow, Committed
      <3>2. iface'[o] = iface[o]
        BY <1>1, <1>5, <3>1 DEF StoreTypeOK
      <3> QED
        BY <1>2, <2>1, <2>3, <3>2
    <2>4. PaidPeerServed'
      <3> SUFFICES ASSUME NEW x \in Committed', peers'[x].status = "active",
                          peers'[x].expiry >= now', \A e \in Removals : removee'[e] # x
                   PROVE  iface'[x] = peers'[x].ip
        BY DEF PaidPeerServed
      <3>1. x \in Committed /\ x # None
        BY <1>2, StoreAssumption DEF Committed, Txs
      <3>2. \A e \in Removals : removee[e] # x
        BY <1>3, <2>2, <3>1
      <3>3. peers'[x] = peers[x] /\ iface'[x] = iface[x]
        BY <1>7, <3>1, <3>2
      <3> QED
        BY <1>3, <2>1, <3>1, <3>2, <3>3 DEF PaidPeerServed
    <2> QED
      BY <1>2, <1>3, <2>1, <2>2, <2>3, <2>4 DEF moneyVars
  <1>11. OffInv'
    <2> SUFFICES ASSUME "awg_remove" \notin Faults
                 PROVE  /\ ExpiredOffInterface'
                        /\ \A e \in Removals : removal'[e] = "off" => iface'[removee'[e]] = None
                        /\ worker' = "update" => iface'[current'] = None
      BY DEF OffInv
    <2>1. /\ ExpiredOffInterface
          /\ \A e \in Removals : removal[e] = "off" => iface[removee[e]] = None
          /\ worker = "update" => iface[current] = None
      BY DEF ServiceInv, OffInv
    <2>2. ExpiredOffInterface'
      <3> SUFFICES ASSUME NEW x \in Committed', peers'[x].status = "expired"
                   PROVE  iface'[x] = None
        BY DEF ExpiredOffInterface
      <3>1. CASE peers[x].status = "expired"
        BY <1>2, <1>7, <2>1, <3>1 DEF ExpiredOffInterface, Lasts
      <3>2. CASE peers[x].status # "expired"
        <4>1. x = removee[d] /\ removal[d] = "off"
          BY <1>2, <1>6, <1>7, <3>2
        <4> QED
          BY <1>2, <1>7, <2>1, <4>1 DEF Lasts
      <3> QED
        BY <3>1, <3>2
    <2>3. ASSUME NEW e \in Removals, removal'[e] = "off"
          PROVE  iface'[removee'[e]] = None
      <3>1. CASE e # d
        BY <1>1, <1>3, <1>7, <2>1, <2>3, <3>1 DEF RemovalsReady, Lasts
      <3>2. CASE e = d
        BY <1>1, <2>3, <3>2 DEF ReceiveRemoval, RemovalStep, FindRemovee, TakeOff,
             MarkRemoved, RemovePeer, Fault, RemovalGoto, PeerAdminTypeOK, RemovalsReady,
             StoreTypeOK
      <3> QED
        BY <3>1, <3>2
    <2>4. worker = "update" => current \in Committed
      BY <1>1 DEF BooksInv, TypeInv, WorkerReady
    <2> QED
      BY <1>2, <1>7, <2>1, <2>2, <2>3, <2>4 DEF workerVars, Lasts
  <1> QED
    BY <1>1, <1>7, <1>8, <1>9, <1>10, <1>11 DEF ServiceInv

\* A package that a row has, visible or not, is not deleted.
LEMMA EditStepService ==
  ASSUME StoreAssumption, PackageAdminAssumption, ServiceInv, NEW e \in Edits, ButEdits,
         ReceiveEdit(e) \/ EditStep(e)
  PROVE  ServiceInv' /\ \A x \in Committed : Lasts(x)
  <1>1. /\ BooksInv' /\ BooksInv /\ StoreTypeOK /\ PackageAdminTypeOK /\ EditsReady
    BY EditStepBooks DEF ServiceInv, BooksInv, TypeInv, TypeOK, PSTypeOK
  <1>2. UNCHANGED <<peers, moneyVars, step, tx, removalVars, workerVars>>
    BY <1>1, EditTypes DEF ButEdits, orderVars
  <1>3. UNCHANGED <<iface, now>> /\ now \in Int
    BY <1>1, StoreAssumption DEF ReceiveEdit, EditStep, CreatePackage, UpdatePackage,
           CountActivePeers, DeletePackage, OnlyPackages, storeVars, StoreTypeOK
  <1>4. Committed' = Committed /\ \A x \in Committed : Lasts(x)
    BY <1>2, <1>3 DEF Committed, Lasts
  <1>5. RowsInv'
    BY <1>2, <1>3, RowsFrame DEF ServiceInv, moneyVars, Alive
  <1>6. RowsHavePackages'
    <2>1. CASE DeletePackage(e)
      <3>1. \/ packages' = packages
            \/ \E p : /\ packages' = [packages EXCEPT ![p] = None]
                      /\ \A o \in Orders : uncommitted[o] # None => uncommitted[o].package # p
                      /\ \A o \in Committed : peers[o].package # p
        BY <2>1 DEF DeletePackage
      <3>2. \A o \in Orders : /\ peers[o] # None => peers[o].package \in Packages
                              /\ uncommitted[o] # None => uncommitted[o].package \in Packages
        BY <1>1 DEF StoreTypeOK, PeerRow
      <3>3. \A q \in Packages : packages'[q] = packages[q]
              \/ /\ \A o \in Orders : uncommitted[o] # None => uncommitted[o].package # q
                 /\ \A o \in Committed : peers[o].package # q
        <4>1. packages \in [Packages -> PackageRow \union {None}]
          BY <1>1 DEF StoreTypeOK
        <4>2. ASSUME NEW p, packages' = [packages EXCEPT ![p] = None]
              PROVE  \A q \in Packages : packages'[q] = packages[q] \/ p = q
          BY <4>1, <4>2
        <4> QED
          BY <3>1, <4>2
      <3>4. RowsHavePackages /\ UNCHANGED <<peers, uncommitted>>
        BY <1>2 DEF ServiceInv, moneyVars
      <3> QED
        BY <3>2, <3>3, <3>4 DEF RowsHavePackages, Committed
    <2>2. CASE ~DeletePackage(e)
      <3>1. \A p \in Packages : packages[p] # None => packages'[p] # None
        <4>1. None \notin PackageRow
          BY DEF StoreAssumption
        <4>2. EditStep(e) => Stored(form[e]) \in PackageRow
          <5>1. EditStep(e) => form[e] \in FormFields
            BY <1>1 DEF EditStep, CreatePackage, UpdatePackage, CountActivePeers,
                        DeletePackage, EditsReady, EditInFlight
          <5> QED
            BY <5>1 DEF Stored, PackageRow, FormFields, RoundToCents
        <4> QED
          BY <1>1, <2>2, <4>1, <4>2 DEF ReceiveEdit, EditStep, CreatePackage, UpdatePackage,
             CountActivePeers, storeVars, tableVars, StoreTypeOK
      <3>2. \A x \in Orders : /\ peers[x] # None => peers[x].package \in Packages
                              /\ uncommitted[x] # None => uncommitted[x].package \in Packages
        BY <1>1 DEF StoreTypeOK, PeerRow
      <3> QED
        BY <1>2, <3>1, <3>2 DEF ServiceInv, RowsHavePackages, moneyVars
    <2> QED
      BY <2>1, <2>2
  <1>7. WorkerIsLate' /\ OffInv'
    BY <1>1, <1>2, <1>3, <1>4, LateStays, OffStays DEF ServiceInv
  <1>8. ServedInv'
    BY <1>1, <1>2, <1>3, ServedStays DEF ServiceInv, moneyVars
  <1> QED
    BY <1>1, <1>4, <1>5, <1>6, <1>7, <1>8 DEF ServiceInv

\* The worker takes off and ends peers after their expiry date, and no other.
LEMMA WorkerStepService ==
  ASSUME StoreAssumption, ServiceInv, ButTheWorker, WorkerStep \/ HourPasses
  PROVE  ServiceInv' /\ \A x \in Committed : Lasts(x)
  <1>1. /\ BooksInv' /\ BooksInv /\ StoreTypeOK /\ WorkerTypeOK /\ WorkerReady
        /\ WorkerIsLate
    BY WorkerStepBooks DEF ServiceInv, BooksInv, TypeInv, TypeOK, PSTypeOK
  <1>2. /\ Committed' = Committed /\ UNCHANGED moneyVars
        /\ UNCHANGED <<step, tx, removalVars>>
    BY <1>1, WorkerTypes DEF ButTheWorker, requestVars, orderVars
  <1>3. UNCHANGED <<packages, now>> /\ now \in Int
    BY <1>1, StoreAssumption DEF WorkerStep, Scan, RemoveExpired, MarkExpired, TickReceived,
           StopReceived, HourPasses, storeVars, tableVars, StoreTypeOK
  <1>4. \/ iface' = iface
        \/ \E o \in Committed :
             /\ peers[o].expiry < now /\ UNCHANGED peers
             /\ iface' = [iface EXCEPT ![o] = None]
    BY <1>1 DEF WorkerStep, Scan, RemoveExpired, MarkExpired, TickReceived, StopReceived,
           HourPasses, RemovePeer, storeVars, tableVars, WorkerReady, WorkerIsLate
  <1>5. \/ peers' = peers
        \/ /\ worker = "update" /\ current \in Committed /\ peers[current].expiry < now
           /\ peers' = [peers EXCEPT ![current].status = "expired"] /\ UNCHANGED iface
    BY <1>1 DEF WorkerStep, Scan, RemoveExpired, MarkExpired, TickReceived, StopReceived,
           HourPasses, SetExpired, storeVars, tableVars, WorkerReady, WorkerIsLate
  <1>6. ASSUME NEW x \in Committed
        PROVE  /\ Lasts(x)
               /\ peers[x].expiry >= now => peers'[x] = peers[x] /\ iface'[x] = iface[x]
    <2>1. x \in Orders /\ peers[x].expiry \in Int
      BY <1>1 DEF Committed, StoreTypeOK, PeerRow
    <2>2. \A o \in Committed : o \in Orders
      BY DEF Committed
    <2> QED
      BY <2>1, <2>2, <1>1, <1>3, <1>4, <1>5 DEF Lasts, StoreTypeOK
  <1>7. RowsInv' /\ RowsHavePackages'
    BY <1>2, <1>3, <1>6, RowsEnd DEF moneyVars, Alive
  <1>8. \A x \in Committed : peers'[x].expiry = peers[x].expiry
    BY <1>1, <1>6, LastingRow
  <1>9. WorkerIsLate'
    <2>1. batch' \subseteq batch \union Expired /\ batch \union Expired \subseteq Committed
      BY <1>1 DEF WorkerStep, Scan, RemoveExpired, MarkExpired, TickReceived, StopReceived,
             HourPasses, WorkerReady, Expired
    <2>2. \A o \in batch' : peers'[o].expiry < now'
      BY <1>1, <1>3, <1>8, <2>1 DEF WorkerIsLate, Expired
    <2>3. worker' = "update" =>
            /\ current' \in Committed
            /\ current' \in batch \/ (worker = "update" /\ current' = current)
      BY <1>1 DEF WorkerStep, Scan, RemoveExpired, MarkExpired, TickReceived, StopReceived,
             HourPasses, NextOf, WorkerReady
    <2> QED
      BY <1>1, <1>3, <1>8, <2>2, <2>3 DEF WorkerIsLate
  <1>10. ServedInv'
    <2> SUFFICES ASSUME {"session", "reboot"} \intersect Faults = {}
                 PROVE  /\ broken' = {}
                        /\ PaidPeerServed'
                        /\ \A o \in Orders : step'[o] = "onInterface" => iface'[o] = tx'[o].ip
                        /\ \A e \in Removals : removal'[e] = "new" => removee'[e] = None
      BY DEF ServedInv
    <2>1. /\ broken = {} /\ PaidPeerServed
          /\ \A o \in Orders : step[o] = "onInterface" => iface[o] = tx[o].ip
          /\ \A e \in Removals : removal[e] = "new" => removee[e] = None
      BY DEF ServiceInv, ServedInv
    <2>2. ASSUME NEW o \in Orders, step'[o] = "onInterface"
          PROVE  iface'[o] = tx'[o].ip
      <3>1. o \notin Committed
        BY <1>2, <2>2 DEF ServiceInv, RowsInv, RowReady, HasRow, Committed
      <3>2. iface'[o] = iface[o]
        BY <1>1, <1>4, <3>1 DEF StoreTypeOK
      <3> QED
        BY <1>2, <2>1, <2>2, <3>2
    <2>3. PaidPeerServed'
      <3> SUFFICES ASSUME NEW x \in Committed', peers'[x].status = "active",
                          peers'[x].expiry >= now', \A e \in Removals : removee'[e] # x
                   PROVE  iface'[x] = peers'[x].ip
        BY DEF PaidPeerServed
      <3>1. x \in Committed /\ peers[x].expiry >= now
        BY <1>2, <1>3, <1>8
      <3>2. peers'[x] = peers[x] /\ iface'[x] = iface[x]
        BY <1>6, <3>1
      <3> QED
        BY <1>2, <2>1, <3>1, <3>2 DEF PaidPeerServed, removalVars
    <2> QED
      BY <1>2, <2>1, <2>2, <2>3 DEF moneyVars, removalVars
  <1>11. OffInv'
    <2> SUFFICES ASSUME "awg_remove" \notin Faults
                 PROVE  /\ ExpiredOffInterface'
                        /\ \A e \in Removals : removal'[e] = "off" => iface'[removee'[e]] = None
                        /\ worker' = "update" => iface'[current'] = None
      BY DEF OffInv
    <2>1. /\ ExpiredOffInterface
          /\ \A e \in Removals : removal[e] = "off" => iface[removee[e]] = None
          /\ worker = "update" => iface[current] = None
      BY DEF ServiceInv, OffInv
    <2>2. ExpiredOffInterface'
      <3> SUFFICES ASSUME NEW x \in Committed', peers'[x].status = "expired"
                   PROVE  iface'[x] = None
        BY DEF ExpiredOffInterface
      <3>1. CASE peers[x].status = "expired"
        BY <1>2, <1>6, <2>1, <3>1 DEF ExpiredOffInterface, Lasts
      <3>2. CASE peers[x].status # "expired"
        <4>1. x = current /\ worker = "update"
          <5>1. x \in Orders
            BY DEF Committed
          <5> QED
            BY <5>1, <1>1, <1>5, <3>2 DEF StoreTypeOK
        <4> QED
          BY <1>2, <1>6, <2>1, <4>1 DEF Lasts
      <3> QED
        BY <3>1, <3>2
    <2>3. \A e \in Removals : removal'[e] = "off" => iface'[removee'[e]] = None
      <3>1. \A e \in Removals : removal[e] = "off" => removee[e] \in Committed
        BY <1>1 DEF BooksInv, TypeInv, RemovalsReady
      <3> QED
        BY <1>2, <1>6, <2>1, <3>1 DEF removalVars, Lasts
    <2>4. worker' = "update" => iface'[current'] = None
      <3>1. CASE RemoveExpired
        <4>1. current' \in Orders /\ iface' = [iface EXCEPT ![current'] = None]
          BY <1>1, <3>1 DEF RemoveExpired, RemovePeer, Fault, WorkerTypeOK
        <4> QED
          BY <1>1, <4>1 DEF StoreTypeOK
      <3>2. CASE ~RemoveExpired
        BY <1>1, <2>1, <3>2 DEF WorkerStep, Scan, MarkExpired, TickReceived, StopReceived,
             HourPasses, NextOf, storeVars
      <3> QED
        BY <3>1, <3>2
    <2> QED
      BY <2>2, <2>3, <2>4
  <1> QED
    BY <1>1, <1>6, <1>7, <1>9, <1>10, <1>11 DEF ServiceInv

\* Stops, exits, restarts and time move no row and no peer.
LEMMA ProcessStepService ==
  ASSUME StoreAssumption, ServiceInv,
         SignalStop \/ ShutdownReturns \/ Exit \/ Restart \/ TimePasses
  PROVE  ServiceInv' /\ \A x \in Committed : Lasts(x)
  <1>1. BooksInv' /\ BooksInv /\ WorkerReady /\ StoreTypeOK
    BY ProcessStepBooks DEF ServiceInv, BooksInv, TypeInv, TypeOK, PSTypeOK
  <1>2. /\ UNCHANGED <<tableVars, txVars, iface, requestVars>>
        /\ now' = now \/ now' = now + 1
    BY DEF SignalStop, ShutdownReturns, Exit, Restart, TimePasses, Tick, storeVars
  <1>3. now \in Int /\ now' \in Int /\ now <= now'
    BY <1>1, <1>2, StoreAssumption DEF StoreTypeOK
  <1>4. UNCHANGED <<peers, packages, uncommitted, broken, iface, step, tx, removalVars>>
    BY <1>2 DEF tableVars, txVars, requestVars, orderVars
  <1>5. Committed' = Committed /\ \A x \in Committed : Lasts(x)
    BY <1>4 DEF Committed, Lasts
  <1>6. RowsInv' /\ RowsHavePackages'
    BY <1>3, <1>4, <1>5, RowsEnd DEF Alive
  <1>7. ServedInv'
    BY <1>1, <1>3, <1>4, ServedStays DEF ServiceInv
  <1>8. WorkerIsLate' /\ OffInv'
    <2>1. CASE UNCHANGED workerVars
      BY <1>1, <1>3, <1>4, <1>5, <2>1, LateStays, OffStays DEF ServiceInv
    <2>2. CASE ~UNCHANGED workerVars
      <3>1. \/ batch' = {} /\ worker' # "update"
            \/ UNCHANGED <<batch, worker, current>> /\ now' = now
        BY <2>2 DEF SignalStop, ShutdownReturns, Exit, Restart, TimePasses, Stop,
               WorkerStarts, WorkerDies, storeVars
      <3>2. WorkerIsLate'
        BY <1>4, <3>1 DEF ServiceInv, WorkerIsLate
      <3>3. OffInv'
        BY <1>4, <1>5, <3>1 DEF ServiceInv, OffInv, ExpiredOffInterface, removalVars
      <3> QED
        BY <3>2, <3>3
    <2> QED
      BY <2>1, <2>2
  <1> QED
    BY <1>1, <1>5, <1>6, <1>7, <1>8 DEF ServiceInv

\* A crash takes the rows no COMMIT published and the peers of the interface
\* with it, and nothing that was committed.
LEMMA CrashService ==
  ASSUME StoreAssumption, ServiceInv, Crash
  PROVE  ServiceInv' /\ \A x \in Committed : Lasts(x)
  <1>1. /\ BooksInv' /\ BooksInv /\ StoreTypeOK
    BY CrashBooks DEF ServiceInv, BooksInv, TypeInv, TypeOK, PSTypeOK
  <1>2. /\ UNCHANGED <<peers, packages, now, tx, removee>>
        /\ uncommitted' = [o \in Orders |-> None] /\ broken' = {}
        /\ batch' = {} /\ worker' = "off"
        /\ iface' = iface \/ ("reboot" \in Faults /\ iface' = [o \in Orders |-> None])
    BY DEF Crash, DropAllTxs, WorkerDies, Fault, tableVars
  <1>3. step' = [o \in Orders |-> IF step[o] \in InFlight THEN "no_reply" ELSE step[o]]
    BY <1>1 DEF Crash, Cut, BooksInv, TypeInv, TypeOK, PSTypeOK
  <1>4. removal' = [d \in Removals |-> IF removal[d] \in RemovalInFlight THEN "no_reply"
                                                                       ELSE removal[d]]
    BY <1>1 DEF Crash, Cut, BooksInv, TypeInv, TypeOK, PeerAdminTypeOK
  <1>5. Committed' = Committed /\ \A x \in Committed : Lasts(x)
    BY <1>2 DEF Committed, Lasts
  <1>6. RowsInv'
    <2>1. \A o \in Orders : /\ uncommitted'[o] = None
                            /\ step'[o] \in {step[o], "no_reply"}
                            /\ step'[o] \notin InFlight
                            /\ step[o] \in HasRow => step'[o] \in HasRow
      BY <1>2, <1>3 DEF InFlight, InTx, HasRow
    <2>2. AnswersAreTruthful'
      BY <1>2, <2>1 DEF ServiceInv, RowsInv, AnswersAreTruthful, Refusals
    <2>3. DistinctAddresses'
      BY <1>2, <2>1 DEF ServiceInv, RowsInv, DistinctAddresses, RowOf
    <2>4. ConflictMeansProgress' /\ ExhaustionIsReal'
      BY <1>2, <1>5, <2>1 DEF ServiceInv, RowsInv, ConflictMeansProgress, ExhaustionIsReal
    <2>5. \A o \in Orders : RowReady(o)'
      BY <1>2, <2>1 DEF ServiceInv, RowsInv, RowReady, HasAddress, InFlight, InTx
    <2> QED
      BY <2>2, <2>3, <2>4, <2>5 DEF RowsInv
  <1>7. RowsHavePackages'
    BY <1>2 DEF ServiceInv, RowsHavePackages
  <1>8. WorkerIsLate'
    BY <1>2 DEF WorkerIsLate
  <1>9. ServedInv'
    <2>1. \A o \in Orders : step'[o] # "onInterface"
      BY <1>3 DEF InFlight, InTx
    <2>2. \A d \in Removals : removal'[d] = "new" => removal[d] = "new"
      BY <1>4
    <2> QED
      BY <1>2, <1>5, <2>1, <2>2 DEF ServiceInv, ServedInv, PaidPeerServed
  <1>10. OffInv'
    <2>1. \A d \in Removals : removal'[d] # "off"
      BY <1>4 DEF RemovalInFlight
    <2> QED
      BY <1>2, <1>5, <2>1 DEF ServiceInv, OffInv, ExpiredOffInterface, Lasts
  <1> QED
    BY <1>1, <1>5, <1>6, <1>7, <1>8, <1>9, <1>10 DEF ServiceInv

----------------------------------------------------------------------------
(* The server. *)

\* Before the first request there is no row.
LEMMA ServiceInit ==
  ASSUME StoreAssumption, Init
  PROVE  ServiceInv
  <1>1. BooksInv
    BY BooksInit
  <1>2. RowsInv
    BY PSInvInit DEF Init, PSInv
  <1>3. RowsHavePackages /\ WorkerIsLate
    BY DEF Init, PSInit, StoreInit, WorkerInit, RowsHavePackages, WorkerIsLate
  <1>4. ServedInv /\ OffInv
    BY DEF Init, PSInit, StoreInit, WorkerInit, PeerAdminInit, ServedInv, OffInv,
           PaidPeerServed, ExpiredOffInterface, Committed
  <1> QED
    BY <1>1, <1>2, <1>3, <1>4 DEF ServiceInv

\* Every step of the server keeps the invariant, and lets committed rows last.
LEMMA ServiceNext ==
  ASSUME StoreAssumption, BillingAssumption, PackageAdminAssumption,
         ServiceInv, [Next]_vars
  PROVE  ServiceInv' /\ \A x \in Committed : Lasts(x)
  <1>1. CASE Accept
    BY <1>1, OrderStepService, TopUpStepService, RemovalStepService, EditStepService
       DEF Accept
  <1>2. ASSUME NEW o \in Orders, RunOrder(o)
        PROVE  ServiceInv' /\ \A x \in Committed : Lasts(x)
    BY <1>2, OrderStepService DEF RunOrder
  <1>3. ASSUME NEW t \in TopUps, RunTopUp(t)
        PROVE  ServiceInv' /\ \A x \in Committed : Lasts(x)
    BY <1>3, TopUpStepService DEF RunTopUp
  <1>4. ASSUME NEW d \in Removals, RunRemoval(d)
        PROVE  ServiceInv' /\ \A x \in Committed : Lasts(x)
    BY <1>4, RemovalStepService DEF RunRemoval
  <1>5. ASSUME NEW e \in Edits, RunEdit(e)
        PROVE  ServiceInv' /\ \A x \in Committed : Lasts(x)
    BY <1>5, EditStepService DEF RunEdit
  <1>6. CASE RunWorker \/ RunTimer
    BY <1>6, WorkerStepService DEF RunWorker, RunTimer
  <1>7. CASE SignalStop \/ ShutdownReturns \/ Exit \/ Restart \/ TimePasses
    BY <1>7, ProcessStepService
  <1>8. CASE Crash
    BY <1>8, CrashService
  <1>9. CASE UNCHANGED vars
    <2>1. UNCHANGED <<peers, packages, uncommitted, broken, iface, now, step, tx,
                      removalVars, workerVars>>
      BY <1>9 DEF vars, storeVars, requestVars, tableVars, txVars, orderVars
    <2>2. BooksInv' /\ BooksInv /\ now \in Int
      BY <1>9, BooksNext, StoreAssumption
         DEF ServiceInv, BooksInv, TypeInv, TypeOK, PSTypeOK, StoreTypeOK
    <2>3. Committed' = Committed /\ \A x \in Committed : Lasts(x)
      BY <2>1 DEF Committed, Lasts
    <2>4. RowsInv' /\ RowsHavePackages'
      BY <2>1, <2>2, <2>3, RowsEnd DEF Alive
    <2>5. ServedInv' /\ WorkerIsLate' /\ OffInv'
      BY <2>1, <2>2, <2>3, ServedStays, LateStays, OffStays DEF ServiceInv
    <2> QED
      BY <2>2, <2>3, <2>4, <2>5 DEF ServiceInv
  <1> QED
    BY <1>1, <1>2, <1>3, <1>4, <1>5, <1>6, <1>7, <1>8, <1>9 DEF Next

\* The inductive invariant holds in every state of every behaviour.
THEOREM ServiceInvariant == Spec => []ServiceInv
  <1>1. Init => ServiceInv
    BY StoreAssumption, ServiceInit
  <1>2. ServiceInv /\ [Next]_vars => ServiceInv'
    BY StoreAssumption, BillingAssumption, PackageAdminAssumption, ServiceNext
  <1> QED
    BY <1>1, <1>2, PTL DEF Spec

\* No package that an order or a peer refers to is ever missing, however a delete
\* races the orders that read the package without a lock.
THEOREM RowsAlwaysHavePackages == Spec => []RowsHavePackages
  <1>1. ServiceInv => RowsHavePackages
    BY DEF ServiceInv
  <1> QED
    BY <1>1, ServiceInvariant, PTL

\* In the whole server too, whatever the worker, the administrators and crashes
\* do, addresses are distinct.
THEOREM AddressesAlwaysDistinct == Spec => []DistinctAddresses
  <1>1. ServiceInv => DistinctAddresses
    BY DEF ServiceInv, RowsInv
  <1> QED
    BY <1>1, ServiceInvariant, PTL

\* In the whole server too, an order's answer says what became of its row.
THEOREM AnswersAlwaysTruthful == Spec => []AnswersAreTruthful
  <1>1. ServiceInv => AnswersAreTruthful
    BY DEF ServiceInv, RowsInv
  <1> QED
    BY <1>1, ServiceInvariant, PTL

\* The worker and the administrators end rows but free no address, so a
\* "duplicate key" answer goes on to mean that another peer has the address.
THEOREM ConflictsAlwaysMeanProgress == Spec => []ConflictMeansProgress
  <1>1. ServiceInv => ConflictMeansProgress
    BY DEF ServiceInv, RowsInv
  <1> QED
    BY <1>1, ServiceInvariant, PTL

\* An order is refused for want of an address only when every one is taken.
THEOREM ExhaustionAlwaysReal == Spec => []ExhaustionIsReal
  <1>1. ServiceInv => ExhaustionIsReal
    BY DEF ServiceInv, RowsInv
  <1> QED
    BY <1>1, ServiceInvariant, PTL

\* A peer that was paid for is on the interface with its own address until it
\* expires or an administrator removes it, whatever other orders, rollbacks,
\* COMMIT errors, crashes of the process and runs of the worker do.  The two
\* hypotheses are needed: awg is told of the address before the COMMIT, which a
\* lost session turns into an error, and nothing puts peers back after a reboot.
THEOREM PaidPeersServed ==
  ASSUME "session" \notin Faults, "reboot" \notin Faults
  PROVE  Spec => []PaidPeerServed
  <1>1. ServiceInv => PaidPeerServed
    BY DEF ServiceInv, ServedInv
  <1> QED
    BY <1>1, ServiceInvariant, PTL

\* A peer whose row says expired is not on the interface, as long as awg does
\* what it is told: its error is logged and ignored by both who remove peers.
THEOREM ExpiredPeersOff ==
  ASSUME "awg_remove" \notin Faults
  PROVE  Spec => []ExpiredOffInterface
  <1>1. ServiceInv => ExpiredOffInterface
    BY DEF ServiceInv, OffInv
  <1> QED
    BY <1>1, ServiceInvariant, PTL

\* No step brings back a peer that is off the interface, revives an expired row
\* or changes its owner, address or date, whatever fails and whoever crashes.
THEOREM NobodyResurrected == Spec => NoResurrection
  <1>1. ServiceInv /\ [Next]_vars =>
          [\A o \in Committed :
             /\ iface[o] = None => iface'[o] = None
             /\ \/ peers'[o] = peers[o]
                \/ peers'[o] = [peers[o] EXCEPT !.status = "expired"]]_vars
    BY StoreAssumption, BillingAssumption, PackageAdminAssumption, ServiceNext DEF Lasts
  <1> QED
    BY <1>1, ServiceInvariant, PTL DEF Spec, NoResurrection

----------------------------------------------------------------------------
(* The server implements the abstract specification of module Reselling:    *)
(* what its handlers and its worker do in many steps, each change that      *)
(* others can see does in one.                                              *)

\* Abstract's quotes.
Quotes == [o \in Orders |-> IF step[o] \in InTx THEN Quoted(o) ELSE None]

SameQuote(x) == /\ step'[x] \in InTx <=> step[x] \in InTx
                /\ step[x] \in InTx => Quoted(x)' = Quoted(x)

\* What the abstract specification sees, but the quotes.
Seen == <<balance, credited, debited, packages, peers, now>>

\* A step nobody sees.
LEMMA UnseenStep ==
  ASSUME UNCHANGED Seen, \A x \in Orders : SameQuote(x)
  PROVE  UNCHANGED Abstract!vars
  <1>1. Quotes' = Quotes
    BY DEF Quotes, SameQuote
  <1> QED
    BY <1>1 DEF Abstract!vars, Quotes, Seen

\* An order that leaves its transaction with nothing withdraws its quote.
LEMMA QuoteWithdrawn ==
  ASSUME UNCHANGED Seen, NEW S \in SUBSET Orders,
         \A x \in Orders \ S : SameQuote(x), \A x \in S : step'[x] \notin InTx
  PROVE  Abstract!Withdraw
  <1>1. Quotes' = [x \in Orders |-> IF x \in S THEN None ELSE Quotes[x]]
    BY DEF Quotes, SameQuote
  <1> QED
    BY <1>1 DEF Abstract!Withdraw, Quotes, Seen

----------------------------------------------------------------------------

\* Nothing is quoted or sold at first.
LEMMA InitRefines ==
  ASSUME StoreAssumption, Init
  PROVE  Abstract!Init
  <1>1. \A u \in Resellers : u \in Users
    BY DEF Users
  <1>2. peers = [o \in Orders |-> None] /\ now = 0
    BY DEF Init, PSInit, StoreInit
  <1>3. Quotes = [o \in Orders |-> None]
    BY DEF Init, PSInit, InTx, Quotes
  <1>4. OfResellers(balance) = OfResellers(credited)
        /\ \A u \in Resellers : OfResellers(debited)[u] = 0
    BY <1>1 DEF Init, PSInit, StoreInit, OfResellers
  <1> QED
    BY <1>2, <1>3, <1>4 DEF Abstract!Init, Quotes

\* The read of the package is the quote.
LEMMA BeginRefines ==
  ASSUME StoreAssumption, OrdersInv, RowsInv, NEW o \in Orders, BeginOrder(o),
         \A x \in Orders \ {o} : SameQuote(x)
  PROVE  Abstract!GetQuote(o) \/ UNCHANGED Abstract!vars
  <1>1. UNCHANGED Seen
    BY DEF BeginOrder, Seen, tableVars
  <1>2. step[o] = "arrived" /\ peers[o] = None /\ tx[o] \in TxLocals
    BY DEF BeginOrder, RowsInv, RowReady, HasRow, OrdersInv, OrdersReady
  <1>3. CASE step'[o] = "quoted"
    <2>1. /\ packages[tx[o].package] # None
          /\ tx' = [tx EXCEPT ![o].price = packages[tx[o].package].price,
                              ![o].days = packages[tx[o].package].days]
      BY <1>2, <1>3 DEF BeginOrder, Goto, OrdersInv, PSTypeOK
    <2>2. /\ Quoted(o)' = [owner |-> tx[o].owner, package |-> tx[o].package,
                           price |-> packages[tx[o].package].price,
                           days |-> packages[tx[o].package].days]
          /\ tx[o].owner \in Resellers /\ tx[o].package \in Packages
      BY <1>2, <2>1 DEF Quoted, OrdersInv, PSTypeOK, TxLocals
    <2>3. Quotes' = [Quotes EXCEPT ![o] = Quoted(o)'] /\ Quotes[o] = None
      BY <1>2, <1>3 DEF Quotes, SameQuote, InTx
    <2>4. o \notin Abstract!Sold
      BY <1>2 DEF Abstract!Sold
    <2>5. \E u \in Resellers, p \in Packages :
            /\ packages[p] # None
            /\ Quotes' = [Quotes EXCEPT ![o] =
                            [owner |-> u, package |-> p,
                             price |-> packages[p].price, days |-> packages[p].days]]
      BY <2>1, <2>2, <2>3
    <2> QED
      BY <1>1, <2>3, <2>4, <2>5 DEF Abstract!GetQuote, Quotes, Seen
  <1>4. CASE step'[o] # "quoted"
    <2>1. step'[o] = "no_package"
      BY <1>4 DEF BeginOrder, Goto, OrdersInv, PSTypeOK
    <2>2. SameQuote(o)
      BY <1>2, <2>1 DEF SameQuote, InTx
    <2> QED
      BY <1>1, <2>2, UnseenStep
  <1> QED
    BY <1>3, <1>4

\* The COMMIT is the purchase: the lock on the reseller's row has kept the
\* balance, the UNIQUE index the address and the foreign key the package.
LEMMA PublishRefines ==
  ASSUME StoreAssumption, OrdersInv, DebitsHeld, RowsInv, RowsHavePackages,
         NEW o \in Orders, step[o] = "onInterface", Alive(o), Publish(o),
         step'[o] \notin InTx, \A x \in Orders \ {o} : SameQuote(x)
  PROVE  Abstract!Buy(o)
  <1>1. /\ tx[o] \in TxLocals /\ tx[o].ip \in Address
        /\ peers[o] = None /\ uncommitted[o] = NewRow(o) /\ uncommitted[o] # None
        /\ RowOf(o) # None /\ RowOf(o).ip = tx[o].ip
    BY WaitingRow DEF HasInserted, HasAddress, OrdersInv, OrdersReady
  <1>2. StoreTypeOK /\ tx[o].owner \in Resellers /\ tx[o].owner \in Users
        /\ tx[o].price \in Int /\ tx[o].days \in Int /\ tx[o].newBalance \in Amount
        /\ tx[o].expiry \in Int
    BY <1>1 DEF OrdersInv, PSTypeOK, TxLocals, Users
  <1>3. tx[o].newBalance = balance[tx[o].owner] - tx[o].price
    BY DEF DebitsHeld, HasDebited
  <1>4. /\ Quotes[o] = Quoted(o) /\ Quotes' = [Quotes EXCEPT ![o] = None]
        /\ Quoted(o) # None
    <2>1. Quoted(o) \in Abstract!Quote
      BY <1>1 DEF Abstract!Quote, Quoted, TxLocals
    <2> QED
      BY <2>1, NoneIsNoQuote DEF Quotes, SameQuote, InTx
  <1>5. packages[tx[o].package] # None
    BY <1>1 DEF RowsHavePackages, NewRow
  <1>6. /\ OfResellers(balance)[tx[o].owner] >= tx[o].price
        /\ OfResellers(balance)[tx[o].owner] - tx[o].price \in Amount
    BY <1>2, <1>3, StoreAssumption DEF OfResellers, Amount, StoreTypeOK
  <1>7. OfResellers(balance)' =
          [OfResellers(balance) EXCEPT
             ![tx[o].owner] = OfResellers(balance)[tx[o].owner] - tx[o].price]
    BY <1>2, <1>3 DEF OfResellers, Publish, StoreTypeOK, Users
  <1>8. OfResellers(debited)' =
          [OfResellers(debited) EXCEPT
             ![tx[o].owner] = OfResellers(debited)[tx[o].owner] + tx[o].price]
    BY <1>2 DEF OfResellers, Publish, StoreTypeOK, Users
  <1>9. tx[o].ip \in Address \ {peers[x].ip : x \in Abstract!Sold}
    <2>1. \A x \in Orders : peers[x] # None => x # o /\ RowOf(x) = peers[x]
      BY <1>1 DEF RowOf
    <2>2. \A x \in Orders : peers[x] # None => peers[x].ip # tx[o].ip
      BY <1>1, <2>1 DEF RowsInv, DistinctAddresses
    <2> QED
      BY <1>1, <2>2 DEF Abstract!Sold
  <1>10. PICK start \in 0 .. now : tx[o].expiry = start + tx[o].days
    <2>1. tx[o].expiry - tx[o].days \in 0 .. now
      BY DEF RowsInv, RowReady, HasAddress
    <2>2. tx[o].expiry = (tx[o].expiry - tx[o].days) + tx[o].days
      BY <1>2
    <2> QED
      BY <2>1, <2>2
  <1>11. peers' = [peers EXCEPT ![o] =
             [owner |-> Quoted(o).owner, package |-> Quoted(o).package, ip |-> tx[o].ip,
              expiry |-> start + Quoted(o).days, status |-> "active"]]
    BY <1>1, <1>10 DEF Publish, NewRow, Quoted
  <1>12. /\ Quoted(o).owner = tx[o].owner /\ Quoted(o).price = tx[o].price
         /\ Quoted(o).package = tx[o].package
    BY DEF Quoted
  <1>13. UNCHANGED <<credited, packages, now>> /\ o \notin Abstract!Sold
    BY <1>1 DEF Publish, Abstract!Sold
  <1> QED
    BY <1>4, <1>5, <1>6, <1>7, <1>8, <1>9, <1>11, <1>12, <1>13 DEF Abstract!Buy, Quotes

\* A rollback withdraws the order's quote.
LEMMA RollbackRefines ==
  ASSUME OrdersInv, NEW o \in Orders, NEW a \in Steps \ InTx, RollbackOrder(o, a),
         \A x \in Orders \ {o} : SameQuote(x)
  PROVE  Abstract!Withdraw
  <1>1. UNCHANGED Seen /\ step'[o] = a
    BY DEF RollbackOrder, Goto, Seen, tableVars, OrdersInv, PSTypeOK
  <1>2. {o} \in SUBSET Orders /\ \A x \in {o} : step'[x] \notin InTx
    BY <1>1
  <1> QED
    BY <1>1, <1>2, QuoteWithdrawn

\* Of an order's steps the world sees the quote, the purchase or the refusal.
LEMMA OrderRefines ==
  ASSUME StoreAssumption, ServiceInv, NEW o \in Orders,
         ReceiveOrder(o) \/ OrderStep(o) \/ OrderFailure(o)
  PROVE  \/ Abstract!GetQuote(o) \/ Abstract!Buy(o) \/ Abstract!Withdraw
         \/ UNCHANGED Abstract!vars
  <1>1. OrdersInv /\ DebitsHeld /\ RowsInv /\ RowsHavePackages
    BY DEF ServiceInv, BooksInv, TypeInv, TypeOK, OrdersInv
  <1>2. \A x \in Orders \ {o} : SameQuote(x)
    <2>1. \A x \in Orders \ {o} : step'[x] = step[x] /\ tx'[x] = tx[x]
      BY <1>1, OrderRowsOnly
    <2> QED
      BY <2>1 DEF SameQuote, Quoted
  <1>3. ASSUME UNCHANGED Seen, SameQuote(o)
        PROVE  UNCHANGED Abstract!vars
    BY <1>2, <1>3, UnseenStep
  <1>4. ASSUME NEW a \in Refusals \union {"commit_error"}, RollbackOrder(o, a)
        PROVE  Abstract!Withdraw
    <2>1. a \in Steps \ InTx
      BY DEF Refusals, Steps, Answered, InTx
    <2> QED
      BY <1>1, <1>2, <1>4, <2>1, RollbackRefines
  <1>5. CASE BeginOrder(o)
    BY <1>1, <1>2, <1>5, BeginRefines
  <1>6. CASE CommitOrder(o) \/ CommitReplyLost(o)
    <2>1. /\ step[o] = "onInterface" /\ Alive(o) /\ Publish(o)
          /\ step'[o] \in {"committed", "commit_error"}
      BY <1>1, <1>6 DEF CommitOrder, CommitReplyLost, Goto, OrdersInv, PSTypeOK
    <2> QED
      BY <1>1, <1>2, <2>1, PublishRefines DEF InTx
  <1>7. CASE \E a \in Refusals \union {"commit_error"} : RollbackOrder(o, a)
    BY <1>4, <1>7
  <1>8. CASE /\ ~BeginOrder(o) /\ ~CommitOrder(o) /\ ~CommitReplyLost(o)
             /\ \A a \in Refusals \union {"commit_error"} : ~RollbackOrder(o, a)
    <2>1. \/ ReceiveOrder(o) \/ DebitReseller(o) \/ AllocateIP(o) \/ InsertPeer(o)
          \/ AddToInterface(o) \/ AnswerOrder(o) \/ SessionLost(o)
      BY <1>8 DEF OrderStep, OrderFailure, RefuseInsufficient, StatementFails,
                  AddToInterfaceFails, CommitFails, Refusals
    <2>2. UNCHANGED Seen
      BY <1>8, <2>1 DEF ReceiveOrder, DebitReseller, AllocateIP, InsertPeer, AddToInterface,
             AnswerOrder, SessionLost, LoseSession, Seen, storeVars, tableVars, Refusals
    <2>3. \/ step[o] \notin InTx /\ step'[o] \notin InTx
          \/ /\ step[o] \in InTx /\ step'[o] \in InTx
             /\ \/ tx' = tx
                \/ \E left : tx' = [tx EXCEPT ![o].newBalance = left]
                \/ \E a, date : tx' = [tx EXCEPT ![o].ip = a, ![o].expiry = date]
      BY <1>1, <1>8, <2>1 DEF ReceiveOrder, DebitReseller, LockedRead, AllocateIP, InsertPeer,
             AddToInterface, AnswerOrder, SessionLost, orderVars, Goto, Refusals, InTx,
             OrdersInv, PSTypeOK
    <2>4. step[o] \in InTx => tx[o] \in TxLocals
      BY <1>1 DEF OrdersInv, OrdersReady, InTx
    <2>5. SameQuote(o)
      <3>1. CASE step[o] \notin InTx
        BY <2>3, <3>1 DEF SameQuote
      <3>2. CASE step[o] \in InTx
        <4>1. tx \in [Orders -> TxLocals \union {None}] /\ tx[o] \in TxLocals
          BY <1>1, <2>4, <3>2 DEF OrdersInv, PSTypeOK
        <4>2. /\ tx'[o].owner = tx[o].owner /\ tx'[o].package = tx[o].package
              /\ tx'[o].price = tx[o].price /\ tx'[o].days = tx[o].days
          <5>1. /\ DOMAIN tx = Orders
                /\ DOMAIN tx[o] = {"owner", "package", "price", "days",
                                   "newBalance", "ip", "expiry"}
            BY <4>1 DEF TxLocals
          <5>2. CASE tx' = tx
            BY <5>2
          <5>3. ASSUME NEW left, tx' = [tx EXCEPT ![o].newBalance = left]
                PROVE  <4>2!1 /\ <4>2!2
            BY <5>1, <5>3
          <5>4. ASSUME NEW a, NEW date, tx' = [tx EXCEPT ![o].ip = a, ![o].expiry = date]
                PROVE  <4>2!1 /\ <4>2!2
            BY <5>1, <5>4
          <5> QED
            BY <2>3, <3>2, <5>2, <5>3, <5>4
        <4> QED
          BY <2>3, <3>2, <4>2 DEF SameQuote, Quoted
      <3> QED
        BY <3>1, <3>2
    <2> QED
      BY <1>3, <2>2, <2>5
  <1> QED
    BY <1>5, <1>6, <1>7, <1>8

----------------------------------------------------------------------------

\* The COMMIT of a top-up is the top-up.
LEMMA PublishTopUpRefines ==
  ASSUME StoreAssumption, ServiceInv, NEW t \in TopUps, topup[t] = "credited", Alive(t),
         PublishTopUp(t), \A x \in Orders : SameQuote(x)
  PROVE  Abstract!TopUp \/ UNCHANGED Abstract!vars
  <1>1. /\ StoreTypeOK /\ CreditsHeld /\ credit[t] \in CreditLocals /\ credit[t].amount > 0
        /\ \A u \in Resellers : u \in Users
    BY DEF ServiceInv, BooksInv, TypeInv, TypeOK, PSTypeOK, TopUpsReady, TopUpInFlight, Users
  <1>2. UNCHANGED <<debited, packages, peers, now>> /\ Quotes' = Quotes
    BY DEF PublishTopUp, Quotes, SameQuote
  <1>3. CASE credit[t].target \in Resellers
    <2> DEFINE u == credit[t].target
               amount == Cents(t)
    <2>1. /\ u \in Resellers /\ u \in Users /\ credit[t].amount \in Int
          /\ credit[t].after \in Amount
      BY <1>1, <1>3 DEF CreditLocals
    <2>2. amount \in Int /\ amount >= 0
      BY <1>1, <2>1 DEF Cents, RoundToCents
    <2>3. credit[t].after = balance[u] + amount /\ balance[u] \in Amount
      BY <1>1, <2>1 DEF CreditsHeld, StoreTypeOK
    <2>4. amount \in Amount /\ OfResellers(balance)[u] + amount \in Amount
      BY <2>1, <2>2, <2>3, StoreAssumption DEF Amount, OfResellers
    <2>5. OfResellers(balance)' =
            [OfResellers(balance) EXCEPT ![u] = OfResellers(balance)[u] + amount]
      BY <1>1, <2>1, <2>3 DEF OfResellers, PublishTopUp, StoreTypeOK
    <2>6. OfResellers(credited)' =
            [OfResellers(credited) EXCEPT ![u] = OfResellers(credited)[u] + amount]
      BY <1>1, <2>1 DEF OfResellers, PublishTopUp, StoreTypeOK
    <2>7. UNCHANGED OfResellers(debited)
      BY <1>2 DEF OfResellers
    <2> HIDE DEF amount, u
    <2> QED
      BY <1>2, <2>1, <2>4, <2>5, <2>6, <2>7 DEF Abstract!TopUp, Quotes
  <1>4. CASE credit[t].target \notin Resellers
    <2>1. /\ OfResellers(balance)' = OfResellers(balance)
          /\ OfResellers(credited)' = OfResellers(credited)
          /\ OfResellers(debited)' = OfResellers(debited)
      BY <1>1, <1>2, <1>4 DEF OfResellers, PublishTopUp, StoreTypeOK
    <2> QED
      BY <1>2, <2>1 DEF Abstract!vars, Quotes
  <1> QED
    BY <1>3, <1>4

\* Of a top-up's steps the world sees one.
LEMMA TopUpRefines ==
  ASSUME StoreAssumption, ServiceInv, NEW t \in TopUps, UNCHANGED orderVars,
         ReceiveTopUp(t) \/ TopUpStep(t) \/ TopUpFailure(t)
  PROVE  Abstract!TopUp \/ UNCHANGED Abstract!vars
  <1>1. \A x \in Orders : SameQuote(x)
    BY DEF SameQuote, Quoted, orderVars
  <1>2. CASE CommitTopUp(t) \/ TopUpCommitReplyLost(t)
    BY <1>1, <1>2, PublishTopUpRefines DEF CommitTopUp, TopUpCommitReplyLost
  <1>3. CASE ~CommitTopUp(t) /\ ~TopUpCommitReplyLost(t)
    <2>1. UNCHANGED Seen
      BY <1>3 DEF ReceiveTopUp, TopUpStep, TopUpFailure, BeginTopUp, CreditBalance,
         CreditNobody, AnswerTopUp, TopUpStatementFails, TopUpCommitFails,
         TopUpSessionLost, LoseSession, RollbackTopUp, Seen, storeVars, tableVars
    <2> QED
      BY <1>1, <2>1, UnseenStep
  <1> QED
    BY <1>2, <1>3

\* The UPDATE that marks a peer expired is the end of its subscription.
LEMMA EndRefines ==
  ASSUME NEW o \in Committed, peers' = [peers EXCEPT ![o].status = "expired"],
         UNCHANGED <<balance, credited, debited, packages, now, orderVars>>
  PROVE  Abstract!End(o)
  <1>1. Quotes' = Quotes /\ o \in Abstract!Sold
    BY DEF Quotes, Quoted, orderVars, Committed, Abstract!Sold
  <1>2. /\ OfResellers(balance)' = OfResellers(balance)
        /\ OfResellers(credited)' = OfResellers(credited)
        /\ OfResellers(debited)' = OfResellers(debited)
    BY DEF OfResellers
  <1> QED
    BY <1>1, <1>2 DEF Abstract!End, Quotes

\* An administrator's removal ends a subscription when its UPDATE runs.
LEMMA RemovalRefines ==
  ASSUME ServiceInv, NEW d \in Removals, UNCHANGED orderVars,
         ReceiveRemoval(d) \/ RemovalStep(d)
  PROVE  (\E o \in Committed : Abstract!End(o)) \/ UNCHANGED Abstract!vars
  <1>1. \A x \in Orders : SameQuote(x)
    BY DEF SameQuote, Quoted, orderVars
  <1>2. CASE UNCHANGED Seen
    BY <1>1, <1>2, UnseenStep
  <1>3. CASE ~UNCHANGED Seen
    <2>1. /\ removal[d] = "off"
          /\ peers' = [peers EXCEPT ![removee[d]].status = "expired"]
          /\ UNCHANGED <<balance, credited, debited, packages, now>>
      BY <1>3 DEF ReceiveRemoval, RemovalStep, FindRemovee, TakeOff, MarkRemoved, Seen,
                  storeVars, tableVars
    <2>2. removee[d] \in Committed
      BY <2>1 DEF ServiceInv, BooksInv, TypeInv, RemovalsReady
    <2> QED
      BY <2>1, <2>2, EndRefines
  <1> QED
    BY <1>2, <1>3

\* So does the worker.
LEMMA WorkerRefines ==
  ASSUME ServiceInv, UNCHANGED orderVars, WorkerStep \/ HourPasses
  PROVE  (\E o \in Committed : Abstract!End(o)) \/ UNCHANGED Abstract!vars
  <1>1. \A x \in Orders : SameQuote(x)
    BY DEF SameQuote, Quoted, orderVars
  <1>2. CASE UNCHANGED Seen
    BY <1>1, <1>2, UnseenStep
  <1>3. CASE ~UNCHANGED Seen
    <2>1. /\ worker = "update"
          /\ peers' = [peers EXCEPT ![current].status = "expired"]
          /\ UNCHANGED <<balance, credited, debited, packages, now>>
      BY <1>3 DEF WorkerStep, Scan, RemoveExpired, MarkExpired, SetExpired, TickReceived,
                  StopReceived, HourPasses, Seen, storeVars, tableVars
    <2>2. current \in Committed
      BY <2>1 DEF ServiceInv, BooksInv, TypeInv, WorkerReady
    <2> QED
      BY <2>1, <2>2, EndRefines
  <1> QED
    BY <1>2, <1>3

\* A package edit is one step of one package, and the foreign key of vpn_peers
\* keeps a package that was sold.
LEMMA EditRefines ==
  ASSUME StoreAssumption, PackageAdminAssumption, ServiceInv, NEW e \in Edits,
         UNCHANGED orderVars, ReceiveEdit(e) \/ EditStep(e)
  PROVE  (\E p \in Packages : Abstract!EditPackage(p)) \/ UNCHANGED Abstract!vars
  <1>1. \A x \in Orders : SameQuote(x)
    BY DEF SameQuote, Quoted, orderVars
  <1>2. UNCHANGED <<balance, credited, debited, peers, now>>
    BY DEF ReceiveEdit, EditStep, CreatePackage, UpdatePackage, CountActivePeers,
           DeletePackage, OnlyPackages, storeVars, tableVars
  <1>3. CASE packages' = packages
    BY <1>1, <1>2, <1>3, UnseenStep DEF Seen
  <1>4. CASE packages' # packages
    <2> DEFINE p == form[e].package
    <2>1. EditStep(e) /\ form[e] \in FormFields /\ p \in Packages
      <3>1. EditStep(e)
        BY <1>4 DEF ReceiveEdit, storeVars, tableVars
      <3>2. edit[e] # "new"
        BY <3>1 DEF EditStep, CreatePackage, UpdatePackage, CountActivePeers,
                    DeletePackage, EditInFlight
      <3> QED
        BY <3>1, <3>2 DEF ServiceInv, BooksInv, TypeInv, EditsReady, FormFields
    <2>2. packages \in [Packages -> PackageRow \union {None}]
      BY DEF ServiceInv, BooksInv, TypeInv, TypeOK, PSTypeOK, StoreTypeOK
    <2>3. Stored(form[e]) # None
      <3>1. Stored(form[e]) \in PackageRow
        BY <2>1 DEF Stored, PackageRow, FormFields, RoundToCents
      <3> QED
        BY <3>1 DEF StoreAssumption
    <2>4. \/ packages' = [packages EXCEPT ![p] = Stored(form[e])]
          \/ /\ packages' = [packages EXCEPT ![p] = None]
             /\ \A o \in Committed : peers[o].package # p
      BY <1>4, <2>1 DEF EditStep, CreatePackage, UpdatePackage, CountActivePeers,
                        DeletePackage
    <2>5. \A x \in Packages \ {p} : packages'[x] = packages[x]
      BY <2>1, <2>2, <2>4
    <2>6. packages'[p] = None => \A o \in Abstract!Sold : peers[o].package # p
      BY <2>1, <2>2, <2>3, <2>4 DEF Abstract!Sold, Committed
    <2>7. Quotes' = Quotes
      BY <1>1 DEF Quotes, SameQuote
    <2>8. /\ OfResellers(balance)' = OfResellers(balance)
          /\ OfResellers(credited)' = OfResellers(credited)
          /\ OfResellers(debited)' = OfResellers(debited)
      BY <1>2 DEF OfResellers
    <2> HIDE DEF p
    <2> QED
      BY <1>2, <2>1, <2>5, <2>6, <2>7, <2>8 DEF Abstract!EditPackage, Quotes
  <1> QED
    BY <1>3, <1>4

\* Of the process the world sees the time, and that a crash answers nobody.
LEMMA ProcessRefines ==
  ASSUME ServiceInv,
         SignalStop \/ ShutdownReturns \/ Exit \/ Crash \/ Restart \/ TimePasses
  PROVE  Abstract!Withdraw \/ Abstract!Tick \/ UNCHANGED Abstract!vars
  <1>1. CASE Crash
    <2>1. UNCHANGED Seen
      BY <1>1 DEF Crash, Seen, tableVars
    <2>2. \A x \in Orders : step'[x] \notin InTx
      BY <1>1 DEF Crash, Cut, InFlight, InTx, ServiceInv, BooksInv, TypeInv, TypeOK,
                  PSTypeOK
    <2>3. Orders \in SUBSET Orders /\ Orders \ Orders = {}
      OBVIOUS
    <2> QED
      BY <2>1, <2>2, <2>3, QuoteWithdrawn
  <1>2. CASE TimePasses
    BY <1>2 DEF Abstract!Tick, TimePasses, Tick, tableVars, requestVars, orderVars, Quoted
  <1>3. CASE SignalStop \/ ShutdownReturns \/ Exit \/ Restart
    <2>1. UNCHANGED Seen /\ UNCHANGED orderVars
      BY <1>3 DEF SignalStop, ShutdownReturns, Exit, Restart, Seen, storeVars, tableVars,
                  requestVars
    <2> QED
      BY <2>1, UnseenStep DEF SameQuote, Quoted, orderVars
  <1> QED
    BY <1>1, <1>2, <1>3

----------------------------------------------------------------------------

\* Every step of the server is a step of the abstract specification or none.
LEMMA NextRefines ==
  ASSUME StoreAssumption, PackageAdminAssumption, ServiceInv, [Next]_vars
  PROVE  [Abstract!Next]_(Abstract!vars)
  <1>1. \A o \in Committed : o \in Orders
    BY DEF Committed
  <1>2. ASSUME NEW o \in Orders, ReceiveOrder(o) \/ OrderStep(o) \/ OrderFailure(o)
        PROVE  [Abstract!Next]_(Abstract!vars)
    BY <1>2, OrderRefines DEF Abstract!Next
  <1>3. ASSUME NEW t \in TopUps, ReceiveTopUp(t) \/ TopUpStep(t) \/ TopUpFailure(t), ButTopUps
        PROVE  [Abstract!Next]_(Abstract!vars)
    BY <1>3, TopUpRefines DEF Abstract!Next, ButTopUps
  <1>4. ASSUME NEW d \in Removals, ReceiveRemoval(d) \/ RemovalStep(d), ButRemovals
        PROVE  [Abstract!Next]_(Abstract!vars)
    BY <1>1, <1>4, RemovalRefines DEF Abstract!Next, ButRemovals
  <1>5. ASSUME NEW e \in Edits, ReceiveEdit(e) \/ EditStep(e), ButEdits
        PROVE  [Abstract!Next]_(Abstract!vars)
    BY <1>5, EditRefines DEF Abstract!Next, ButEdits
  <1>6. CASE RunWorker \/ RunTimer
    BY <1>1, <1>6, WorkerRefines DEF Abstract!Next, RunWorker, RunTimer, ButTheWorker,
                                     requestVars
  <1>7. CASE SignalStop \/ ShutdownReturns \/ Exit \/ Crash \/ Restart \/ TimePasses
    BY <1>7, ProcessRefines DEF Abstract!Next
  <1>8. CASE UNCHANGED vars
    <2>1. UNCHANGED Seen /\ \A x \in Orders : SameQuote(x)
      BY <1>8 DEF vars, storeVars, tableVars, requestVars, orderVars, Seen, SameQuote,
                  Quoted
    <2> QED
      BY <2>1, UnseenStep
  <1>9. CASE Next
    <2>1. CASE Accept
      BY <1>2, <1>3, <1>4, <1>5, <2>1 DEF Accept
    <2>2. ASSUME NEW o \in Orders, RunOrder(o)
          PROVE  [Abstract!Next]_(Abstract!vars)
      BY <1>2, <2>2 DEF RunOrder
    <2>3. ASSUME NEW t \in TopUps, RunTopUp(t)
          PROVE  [Abstract!Next]_(Abstract!vars)
      BY <1>3, <2>3 DEF RunTopUp
    <2>4. ASSUME NEW d \in Removals, RunRemoval(d)
          PROVE  [Abstract!Next]_(Abstract!vars)
      BY <1>4, <2>4 DEF RunRemoval
    <2>5. ASSUME NEW e \in Edits, RunEdit(e)
          PROVE  [Abstract!Next]_(Abstract!vars)
      BY <1>5, <2>5 DEF RunEdit
    <2> QED
      BY <1>6, <1>7, <1>9, <2>1, <2>2, <2>3, <2>4, <2>5 DEF Next
  <1> QED
    BY <1>8, <1>9

\* The server implements the abstract specification: for any number of requests
\* in flight, any failure and any crash, what resellers see is a purchase, a
\* top-up, an edit or the end of a subscription in one step, at the balance and
\* on the rows of that instant.
THEOREM ServerImplementsReselling == Spec => ImplementsReselling
  <1>1. Init => Abstract!Init
    BY StoreAssumption, InitRefines
  <1>2. ServiceInv /\ [Next]_vars => [Abstract!Next]_(Abstract!vars)
    BY StoreAssumption, PackageAdminAssumption, NextRefines
  <1> QED
    BY <1>1, <1>2, ServiceInvariant, PTL DEF Spec, ImplementsReselling, Abstract!Spec

----------------------------------------------------------------------------
(* Who waits for whom. *)

\* What a step of transaction t may do to its connection, its locks and its
\* session: end, begin, lock one row more and write it, lose the session, or
\* none of these.
LocksStep(t) ==
  \/ EndTx(t) /\ t \notin Open'
  \/ /\ conns' = conns \union {t} /\ t \in Open'
     /\ UNCHANGED <<rowLock, broken>>
     /\ \A u \in Users : ~HasWritten(t, u)
  \/ /\ Alive(t) /\ t \in Open /\ t \in Open'
     /\ \A u \in Users : ~HasWritten(t, u)
     /\ \E u \in Users : rowLock' = [rowLock EXCEPT ![u] = t] /\ HasWritten(t, u)'
     /\ UNCHANGED <<conns, broken>>
  \/ /\ LoseSession(t) /\ (t \in Open <=> t \in Open')
     /\ \A u \in Users : HasWritten(t, u) => HasWritten(t, u)'
  \/ /\ UNCHANGED <<rowLock, conns, broken>> /\ (t \in Open <=> t \in Open')
     /\ \A u \in Users : HasWritten(t, u) => HasWritten(t, u)'

\* Such steps keep the locks with those who hold them.
LEMMA LocksFrame ==
  ASSUME StoreAssumption, StoreTypeOK, LocksInv, NEW t \in Txs, LocksStep(t),
         \A x \in Txs \ {t} : x \in Open <=> x \in Open',
         \A x \in Txs \ {t}, u \in Users : HasWritten(x, u) => HasWritten(x, u)'
  PROVE  LocksInv'
  <1>1. Open \subseteq Txs /\ Open' \subseteq Txs
    BY DEF Open, Txs
  <1>2. conns' = Open'
    BY <1>1 DEF LocksInv, LocksStep, EndTx, LoseSession
  <1>3. rowLock \in [Users -> Txs \union {None}] /\ rowLock' \in [Users -> Txs \union {None}]
    BY DEF StoreTypeOK, LocksStep, EndTx, LoseSession, Unlock
  <1>4. ASSUME NEW u \in Users, NEW x \in Txs, rowLock'[u] = x
        PROVE  Alive(x)' /\ HasWritten(x, u)'
    <2>1. rowLock[u] = x => Alive(x) /\ HasWritten(x, u)
      BY DEF LocksInv, StoreAssumption
    <2>2. CASE EndTx(t) \/ LoseSession(t)
      <3>1. rowLock[u] = x /\ x # t
        BY <1>3, <1>4, <2>2 DEF EndTx, LoseSession, Unlock, StoreAssumption
      <3> QED
        BY <2>1, <2>2, <3>1 DEF EndTx, LoseSession, Alive
    <2>3. CASE ~EndTx(t) /\ ~LoseSession(t) /\ rowLock[u] = x
      <3>1. broken' = broken
        BY <2>3 DEF LocksStep
      <3>2. x = t => HasWritten(x, u)'
        BY <2>1, <2>3 DEF LocksStep
      <3> QED
        BY <2>1, <2>3, <3>1, <3>2 DEF Alive
    <2>4. CASE ~EndTx(t) /\ ~LoseSession(t) /\ rowLock[u] # x
      <3>1. rowLock' # rowLock
        BY <1>4, <2>4
      <3>2. /\ Alive(t) /\ broken' = broken
            /\ \E r \in Users : rowLock' = [rowLock EXCEPT ![r] = t] /\ HasWritten(t, r)'
        BY <2>4, <3>1 DEF LocksStep
      <3>3. x = t /\ HasWritten(t, u)'
        BY <1>3, <1>4, <2>4, <3>2
      <3> QED
        BY <3>2, <3>3 DEF Alive
    <2> QED
      BY <2>2, <2>3, <2>4
  <1>5. ASSUME NEW u \in Users, rowLock'[u] # None
        PROVE  Alive(rowLock[u])' /\ HasWritten(rowLock[u], u)'
    BY <1>3, <1>4, <1>5 DEF Alive, HasWritten
  <1> QED
    BY <1>2, <1>5 DEF LocksInv

\* A rolled back order holds nothing any more.
LEMMA RollbackLocks ==
  ASSUME OrdersInv, StoreAssumption, NEW o \in Orders, NEW a \in Answered, EndTx(o), Goto(o, a)
  PROVE  LocksStep(o)
  <1>1. step'[o] = a /\ a \notin InTx /\ o \notin TopUps
    BY DEF OrdersInv, PSTypeOK, Goto, Answered, Refusals, InTx, StoreAssumption
  <1> QED
    BY <1>1 DEF LocksStep, Open

\* An order locks one row, that of its reseller, and gives it back with its
\* connection.
LEMMA OrderLocks ==
  ASSUME StoreAssumption, OrdersInv, NEW o \in Orders,
         ReceiveOrder(o) \/ OrderStep(o) \/ OrderFailure(o)
  PROVE  LocksStep(o)
  <1> USE DEF OrdersInv, PSTypeOK
  <1>1. o \notin TopUps
    BY DEF StoreAssumption
  <1>2. CASE \E a \in Answered : RollbackOrder(o, a)
    BY <1>2, RollbackLocks DEF RollbackOrder
  <1>3. CASE CommitOrder(o) \/ CommitReplyLost(o)
    <2>1. EndTx(o) /\ \E a \in {"committed", "commit_error"} : Goto(o, a)
      BY <1>3 DEF CommitOrder, CommitReplyLost, Publish
    <2>2. step'[o] \notin InTx
      BY <2>1 DEF Goto, InTx
    <2> QED
      BY <1>1, <2>1, <2>2 DEF LocksStep, Open
  <1>4. CASE BeginOrder(o)
    <2>1. CASE Goto(o, "quoted")
      <3>1. conns' = conns \union {o} /\ UNCHANGED <<rowLock, broken>>
        BY <1>4, <2>1 DEF BeginOrder, Goto
      <3>2. step[o] = "arrived" /\ step'[o] = "quoted"
        BY <1>4, <2>1 DEF BeginOrder, Goto
      <3> QED
        BY <1>1, <3>1, <3>2 DEF LocksStep, Open, HasWritten, HasDebited, InTx
    <2>2. CASE ~Goto(o, "quoted")
      <3>1. UNCHANGED <<rowLock, conns, broken>> /\ step[o] = "arrived"
            /\ step'[o] = "no_package"
        BY <1>4, <2>2 DEF BeginOrder, Goto
      <3> QED
        BY <1>1, <3>1 DEF LocksStep, Open, HasWritten, HasDebited, InTx
    <2> QED
      BY <2>1, <2>2
  <1>5. CASE DebitReseller(o) /\ ~(\E a \in Answered : RollbackOrder(o, a))
    <2> DEFINE u == tx[o].owner
    <2>1. /\ step[o] = "quoted" /\ Alive(o) /\ step'[o] = "debited"
          /\ rowLock' = [rowLock EXCEPT ![u] = o]
          /\ \E b \in Int : tx' = [tx EXCEPT ![o].newBalance = b]
          /\ UNCHANGED <<conns, broken>>
      <3>1. tx[o] \in TxLocals /\ u \in Users
        BY <1>5 DEF DebitReseller, LockedRead, OrdersReady, TxLocals, Users
      <3>2. balance[u] - tx[o].price \in Int
        BY <3>1 DEF StoreTypeOK, TxLocals, Amount, StoreAssumption
      <3>3. "db_error" \in Answered
        BY DEF Answered, Refusals
      <3> QED
        BY <1>5, <3>2, <3>3 DEF DebitReseller, LockedRead, Goto
    <2>2. u \in Users /\ tx'[o].owner = u
      BY <2>1 DEF OrdersReady, TxLocals, Users
    <2> QED
      BY <1>1, <2>1, <2>2 DEF LocksStep, Open, HasWritten, HasDebited, InTx
  <1>6. CASE (AllocateIP(o) \/ InsertPeer(o) \/ AddToInterface(o))
             /\ ~(\E a \in Answered : RollbackOrder(o, a))
    <2>1. /\ UNCHANGED <<rowLock, conns, broken>>
          /\ step[o] \in HasDebited /\ step'[o] \in HasDebited
      BY <1>6 DEF AllocateIP, InsertPeer, AddToInterface, Goto, Answered, Refusals, txVars,
                  HasDebited
    <2>2. tx'[o].owner = tx[o].owner
      <3>1. tx[o] \in TxLocals
        BY <2>1 DEF OrdersReady, HasDebited
      <3>2. CASE AllocateIP(o) /\ ~RollbackOrder(o, "no_ip")
        <4>1. PICK a, d : tx' = [tx EXCEPT ![o].ip = a, ![o].expiry = d]
          BY <3>2 DEF AllocateIP
        <4> QED
          BY <3>1, <4>1 DEF TxLocals
      <3>3. CASE RollbackOrder(o, "no_ip") \/ InsertPeer(o) \/ AddToInterface(o)
        BY <3>3 DEF InsertPeer, AddToInterface, RollbackOrder
      <3> QED
        BY <1>6, <3>2, <3>3
    <2> QED
      BY <1>1, <2>1, <2>2 DEF LocksStep, Open, HasWritten, HasDebited, InTx
  <1>7. CASE ReceiveOrder(o) \/ AnswerOrder(o)
    <2>1. UNCHANGED <<rowLock, conns, broken>>
      BY <1>7 DEF ReceiveOrder, AnswerOrder, storeVars, txVars
    <2>2. step[o] \notin InTx /\ step'[o] \notin InTx
      BY <1>7 DEF ReceiveOrder, AnswerOrder, Goto, InTx
    <2> QED
      BY <1>1, <2>1, <2>2 DEF LocksStep, Open, HasWritten, HasDebited, InTx
  <1>8. CASE SessionLost(o)
    BY <1>8 DEF SessionLost, orderVars, LocksStep, Open, HasWritten, StoreAssumption
  <1> QED
    BY <1>2, <1>3, <1>4, <1>5, <1>6, <1>7, <1>8
       DEF OrderStep, OrderFailure, RefuseInsufficient, StatementFails,
           AddToInterfaceFails, CommitFails, Answered, Refusals

\* So does a top-up, which may also lock none.
LEMMA TopUpLocks ==
  ASSUME StoreAssumption, TopUpsInv, NEW t \in TopUps,
         ReceiveTopUp(t) \/ TopUpStep(t) \/ TopUpFailure(t), UNCHANGED orderVars
  PROVE  LocksStep(t)
  <1> USE DEF TopUpsInv, BillingTypeOK
  <1>1. t \notin Orders
    BY DEF StoreAssumption
  <1>2. CASE \E a \in TopUpAnswered \union {"committed"} : EndTx(t) /\ TopUpGoto(t, a)
    <2>1. topup'[t] \notin {"begun", "credited"}
      BY <1>2 DEF TopUpGoto, TopUpAnswered, TopUpRefusals
    <2> QED
      BY <1>1, <1>2, <2>1 DEF LocksStep, Open
  <1>3. CASE BeginTopUp(t)
    <2>1. /\ conns' = conns \union {t} /\ UNCHANGED <<rowLock, broken>>
          /\ topup[t] = "arrived" /\ topup'[t] = "begun"
      BY <1>3 DEF BeginTopUp, TopUpGoto
    <2> QED
      BY <1>1, <2>1 DEF LocksStep, Open, HasWritten
  <1>4. CASE CreditBalance(t) /\ ~RollbackTopUp(t, "db_error")
    <2> DEFINE u == credit[t].target
    <2>1. /\ topup[t] = "begun" /\ Alive(t) /\ topup'[t] = "credited" /\ u \in Resellers
          /\ rowLock' = [rowLock EXCEPT ![u] = t]
          /\ \E b : credit' = [credit EXCEPT ![t].after = b]
          /\ UNCHANGED <<conns, broken>>
      BY <1>4 DEF CreditBalance, TopUpGoto
    <2>2. u \in Users /\ credit'[t].target = u
      BY <2>1 DEF TopUpsReady, CreditLocals, Users
    <2> QED
      BY <1>1, <2>1, <2>2 DEF LocksStep, Open, HasWritten
  <1>5. CASE /\ CreditNobody(t)
            /\ ~RollbackTopUp(t, "db_error") /\ ~RollbackTopUp(t, "not_found")
    <2>1. /\ UNCHANGED <<rowLock, conns, broken>>
          /\ topup[t] = "begun" /\ topup'[t] = "credited"
      BY <1>5 DEF CreditNobody, TopUpGoto, txVars
    <2> QED
      BY <1>1, <2>1 DEF LocksStep, Open, HasWritten
  <1>6. CASE ReceiveTopUp(t) \/ AnswerTopUp(t)
    <2>1. /\ UNCHANGED <<rowLock, conns, broken>>
          /\ topup[t] \notin {"begun", "credited"} /\ topup'[t] \notin {"begun", "credited"}
      BY <1>6 DEF ReceiveTopUp, AnswerTopUp, TopUpGoto, storeVars, txVars
    <2> QED
      BY <1>1, <2>1 DEF LocksStep, Open, HasWritten
  <1>7. CASE TopUpSessionLost(t)
    BY <1>1, <1>7 DEF TopUpSessionLost, billingVars, LocksStep, Open, HasWritten
  <1>8. CASE \/ TopUpStatementFails(t) \/ TopUpCommitFails(t)
             \/ CommitTopUp(t) \/ TopUpCommitReplyLost(t)
    BY <1>2, <1>8 DEF TopUpStatementFails, TopUpCommitFails, CommitTopUp,
                      TopUpCommitReplyLost, PublishTopUp, RollbackTopUp, TopUpAnswered,
                      TopUpRefusals
  <1>9. CASE RollbackTopUp(t, "db_error") \/ RollbackTopUp(t, "not_found")
    BY <1>2, <1>9 DEF RollbackTopUp, TopUpAnswered, TopUpRefusals
  <1> QED
    BY <1>3, <1>4, <1>5, <1>6, <1>7, <1>8, <1>9 DEF TopUpStep, TopUpFailure

\* A step that leaves transactions alone leaves their locks alone.
LEMMA LocksUntouched ==
  ASSUME LocksInv, UNCHANGED <<moneyVars, orderVars, billingVars>>
  PROVE  LocksInv'
  BY DEF LocksInv, Open, HasWritten, Alive, moneyVars, orderVars, billingVars

\* A crash frees every connection and every lock, and leaves nobody in a
\* transaction.
LEMMA CrashLocks ==
  ASSUME BooksInv, Crash
  PROVE  LocksInv'
  <1>1. conns' = {} /\ \A u \in Users : rowLock'[u] = None
    BY DEF Crash, DropAllTxs
  <1>2. \A o \in Orders : step'[o] \notin InTx
    BY DEF Crash, Cut, InFlight, InTx, BooksInv, TypeInv, TypeOK, PSTypeOK
  <1>3. \A t \in TopUps : topup'[t] \notin {"begun", "credited"}
    BY DEF Crash, Cut, TopUpInFlight, BooksInv, TypeInv, TypeOK, BillingTypeOK
  <1>4. Open' = {}
    BY <1>2, <1>3 DEF Open
  <1> QED
    BY <1>1, <1>4 DEF LocksInv

\* Every step of the server keeps connections and locks with those who hold them.
LEMMA LocksNext ==
  ASSUME StoreAssumption, PackageAdminAssumption, BooksInv, LocksInv, [Next]_vars
  PROVE  LocksInv'
  <1>1. OrdersInv /\ TopUpsInv /\ StoreTypeOK
    BY DEF BooksInv, TypeInv, TypeOK, OrdersInv, PSTypeOK, TopUpsInv
  <1>2. ASSUME NEW o \in Orders, ReceiveOrder(o) \/ OrderStep(o) \/ OrderFailure(o),
               ButOrders
        PROVE  LocksInv'
    <2>1. UNCHANGED billingVars /\ o \notin TopUps /\ o \in Txs
      BY <1>2 DEF ButOrders, StoreAssumption, Txs
    <2>2. \A x \in Orders \ {o} : step'[x] = step[x] /\ tx'[x] = tx[x]
      BY <1>1, <1>2, OrderLocals
    <2>3. /\ \A x \in Txs \ {o} : x \in Open <=> x \in Open'
          /\ \A x \in Txs \ {o}, u \in Users : HasWritten(x, u) => HasWritten(x, u)'
      BY <2>1, <2>2 DEF Open, HasWritten, billingVars
    <2>4. LocksStep(o)
      BY <1>1, <1>2, OrderLocks
    <2> QED
      BY <1>1, <2>1, <2>3, <2>4, LocksFrame
  <1>3. ASSUME NEW t \in TopUps, ReceiveTopUp(t) \/ TopUpStep(t) \/ TopUpFailure(t),
               ButTopUps
        PROVE  LocksInv'
    <2>1. UNCHANGED orderVars /\ t \notin Orders /\ t \in Txs
      BY <1>3 DEF ButTopUps, StoreAssumption, Txs
    <2>2. \A x \in TopUps \ {t} : topup'[x] = topup[x] /\ credit'[x] = credit[x]
      BY <1>1, <1>3, TopUpLocals DEF TopUpsInv
    <2>3. /\ \A x \in Txs \ {t} : x \in Open <=> x \in Open'
          /\ \A x \in Txs \ {t}, u \in Users : HasWritten(x, u) => HasWritten(x, u)'
      BY <2>1, <2>2 DEF Open, HasWritten, orderVars
    <2>4. LocksStep(t)
      BY <1>1, <1>3, <2>1, TopUpLocks
    <2> QED
      BY <1>1, <2>1, <2>3, <2>4, LocksFrame
  <1>4. ASSUME NEW d \in Removals, ReceiveRemoval(d) \/ RemovalStep(d), ButRemovals
        PROVE  LocksInv'
    BY <1>4, RemovalTypes, LocksUntouched
       DEF BooksInv, TypeInv, TypeOK, PSTypeOK, ButRemovals
  <1>5. ASSUME NEW e \in Edits, ReceiveEdit(e) \/ EditStep(e), ButEdits
        PROVE  LocksInv'
    BY <1>5, EditTypes, LocksUntouched DEF BooksInv, TypeInv, TypeOK, PSTypeOK, ButEdits
  <1>6. CASE RunWorker \/ RunTimer
    BY <1>6, WorkerTypes, LocksUntouched
       DEF BooksInv, TypeInv, TypeOK, PSTypeOK, RunWorker, RunTimer, ButTheWorker, requestVars
  <1>7. CASE SignalStop \/ ShutdownReturns \/ Exit \/ Restart \/ TimePasses \/ UNCHANGED vars
    BY <1>7, LocksUntouched
       DEF SignalStop, ShutdownReturns, Exit, Restart, TimePasses, Tick, vars, storeVars,
           tableVars, txVars, requestVars, moneyVars
  <1>8. CASE Crash
    BY <1>8, CrashLocks
  <1>9. CASE Accept
    BY <1>2, <1>3, <1>4, <1>5, <1>9 DEF Accept
  <1> QED
    BY <1>2, <1>3, <1>4, <1>5, <1>6, <1>7, <1>8, <1>9
       DEF Next, RunOrder, RunTopUp, RunRemoval, RunEdit

\* Connections and row locks belong to open transactions, always.
THEOREM LocksInvariant == Spec => []LocksInv
  <1>1. Init => LocksInv
    BY DEF Init, PSInit, StoreInit, BillingInit, LocksInv, Open, InTx
  <1>2. BooksInv /\ LocksInv /\ [Next]_vars => LocksInv'
    BY StoreAssumption, PackageAdminAssumption, LocksNext
  <1> QED
    BY <1>1, <1>2, BooksInvariant, PTL DEF Spec

\* Whoever has a row that is not committed waits for nobody: it is about to call
\* awg or to commit.
LEMMA InsertersRun ==
  ASSUME StoreAssumption, RowsInv, NEW o \in Orders, uncommitted[o] # None
  PROVE  o \in Open /\ WaitsForNobody(o)
  <1>1. step[o] \in HasInserted /\ o \notin TopUps
    BY DEF RowsInv, RowReady, StoreAssumption
  <1> QED
    BY <1>1 DEF HasInserted, Open, InTx, WaitsForNobody, WaitsFor

\* Whoever holds the lock of a row waits at most for an address, and so for one
\* who waits for nobody.
LEMMA HoldersWaitOnce ==
  ASSUME StoreAssumption, RowsInv, LocksInv, NEW u \in Users, NEW x \in Txs, rowLock[u] = x
  PROVE  /\ x \in Open
         /\ \A y \in Txs : WaitsFor(x, y) => y \in Open /\ WaitsForNobody(y)
  <1>1. HasWritten(x, u)
    BY DEF LocksInv, StoreAssumption
  <1>2. CASE x \in Orders
    <2>1. step[x] \in HasDebited /\ x \notin TopUps
      BY <1>1, <1>2 DEF HasWritten, StoreAssumption
    <2>2. \A y \in Txs : WaitsFor(x, y) => y \in Orders /\ uncommitted[y] # None
      BY <2>1 DEF WaitsFor, HasDebited
    <2> QED
      BY <1>2, <2>1, <2>2, InsertersRun DEF Open, HasDebited, InTx
  <1>3. CASE x \in TopUps
    <2>1. topup[x] = "credited" /\ x \notin Orders
      BY <1>1, <1>3 DEF HasWritten, StoreAssumption
    <2> QED
      BY <1>3, <2>1 DEF Open, WaitsFor
  <1> QED
    BY <1>2, <1>3 DEF Txs

\* No transaction waits for itself, in however many steps.
LEMMA NobodyInACircle ==
  ASSUME StoreAssumption, ServiceInv, LocksInv
  PROVE  NoCircularWait /\ PoolNeverStuck
  <1> USE DEF ServiceInv
  <1>1. NoCircularWait
    <2> SUFFICES ASSUME NEW t \in Txs, NEW x \in Txs, WaitsFor(t, x)
                 PROVE  /\ x \in Open
                        /\ \A y \in Txs : WaitsFor(x, y) => y \in Open /\ WaitsForNobody(y)
      BY DEF NoCircularWait
    <2>1. CASE x \in Orders /\ uncommitted[x] # None
      BY <2>1, InsertersRun DEF WaitsForNobody
    <2>2. CASE ~(x \in Orders /\ uncommitted[x] # None)
      <3>1. /\ t \in Orders /\ step[t] # "new" => tx[t].owner \in Users
            /\ Resellers \subseteq Users
        BY DEF BooksInv, TypeInv, OrdersReady, TxLocals, Users
      <3>2. \E u \in Users : rowLock[u] = x
        BY <2>2, <3>1 DEF WaitsFor
      <3> QED
        BY <3>2, HoldersWaitOnce
    <2> QED
      BY <2>1, <2>2
  <1>2. PoolNeverStuck
    <2> SUFFICES ASSUME ~PoolFree
                 PROVE  \E t \in conns : t \in Open /\ WaitsForNobody(t)
      BY DEF PoolNeverStuck
    <2>1. conns = Open /\ Open \subseteq Txs
      BY DEF LocksInv, Open, Txs
    <2>2. conns # {}
      BY FS_EmptySet DEF PoolFree, StoreAssumption
    <2>3. PICK t \in conns : TRUE
      BY <2>2
    <2>4. CASE WaitsForNobody(t)
      BY <2>1, <2>3, <2>4
    <2>5. CASE ~WaitsForNobody(t)
      <3>1. PICK x \in Txs : WaitsFor(t, x)
        BY <2>5 DEF WaitsForNobody
      <3>2. x \in Open /\ \A y \in Txs : WaitsFor(x, y) => y \in Open /\ WaitsForNobody(y)
        BY <1>1, <2>1, <2>3, <3>1 DEF NoCircularWait
      <3>3. WaitsForNobody(x) \/ \E y \in Txs : y \in Open /\ WaitsForNobody(y)
        BY <3>2 DEF WaitsForNobody
      <3> QED
        BY <2>1, <3>2, <3>3
    <2> QED
      BY <2>4, <2>5
  <1> QED
    BY <1>1, <1>2

\* However many purchases and top-ups wait for each other's locks and addresses,
\* no chain of them has more than two links: there is no deadlock for
\* PostgreSQL to break.
THEOREM NobodyWaitsInACircle == Spec => []NoCircularWait
  <1>1. ServiceInv /\ LocksInv => NoCircularWait
    BY StoreAssumption, NobodyInACircle
  <1> QED
    BY <1>1, ServiceInvariant, LocksInvariant, PTL

\* However small the pool, its connections are never all held by transactions
\* that wait for each other: one of the holders can go on.
THEOREM PoolIsNeverStuck == Spec => []PoolNeverStuck
  <1>1. ServiceInv /\ LocksInv => PoolNeverStuck
    BY StoreAssumption, NobodyInACircle
  <1> QED
    BY <1>1, ServiceInvariant, LocksInvariant, PTL
=============================================================================
