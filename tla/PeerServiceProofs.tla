------------------------- MODULE PeerServiceProofs -------------------------
(* What the steps of an order preserve, for every value of the constants. *)
EXTENDS PeerService, TLAPS

----------------------------------------------------------------------------
(* What every transaction does to the store, whatever its statements are. *)

\* A step of transaction t leaves the locks, the balances they protect, the
\* sessions and the uncommitted rows of all others as they were.
Isolated(t) ==
  /\ \A x \in Txs \ {t}, u \in Users :
       rowLock[u] = x => rowLock'[u] = x /\ balance'[u] = balance[u]
  /\ \A x \in Txs \ {t} : Alive(x)' <=> Alive(x)
  /\ \A o \in Orders \ {t} : uncommitted'[o] = uncommitted[o]

\* Ending a transaction keeps the types of the transaction tables.
LEMMA EndTxType ==
  ASSUME StoreTypeOK, NEW t, EndTx(t)
  PROVE  /\ uncommitted' \in [Orders -> PeerRow \union {None}]
         /\ rowLock' \in [Users -> Txs \union {None}]
         /\ conns' \subseteq Txs
         /\ broken' \subseteq conns'
  BY DEF StoreTypeOK, EndTx, DropRow, Unlock

\* Ending a transaction disturbs no other, if the balances it publishes are
\* those of users whose row no other transaction has locked.
LEMMA EndTxIsolated ==
  ASSUME StoreTypeOK, NEW t, EndTx(t),
         \A x \in Txs \ {t}, u \in Users : rowLock[u] = x => balance'[u] = balance[u]
  PROVE  Isolated(t)
  <1>1. \A x \in Txs \ {t}, u \in Users : rowLock[u] = x => rowLock'[u] = x
    BY DEF EndTx, Unlock
  <1>2. \A x \in Txs \ {t} : Alive(x)' <=> Alive(x)
    BY DEF EndTx, Alive
  <1>3. \A o \in Orders \ {t} : uncommitted'[o] = uncommitted[o]
    BY DEF EndTx, DropRow
  <1> QED
    BY <1>1, <1>2, <1>3 DEF Isolated

\* The loss of a session keeps the types and disturbs no other transaction.
LEMMA LoseSessionStep ==
  ASSUME StoreAssumption, StoreTypeOK, NEW t \in Txs, LoseSession(t)
  PROVE  StoreTypeOK' /\ Isolated(t) /\ UNCHANGED <<tableVars, conns, iface, now>>
  <1>1. StoreTypeOK'
    BY DEF StoreTypeOK, LoseSession, Fault, DropRow, Unlock, tableVars, StoreAssumption
  <1>2. Isolated(t)
    BY DEF LoseSession, Fault, DropRow, Unlock, Isolated, Alive, StoreTypeOK, tableVars
  <1> QED
    BY <1>1, <1>2 DEF LoseSession

\* A whole number of hundredths is added before or after rounding alike.
LEMMA Rounding ==
  ASSUME NEW b \in Nat, NEW m \in Int, m > 0
  PROVE  /\ RoundToCents(m) \in Nat
         /\ RoundToCents(10 * b + m) = b + RoundToCents(m)
  BY SMT DEF RoundToCents

----------------------------------------------------------------------------
(* Orders. *)

OrdersInv == PSTypeOK /\ OrdersReady

\* A rollback keeps the types and the rows.
LEMMA RollbackType ==
  ASSUME StoreAssumption, OrdersInv, NEW o \in Orders, step[o] # "new",
         NEW a \in Answered, RollbackOrder(o, a), faults' \in 0 .. MaxFaults
  PROVE  OrdersInv' /\ peers' = peers
  <1>1. StoreTypeOK'
    BY EndTxType DEF OrdersInv, PSTypeOK, StoreTypeOK, RollbackOrder, tableVars
  <1>2. step' \in [Orders -> Steps] /\ tx' = tx
    BY DEF OrdersInv, PSTypeOK, RollbackOrder, Goto, Steps
  <1>3. OrdersReady'
    BY <1>2 DEF OrdersInv, PSTypeOK, StoreTypeOK, OrdersReady, RollbackOrder, Goto,
                Answered, Refusals, HasAddress, HasInserted, EndTx, DropRow, Alive
  <1> QED
    BY <1>1, <1>2, <1>3 DEF OrdersInv, PSTypeOK, RollbackOrder, tableVars

\* Each step of an order keeps the types and loses no row.
LEMMA OrderTypes ==
  ASSUME StoreAssumption, OrdersInv, NEW o \in Orders,
         ReceiveOrder(o) \/ OrderStep(o) \/ OrderFailure(o)
  PROVE  OrdersInv' /\ Committed \subseteq Committed'
  <1> USE DEF OrdersInv, PSTypeOK
  <1>1. CASE ReceiveOrder(o)
    BY <1>1 DEF ReceiveOrder, OrdersReady, StoreTypeOK, storeVars, tableVars, txVars,
                Goto, Steps, InFlight, TxLocals, Unrouted, HasAddress, HasInserted, Alive, Committed,
                StoreAssumption, Amount
  <1>2. CASE BeginOrder(o)
    BY <1>2 DEF BeginOrder, OrdersReady, StoreTypeOK, tableVars,
                Goto, Steps, InFlight, InTx, Answered, Refusals, TxLocals, HasAddress, HasInserted, Alive,
                Committed, PackageRow, Txs
  <1>3. CASE RefuseInsufficient(o)
    BY <1>3, RollbackType DEF RefuseInsufficient, LockedRead, Answered, Refusals, Committed,
                StoreTypeOK
  <1>4. CASE DebitReseller(o)
    <2>1. CASE RollbackOrder(o, "db_error") /\ faults' = faults
      BY <1>4, <2>1, RollbackType DEF DebitReseller, LockedRead, Answered, Refusals,
                Committed, StoreTypeOK
    <2>2. CASE ~RollbackOrder(o, "db_error")
      BY <1>4, <2>2 DEF DebitReseller, LockedRead, OrdersReady, StoreTypeOK, tableVars,
                Goto, Steps, InFlight, InTx, TxLocals, HasAddress, HasInserted, Alive, Committed, Txs, Amount,
                Users
    <2> QED
      BY <1>4, <2>1, <2>2 DEF DebitReseller
  <1>5. CASE AllocateIP(o)
    <2>1. CASE RollbackOrder(o, "no_ip") /\ faults' = faults
      BY <1>5, <2>1, RollbackType DEF AllocateIP, Answered, Refusals, Committed, StoreTypeOK
    <2>2. CASE ~RollbackOrder(o, "no_ip")
      <3>1. PICK a \in Address :
              /\ tx' = [tx EXCEPT ![o].ip = a, ![o].expiry = now + tx[o].days]
              /\ Goto(o, "allocated")
              /\ UNCHANGED <<tableVars, txVars, iface, now, faults>>
        BY <1>5, <2>2 DEF AllocateIP, FreeAddresses
      <3>2. step[o] = "debited" /\ tx[o] \in TxLocals
        BY <1>5 DEF AllocateIP, OrdersReady
      <3>3. now + tx[o].days \in Int
        BY <3>2 DEF TxLocals, StoreTypeOK, StoreAssumption
      <3>4. tx'[o] \in TxLocals /\ tx'[o].ip = a
        BY <3>1, <3>2, <3>3 DEF TxLocals
      <3>5. tx' \in [Orders -> TxLocals \union {None}]
        BY <3>1, <3>4
      <3>6. step' \in [Orders -> Steps]
        BY <3>1 DEF Goto, Steps, InFlight, InTx
      <3>7. OrdersReady'
        BY <3>1, <3>4 DEF OrdersReady, Goto, HasAddress, HasInserted, Alive, txVars
      <3>8. StoreTypeOK' /\ Committed' = Committed
        BY <3>1 DEF StoreTypeOK, tableVars, txVars, Committed
      <3> QED
        BY <3>5, <3>6, <3>7, <3>8
    <2> QED
      BY <1>5, <2>1, <2>2 DEF AllocateIP
  <1>6. CASE InsertPeer(o)
    <2>1. CASE (RollbackOrder(o, "conflict") \/ RollbackOrder(o, "db_error")) /\ faults' = faults
      BY <1>6, <2>1, RollbackType DEF InsertPeer, Answered, Refusals, Committed, StoreTypeOK
    <2>2. CASE ~RollbackOrder(o, "conflict") /\ ~RollbackOrder(o, "db_error")
      BY <1>6, <2>2 DEF InsertPeer, OrdersReady, StoreTypeOK, tableVars,
                Goto, Steps, InFlight, InTx, TxLocals, HasAddress, HasInserted, Alive, Committed, PeerRow,
                NewRow, StoreAssumption
    <2> QED
      BY <1>6, <2>1, <2>2 DEF InsertPeer
  <1>7. CASE AddToInterface(o)
    BY <1>7 DEF AddToInterface, AddPeer, OrdersReady, StoreTypeOK, tableVars, txVars,
                Goto, Steps, InFlight, InTx, HasAddress, HasInserted, Alive, Committed
  <1>8. CASE CommitOrder(o) \/ CommitReplyLost(o)
    <2> SUFFICES ASSUME Publish(o), step[o] = "onInterface", Alive(o),
                        faults' \in 0 .. MaxFaults,
                        Goto(o, "committed") \/ Goto(o, "commit_error")
                 PROVE  OrdersInv' /\ Committed \subseteq Committed'
      BY <1>8 DEF CommitOrder, CommitReplyLost, StoreTypeOK, Fault, StoreAssumption
    <2>1. tx[o] \in TxLocals /\ uncommitted[o] # None
      BY DEF OrdersReady, HasInserted
    <2>2. StoreTypeOK'
      BY <2>1, EndTxType DEF Publish, StoreTypeOK, TxLocals, Users
    <2>3. step' \in [Orders -> Steps] /\ tx' = tx /\ OrdersReady'
      BY DEF OrdersReady, Publish, Goto, Steps, InFlight, Answered, HasAddress,
             HasInserted, Alive, EndTx, DropRow, StoreTypeOK
    <2>4. Committed \subseteq Committed'
      BY <2>1 DEF Publish, Committed, StoreTypeOK
    <2> QED
      BY <2>2, <2>3, <2>4
  <1>9. CASE AnswerOrder(o)
    BY <1>9 DEF AnswerOrder, OrdersReady, StoreTypeOK, storeVars, tableVars, txVars,
                Goto, Steps, Answered, HasAddress, HasInserted, Alive, Committed
  <1>10. CASE StatementFails(o) \/ AddToInterfaceFails(o) \/ CommitFails(o)
    <2>1. faults' \in 0 .. MaxFaults /\ step[o] # "new"
      BY <1>10 DEF StatementFails, AddToInterfaceFails, CommitFails, Fault, StoreTypeOK,
                StoreAssumption
    <2>2. \E a \in Answered : RollbackOrder(o, a)
      BY <1>10 DEF StatementFails, AddToInterfaceFails, CommitFails, Answered, Refusals
    <2> QED
      BY <2>1, <2>2, RollbackType DEF Committed
  <1>11. CASE SessionLost(o)
    BY <1>11 DEF SessionLost, LoseSession, Fault, DropRow, Unlock, orderVars, OrdersReady,
                StoreTypeOK, tableVars, Committed, StoreAssumption, Alive, HasInserted
  <1> QED
    BY <1>1, <1>2, <1>3, <1>4, <1>5, <1>6, <1>7, <1>8, <1>9, <1>10, <1>11
       DEF OrderStep, OrderFailure

\* An order that has debited, with its session up, holds the lock it debited
\* under: nobody else may.
LEMMA OnlyTheHolderPublishes ==
  ASSUME StoreAssumption, OrdersInv, DebitsHeld, NEW o \in Orders,
         step[o] \in HasDebited, Alive(o), Publish(o)
  PROVE  \A x \in Txs \ {o}, u \in Users : rowLock[u] = x => balance'[u] = balance[u]
  <1>1. rowLock[tx[o].owner] = o
    BY DEF DebitsHeld
  <1> QED
    BY <1>1 DEF Publish, OrdersInv, PSTypeOK, StoreTypeOK

\* A rolled back order disturbs no other transaction and no balance.
LEMMA RollbackIsolated ==
  ASSUME StoreAssumption, OrdersInv, NEW o \in Orders, NEW a, RollbackOrder(o, a)
  PROVE  Isolated(o)
  BY EndTxIsolated DEF RollbackOrder, OrdersInv, PSTypeOK, tableVars

\* The steps of one order leave the locks, the rows and the locked balances of
\* every other transaction as they were.
LEMMA OrderIsolated ==
  ASSUME StoreAssumption, OrdersInv, DebitsHeld, NEW o \in Orders,
         ReceiveOrder(o) \/ OrderStep(o) \/ OrderFailure(o)
  PROVE  Isolated(o)
  <1> USE DEF OrdersInv, PSTypeOK
  <1>1. CASE ReceiveOrder(o) \/ BeginOrder(o) \/ AnswerOrder(o) \/ AddToInterface(o)
    BY <1>1 DEF ReceiveOrder, BeginOrder, AnswerOrder, AddToInterface, Isolated, Alive,
                storeVars, tableVars, txVars
  <1>2. CASE \E a \in Answered : RollbackOrder(o, a)
    BY <1>2, RollbackIsolated
  <1>3. CASE DebitReseller(o) /\ ~(\E a \in Answered : RollbackOrder(o, a))
    <2>1. tx[o].owner \in Users /\ rowLock[tx[o].owner] = None
      BY <1>3 DEF DebitReseller, LockedRead, OrdersReady, TxLocals, Users
    <2>2. /\ rowLock' = [rowLock EXCEPT ![tx[o].owner] = o]
          /\ UNCHANGED <<tableVars, uncommitted, broken>>
      BY <1>3 DEF DebitReseller, Answered, Refusals
    <2> QED
      BY <2>1, <2>2 DEF Isolated, Alive, StoreTypeOK, tableVars, StoreAssumption
  <1>4. CASE AllocateIP(o) /\ ~(\E a \in Answered : RollbackOrder(o, a))
    BY <1>4 DEF AllocateIP, Isolated, Alive, tableVars, txVars, Answered, Refusals
  <1>5. CASE InsertPeer(o) /\ ~(\E a \in Answered : RollbackOrder(o, a))
    BY <1>5 DEF InsertPeer, Isolated, Alive, tableVars, Answered, Refusals, StoreTypeOK
  <1>6. CASE CommitOrder(o) \/ CommitReplyLost(o)
    <2>1. Publish(o) /\ Alive(o) /\ step[o] \in HasDebited
      BY <1>6 DEF CommitOrder, CommitReplyLost, HasDebited
    <2> QED
      BY <2>1, OnlyTheHolderPublishes, EndTxIsolated DEF Publish
  <1>7. CASE SessionLost(o)
    BY <1>7, LoseSessionStep DEF SessionLost, Txs
  <1> QED
    BY <1>1, <1>2, <1>3, <1>4, <1>5, <1>6, <1>7
       DEF OrderStep, OrderFailure, RefuseInsufficient, StatementFails,
           AddToInterfaceFails, CommitFails, Answered, Refusals

\* What an order promised before a step of another transaction, it keeps.
LEMMA DebitKept ==
  ASSUME OrdersInv, DebitsHeld, StoreAssumption, NEW o \in Orders,
         NEW t \in Txs \ {o}, Isolated(t), step'[o] = step[o], tx'[o] = tx[o],
         step[o] \in HasDebited, Alive(o)'
  PROVE  /\ rowLock'[tx'[o].owner] = o
         /\ tx'[o].newBalance = balance'[tx'[o].owner] - tx'[o].price
  <1>1. tx[o].owner \in Users /\ o \in Txs \ {t}
    BY DEF OrdersInv, OrdersReady, HasDebited, TxLocals, Users, Txs
  <1>2. Alive(o)
    BY <1>1 DEF Isolated
  <1>3. /\ rowLock[tx[o].owner] = o
        /\ tx[o].newBalance = balance[tx[o].owner] - tx[o].price
    BY <1>2 DEF DebitsHeld
  <1> QED
    BY <1>1, <1>3 DEF Isolated

\* A step of an order touches the locals of no other.
LEMMA OrderLocals ==
  ASSUME OrdersInv, NEW o \in Orders,
         ReceiveOrder(o) \/ OrderStep(o) \/ OrderFailure(o),
         NEW x \in Orders \ {o}
  PROVE  step'[x] = step[x] /\ tx'[x] = tx[x]
  BY DEF OrdersInv, PSTypeOK, OrderStep, OrderFailure, ReceiveOrder, BeginOrder,
         RefuseInsufficient, DebitReseller, AllocateIP, InsertPeer, AddToInterface,
         CommitOrder, AnswerOrder, StatementFails, AddToInterfaceFails, CommitReplyLost,
         CommitFails, SessionLost, Publish, RollbackOrder, Goto, orderVars

\* The steps of an order keep the books: a debit is computed under the row lock
\* and published under it.
LEMMA OrderBooks ==
  ASSUME StoreAssumption, OrdersInv, DebitsHeld, BooksBalance, NEW o \in Orders,
         ReceiveOrder(o) \/ OrderStep(o) \/ OrderFailure(o)
  PROVE  BooksBalance' /\ DebitsHeld'
  <1>1. BooksBalance'
    <2>1. CASE CommitOrder(o) \/ CommitReplyLost(o)
      <3>1. Publish(o) /\ Alive(o) /\ step[o] = "onInterface"
        BY <2>1 DEF CommitOrder, CommitReplyLost
      <3>2. tx[o] \in TxLocals
        BY <3>1 DEF OrdersInv, OrdersReady
      <3>3. tx[o].newBalance = balance[tx[o].owner] - tx[o].price
        BY <3>1 DEF DebitsHeld, HasDebited
      <3> QED
        BY <3>1, <3>2, <3>3 DEF Publish, BooksBalance, OrdersInv, PSTypeOK, StoreTypeOK,
                                TxLocals, Users
    <2>2. CASE ~(CommitOrder(o) \/ CommitReplyLost(o))
      <3>1. UNCHANGED <<balance, credited, debited>>
        BY <2>2 DEF OrderStep, OrderFailure, ReceiveOrder, BeginOrder, RefuseInsufficient,
              DebitReseller, AllocateIP, InsertPeer, AddToInterface, AnswerOrder,
              StatementFails, AddToInterfaceFails, CommitFails, SessionLost, LoseSession,
              RollbackOrder, storeVars, tableVars
      <3> QED
        BY <3>1 DEF BooksBalance
    <2> QED
      BY <2>1, <2>2
  <1>2. DebitsHeld'
    <2> SUFFICES ASSUME NEW x \in Orders, step'[x] \in HasDebited, Alive(x)'
                 PROVE  /\ rowLock'[tx'[x].owner] = x
                        /\ tx'[x].newBalance = balance'[tx'[x].owner] - tx'[x].price
      BY DEF DebitsHeld
    <2>1. CASE x # o
      BY <2>1, OrderLocals, OrderIsolated, DebitKept DEF Txs
    <2>2. CASE x = o
      <3>1. step'[o] \in HasDebited /\ Alive(o)' /\ step[o] \in Steps
        BY <2>2 DEF OrdersInv, PSTypeOK
      <3>2. CASE DebitReseller(o)
        <4>1. /\ tx' = [tx EXCEPT ![o].newBalance = balance[tx[o].owner] - tx[o].price]
              /\ rowLock' = [rowLock EXCEPT ![tx[o].owner] = o]
              /\ balance' = balance
          BY <3>1, <3>2 DEF DebitReseller, RollbackOrder, Goto, HasDebited, tableVars,
                            OrdersInv, PSTypeOK
        <4>2. tx[o] \in TxLocals
          BY <3>2 DEF DebitReseller, LockedRead, OrdersInv, OrdersReady
        <4> QED
          BY <2>2, <4>1, <4>2 DEF OrdersInv, PSTypeOK, StoreTypeOK, TxLocals, Users
      <3>3. CASE AllocateIP(o) \/ InsertPeer(o) \/ AddToInterface(o)
        <4>1. UNCHANGED <<balance, rowLock, broken>> /\ step[o] \in HasDebited
          BY <3>1, <3>3 DEF AllocateIP, InsertPeer, AddToInterface, RollbackOrder, Goto,
                            HasDebited, tableVars, txVars, OrdersInv, PSTypeOK
        <4>2. /\ tx'[o].owner = tx[o].owner
              /\ tx'[o].newBalance = tx[o].newBalance
              /\ tx'[o].price = tx[o].price
          <5>1. tx[o] \in TxLocals
            BY <4>1 DEF HasDebited, OrdersInv, OrdersReady
          <5>2. \/ tx' = tx
                \/ \E a \in Address :
                     tx' = [tx EXCEPT ![o].ip = a, ![o].expiry = now + tx[o].days]
            BY <3>3 DEF AllocateIP, FreeAddresses, InsertPeer, AddToInterface, RollbackOrder
          <5>3. ASSUME NEW a \in Address,
                       tx' = [tx EXCEPT ![o].ip = a, ![o].expiry = now + tx[o].days]
                PROVE  tx'[o] = [tx[o] EXCEPT !.ip = a, !.expiry = now + tx[o].days]
            BY <5>3 DEF OrdersInv, PSTypeOK
          <5> QED
            BY <5>1, <5>2, <5>3 DEF TxLocals
        <4> QED
          BY <2>2, <3>1, <4>1, <4>2 DEF DebitsHeld, Alive
      <3>4. CASE SessionLost(o)
        BY <3>1, <3>4 DEF SessionLost, LoseSession, Alive
      <3>5. CASE ReceiveOrder(o) \/ BeginOrder(o) \/ AnswerOrder(o)
                 \/ CommitOrder(o) \/ CommitReplyLost(o)
        BY <3>1, <3>5 DEF ReceiveOrder, BeginOrder, AnswerOrder, CommitOrder,
             CommitReplyLost, Goto, HasDebited, OrdersInv, PSTypeOK
      <3>6. CASE \E a \in Answered : RollbackOrder(o, a)
        BY <3>1, <3>6 DEF RollbackOrder, Goto, HasDebited, Answered, Refusals,
             OrdersInv, PSTypeOK
      <3> QED
        BY <3>2, <3>3, <3>4, <3>5, <3>6
           DEF OrderStep, OrderFailure, RefuseInsufficient, StatementFails,
               AddToInterfaceFails, CommitFails, Answered, Refusals
    <2> QED
      BY <2>1, <2>2
  <1> QED
    BY <1>1, <1>2

----------------------------------------------------------------------------
(* Rows and answers. *)

\* A step that touches one order, keeps its row if it has one, and does right
\* by that order, does right by all.
LEMMA OneOrderRows ==
  ASSUME RowsInv, NEW o \in Orders,
         \A x \in Orders \ {o} :
           /\ peers'[x] = peers[x] /\ uncommitted'[x] = uncommitted[x]
           /\ step'[x] = step[x] /\ tx'[x] = tx[x] /\ (Alive(x)' <=> Alive(x)),
         peers[o] # None => peers'[o] = peers[o],
         now' = now,
         RowReady(o)',
         step'[o] \in {"committed", "created"} => peers'[o] # None,
         step'[o] \in Refusals => peers'[o] = None,
         RowOf(o)' # None =>
           \A x \in Orders \ {o} : RowOf(x) # None => RowOf(x).ip # (RowOf(o)').ip,
         step'[o] = "conflict" => \E x \in Committed \ {o} : peers[x].ip = tx'[o].ip,
         step'[o] = "no_ip" => \A a \in Address : \E x \in Committed : peers[x].ip = a
  PROVE  RowsInv'
  <1>1. Committed \subseteq Committed' /\ \A x \in Committed : peers'[x] = peers[x]
    BY DEF Committed
  <1>2. \A x \in Orders \ {o} : (RowOf(x)' = RowOf(x)) /\ RowReady(x)'
    BY DEF RowsInv, RowOf, RowReady, NewRow
  <1>3. AnswersAreTruthful'
    BY DEF RowsInv, AnswersAreTruthful
  <1>4. DistinctAddresses'
    BY <1>2 DEF RowsInv, DistinctAddresses
  <1>5. ConflictMeansProgress'
    BY <1>1 DEF RowsInv, ConflictMeansProgress
  <1>6. ExhaustionIsReal'
    BY <1>1 DEF RowsInv, ExhaustionIsReal
  <1> QED
    BY <1>2, <1>3, <1>4, <1>5, <1>6 DEF RowsInv

\* An order changes no row but its own, and its own only from none to one.
LEMMA OrderRowsOnly ==
  ASSUME StoreAssumption, OrdersInv, DebitsHeld, RowsInv, NEW o \in Orders,
         ReceiveOrder(o) \/ OrderStep(o) \/ OrderFailure(o)
  PROVE  /\ \A x \in Orders \ {o} :
              /\ peers'[x] = peers[x] /\ uncommitted'[x] = uncommitted[x]
              /\ step'[x] = step[x] /\ tx'[x] = tx[x] /\ (Alive(x)' <=> Alive(x))
         /\ peers[o] # None => peers'[o] = peers[o]
         /\ now' = now
  <1>1. \A x \in Orders \ {o} :
          /\ uncommitted'[x] = uncommitted[x]
          /\ step'[x] = step[x] /\ tx'[x] = tx[x] /\ (Alive(x)' <=> Alive(x))
    BY OrderIsolated, OrderLocals DEF Isolated, Txs
  <1>2. now' = now
    BY DEF OrderStep, OrderFailure, ReceiveOrder, BeginOrder, RefuseInsufficient,
           DebitReseller, AllocateIP, InsertPeer, AddToInterface, CommitOrder, AnswerOrder,
           StatementFails, AddToInterfaceFails, CommitReplyLost, CommitFails, SessionLost,
           LoseSession, Publish, RollbackOrder, storeVars
  <1>3. CASE CommitOrder(o) \/ CommitReplyLost(o)
    <2>1. Publish(o) /\ step[o] = "onInterface"
      BY <1>3 DEF CommitOrder, CommitReplyLost
    <2>2. peers[o] = None
      BY <2>1 DEF RowsInv, RowReady, HasRow
    <2> QED
      BY <1>1, <1>2, <2>1, <2>2 DEF Publish, OrdersInv, PSTypeOK, StoreTypeOK
  <1>4. CASE ~(CommitOrder(o) \/ CommitReplyLost(o))
    <2>1. peers' = peers
      BY <1>4 DEF OrderStep, OrderFailure, ReceiveOrder, BeginOrder, RefuseInsufficient,
           DebitReseller, AllocateIP, InsertPeer, AddToInterface, AnswerOrder,
           StatementFails, AddToInterfaceFails, CommitFails, SessionLost, LoseSession,
           RollbackOrder, storeVars, tableVars
    <2> QED
      BY <1>1, <1>2, <2>1
  <1> QED
    BY <1>3, <1>4

\* An order whose row is not visible may be refused, for a reason that holds.
LEMMA RollbackRows ==
  ASSUME StoreAssumption, OrdersInv, DebitsHeld, RowsInv, NEW o \in Orders,
         ReceiveOrder(o) \/ OrderStep(o) \/ OrderFailure(o),
         NEW a \in Refusals \union {"commit_error"}, RollbackOrder(o, a),
         step[o] \in {"arrived"} \union InTx,
         a = "conflict" => \E x \in Committed \ {o} : peers[x].ip = tx[o].ip,
         a = "no_ip" => \A i \in Address : \E x \in Committed : peers[x].ip = i
  PROVE  RowsInv'
  <1>1. step'[o] = a /\ uncommitted'[o] = None /\ peers' = peers /\ tx' = tx
    BY DEF RollbackOrder, Goto, EndTx, DropRow, tableVars, OrdersInv, PSTypeOK
  <1>2. peers[o] = None
    BY DEF RowsInv, RowReady, HasRow, InTx
  <1>3. a \notin {"committed", "created"} \union HasAddress
    BY DEF Refusals, HasAddress
  <1>4. RowReady(o)' /\ (RowOf(o)' = None)
    BY <1>1, <1>2, <1>3 DEF RowReady, RowOf
  <1> QED
    BY <1>1, <1>2, <1>3, <1>4, OrderRowsOnly, OneOrderRows

\* The steps of an order keep rows and answers right: the UNIQUE index, not
\* the read of allocateIP, keeps addresses apart.
LEMMA OrderRows ==
  ASSUME StoreAssumption, OrdersInv, DebitsHeld, RowsInv, NEW o \in Orders,
         ReceiveOrder(o) \/ OrderStep(o) \/ OrderFailure(o)
  PROVE  RowsInv'
  <1>1. ASSUME NEW a \in {"insufficient", "db_error", "awg_failed", "commit_error"},
               RollbackOrder(o, a), step[o] \in {"arrived"} \union InTx
        PROVE  RowsInv'
    <2>1. a \in Refusals \union {"commit_error"} /\ a # "conflict" /\ a # "no_ip"
      BY <1>1 DEF Refusals
    <2> QED
      BY <1>1, <2>1, RollbackRows
  <1>2. CASE AllocateIP(o) /\ RollbackOrder(o, "no_ip")
    <2>1. step[o] = "debited" /\ FreeAddresses = {}
      BY <1>2 DEF AllocateIP, RollbackOrder, Goto, OrdersInv, PSTypeOK
    <2>2. \A i \in Address : \E x \in Committed : peers[x].ip = i
      BY <2>1 DEF FreeAddresses
    <2> QED
      BY <1>2, <2>1, <2>2, RollbackRows DEF Refusals, InTx
  <1>3. CASE InsertPeer(o) /\ RollbackOrder(o, "conflict")
    <2>1. step[o] = "allocated" /\ step[o] \in Steps
      BY <1>3 DEF InsertPeer, OrdersInv, PSTypeOK
    <2>2. peers[o] = None
      BY <2>1 DEF RowsInv, RowReady, HasRow
    <2>3. AddressTaken(o)
      BY <1>3 DEF InsertPeer, RollbackOrder, Goto, OrdersInv, PSTypeOK
    <2>4. \E x \in Committed \ {o} : peers[x].ip = tx[o].ip
      BY <2>2, <2>3 DEF AddressTaken, Committed
    <2> QED
      BY <1>3, <2>1, <2>4, RollbackRows DEF Refusals, InTx
  <1>4. CASE /\ UNCHANGED <<peers, uncommitted, broken>>
             /\ step[o] \in {"new", "arrived", "quoted"}
             /\ step'[o] \in {"arrived", "quoted", "debited", "no_package"}
    <2>1. peers[o] = None /\ uncommitted[o] = None
      BY <1>4 DEF RowsInv, RowReady, HasRow, HasInserted
    <2>2. RowReady(o)' /\ (RowOf(o)' = None)
      BY <1>4, <2>1 DEF RowReady, RowOf, HasAddress
    <2> QED
      BY <1>4, <2>1, <2>2, OrderRowsOnly, OneOrderRows DEF Refusals
  <1>5. CASE AllocateIP(o) /\ Goto(o, "allocated")
    <2>1. /\ step[o] = "debited" /\ step'[o] = "allocated"
          /\ UNCHANGED <<peers, uncommitted, broken, now>>
      BY <1>5 DEF AllocateIP, Goto, RollbackOrder, OrdersInv, PSTypeOK, tableVars, txVars
    <2>2. peers[o] = None /\ uncommitted[o] = None
      BY <2>1 DEF RowsInv, RowReady, HasRow, HasInserted
    <2>3. tx'[o].expiry - tx'[o].days \in 0 .. now
      <3>1. PICK a : tx' = [tx EXCEPT ![o].ip = a, ![o].expiry = now + tx[o].days]
        BY <1>5, <2>1 DEF AllocateIP, Goto, RollbackOrder, OrdersInv, PSTypeOK
      <3>2. tx[o] \in TxLocals /\ now \in Nat
        BY <2>1, StoreAssumption DEF OrdersInv, PSTypeOK, StoreTypeOK, OrdersReady
      <3>3. tx'[o].expiry = now + tx[o].days /\ tx'[o].days = tx[o].days
        BY <3>1, <3>2 DEF TxLocals, OrdersInv, PSTypeOK
      <3> QED
        BY <3>2, <3>3 DEF TxLocals
    <2>4. RowReady(o)' /\ (RowOf(o)' = None)
      BY <2>1, <2>2, <2>3 DEF RowReady, RowOf, HasRow
    <2> QED
      BY <2>1, <2>2, <2>4, OrderRowsOnly, OneOrderRows DEF Refusals
  <1>6. CASE AddToInterface(o)
    <2>1. /\ step[o] = "inserted" /\ step'[o] = "onInterface"
          /\ UNCHANGED <<peers, uncommitted, broken, tx, now>>
      BY <1>6 DEF AddToInterface, Goto, OrdersInv, PSTypeOK, tableVars, txVars
    <2>2. RowReady(o)' /\ (RowOf(o)' = RowOf(o))
      BY <2>1 DEF RowsInv, RowReady, RowOf, HasRow, HasInserted, HasAddress, Alive, NewRow
    <2> QED
      BY <2>1, <2>2, OrderRowsOnly, OneOrderRows DEF Refusals, RowsInv, DistinctAddresses
  <1>7. CASE AnswerOrder(o)
    <2>1. /\ step[o] = "committed" /\ step'[o] = "created"
          /\ UNCHANGED <<peers, uncommitted, broken, tx, now>>
      BY <1>7 DEF AnswerOrder, Goto, OrdersInv, PSTypeOK, storeVars, tableVars, txVars
    <2>2. peers[o] # None /\ uncommitted[o] = None
      BY <2>1 DEF RowsInv, RowReady, HasInserted, AnswersAreTruthful
    <2>3. RowReady(o)' /\ (RowOf(o)' = RowOf(o))
      BY <2>1, <2>2 DEF RowReady, RowOf, HasRow, HasAddress
    <2> QED
      BY <2>1, <2>2, <2>3, OrderRowsOnly, OneOrderRows
         DEF Refusals, RowsInv, DistinctAddresses
  <1>8. CASE InsertPeer(o) /\ Goto(o, "inserted")
    <2>1. /\ step[o] = "allocated" /\ step'[o] = "inserted"
          /\ uncommitted' = [uncommitted EXCEPT ![o] = NewRow(o)]
          /\ ~AddressTaken(o) /\ ~AddressContended(o) /\ Alive(o)
          /\ UNCHANGED <<peers, broken, tx, now>>
      BY <1>8 DEF InsertPeer, Goto, RollbackOrder, OrdersInv, PSTypeOK, tableVars
    <2>2. peers[o] = None
      BY <2>1 DEF RowsInv, RowReady, HasRow
    <2>3. uncommitted'[o] = NewRow(o) /\ NewRow(o)' = NewRow(o)
      BY <2>1 DEF OrdersInv, PSTypeOK, StoreTypeOK, NewRow
    <2>4. RowReady(o)' /\ (RowOf(o)' = NewRow(o))
      <3>1. NewRow(o) # None
        BY <2>1, <2>3, OrderTypes DEF OrdersInv, OrdersReady, HasInserted, Alive
      <3> QED
        BY <2>1, <2>2, <2>3, <3>1
           DEF RowsInv, RowReady, RowOf, HasInserted, HasAddress, Alive
    <2>5. \A x \in Orders \ {o} : RowOf(x) # None => RowOf(x).ip # tx[o].ip
      BY <2>1 DEF AddressTaken, AddressContended, RowOf, Committed
    <2> QED
      BY <2>1, <2>2, <2>4, <2>5, OrderRowsOnly, OneOrderRows DEF Refusals, NewRow
  <1>9. CASE CommitOrder(o) \/ CommitReplyLost(o)
    <2>1. /\ Publish(o) /\ step[o] = "onInterface" /\ Alive(o)
          /\ step'[o] \in {"committed", "commit_error"}
      BY <1>9 DEF CommitOrder, CommitReplyLost, Goto, OrdersInv, PSTypeOK
    <2>2. peers[o] = None /\ uncommitted[o] # None
      BY <2>1 DEF RowsInv, RowReady, HasRow, OrdersInv, OrdersReady, HasInserted
    <2>3. peers'[o] = uncommitted[o] /\ uncommitted'[o] = None
      BY <2>1 DEF Publish, EndTx, DropRow, OrdersInv, PSTypeOK, StoreTypeOK
    <2>4. RowReady(o)' /\ (RowOf(o)' = RowOf(o)) /\ RowOf(o) # None
      BY <2>1, <2>2, <2>3 DEF RowReady, RowOf, HasRow, HasAddress
    <2> QED
      BY <2>1, <2>2, <2>3, <2>4, OrderRowsOnly, OneOrderRows
         DEF Refusals, RowsInv, DistinctAddresses
  <1>10. CASE SessionLost(o)
    <2>1. /\ step' = step /\ UNCHANGED <<peers, tx, now>> /\ uncommitted'[o] = None
      BY <1>10 DEF SessionLost, LoseSession, DropRow, orderVars, tableVars
    <2>2. RowReady(o)' /\ (RowOf(o)' # None => RowOf(o)' = RowOf(o))
      BY <2>1 DEF RowsInv, RowReady, RowOf
    <2> QED
      BY <2>1, <2>2, OrderRowsOnly, OneOrderRows
         DEF RowsInv, DistinctAddresses, AnswersAreTruthful, ConflictMeansProgress,
             ExhaustionIsReal, Committed
  <1> QED
    <2>1. CASE ReceiveOrder(o) \/ BeginOrder(o)
      BY <2>1, <1>4 DEF ReceiveOrder, BeginOrder, Goto, OrdersInv, PSTypeOK, storeVars,
                        tableVars, txVars
    <2>2. CASE RefuseInsufficient(o) \/ DebitReseller(o)
      BY <2>2, <1>1, <1>4 DEF RefuseInsufficient, DebitReseller, LockedRead, Goto, InTx,
                        OrdersInv, PSTypeOK, tableVars
    <2>3. CASE AllocateIP(o) \/ InsertPeer(o)
      BY <2>3, <1>1, <1>2, <1>3, <1>5, <1>8 DEF AllocateIP, InsertPeer, InTx
    <2>4. CASE StatementFails(o) \/ AddToInterfaceFails(o) \/ CommitFails(o)
      BY <2>4, <1>1 DEF StatementFails, AddToInterfaceFails, CommitFails, InTx
    <2> QED
      BY <2>1, <2>2, <2>3, <2>4, <1>6, <1>7, <1>9, <1>10 DEF OrderStep, OrderFailure

\* Whoever keeps the rows and their addresses, the orders and their sessions
\* keeps all that is said of rows and answers, for as long as time goes on.
LEMMA RowsFrame ==
  ASSUME RowsInv, now \in Int, now' \in Int, now <= now',
         UNCHANGED <<uncommitted, step, tx>>,
         \A o \in Orders :
           /\ Alive(o)' <=> Alive(o)
           /\ peers'[o] = None <=> peers[o] = None
           /\ peers[o] # None => peers'[o].ip = peers[o].ip
  PROVE  RowsInv'
  <1>1. Committed' = Committed
    BY DEF Committed
  <1>2. ASSUME NEW o \in Orders
        PROVE  RowReady(o)'
    <2>1. RowReady(o) /\ NewRow(o)' = NewRow(o)
      BY DEF RowsInv, NewRow
    <2>2. step[o] \in HasAddress => tx[o].expiry - tx[o].days \in 0 .. now'
      BY <2>1 DEF RowReady
    <2> QED
      BY <2>1, <2>2 DEF RowReady
  <1>3. AnswersAreTruthful'
    BY DEF RowsInv, AnswersAreTruthful
  <1>4. DistinctAddresses'
    <2>1. \A o \in Orders :
            /\ RowOf(o)' # None <=> RowOf(o) # None
            /\ RowOf(o) # None => (RowOf(o)').ip = RowOf(o).ip
      BY DEF RowOf
    <2> QED
      BY <2>1 DEF RowsInv, DistinctAddresses
  <1>5. ConflictMeansProgress'
    BY <1>1 DEF RowsInv, ConflictMeansProgress, Committed
  <1>6. ExhaustionIsReal'
    BY <1>1 DEF RowsInv, ExhaustionIsReal, Committed
  <1> QED
    BY <1>2, <1>3, <1>4, <1>5, <1>6 DEF RowsInv

----------------------------------------------------------------------------
(* The theorems: any number of orders, and whatever fails. *)

PSInv == OrdersInv /\ DebitsHeld /\ BooksBalance /\ RowsInv

\* No order has begun, and no row is there.
LEMMA PSInvInit == StoreAssumption /\ PSInit => PSInv
  <1> SUFFICES ASSUME StoreAssumption, PSInit
               PROVE  PSInv
    OBVIOUS
  <1> USE DEF PSInit, StoreInit
  <1>1. PSTypeOK
    BY DEF PSTypeOK, StoreTypeOK, StoreAssumption, Amount, Steps
  <1>2. OrdersReady /\ DebitsHeld
    BY DEF OrdersReady, DebitsHeld, HasAddress, HasInserted, HasDebited
  <1>3. BooksBalance
    BY DEF BooksBalance, StoreAssumption, Amount, Users
  <1>4. RowsInv
    BY DEF RowsInv, RowReady, RowOf, AnswersAreTruthful, DistinctAddresses, Refusals,
           ConflictMeansProgress, ExhaustionIsReal, HasAddress
  <1> QED
    BY <1>1, <1>2, <1>3, <1>4 DEF PSInv, OrdersInv

\* Orders keep the invariant step by step, and the clock disturbs only dates.
LEMMA PSInvNext ==
  ASSUME StoreAssumption, PSInv, [PSNext]_psVars
  PROVE  PSInv'
  <1>1. ASSUME NEW o \in Orders, ReceiveOrder(o) \/ OrderStep(o) \/ OrderFailure(o)
        PROVE  PSInv'
    BY <1>1, OrderTypes, OrderBooks, OrderRows DEF PSInv
  <1>2. CASE (Tick /\ UNCHANGED orderVars) \/ UNCHANGED psVars
    <2>1. /\ UNCHANGED <<balance, credited, debited, packages, peers, uncommitted, rowLock,
                         conns, broken, iface, faults, step, tx>>
          /\ now \in 0 .. MaxTime /\ now' \in 0 .. MaxTime /\ now <= now'
      BY <1>2, StoreAssumption DEF Tick, psVars, orderVars, storeVars, tableVars, txVars,
         PSInv, OrdersInv, PSTypeOK, StoreTypeOK
    <2>2. OrdersInv' /\ DebitsHeld' /\ BooksBalance'
      BY <2>1 DEF PSInv, OrdersInv, PSTypeOK, StoreTypeOK, OrdersReady, DebitsHeld,
                  BooksBalance, Alive
    <2>3. RowsInv'
      BY <2>1, RowsFrame DEF PSInv, Alive
    <2> QED
      BY <2>2, <2>3 DEF PSInv
  <1> QED
    BY <1>1, <1>2 DEF PSNext, PSDone

\* The inductive invariant of CreatePeer, on its own: types, locks, books, rows
\* and answers, for any number of orders that interleave, fail and lose their
\* sessions.
THEOREM PeerServiceInvariant == PSSpec => []PSInv
  <1>1. PSInit => PSInv
    BY StoreAssumption, PSInvInit
  <1>2. PSInv /\ [PSNext]_psVars => PSInv'
    BY StoreAssumption, PSInvNext
  <1> QED
    BY <1>1, <1>2, PTL DEF PSSpec

\* The rows, addresses and answers of CreatePeer and the books it keeps, which is
\* what its callers rely on.
THEOREM PeerServiceCorrect == PSSpec => [](RowsInv /\ BooksBalance)
  <1>1. PSInv => RowsInv /\ BooksBalance
    BY DEF PSInv
  <1> QED
    BY <1>1, PeerServiceInvariant, PTL

\* The locals of an order are of their types at every step, and what an order has
\* computed fits the column it is meant for.
THEOREM PeerServiceTyped == PSSpec => []PSTypeOK
  <1>1. PSInv => PSTypeOK
    BY DEF PSInv, OrdersInv
  <1> QED
    BY <1>1, PeerServiceInvariant, PTL
============================================================================
