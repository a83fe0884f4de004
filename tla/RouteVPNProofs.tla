--------------------------- MODULE RouteVPNProofs ---------------------------
(* Type correctness of the server and the books of its resellers, for every *)
(* value of the constants: BooksInv holds at the start and every step of    *)
(* Next preserves it.                                                       *)
EXTENDS RouteVPN, PeerServiceProofs

----------------------------------------------------------------------------
(* Top-ups. *)

TopUpsInv == StoreTypeOK /\ BillingTypeOK /\ TopUpsReady

\* A rolled back top-up keeps the types, the tables and all other transactions.
LEMMA RollbackTopUpStep ==
  ASSUME StoreAssumption, TopUpsInv, NEW t \in TopUps, topup[t] # "new",
         NEW a \in TopUpAnswered, RollbackTopUp(t, a), faults' \in 0 .. MaxFaults
  PROVE  TopUpsInv' /\ Isolated(t) /\ UNCHANGED tableVars
  <1> USE DEF TopUpsInv
  <1>1. StoreTypeOK'
    BY EndTxType DEF StoreTypeOK, RollbackTopUp, tableVars
  <1>2. BillingTypeOK' /\ TopUpsReady'
    BY DEF BillingTypeOK, TopUpsReady, RollbackTopUp, TopUpGoto, TopUpAnswered,
           TopUpRefusals, TopUpInFlight
  <1>3. Isolated(t) /\ UNCHANGED tableVars
    BY EndTxIsolated DEF RollbackTopUp, tableVars
  <1> QED
    BY <1>1, <1>2, <1>3

\* What a COMMIT publishes: nobody else has locked the row, and the amount
\* added to the balance is the amount added to the ledger.
LEMMA PublishTopUpStep ==
  ASSUME StoreAssumption, TopUpsInv, BooksBalance, CreditsHeld, NEW t \in TopUps,
         topup[t] = "credited", Alive(t), PublishTopUp(t),
         NEW a \in {"committed", "commit_error"}, TopUpGoto(t, a),
         faults' \in 0 .. MaxFaults
  PROVE  TopUpsInv' /\ BooksBalance' /\ Isolated(t) /\ peers' = peers
  <1> USE DEF TopUpsInv
  <1> DEFINE u == credit[t].target
  <1>1. credit[t] \in CreditLocals /\ credit[t].amount > 0
    BY DEF TopUpsReady, TopUpInFlight
  <1>2. Cents(t) \in Nat
    BY <1>1, Rounding DEF Cents, CreditLocals
  <1>3. u \in Resellers => rowLock[u] = t /\ credit[t].after = balance[u] + Cents(t)
    BY DEF CreditsHeld
  <1>4. StoreTypeOK'
    <2>1. balance' \in [Users -> Amount]
      BY <1>1 DEF PublishTopUp, StoreTypeOK, CreditLocals
    <2>2. credited' \in [Users -> Int]
      <3>1. credited' = [credited EXCEPT ![u] = credited[u] + Cents(t)]
        BY DEF PublishTopUp
      <3>2. CASE u \in Users
        BY <1>2, <3>1, <3>2 DEF StoreTypeOK
      <3>3. CASE u \notin Users
        BY <3>1, <3>3 DEF StoreTypeOK
      <3> QED
        BY <3>2, <3>3
    <2> QED
      BY <2>1, <2>2, EndTxType DEF PublishTopUp, StoreTypeOK
  <1>5. BillingTypeOK' /\ TopUpsReady'
    BY DEF BillingTypeOK, TopUpsReady, PublishTopUp, TopUpGoto, TopUpAnswered, TopUpInFlight
  <1>6. BooksBalance'
    <2> SUFFICES ASSUME NEW r \in Resellers
                 PROVE  balance'[r] = credited'[r] - debited'[r] /\ balance'[r] \in Amount
      BY DEF BooksBalance
    <2>1. balance[r] = credited[r] - debited[r] /\ r \in Users
      BY DEF BooksBalance, Users
    <2>2. credited[r] \in Int /\ debited[r] \in Int /\ balance'[r] \in Amount
      BY <1>4, <2>1 DEF StoreTypeOK
    <2>3. CASE u = r
      BY <1>2, <1>3, <2>1, <2>2, <2>3 DEF PublishTopUp, StoreTypeOK
    <2>4. CASE u # r
      BY <2>1, <2>2, <2>4 DEF PublishTopUp, StoreTypeOK
    <2> QED
      BY <2>3, <2>4
  <1>7. Isolated(t)
    BY <1>3, EndTxIsolated DEF PublishTopUp, StoreTypeOK
  <1> QED
    BY <1>4, <1>5, <1>6, <1>7 DEF PublishTopUp

\* A top-up keeps the types, the books and the rows, and disturbs no other
\* transaction.
LEMMA TopUpBooks ==
  ASSUME StoreAssumption, BillingAssumption, TopUpsInv, BooksBalance, CreditsHeld,
         NEW t \in TopUps, ReceiveTopUp(t) \/ TopUpStep(t) \/ TopUpFailure(t)
  PROVE  TopUpsInv' /\ BooksBalance' /\ Isolated(t) /\ peers' = peers
  <1> USE DEF TopUpsInv
  <1>1. CASE ReceiveTopUp(t)
    <2>1. TopUpsInv'
      BY <1>1 DEF ReceiveTopUp, TopUpGoto, storeVars, tableVars, txVars, StoreTypeOK,
                  BillingTypeOK, TopUpsReady, TopUpInFlight, TopUpAnswered, TopUpRefusals,
                  CreditLocals, BillingAssumption, Amount, StoreAssumption
    <2> QED
      BY <1>1, <2>1 DEF ReceiveTopUp, storeVars, tableVars, txVars, Isolated, Alive,
                        BooksBalance
  <1>2. CASE BeginTopUp(t) \/ AnswerTopUp(t)
    <2>1. /\ conns' \in {conns, conns \union {t}}
          /\ UNCHANGED <<tableVars, uncommitted, rowLock, broken, iface, now, faults, credit>>
      BY <1>2 DEF BeginTopUp, AnswerTopUp, storeVars, txVars
    <2>2. StoreTypeOK'
      BY <2>1 DEF StoreTypeOK, tableVars, Txs
    <2>3. BillingTypeOK' /\ TopUpsReady'
      BY <1>2, <2>1 DEF BeginTopUp, AnswerTopUp, TopUpGoto, BillingTypeOK, TopUpsReady,
                        TopUpInFlight, TopUpAnswered
    <2> QED
      BY <2>1, <2>2, <2>3 DEF Isolated, Alive, BooksBalance, tableVars
  <1>3. CASE ~ReceiveTopUp(t) /\ \E a \in TopUpAnswered : RollbackTopUp(t, a)
    <2>1. topup[t] # "new" /\ faults' \in 0 .. MaxFaults
      BY <1>3 DEF RollbackTopUp, TopUpStep, TopUpFailure, BeginTopUp,
         CreditBalance, CreditNobody, CommitTopUp, AnswerTopUp, TopUpStatementFails,
         TopUpCommitReplyLost, TopUpCommitFails, TopUpSessionLost, LoseSession, Fault,
         StoreTypeOK, StoreAssumption, storeVars, billingVars, TopUpGoto,
         TopUpAnswered, TopUpRefusals, BillingTypeOK
    <2> QED
      BY <1>3, <2>1, RollbackTopUpStep DEF BooksBalance, tableVars
  <1>4. CASE CreditBalance(t) /\ ~(\E a \in TopUpAnswered : RollbackTopUp(t, a))
    <2> DEFINE u == credit[t].target
               sum == RoundToCents(10 * balance[u] + credit[t].amount)
    <2>1. /\ topup[t] = "begun" /\ u \in Resellers /\ rowLock[u] = None
          /\ sum <= MaxNumeric
          /\ TopUpGoto(t, "credited")
          /\ rowLock' = [rowLock EXCEPT ![u] = t]
          /\ credit' = [credit EXCEPT ![t].after = sum]
          /\ UNCHANGED <<tableVars, uncommitted, conns, broken, iface, now, faults>>
      BY <1>4 DEF CreditBalance, TopUpAnswered, TopUpRefusals
    <2>2. credit[t] \in CreditLocals /\ credit[t].amount > 0 /\ u \in Users
      BY <2>1 DEF TopUpsReady, TopUpInFlight, Users
    <2>3. sum \in Amount
      <3>1. balance[u] \in Nat /\ credit[t].amount \in Int
        BY <2>2 DEF StoreTypeOK, Amount, CreditLocals, StoreAssumption
      <3>2. sum = balance[u] + RoundToCents(credit[t].amount)
            /\ RoundToCents(credit[t].amount) \in Nat
        BY <2>2, <3>1, Rounding
      <3> QED
        BY <2>1, <3>1, <3>2 DEF Amount, StoreAssumption
    <2>4. credit'[t] = [credit[t] EXCEPT !.after = sum]
      BY <2>1 DEF BillingTypeOK
    <2>5. credit'[t] \in CreditLocals /\ credit'[t].amount > 0
      BY <2>2, <2>3, <2>4 DEF CreditLocals
    <2>6. BillingTypeOK' /\ TopUpsReady'
      <3>1. credit' \in [TopUps -> CreditLocals \union {None}]
        BY <2>1, <2>5 DEF BillingTypeOK
      <3> QED
        BY <2>1, <2>5, <3>1 DEF BillingTypeOK, TopUpsReady, TopUpGoto, TopUpInFlight
    <2>7. StoreTypeOK'
      BY <2>1, <2>2 DEF StoreTypeOK, tableVars, Txs
    <2>8. Isolated(t)
      BY <2>1, <2>2 DEF Isolated, Alive, StoreTypeOK, tableVars, StoreAssumption
    <2> QED
      BY <2>1, <2>6, <2>7, <2>8 DEF BooksBalance, tableVars
  <1>5. CASE CreditNobody(t) /\ ~(\E a \in TopUpAnswered : RollbackTopUp(t, a))
    BY <1>5 DEF CreditNobody, TopUpGoto, tableVars, txVars, StoreTypeOK, BillingTypeOK,
                TopUpsReady, TopUpInFlight, TopUpAnswered, TopUpRefusals, Isolated, Alive,
                BooksBalance
  <1>6. CASE CommitTopUp(t) \/ TopUpCommitReplyLost(t)
    <2>1. /\ topup[t] = "credited" /\ Alive(t) /\ PublishTopUp(t)
          /\ faults' \in 0 .. MaxFaults
          /\ \E a \in {"committed", "commit_error"} : TopUpGoto(t, a)
      BY <1>6 DEF CommitTopUp, TopUpCommitReplyLost, Fault, StoreTypeOK, StoreAssumption
    <2> QED
      BY <2>1, PublishTopUpStep
  <1>7. CASE TopUpSessionLost(t)
    BY <1>7, LoseSessionStep DEF TopUpSessionLost, billingVars, BillingTypeOK, TopUpsReady,
                                 BooksBalance, tableVars, Txs
  <1> QED
    BY <1>1, <1>2, <1>3, <1>4, <1>5, <1>6, <1>7
       DEF TopUpStep, TopUpFailure, TopUpStatementFails, TopUpCommitFails, TopUpAnswered,
           TopUpRefusals

\* A step of a top-up touches the locals of no other.
LEMMA TopUpLocals ==
  ASSUME BillingTypeOK, NEW t \in TopUps,
         ReceiveTopUp(t) \/ TopUpStep(t) \/ TopUpFailure(t), NEW x \in TopUps \ {t}
  PROVE  topup'[x] = topup[x] /\ credit'[x] = credit[x]
  BY DEF BillingTypeOK, TopUpStep, TopUpFailure, ReceiveTopUp, BeginTopUp, CreditBalance,
         CreditNobody, CommitTopUp, AnswerTopUp, TopUpStatementFails, TopUpCommitReplyLost,
         TopUpCommitFails, TopUpSessionLost, PublishTopUp, RollbackTopUp, TopUpGoto,
         billingVars

\* What a top-up promised before a step of another transaction, it keeps.
LEMMA CreditKept ==
  ASSUME StoreAssumption, CreditsHeld, NEW t \in TopUps, NEW x \in Txs \ {t},
         Isolated(x), topup'[t] = topup[t], credit'[t] = credit[t],
         topup[t] = "credited", Alive(t)', credit[t].target \in Resellers
  PROVE  /\ rowLock'[credit'[t].target] = t
         /\ credit'[t].after = balance'[credit'[t].target] + Cents(t)'
  <1>1. t \in Txs \ {x} /\ credit[t].target \in Users /\ Cents(t)' = Cents(t)
    BY DEF Txs, Users, Cents
  <1>2. Alive(t)
    BY <1>1 DEF Isolated
  <1>3. /\ rowLock[credit[t].target] = t
        /\ credit[t].after = balance[credit[t].target] + Cents(t)
    BY <1>2 DEF CreditsHeld
  <1> QED
    BY <1>1, <1>3 DEF Isolated

\* Top-ups keep their promises: what an UPDATE adds to the balance is what the
\* INSERT adds to the ledger, under the lock of the row.
LEMMA TopUpHolds ==
  ASSUME StoreAssumption, BillingAssumption, TopUpsInv, BooksBalance, CreditsHeld,
         NEW t \in TopUps, ReceiveTopUp(t) \/ TopUpStep(t) \/ TopUpFailure(t)
  PROVE  CreditsHeld'
  <1> SUFFICES ASSUME NEW x \in TopUps, topup'[x] = "credited", Alive(x)',
                      credit'[x].target \in Resellers
               PROVE  /\ rowLock'[credit'[x].target] = x
                      /\ credit'[x].after = balance'[credit'[x].target] + Cents(x)'
    BY DEF CreditsHeld
  <1>1. CASE x # t
    BY <1>1, TopUpLocals, TopUpBooks, CreditKept DEF Txs, TopUpsInv
  <1>2. CASE x = t
    <2>1. CASE CreditBalance(t)
      <3> DEFINE u == credit[t].target
                 m == credit[t].amount
      <3>1. /\ topup[t] = "begun" /\ u \in Resellers
            /\ rowLock' = [rowLock EXCEPT ![u] = t]
            /\ credit' = [credit EXCEPT ![t].after = RoundToCents(10 * balance[u] + m)]
            /\ balance' = balance
        BY <1>2, <2>1 DEF CreditBalance, RollbackTopUp, TopUpGoto, tableVars, TopUpsInv,
                          BillingTypeOK
      <3>2. credit[t] \in CreditLocals /\ m > 0 /\ u \in Users
        BY <3>1 DEF TopUpsInv, TopUpsReady, TopUpInFlight, Users
      <3>3. RoundToCents(10 * balance[u] + m) = balance[u] + RoundToCents(m)
        <4>1. balance[u] \in Nat /\ m \in Int
          BY <3>2 DEF TopUpsInv, StoreTypeOK, Amount, CreditLocals, StoreAssumption
        <4> QED
          BY <3>2, <4>1, Rounding
      <3>4. credit'[t] = [credit[t] EXCEPT !.after = RoundToCents(10 * balance[u] + m)]
        BY <3>1 DEF TopUpsInv, BillingTypeOK
      <3>5. /\ credit'[t].target = u /\ credit'[t].amount = m
            /\ credit'[t].after = RoundToCents(10 * balance[u] + m)
        BY <3>2, <3>4 DEF CreditLocals
      <3> QED
        BY <1>2, <3>1, <3>2, <3>3, <3>5 DEF Cents, TopUpsInv, StoreTypeOK
    <2>2. CASE ~CreditBalance(t)
      <3>1. CASE CreditNobody(t)
        BY <1>2, <3>1 DEF CreditNobody, RollbackTopUp, TopUpGoto, TopUpsInv, BillingTypeOK
      <3>2. CASE TopUpSessionLost(t)
        BY <1>2, <3>2 DEF TopUpSessionLost, LoseSession, Alive
      <3>3. CASE ~CreditNobody(t) /\ ~TopUpSessionLost(t)
        BY <1>2, <2>2, <3>3 DEF TopUpStep, TopUpFailure, ReceiveTopUp, BeginTopUp,
              CommitTopUp, AnswerTopUp, TopUpStatementFails, TopUpCommitReplyLost,
              TopUpCommitFails, RollbackTopUp, TopUpGoto, TopUpsInv, BillingTypeOK
      <3> QED
        BY <3>1, <3>2, <3>3
    <2> QED
      BY <2>1, <2>2
  <1> QED
    BY <1>1, <1>2

----------------------------------------------------------------------------
(* Removals, package edits and the worker: their statements commit one by *)
(* one, so they leave transactions and money alone.                       *)

\* What the money properties read.
moneyVars == <<balance, credited, debited, uncommitted, rowLock, conns, broken>>

\* A row whose status changes is still a row.
LEMMA EndOfRow ==
  ASSUME StoreAssumption, StoreTypeOK, NEW o \in Committed,
         peers' = [peers EXCEPT ![o].status = "expired"]
  PROVE  peers' \in [Orders -> PeerRow \union {None}] /\ Committed' = Committed
  <1>1. peers[o] \in PeerRow /\ o \in Orders
    BY DEF Committed, StoreTypeOK
  <1>2. [peers[o] EXCEPT !.status = "expired"] \in PeerRow
    BY <1>1 DEF PeerRow
  <1>3. peers' = [peers EXCEPT ![o] = [peers[o] EXCEPT !.status = "expired"]]
    BY <1>1 DEF StoreTypeOK
  <1>4. None \notin PeerRow
    BY DEF StoreAssumption
  <1> QED
    BY <1>1, <1>2, <1>3, <1>4 DEF StoreTypeOK, Committed

\* A removal commits no row and touches no money.
LEMMA RemovalTypes ==
  ASSUME StoreAssumption, StoreTypeOK, PeerAdminTypeOK, RemovalsReady,
         NEW d \in Removals, ReceiveRemoval(d) \/ RemovalStep(d)
  PROVE  /\ StoreTypeOK' /\ PeerAdminTypeOK' /\ RemovalsReady'
         /\ Committed' = Committed /\ UNCHANGED moneyVars
  <1>1. CASE ReceiveRemoval(d)
    BY <1>1 DEF ReceiveRemoval, RemovalGoto, RemovalInFlight, StoreTypeOK, PeerAdminTypeOK,
                RemovalsReady, storeVars, tableVars, txVars, moneyVars, Committed
  <1>2. CASE FindRemovee(d)
    BY <1>2 DEF FindRemovee, RemovalGoto, RemovalInFlight, RemovalAnswered, StoreTypeOK,
                PeerAdminTypeOK, RemovalsReady, tableVars, txVars, moneyVars, Committed,
                Fault, StoreAssumption
  <1>3. CASE TakeOff(d)
    BY <1>3 DEF TakeOff, RemovePeer, RemovalGoto, RemovalInFlight, StoreTypeOK,
                PeerAdminTypeOK, RemovalsReady, tableVars, txVars, moneyVars, Committed,
                Fault, StoreAssumption
  <1>4. CASE MarkRemoved(d)
    <2>1. removee[d] \in Committed
      BY <1>4 DEF MarkRemoved, RemovalsReady
    <2>2. peers' \in [Orders -> PeerRow \union {None}] /\ Committed' = Committed
      BY <1>4, <2>1, EndOfRow DEF MarkRemoved, StoreTypeOK, Committed
    <2>3. StoreTypeOK' /\ UNCHANGED moneyVars
      BY <1>4, <2>2 DEF MarkRemoved, StoreTypeOK, txVars, moneyVars, Fault, StoreAssumption
    <2>4. PeerAdminTypeOK' /\ RemovalsReady'
      BY <1>4, <2>2 DEF MarkRemoved, RemovalGoto, RemovalAnswered, PeerAdminTypeOK,
                        RemovalsReady
    <2> QED
      BY <2>2, <2>3, <2>4
  <1> QED
    BY <1>1, <1>2, <1>3, <1>4 DEF RemovalStep

\* An edit of a package touches neither rows nor money.
LEMMA EditTypes ==
  ASSUME StoreAssumption, PackageAdminAssumption, StoreTypeOK, PackageAdminTypeOK,
         EditsReady, NEW e \in Edits, ReceiveEdit(e) \/ EditStep(e)
  PROVE  /\ StoreTypeOK' /\ PackageAdminTypeOK' /\ EditsReady'
         /\ peers' = peers /\ UNCHANGED moneyVars
  <1>1. CASE ReceiveEdit(e)
    <2>1. PICK f \in Forms :
            /\ form' = [form EXCEPT ![e] = f]
            /\ EditGoto(e, IF Acceptable(f) THEN "arrived" ELSE "invalid")
            /\ issued' = IF f.op = "create" THEN issued \union {f.package} ELSE issued
      BY <1>1 DEF ReceiveEdit
    <2>2. f \in FormFields
      BY DEF Forms, FormFields, PackageAdminAssumption
    <2>3. issued' \subseteq Packages
      BY <2>1, <2>2 DEF PackageAdminTypeOK, FormFields
    <2>4. PackageAdminTypeOK' /\ EditsReady'
      BY <2>1, <2>2, <2>3 DEF PackageAdminTypeOK, EditsReady, EditGoto, EditInFlight,
                              EditAnswered
    <2> QED
      BY <1>1, <2>4 DEF ReceiveEdit, StoreTypeOK, storeVars, tableVars, txVars, moneyVars
  <1>2. CASE EditStep(e)
    <2>1. form[e] \in FormFields
      BY <1>2 DEF EditStep, CreatePackage, UpdatePackage, CountActivePeers, DeletePackage,
                  EditsReady, EditInFlight
    <2>2. Stored(form[e]) \in PackageRow
      BY <2>1 DEF Stored, PackageRow, FormFields, RoundToCents
    <2>3. packages' \in [Packages -> PackageRow \union {None}]
      BY <1>2, <2>1, <2>2 DEF EditStep, CreatePackage, UpdatePackage, CountActivePeers,
                  DeletePackage, FormFields, StoreTypeOK
    <2>4. faults' \in 0 .. MaxFaults
      BY <1>2 DEF EditStep, CreatePackage, UpdatePackage, CountActivePeers, DeletePackage,
                  Fault, StoreTypeOK, StoreAssumption
    <2>5. UNCHANGED <<moneyVars, peers, iface, now, form, issued>>
      BY <1>2 DEF EditStep, CreatePackage, UpdatePackage, CountActivePeers, DeletePackage,
                  OnlyPackages, moneyVars, txVars
    <2>6. \E s \in EditInFlight \union EditAnswered : EditGoto(e, s)
      BY <1>2 DEF EditStep, CreatePackage, UpdatePackage, CountActivePeers, DeletePackage,
                  EditInFlight, EditAnswered
    <2>7. edit[e] # "new"
      BY <1>2 DEF EditStep, CreatePackage, UpdatePackage, CountActivePeers, DeletePackage,
                  EditInFlight
    <2>8. PackageAdminTypeOK' /\ EditsReady'
      BY <2>5, <2>6, <2>7 DEF PackageAdminTypeOK, EditsReady, EditGoto
    <2>9. StoreTypeOK'
      BY <2>3, <2>4, <2>5 DEF StoreTypeOK, moneyVars
    <2> QED
      BY <2>5, <2>8, <2>9
  <1> QED
    BY <1>1, <1>2

\* The worker commits no row and touches no money.
LEMMA WorkerTypes ==
  ASSUME StoreAssumption, StoreTypeOK, WorkerTypeOK, WorkerReady,
         WorkerStep \/ HourPasses
  PROVE  /\ StoreTypeOK' /\ WorkerTypeOK' /\ WorkerReady'
         /\ Committed' = Committed /\ UNCHANGED moneyVars
  <1>1. CASE Scan
    BY <1>1 DEF Scan, QueryFails, Fault, Expired, NextOf, StoreTypeOK, WorkerTypeOK,
                WorkerSteps, WorkerReady, tableVars, txVars, moneyVars, Committed,
                StoreAssumption
  <1>2. CASE RemoveExpired
    BY <1>2 DEF RemoveExpired, RemovePeer, Fault, StoreTypeOK, WorkerTypeOK, WorkerSteps,
                WorkerReady, tableVars, txVars, moneyVars, Committed, StoreAssumption
  <1>3. CASE MarkExpired
    <2>1. peers' \in [Orders -> PeerRow \union {None}] /\ Committed' = Committed
      BY <1>3, EndOfRow DEF MarkExpired, SetExpired, WorkerReady, StoreTypeOK, Committed
    <2>2. StoreTypeOK' /\ UNCHANGED moneyVars
      BY <1>3, <2>1 DEF MarkExpired, QueryFails, Fault, StoreTypeOK, txVars, moneyVars,
                        StoreAssumption
    <2>3. WorkerTypeOK' /\ WorkerReady'
      BY <1>3, <2>1 DEF MarkExpired, NextOf, WorkerTypeOK, WorkerSteps, WorkerReady
    <2> QED
      BY <2>1, <2>2, <2>3
  <1>4. CASE TickReceived \/ StopReceived \/ HourPasses
    BY <1>4 DEF TickReceived, StopReceived, HourPasses, StoreTypeOK, WorkerTypeOK,
                WorkerSteps, WorkerReady, storeVars, tableVars, txVars, moneyVars, Committed
  <1> QED
    BY <1>1, <1>2, <1>3, <1>4 DEF WorkerStep

----------------------------------------------------------------------------
(* The server. *)

\* The books balance before anything is asked of the server.
LEMMA BooksInit == StoreAssumption /\ Init => BooksInv
  <1> SUFFICES ASSUME StoreAssumption, Init
               PROVE  BooksInv
    OBVIOUS
  <1> USE DEF Init, PSInit, StoreInit, BillingInit, PeerAdminInit, PackageAdminInit, WorkerInit
  <1>1. StoreTypeOK
    BY DEF StoreTypeOK, StoreAssumption, Amount
  <1>2. PSTypeOK /\ OrdersReady /\ DebitsHeld
    BY <1>1 DEF PSTypeOK, OrdersReady, DebitsHeld, Steps, HasAddress, HasInserted, HasDebited
  <1>3. BillingTypeOK /\ TopUpsReady /\ CreditsHeld
    BY DEF BillingTypeOK, TopUpsReady, CreditsHeld, TopUpInFlight
  <1>4. PeerAdminTypeOK /\ RemovalsReady /\ PackageAdminTypeOK /\ EditsReady
    BY DEF PeerAdminTypeOK, RemovalsReady, PackageAdminTypeOK, EditsReady
  <1>5. WorkerTypeOK /\ WorkerReady
    BY DEF WorkerTypeOK, WorkerReady, WorkerSteps
  <1>6. BooksBalance
    BY DEF BooksBalance, StoreAssumption, Amount, Users
  <1> QED
    BY <1>1, <1>2, <1>3, <1>4, <1>5, <1>6 DEF BooksInv, TypeInv, TypeOK

\* While no row disappears, what is known of removals and of the worker stays.
LEMMA RowsStay ==
  ASSUME RemovalsReady, WorkerReady, Committed \subseteq Committed'
  PROVE  /\ UNCHANGED removalVars => RemovalsReady'
         /\ UNCHANGED workerVars => WorkerReady'
  BY DEF RemovalsReady, WorkerReady, removalVars, workerVars

\* A step of an order keeps the books: it leaves the locked balances of others.
LEMMA OrderStepBooks ==
  ASSUME StoreAssumption, BooksInv, NEW o \in Orders, ButOrders,
         ReceiveOrder(o) \/ OrderStep(o) \/ OrderFailure(o)
  PROVE  BooksInv'
  <1>1. OrdersInv
    BY DEF BooksInv, TypeInv, TypeOK, OrdersInv
  <1>2. OrdersInv' /\ Committed \subseteq Committed'
    BY <1>1, OrderTypes
  <1>3. BooksBalance' /\ DebitsHeld' /\ Isolated(o)
    BY <1>1, OrderBooks, OrderIsolated DEF BooksInv
  <1>4. CreditsHeld'
    <2> SUFFICES ASSUME NEW t \in TopUps, topup'[t] = "credited", Alive(t)',
                        credit'[t].target \in Resellers
                 PROVE  /\ rowLock'[credit'[t].target] = t
                        /\ credit'[t].after = balance'[credit'[t].target] + Cents(t)'
      BY DEF CreditsHeld
    <2>1. o \in Txs \ {t} /\ topup'[t] = topup[t] /\ credit'[t] = credit[t]
      BY DEF StoreAssumption, Txs, ButOrders, billingVars
    <2> QED
      BY <1>3, <2>1, CreditKept DEF BooksInv
  <1>5. BillingTypeOK' /\ TopUpsReady' /\ PeerAdminTypeOK' /\ PackageAdminTypeOK'
        /\ EditsReady' /\ WorkerTypeOK' /\ phase' = phase
    BY DEF BooksInv, TypeInv, TypeOK, ButOrders, BillingTypeOK, TopUpsReady, billingVars,
           PeerAdminTypeOK, removalVars, PackageAdminTypeOK, EditsReady, packageVars,
           WorkerTypeOK, workerVars
  <1>6. RemovalsReady' /\ WorkerReady'
    BY <1>2, RowsStay DEF BooksInv, TypeInv, ButOrders
  <1> QED
    BY <1>2, <1>3, <1>4, <1>5, <1>6 DEF BooksInv, TypeInv, TypeOK, OrdersInv

\* A step of a top-up keeps the books, for the same reason.
LEMMA TopUpStepBooks ==
  ASSUME StoreAssumption, BillingAssumption, BooksInv, NEW t \in TopUps, ButTopUps,
         ReceiveTopUp(t) \/ TopUpStep(t) \/ TopUpFailure(t)
  PROVE  BooksInv'
  <1>1. TopUpsInv /\ OrdersInv
    BY DEF BooksInv, TypeInv, TypeOK, PSTypeOK, TopUpsInv, OrdersInv
  <1>2. TopUpsInv' /\ BooksBalance' /\ Isolated(t) /\ peers' = peers /\ CreditsHeld'
    BY <1>1, TopUpBooks, TopUpHolds DEF BooksInv
  <1>3. \A o \in Orders : t \in Txs \ {o} /\ o \in Txs \ {t}
                          /\ step'[o] = step[o] /\ tx'[o] = tx[o]
    BY DEF StoreAssumption, Txs, ButTopUps, orderVars
  <1>4. DebitsHeld'
    <2> SUFFICES ASSUME NEW o \in Orders, step'[o] \in HasDebited, Alive(o)'
                 PROVE  /\ rowLock'[tx'[o].owner] = o
                        /\ tx'[o].newBalance = balance'[tx'[o].owner] - tx'[o].price
      BY DEF DebitsHeld
    <2> QED
      BY <1>1, <1>2, <1>3, DebitKept DEF BooksInv
  <1>5. PSTypeOK' /\ OrdersReady'
    <2>1. PSTypeOK'
      BY <1>1, <1>2 DEF TopUpsInv, OrdersInv, PSTypeOK, ButTopUps, orderVars
    <2>2. \A o \in Orders : uncommitted'[o] = uncommitted[o] /\ (Alive(o)' <=> Alive(o))
      BY <1>2, <1>3 DEF Isolated
    <2> QED
      BY <1>1, <1>3, <2>1, <2>2 DEF OrdersInv, OrdersReady
  <1>6. PeerAdminTypeOK' /\ PackageAdminTypeOK' /\ EditsReady' /\ WorkerTypeOK'
        /\ phase' = phase
    BY DEF BooksInv, TypeInv, TypeOK, ButTopUps, PeerAdminTypeOK, removalVars,
           PackageAdminTypeOK, EditsReady, packageVars, WorkerTypeOK, workerVars
  <1>7. RemovalsReady' /\ WorkerReady'
    BY <1>2, RowsStay DEF BooksInv, TypeInv, ButTopUps, Committed
  <1> QED
    BY <1>2, <1>4, <1>5, <1>6, <1>7 DEF BooksInv, TypeInv, TypeOK, TopUpsInv

\* A step that leaves transactions and money alone leaves the books alone.
LEMMA MoneyUntouched ==
  ASSUME BooksInv, StoreTypeOK', UNCHANGED <<moneyVars, orderVars, billingVars>>
  PROVE  /\ PSTypeOK' /\ OrdersReady' /\ DebitsHeld'
         /\ BillingTypeOK' /\ TopUpsReady' /\ CreditsHeld'
         /\ BooksBalance'
  BY DEF BooksInv, TypeInv, TypeOK, PSTypeOK, OrdersReady, DebitsHeld, BillingTypeOK,
         TopUpsReady, CreditsHeld, BooksBalance, Alive, Cents, moneyVars, orderVars,
         billingVars

\* Removals do not disturb the books.
LEMMA RemovalStepBooks ==
  ASSUME StoreAssumption, BooksInv, NEW d \in Removals, ButRemovals,
         ReceiveRemoval(d) \/ RemovalStep(d)
  PROVE  BooksInv'
  <1>1. /\ StoreTypeOK' /\ PeerAdminTypeOK' /\ RemovalsReady'
        /\ Committed' = Committed /\ UNCHANGED moneyVars
    BY RemovalTypes DEF BooksInv, TypeInv, TypeOK, PSTypeOK
  <1>2. PackageAdminTypeOK' /\ EditsReady' /\ WorkerTypeOK' /\ phase' = phase
    BY DEF BooksInv, TypeInv, TypeOK, ButRemovals, PackageAdminTypeOK, EditsReady,
           packageVars, WorkerTypeOK, workerVars
  <1>3. WorkerReady'
    BY <1>1, RowsStay DEF BooksInv, TypeInv, ButRemovals
  <1> QED
    BY <1>1, <1>2, <1>3, MoneyUntouched DEF BooksInv, TypeInv, TypeOK, ButRemovals

\* Nor do edits: the price that an order was quoted is its own.
LEMMA EditStepBooks ==
  ASSUME StoreAssumption, PackageAdminAssumption, BooksInv, NEW e \in Edits, ButEdits,
         ReceiveEdit(e) \/ EditStep(e)
  PROVE  BooksInv'
  <1>1. /\ StoreTypeOK' /\ PackageAdminTypeOK' /\ EditsReady'
        /\ Committed' = Committed /\ UNCHANGED moneyVars
    BY EditTypes DEF BooksInv, TypeInv, TypeOK, PSTypeOK, Committed
  <1>2. PeerAdminTypeOK' /\ WorkerTypeOK' /\ phase' = phase
    BY DEF BooksInv, TypeInv, TypeOK, ButEdits, PeerAdminTypeOK, removalVars, WorkerTypeOK,
           workerVars
  <1>3. RemovalsReady' /\ WorkerReady'
    BY <1>1, RowsStay DEF BooksInv, TypeInv, ButEdits
  <1> QED
    BY <1>1, <1>2, <1>3, MoneyUntouched DEF BooksInv, TypeInv, TypeOK, ButEdits

\* Nor does the worker.
LEMMA WorkerStepBooks ==
  ASSUME StoreAssumption, BooksInv, ButTheWorker, WorkerStep \/ HourPasses
  PROVE  BooksInv'
  <1>1. /\ StoreTypeOK' /\ WorkerTypeOK' /\ WorkerReady'
        /\ Committed' = Committed /\ UNCHANGED moneyVars
    BY WorkerTypes DEF BooksInv, TypeInv, TypeOK, PSTypeOK
  <1>2. PeerAdminTypeOK' /\ PackageAdminTypeOK' /\ EditsReady' /\ phase' = phase
    BY DEF BooksInv, TypeInv, TypeOK, ButTheWorker, requestVars, PeerAdminTypeOK,
           removalVars, PackageAdminTypeOK, EditsReady, packageVars
  <1>3. RemovalsReady'
    BY <1>1, RowsStay DEF BooksInv, TypeInv, ButTheWorker, requestVars
  <1> QED
    BY <1>1, <1>2, <1>3, MoneyUntouched DEF BooksInv, TypeInv, TypeOK, ButTheWorker,
                                            requestVars

\* Stops, exits, restarts and the passing of time change no table.
LEMMA ProcessStepBooks ==
  ASSUME StoreAssumption, BooksInv,
         SignalStop \/ ShutdownReturns \/ Exit \/ Restart \/ TimePasses
  PROVE  BooksInv'
  <1>1. /\ now' \in 0 .. MaxTime /\ faults' \in 0 .. MaxFaults
        /\ UNCHANGED <<tableVars, txVars, iface, requestVars>>
    BY DEF SignalStop, ShutdownReturns, Exit, Restart, TimePasses, Tick, Fault,
           storeVars, BooksInv, TypeInv, TypeOK, PSTypeOK, StoreTypeOK, StoreAssumption
  <1>2. StoreTypeOK' /\ UNCHANGED <<moneyVars, orderVars, billingVars>>
        /\ Committed' = Committed
    BY <1>1 DEF BooksInv, TypeInv, TypeOK, PSTypeOK, StoreTypeOK, tableVars, txVars,
                moneyVars, requestVars, Committed
  <1>3. PeerAdminTypeOK' /\ RemovalsReady' /\ PackageAdminTypeOK' /\ EditsReady'
    BY <1>1, <1>2, RowsStay
       DEF BooksInv, TypeInv, TypeOK, requestVars, PeerAdminTypeOK, removalVars,
           PackageAdminTypeOK, EditsReady, packageVars
  <1>4. WorkerTypeOK' /\ WorkerReady' /\ phase' \in {"serving", "draining", "closing", "down"}
    BY <1>2 DEF BooksInv, TypeInv, TypeOK, SignalStop, ShutdownReturns, Exit, Restart,
           TimePasses, Stop, WorkerStarts, WorkerDies, WorkerTypeOK, WorkerReady, WorkerSteps, workerVars
  <1> QED
    BY <1>2, <1>3, <1>4, MoneyUntouched DEF BooksInv, TypeInv, TypeOK

\* After a crash no transaction is left, and what was committed is intact.
LEMMA CrashBooks ==
  ASSUME StoreAssumption, BooksInv, Crash
  PROVE  BooksInv'
  <1> USE DEF BooksInv, TypeInv, TypeOK
  <1>1. StoreTypeOK' /\ BooksBalance' /\ Committed' = Committed
    BY DEF Crash, Fault, DropAllTxs, PSTypeOK, StoreTypeOK, tableVars, BooksBalance,
           Committed, StoreAssumption
  <1>2. PSTypeOK' /\ OrdersReady' /\ DebitsHeld'
    <2>1. /\ step' = [o \in Orders |-> IF step[o] \in InFlight THEN "no_reply" ELSE step[o]]
          /\ tx' = tx
      BY DEF Crash, Cut, PSTypeOK
    <2>2. \A o \in Orders : step'[o] \notin HasDebited
      BY <2>1 DEF HasDebited, InFlight, InTx
    <2>3. PSTypeOK'
      BY <1>1, <2>1 DEF PSTypeOK, Steps, Answered
    <2> QED
      BY <2>1, <2>2, <2>3 DEF PSTypeOK, OrdersReady, DebitsHeld, HasAddress, HasInserted,
                              HasDebited, Steps, InFlight, InTx
  <1>3. BillingTypeOK' /\ TopUpsReady' /\ CreditsHeld'
    <2>1. /\ topup' = [t \in TopUps |-> IF topup[t] \in TopUpInFlight THEN "no_reply"
                                                                      ELSE topup[t]]
          /\ credit' = credit
      BY DEF Crash, Cut, BillingTypeOK
    <2> QED
      BY <2>1 DEF BillingTypeOK, TopUpsReady, CreditsHeld, TopUpInFlight, TopUpAnswered
  <1>4. PeerAdminTypeOK' /\ RemovalsReady'
    BY <1>1 DEF Crash, Cut, PeerAdminTypeOK, RemovalsReady, RemovalAnswered, RemovalInFlight
  <1>5. PackageAdminTypeOK' /\ EditsReady'
    BY DEF Crash, Cut, PackageAdminTypeOK, EditsReady, EditAnswered, EditInFlight
  <1>6. WorkerTypeOK' /\ WorkerReady' /\ phase' = "down"
    BY DEF Crash, WorkerDies, WorkerTypeOK, WorkerReady, WorkerSteps
  <1> QED
    BY <1>1, <1>2, <1>3, <1>4, <1>5, <1>6

\* Every step of the server keeps the books.
LEMMA BooksNext ==
  ASSUME StoreAssumption, BillingAssumption, PackageAdminAssumption,
         BooksInv, [Next]_vars
  PROVE  BooksInv'
  <1>1. CASE Accept
    BY <1>1, OrderStepBooks, TopUpStepBooks, RemovalStepBooks, EditStepBooks DEF Accept
  <1>2. ASSUME NEW o \in Orders, RunOrder(o)
        PROVE  BooksInv'
    BY <1>2, OrderStepBooks DEF RunOrder
  <1>3. ASSUME NEW t \in TopUps, RunTopUp(t)
        PROVE  BooksInv'
    BY <1>3, TopUpStepBooks DEF RunTopUp
  <1>4. ASSUME NEW d \in Removals, RunRemoval(d)
        PROVE  BooksInv'
    BY <1>4, RemovalStepBooks DEF RunRemoval
  <1>5. ASSUME NEW e \in Edits, RunEdit(e)
        PROVE  BooksInv'
    BY <1>5, EditStepBooks DEF RunEdit
  <1>6. CASE RunWorker \/ RunTimer
    BY <1>6, WorkerStepBooks DEF RunWorker, RunTimer
  <1>7. CASE SignalStop \/ ShutdownReturns \/ Exit \/ Restart \/ TimePasses
    BY <1>7, ProcessStepBooks
  <1>8. CASE Crash
    BY <1>8, CrashBooks
  <1>9. CASE UNCHANGED vars
    <2>1. UNCHANGED <<tableVars, txVars, iface, now, faults>>
          /\ UNCHANGED <<orderVars, billingVars, removalVars, packageVars, workerVars, phase>>
      BY <1>9 DEF vars, storeVars, requestVars
    <2>2. StoreTypeOK' /\ UNCHANGED moneyVars /\ Committed' = Committed
      BY <2>1 DEF BooksInv, TypeInv, TypeOK, PSTypeOK, StoreTypeOK, tableVars, txVars,
                  moneyVars, Committed
    <2>3. PeerAdminTypeOK' /\ PackageAdminTypeOK' /\ EditsReady' /\ WorkerTypeOK'
      BY <2>1 DEF BooksInv, TypeInv, TypeOK, PeerAdminTypeOK, removalVars,
                  PackageAdminTypeOK, EditsReady, packageVars, WorkerTypeOK, workerVars
    <2> QED
      BY <2>1, <2>2, <2>3, MoneyUntouched, RowsStay DEF BooksInv, TypeInv, TypeOK
  <1> QED
    BY <1>1, <1>2, <1>3, <1>4, <1>5, <1>6, <1>7, <1>8, <1>9 DEF Next

\* The inductive invariant holds in every state of every behaviour.
THEOREM BooksInvariant == Spec => []BooksInv
  <1>1. Init => BooksInv
    BY StoreAssumption, BooksInit
  <1>2. BooksInv /\ [Next]_vars => BooksInv'
    BY StoreAssumption, BillingAssumption, PackageAdminAssumption, BooksNext
  <1> QED
    BY <1>1, <1>2, PTL DEF Spec

\* Every variable of the server keeps to its type.
THEOREM TypeCorrect == Spec => []TypeOK
  <1>1. BooksInv => TypeOK
    BY DEF BooksInv, TypeInv
  <1> QED
    BY <1>1, BooksInvariant, PTL

\* However many requests race, are retried, fail or are cut off by a crash, a
\* reseller's balance is what was credited to it less what was debited from it,
\* and never negative: CreatePeer's absolute UPDATE loses no top-up and no
\* other purchase.
THEOREM BooksAlwaysBalance == Spec => []BooksBalance
  <1>1. BooksInv => BooksBalance
    BY DEF BooksInv
  <1> QED
    BY <1>1, BooksInvariant, PTL
=============================================================================
