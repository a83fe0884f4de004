-------------------------- MODULE DashboardProofs --------------------------
(***************************************************************************)
(* Proofs about Dashboard: no peer is missing from an administrator's page *)
(* and no money from a page about a reseller, though the figures are of    *)
(* several instants.                                                       *)
(***************************************************************************)
EXTENDS Dashboard, MoneyProofs, SequenceTheorems

----------------------------------------------------------------------------
(* Counts. *)

WithStatus(s, v) == {o \in PeersOf(v) : peers[o].status = s}

\* What the administrator's page counts, now.
AllPeers == Cardinality(PeersOf(None))
Count(s) == Cardinality(WithStatus(s, None))

\* The sizes of two sets of orders that have none in common.
LEMMA SplitCount ==
  ASSUME FinitelyManyRequests
  PROVE  \A A, E \in SUBSET Orders : A \intersect E = {} =>
           /\ Cardinality(A) \in Nat /\ Cardinality(E) \in Nat
           /\ Cardinality(A \union E) = Cardinality(A) + Cardinality(E)
  <1> SUFFICES ASSUME NEW A \in SUBSET Orders, NEW E \in SUBSET Orders,
                      A \intersect E = {}
               PROVE  /\ Cardinality(A) \in Nat /\ Cardinality(E) \in Nat
                      /\ Cardinality(A \union E) = Cardinality(A) + Cardinality(E)
    OBVIOUS
  <1>1. IsFiniteSet(A) /\ IsFiniteSet(E)
    BY FS_Subset DEF FinitelyManyRequests
  <1>2. Cardinality(A) \in Nat /\ Cardinality(E) \in Nat
    BY <1>1, FS_CardinalityType
  <1>3. Cardinality(A \union E)
          = Cardinality(A) + Cardinality(E) - Cardinality(A \intersect E)
    BY <1>1, FS_Union
  <1>4. Cardinality(A \intersect E) = 0
    BY FS_EmptySet
  <1> QED
    BY <1>2, <1>3, <1>4

\* No row disappears and none is revived, so the total and the number of
\* expired peers never fall.
LEMMA CountsGrow ==
  ASSUME FinitelyManyRequests, StoreAssumption, StoreTypeOK, StoreTypeOK', NEW v,
         \A x \in Committed : Lasts(x)
  PROVE  /\ Cardinality(PeersOf(v)) <= Cardinality(PeersOf(v))'
         /\ Cardinality(WithStatus("expired", v)) <= Cardinality(WithStatus("expired", v))'
  <1>1. \A x \in Committed :
          /\ x \in Committed' /\ peers'[x].owner = peers[x].owner
          /\ peers[x].status = "expired" => peers'[x].status = "expired"
    <2> SUFFICES ASSUME NEW x \in Committed
                 PROVE  /\ x \in Committed' /\ peers'[x].owner = peers[x].owner
                        /\ peers[x].status = "expired" => peers'[x].status = "expired"
      OBVIOUS
    <2>1. x \in Committed' /\ peers'[x].status \in {peers[x].status, "expired"}
      BY LastingRow
    <2>2. peers[x] \in PeerRow
      BY DEF Committed, StoreTypeOK
    <2> QED
      BY <2>1, <2>2 DEF Lasts, PeerRow
  <1>2. /\ PeersOf(v) \in SUBSET PeersOf(v)'
        /\ WithStatus("expired", v) \in SUBSET WithStatus("expired", v)'
    BY <1>1 DEF PeersOf, WithStatus, Mine
  <1>3. PeersOf(v)' \in SUBSET Orders /\ WithStatus("expired", v)' \in SUBSET Orders
    BY DEF PeersOf, Committed, WithStatus
  <1>4. IsFiniteSet(PeersOf(v)') /\ IsFiniteSet(WithStatus("expired", v)')
    BY <1>3, FS_Subset DEF FinitelyManyRequests
  <1> QED
    BY <1>2, <1>4, FS_Subset

----------------------------------------------------------------------------
(* The server while pages are read. *)

\* A failure is counted, and their number stays within its bound.
LEMMA FaultsAddUp ==
  ASSUME StoreTypeOK, NEW kind, Fault(kind)
  PROVE  faults' # 0 /\ faults' \in 0 .. MaxFaults
  BY StoreAssumption DEF Fault, StoreTypeOK

\* No step takes a failure back.
LEMMA FaultsStay ==
  ASSUME StoreTypeOK, [Next]_vars
  PROVE  faults' = 0 => faults = 0
  <1>1. \A kind : Fault(kind) => faults' # 0
    BY FaultsAddUp
  <1>2. UNCHANGED storeVars => faults' = faults
    BY DEF storeVars
  <1>3. ASSUME NEW o \in Orders, ReceiveOrder(o) \/ OrderStep(o) \/ OrderFailure(o)
        PROVE  faults' # 0 \/ faults' = faults
    BY <1>1, <1>2, <1>3
       DEF OrderStep, OrderFailure, ReceiveOrder, BeginOrder, RefuseInsufficient,
           DebitReseller, AllocateIP, InsertPeer, AddToInterface, CommitOrder, AnswerOrder,
           StatementFails, AddToInterfaceFails, CommitReplyLost, CommitFails, SessionLost,
           LoseSession, Publish, RollbackOrder
  <1>4. ASSUME NEW t \in TopUps, ReceiveTopUp(t) \/ TopUpStep(t) \/ TopUpFailure(t)
        PROVE  faults' # 0 \/ faults' = faults
    BY <1>1, <1>2, <1>4
       DEF TopUpStep, TopUpFailure, ReceiveTopUp, BeginTopUp, CreditBalance, CreditNobody,
           CommitTopUp, AnswerTopUp, TopUpStatementFails, TopUpCommitReplyLost,
           TopUpCommitFails, TopUpSessionLost, LoseSession
  <1>5. ASSUME NEW d \in Removals, ReceiveRemoval(d) \/ RemovalStep(d)
        PROVE  faults' # 0 \/ faults' = faults
    BY <1>1, <1>2, <1>5 DEF RemovalStep, ReceiveRemoval, FindRemovee, TakeOff, MarkRemoved
  <1>6. ASSUME NEW e \in Edits, ReceiveEdit(e) \/ EditStep(e)
        PROVE  faults' # 0 \/ faults' = faults
    BY <1>1, <1>2, <1>6 DEF EditStep, ReceiveEdit, CreatePackage, UpdatePackage,
                                  CountActivePeers, DeletePackage
  <1>7. CASE RunWorker \/ RunTimer
    BY <1>1, <1>2, <1>7 DEF RunWorker, RunTimer, WorkerStep, HourPasses, Scan,
                                  RemoveExpired, MarkExpired, TickReceived, StopReceived,
                                  QueryFails
  <1>8. CASE SignalStop \/ ShutdownReturns \/ Exit \/ Crash \/ Restart \/ TimePasses
    BY <1>1, <1>2, <1>8 DEF SignalStop, ShutdownReturns, Exit, Crash, Restart,
                                  TimePasses, Tick
  <1>9. CASE UNCHANGED vars
    BY <1>2, <1>9 DEF vars
  <1> QED
    BY <1>3, <1>4, <1>5, <1>6, <1>7, <1>8, <1>9
       DEF Next, Accept, RunOrder, RunTopUp, RunRemoval, RunEdit

\* Only the number of failures changes.
LEMMA FailureService ==
  ASSUME ServiceInv, faults' \in 0 .. MaxFaults,
         UNCHANGED <<tableVars, txVars, iface, now, requestVars, workerVars, phase>>
  PROVE  ServiceInv'
  <1>1. UNCHANGED <<peers, packages, uncommitted, broken, iface, now, step, tx,
                    removalVars, workerVars>>
    BY DEF requestVars, tableVars, txVars, orderVars
  <1>2. BooksInv'
    <2>1. StoreTypeOK' /\ UNCHANGED <<moneyVars, orderVars, billingVars>>
          /\ Committed' = Committed
      BY <1>1 DEF ServiceInv, BooksInv, TypeInv, TypeOK, PSTypeOK, StoreTypeOK, tableVars,
                  txVars, moneyVars, requestVars, Committed
    <2>2. /\ PeerAdminTypeOK' /\ RemovalsReady' /\ PackageAdminTypeOK' /\ EditsReady'
          /\ WorkerTypeOK' /\ WorkerReady'
          /\ phase' \in {"serving", "draining", "closing", "down"}
      BY <2>1, RowsStay
         DEF ServiceInv, BooksInv, TypeInv, TypeOK, requestVars, PeerAdminTypeOK, removalVars,
             PackageAdminTypeOK, EditsReady, packageVars, WorkerTypeOK, workerVars
    <2> QED
      BY <2>1, <2>2, MoneyUntouched DEF ServiceInv, BooksInv, TypeInv, TypeOK
  <1>3. BooksInv /\ now \in Int
    BY StoreAssumption DEF ServiceInv, BooksInv, TypeInv, TypeOK, PSTypeOK, StoreTypeOK
  <1>4. Committed' = Committed /\ \A x \in Committed : Lasts(x)
    BY <1>1 DEF Committed, Lasts
  <1>5. RowsInv' /\ RowsHavePackages'
    BY <1>1, <1>3, <1>4, StoreAssumption, RowsEnd DEF ServiceInv, Alive
  <1>6. ServedInv' /\ WorkerIsLate' /\ OffInv'
    BY <1>1, <1>2, <1>3, <1>4, StoreAssumption, ServedStays, LateStays, OffStays
       DEF ServiceInv
  <1> QED
    BY <1>2, <1>5, <1>6 DEF ServiceInv

----------------------------------------------------------------------------
(* Pages. *)

\* The first three figures of the administrator's page.
LEMMA AdminFigures ==
  /\ Figures("admin") = <<"total", "active", "expired", "revenue", "credits">>
  /\ Figure(Figures("admin")[1], None) = AllPeers
  /\ Figure(Figures("admin")[2], None) = Count("active")
  /\ Figure(Figures("admin")[3], None) = Count("expired")
  <1>1. Figures("admin") = <<"total", "active", "expired", "revenue", "credits">>
    BY DEF Figures
  <1>2. /\ Figures("admin")[1] = "total" /\ Figures("admin")[2] = "active"
        /\ Figures("admin")[3] = "expired"
    BY <1>1
  <1>3. Figure("total", None) = AllPeers
    BY DEF Figure, AllPeers
  <1>4. Figure("active", None) = Count("active")
    BY DEF Figure, Count, WithStatus
  <1>5. Figure("expired", None) = Count("expired")
    BY DEF Figure, Count, WithStatus
  <1> QED
    BY <1>1, <1>2, <1>3, <1>4, <1>5

\* The same after a step.
LEMMA AdminFiguresNext ==
  /\ Figure(Figures("admin")[1], None)' = AllPeers'
  /\ Figure(Figures("admin")[2], None)' = Count("active")'
  /\ Figure(Figures("admin")[3], None)' = Count("expired")'
  <1>1. Figures("admin")' = Figures("admin")
    BY DEF Figures
  <1>2. /\ Figures("admin")[1] = "total" /\ Figures("admin")[2] = "active"
        /\ Figures("admin")[3] = "expired"
    BY AdminFigures
  <1> QED
    BY <1>1, <1>2 DEF Figure, AllPeers, Count, WithStatus

\* Every row is active or expired, so the counts add up at any instant.
LEMMA CountsAddUp ==
  ASSUME FinitelyManyRequests, StoreTypeOK
  PROVE  /\ AllPeers \in Nat /\ Count("active") \in Nat /\ Count("expired") \in Nat
         /\ AllPeers = Count("active") + Count("expired")
  <1>1. /\ WithStatus("active", None) \in SUBSET Orders
        /\ WithStatus("expired", None) \in SUBSET Orders
        /\ WithStatus("active", None) \intersect WithStatus("expired", None) = {}
    BY DEF PeersOf, Committed, WithStatus, StoreTypeOK, PeerRow
  <1>2. WithStatus("active", None) \union WithStatus("expired", None) = PeersOf(None)
    BY DEF PeersOf, Committed, WithStatus, StoreTypeOK, PeerRow
  <1>3. /\ Count("active") \in Nat /\ Count("expired") \in Nat
        /\ Cardinality(WithStatus("active", None) \union WithStatus("expired", None))
             = Count("active") + Count("expired")
    BY <1>1, SplitCount DEF Count
  <1>4. Cardinality(WithStatus("active", None) \union WithStatus("expired", None))
          = AllPeers
    BY <1>2, Zenon DEF AllPeers
  <1> QED
    BY <1>3, <1>4

\* The steps of the server leave what a page has read and what it is still to
\* read such that no peer is dropped.
LEMMA PagesLast ==
  ASSUME FinitelyManyRequests, DashboardInv, ServiceInv', \A x \in Committed : Lasts(x),
         faults' = 0 => faults = 0, UNCHANGED dashboardVars, NEW g \in Pages
  PROVE  PageReady(g)'
  <1> DEFINE n == Len(shown[g])
  <1>1. PageReady(g) /\ page' = page /\ shown' = shown
    BY DEF DashboardInv, dashboardVars
  <1>2. StoreTypeOK /\ StoreTypeOK'
    BY DEF DashboardInv, ServiceInv, BooksInv, TypeInv, TypeOK, PSTypeOK
  <1>3. /\ AllPeers \in Nat /\ Count("active") \in Nat /\ Count("expired") \in Nat
        /\ AllPeers = Count("active") + Count("expired")
    BY <1>2, CountsAddUp
  <1>4. /\ AllPeers' \in Nat /\ Count("active")' \in Nat /\ Count("expired")' \in Nat
        /\ AllPeers' = Count("active")' + Count("expired")'
    <2>1. /\ WithStatus("active", None)' \in SUBSET Orders
          /\ WithStatus("expired", None)' \in SUBSET Orders
          /\ WithStatus("active", None)' \intersect WithStatus("expired", None)' = {}
      BY <1>2 DEF PeersOf, Committed, WithStatus, StoreTypeOK, PeerRow
    <2>2. WithStatus("active", None)' \union WithStatus("expired", None)' = PeersOf(None)'
      BY <1>2 DEF PeersOf, Committed, WithStatus, StoreTypeOK, PeerRow
    <2>3. /\ Count("active")' \in Nat /\ Count("expired")' \in Nat
          /\ Cardinality(WithStatus("active", None)' \union WithStatus("expired", None)')
               = Count("active")' + Count("expired")'
      BY <2>1, SplitCount DEF Count
    <2>4. Cardinality(WithStatus("active", None)' \union WithStatus("expired", None)')
            = AllPeers'
      BY <2>2, Zenon DEF AllPeers
    <2> QED
      BY <2>3, <2>4
  <1>5. AllPeers <= AllPeers' /\ Count("expired") <= Count("expired")'
    BY <1>2, StoreAssumption, CountsGrow DEF AllPeers, Count
  <1>6. ASSUME page[g] # None, page[g].kind = "admin", faults' = 0
        PROVE  /\ \A i \in 1 .. 3 : Counted(g, i)' \in Nat
               /\ Counted(g, 1)' <= Counted(g, 2)' + Counted(g, 3)'
    <2>1. n \in Nat /\ DOMAIN shown[g] = 1 .. n
      BY <1>1 DEF PageReady, IsSequence
    <2>2. /\ Counted(g, 1) \in Nat /\ Counted(g, 2) \in Nat /\ Counted(g, 3) \in Nat
          /\ Counted(g, 1) <= Counted(g, 2) + Counted(g, 3)
      BY <1>1, <1>6 DEF PageReady
    <2>3. /\ Counted(g, 1) = IF n >= 1 THEN shown[g][1] ELSE AllPeers
          /\ Counted(g, 2) = IF n >= 2 THEN shown[g][2] ELSE Count("active")
          /\ Counted(g, 3) = IF n >= 3 THEN shown[g][3] ELSE Count("expired")
      BY <1>6, <2>1, AdminFigures DEF Counted
    <2>4. /\ Counted(g, 1)' = IF n >= 1 THEN shown[g][1] ELSE AllPeers'
          /\ Counted(g, 2)' = IF n >= 2 THEN shown[g][2] ELSE Count("active")'
          /\ Counted(g, 3)' = IF n >= 3 THEN shown[g][3] ELSE Count("expired")'
      BY <1>1, <1>6, <2>1, AdminFiguresNext DEF Counted
    <2> HIDE DEF n
    <2>5. /\ Counted(g, 1)' \in Nat /\ Counted(g, 2)' \in Nat /\ Counted(g, 3)' \in Nat
          /\ Counted(g, 1)' <= Counted(g, 2)' + Counted(g, 3)'
      <3>1. n = 0 \/ n = 1 \/ n = 2 \/ n >= 3
        BY <2>1
      <3>2. CASE n = 0
        BY <1>4, <2>4, <3>2
      <3>3. CASE n = 1
        BY <1>3, <1>4, <1>5, <2>2, <2>3, <2>4, <3>3
      <3>4. CASE n = 2
        BY <1>3, <1>4, <1>5, <2>2, <2>3, <2>4, <3>4
      <3>5. CASE n >= 3
        BY <2>1, <2>2, <2>3, <2>4, <3>5
      <3> QED
        BY <3>1, <3>2, <3>3, <3>4, <3>5
    <2> QED
      BY <2>5
  <1> QED
    BY <1>1, <1>6 DEF PageReady

\* A sequence of whatever it holds is one when a value is appended.
LEMMA AppendAnything ==
  ASSUME NEW s, IsSequence(s), NEW x, NEW t, t = Append(s, x)
  PROVE  /\ IsSequence(t)
         /\ Len(s) \in Nat /\ DOMAIN s = 1 .. Len(s)
         /\ Len(t) = Len(s) + 1 /\ DOMAIN t = 1 .. Len(t)
         /\ \A i \in 1 .. Len(s) : t[i] = s[i]
         /\ t[Len(t)] = x
  <1> DEFINE S == {s[i] : i \in DOMAIN s}
             T == {t[i] : i \in DOMAIN t}
  <1>1. s \in Seq(S \union {x})
    <2>1. s \in Seq(S) /\ S \subseteq S \union {x}
      BY DEF IsSequence
    <2> HIDE DEF S
    <2> QED
      BY <2>1, SeqMonotonic
  <1>2. /\ Len(s) \in Nat /\ DOMAIN s = 1 .. Len(s)
        /\ t \in Seq(S \union {x})
        /\ Len(t) = Len(s) + 1
        /\ \A i \in 1 .. Len(s) : t[i] = s[i]
        /\ t[Len(t)] = x
    <2> HIDE DEF S
    <2> QED
      BY <1>1, AppendProperties, LenProperties
  <1>3. DOMAIN t = 1 .. Len(t)
    BY <1>2, LenProperties
  <1>4. S \union {x} \subseteq T
    <2>1. \A i \in DOMAIN s : i \in DOMAIN t /\ t[i] = s[i]
      BY <1>2, <1>3
    <2>2. Len(t) \in DOMAIN t
      BY <1>2, <1>3
    <2> QED
      BY <1>2, <2>1, <2>2
  <1>5. t \in Seq(T)
    <2> HIDE DEF S, T
    <2> QED
      BY <1>2, <1>4, SeqMonotonic
  <1> QED
    BY <1>2, <1>3, <1>5 DEF IsSequence

\* Reading a figure changes no row and no other page.
LEMMA OtherPages ==
  ASSUME DashboardInv, UNCHANGED peers, faults' = 0 => faults = 0, NEW g \in Pages,
         page'[g] = page[g], shown'[g] = shown[g]
  PROVE  PageReady(g)'
  <1>1. PageReady(g)
    BY DEF DashboardInv
  <1>2. AllPeers' = AllPeers /\ \A s : Count(s)' = Count(s)
    BY DEF AllPeers, Count, WithStatus, PeersOf, Committed, Mine
  <1>3. \A i \in 1 .. 3 : Counted(g, i)' = Counted(g, i)
    BY <1>2, AdminFigures, AdminFiguresNext DEF Counted
  <1> QED
    BY <1>1, <1>3 DEF PageReady, IsSequence

\* What is read is what was still to be read.
LEMMA ReadPage ==
  ASSUME DashboardInv, NEW g \in Pages, ReadFigure(g)
  PROVE  DashboardInv'
  <1>1. /\ UNCHANGED <<tableVars, txVars, iface, now, requestVars, workerVars, phase>>
        /\ StoreTypeOK /\ ServiceInv /\ PageReady(g) /\ page[g] \in Views
    BY DEF ReadFigure, DashboardInv, ServiceInv, BooksInv, TypeInv, TypeOK, PSTypeOK
  <1>2. faults' \in 0 .. MaxFaults /\ (faults' = 0 => faults = 0)
    BY <1>1, FaultsAddUp DEF ReadFigure, StoreTypeOK
  <1>3. ServiceInv'
    BY <1>1, <1>2, FailureService
  <1>4. /\ page' \in [Pages -> Views \union {None}] /\ DOMAIN shown' = Pages
        /\ \A h \in Pages \ {g} : page'[h] = page[h] /\ shown'[h] = shown[h]
    BY DEF DashboardInv, ReadFigure
  <1>5. \A h \in Pages \ {g} : PageReady(h)'
    BY <1>1, <1>2, <1>4, OtherPages DEF tableVars
  <1>6. PageReady(g)'
    <2> DEFINE n == Len(shown[g])
    <2>1. /\ page \in [Pages -> Views \union {None}] /\ DOMAIN shown = Pages
          /\ page[g] # None
      BY DEF DashboardInv, ReadFigure
    <2>2. n \in Nat /\ IsSequence(shown[g]) /\ (n = 0 => shown[g] = <<>>)
      BY <1>1, EmptySeq DEF PageReady, IsSequence
    <2>3. CASE page' = [page EXCEPT ![g] = None] /\ UNCHANGED shown /\ n + 1 = 1
      BY <2>1, <2>2, <2>3 DEF PageReady
    <2>4. ASSUME NEW x, page' = page, shown' = [shown EXCEPT ![g] = Append(@, x)],
                 n + 1 <= Len(Figures(page[g].kind)),
                 \/ x = Figure(Figures(page[g].kind)[n + 1], page[g].of) /\ UNCHANGED faults
                 \/ faults' # 0
          PROVE  PageReady(g)'
      <3>1. PICK t : t = shown'[g]
        OBVIOUS
      <3>2. t = Append(shown[g], x)
        BY <2>1, <2>4, <3>1
      <3>3. IsSequence(t)
        BY <2>2, <3>2, AppendAnything
      <3>4. /\ Len(t) = n + 1 /\ DOMAIN t = 1 .. n + 1 /\ DOMAIN shown[g] = 1 .. n
            /\ \A i \in 1 .. n : t[i] = shown[g][i]
            /\ t[n + 1] = x
        BY <2>2, <3>2, AppendAnything
      <3>5. ASSUME page[g].kind = "admin", faults' = 0
            PROVE  \A i \in 1 .. 3 : Counted(g, i)' = Counted(g, i)
        <4>1. page[g].of = None /\ x = Figure(Figures("admin")[n + 1], None)
          BY <1>1, <2>4, <3>5 DEF Views
        <4>2. AllPeers' = AllPeers /\ \A s : Count(s)' = Count(s)
          BY <1>1 DEF tableVars, AllPeers, Count, WithStatus, PeersOf, Committed, Mine
        <4> HIDE DEF n
        <4> QED
          BY <2>1, <2>2, <2>4, <3>1, <3>4, <4>1, <4>2, AdminFigures, AdminFiguresNext DEF Counted
      <3> QED
        BY <1>1, <1>2, <2>1, <2>4, <3>1, <3>3, <3>4, <3>5 DEF PageReady
    <2>5. CASE UNCHANGED <<faults, page>>
      <3> DEFINE x == Figure(Figures(page[g].kind)[n + 1], page[g].of)
      <3>1. ~Fault("statement")
        BY <1>1, <2>5 DEF Fault, StoreTypeOK
      <3>2. shown' = [shown EXCEPT ![g] = Append(@, x)]
            /\ n + 1 <= Len(Figures(page[g].kind))
        BY <3>1 DEF ReadFigure
      <3> QED
        BY <2>4, <2>5, <3>2
    <2>6. CASE Fault("statement")
      BY <1>1, <2>3, <2>4, <2>6, FaultsAddUp DEF ReadFigure
    <2> QED
      BY <2>5, <2>6 DEF ReadFigure
  <1> QED
    BY <1>3, <1>4, <1>5, <1>6 DEF DashboardInv

\* A page starts with no figure read, when its counts add up.
LEMMA OpenPageKeeps ==
  ASSUME FinitelyManyRequests, DashboardInv, NEW g \in Pages, OpenPage(g)
  PROVE  DashboardInv'
  <1>1. /\ UNCHANGED vars /\ shown' = shown /\ page[g] = None
        /\ page' \in [Pages -> Views \union {None}]
        /\ page'[g] \in Views
        /\ \A h \in Pages \ {g} : page'[h] = page[h]
    BY DEF OpenPage, DashboardInv
  <1>2. UNCHANGED <<peers, faults>>
    BY <1>1 DEF vars, storeVars, tableVars
  <1>3. ServiceInv' /\ StoreTypeOK /\ PageReady(g)
    BY <1>1, ServiceNext, StoreAssumption, BillingAssumption, PackageAdminAssumption
       DEF DashboardInv, ServiceInv, BooksInv, TypeInv, TypeOK, PSTypeOK
  <1>4. \A h \in Pages \ {g} : PageReady(h)'
    BY <1>1, <1>2, OtherPages
  <1>5. PageReady(g)'
    <2>1. shown'[g] = <<>> /\ DOMAIN shown'[g] = {} /\ Len(shown'[g]) = 0
      BY <1>1, <1>3 DEF PageReady
    <2>2. IsSequence(shown[g]) /\ shown[g] = shown'[g]
      BY <1>1, <1>3 DEF PageReady
    <2>3. /\ AllPeers \in Nat /\ Count("active") \in Nat /\ Count("expired") \in Nat
          /\ AllPeers = Count("active") + Count("expired")
      BY <1>3, CountsAddUp
    <2>4. AllPeers' = AllPeers /\ \A s : Count(s)' = Count(s)
      BY <1>2 DEF AllPeers, Count, WithStatus, PeersOf, Committed, Mine
    <2>5. /\ Counted(g, 1)' = AllPeers /\ Counted(g, 2)' = Count("active")
          /\ Counted(g, 3)' = Count("expired")
      BY <2>1, <2>4, AdminFiguresNext DEF Counted
    <2>6. /\ \A i \in 1 .. 3 : Counted(g, i)' \in Nat
          /\ Counted(g, 1)' <= Counted(g, 2)' + Counted(g, 3)'
      BY <2>3, <2>5
    <2>7. Len(Figures(page'[g].kind)) \in Nat
      <3>1. page'[g].kind \in {"admin", "reseller", "detail"}
        BY <1>1 DEF Views
      <3>2. /\ Figures("admin") = <<"total", "active", "expired", "revenue", "credits">>
            /\ Figures("detail") = <<"balance", "total", "revenue">>
            /\ Figures("reseller") = <<"balance", "total", "active", "revenue">>
        BY DEF Figures
      <3> QED
        BY <3>1, <3>2
    <2> QED
      BY <1>1, <2>1, <2>2, <2>6, <2>7 DEF PageReady
  <1> QED
    BY <1>1, <1>3, <1>4, <1>5 DEF DashboardInv

----------------------------------------------------------------------------
(* No peer is dropped. *)

\* Every step keeps DashboardInv.
LEMMA DashboardKeeps ==
  ASSUME FinitelyManyRequests, DashboardInv, [DashboardNext]_allVars
  PROVE  DashboardInv'
  <1>1. CASE [Next]_vars /\ UNCHANGED dashboardVars
    <2>1. ServiceInv' /\ (\A x \in Committed : Lasts(x)) /\ StoreTypeOK
      BY <1>1, ServiceNext, StoreAssumption, BillingAssumption, PackageAdminAssumption
         DEF DashboardInv, ServiceInv, BooksInv, TypeInv, TypeOK, PSTypeOK
    <2>2. faults' = 0 => faults = 0
      BY <1>1, <2>1, FaultsStay
    <2>3. \A g \in Pages : PageReady(g)'
      BY <1>1, <2>1, <2>2, PagesLast
    <2> QED
      BY <1>1, <2>1, <2>3 DEF DashboardInv, dashboardVars
  <1>2. ASSUME NEW g \in Pages, OpenPage(g) \/ ReadFigure(g)
        PROVE  DashboardInv'
    BY <1>2, OpenPageKeeps, ReadPage
  <1> QED
    BY <1>1, <1>2 DEF DashboardNext, allVars

\* It holds at the start, when no page is open.
LEMMA DashboardStarts ==
  ASSUME DashboardInit
  PROVE  DashboardInv
  <1>1. ServiceInv
    BY StoreAssumption, ServiceInit DEF DashboardInit
  <1>2. /\ page \in [Pages -> Views \union {None}] /\ DOMAIN shown = Pages
        /\ \A g \in Pages : page[g] = None /\ shown[g] = <<>>
    BY DEF DashboardInit
  <1>3. IsSequence(<<>>)
    BY EmptySeq DEF IsSequence
  <1> QED
    BY <1>1, <1>2, <1>3 DEF DashboardInv, PageReady

\* Whatever is bought, removed and expires while the page is read, every peer
\* that its total counts is active or expired on it, for any number of pages
\* and peers.
THEOREM NoPeerEverDropped == DashboardSpec => []NoPeerDropped
  <1>1. DashboardInit => DashboardInv
    BY DashboardStarts
  <1>2. DashboardInv /\ [DashboardNext]_allVars => DashboardInv'
    BY FinitelyManyRequests, DashboardKeeps
  <1>3. DashboardInv => NoPeerDropped
    <2> SUFFICES ASSUME DashboardInv, NEW g \in Pages, Complete(g, {"admin"}), faults = 0
                 PROVE  Shows(g, "total") <= Shows(g, "active") + Shows(g, "expired")
      BY DEF NoPeerDropped
    <2>1. /\ PageReady(g) /\ page[g] # None /\ page[g].kind = "admin"
          /\ Len(shown[g]) = Len(Figures("admin"))
      BY DEF DashboardInv, Complete
    <2>2. Figures("admin") = <<"total", "active", "expired", "revenue", "credits">>
      BY AdminFigures
    <2>3. DOMAIN shown[g] = 1 .. 5
      BY <2>1, <2>2 DEF PageReady, IsSequence
    <2>4. /\ Counted(g, 1) = shown[g][1] /\ Counted(g, 2) = shown[g][2]
          /\ Counted(g, 3) = shown[g][3]
      BY <2>1, <2>3 DEF Counted
    <2>5. /\ Shows(g, "total") = shown[g][1]
          /\ Shows(g, "active") = shown[g][2]
          /\ Shows(g, "expired") = shown[g][3]
      <3> DEFINE F == <<"total", "active", "expired", "revenue", "credits">>
      <3>1. /\ DOMAIN F = 1 .. 5
            /\ F[1] = "total" /\ F[2] = "active" /\ F[3] = "expired"
            /\ F[4] = "revenue" /\ F[5] = "credits"
        OBVIOUS
      <3> HIDE DEF F
      <3>2. /\ (CHOOSE i \in DOMAIN F : F[i] = "total") = 1
            /\ (CHOOSE i \in DOMAIN F : F[i] = "active") = 2
            /\ (CHOOSE i \in DOMAIN F : F[i] = "expired") = 3
        BY <3>1
      <3>3. Figures(page[g].kind) = F
        BY <2>1, <2>2 DEF F
      <3> QED
        BY <3>2, <3>3 DEF Shows
    <2> QED
      BY <2>1, <2>4, <2>5 DEF PageReady
  <1> QED
    BY <1>1, <1>2, <1>3, PTL DEF DashboardSpec

----------------------------------------------------------------------------
(* No money is dropped. *)

\* The steps of an order quote no negative price while no package has one.
LEMMA OrderPrices ==
  ASSUME OrdersInv, PricesInv, NoNegativePrice, NEW o \in Orders,
         ReceiveOrder(o) \/ OrderStep(o) \/ OrderFailure(o)
  PROVE  packages' = packages /\ \A x \in Orders : step'[x] # "new" => tx'[x].price >= 0
  <1>1. packages' = packages
    BY DEF OrderStep, OrderFailure, ReceiveOrder, BeginOrder, RefuseInsufficient,
           DebitReseller, AllocateIP, InsertPeer, AddToInterface, CommitOrder, AnswerOrder,
           StatementFails, AddToInterfaceFails, CommitReplyLost, CommitFails, SessionLost,
           LoseSession, Publish, RollbackOrder, storeVars, tableVars
  <1>2. \A x \in Orders \ {o} : step'[x] # "new" => tx'[x].price >= 0
    BY OrderLocals DEF PricesInv
  <1>3. step'[o] # "new" => tx'[o].price >= 0
    <2>1. CASE ReceiveOrder(o)
      <3>1. tx'[o].price = 0
        BY <2>1 DEF ReceiveOrder, OrdersInv, PSTypeOK
      <3> QED
        BY <3>1
    <2>2. CASE BeginOrder(o) /\ packages[tx[o].package] # None
      <3>1. tx[o] \in TxLocals /\ step[o] = "arrived"
        BY <2>2 DEF BeginOrder, OrdersInv, OrdersReady
      <3>2. tx'[o].price = packages[tx[o].package].price
        BY <2>2, <3>1 DEF BeginOrder, OrdersInv, PSTypeOK, TxLocals
      <3>3. packages[tx[o].package].price >= 0
        BY <2>2, <3>1 DEF PricesInv, TxLocals
      <3> QED
        BY <3>2, <3>3
    <2>3. CASE ~ReceiveOrder(o) /\ ~(BeginOrder(o) /\ packages[tx[o].package] # None)
      <3>1. step[o] # "new" \/ step'[o] = step[o]
        BY <2>3 DEF OrderStep, OrderFailure, BeginOrder, RefuseInsufficient, DebitReseller,
              LockedRead, AllocateIP, InsertPeer, AddToInterface, CommitOrder, AnswerOrder,
              StatementFails, AddToInterfaceFails, CommitReplyLost, CommitFails,
              SessionLost, orderVars
      <3>2. tx' = tx \/ \E b : tx' = [tx EXCEPT ![o].newBalance = b]
            \/ \E a, d : tx' = [tx EXCEPT ![o].ip = a, ![o].expiry = d]
        BY <2>3 DEF OrderStep, OrderFailure, BeginOrder, RefuseInsufficient, DebitReseller,
              AllocateIP, InsertPeer, AddToInterface, CommitOrder, AnswerOrder,
              StatementFails, AddToInterfaceFails, CommitReplyLost, CommitFails,
              SessionLost, Publish, RollbackOrder, orderVars
      <3>3. step[o] # "new" => tx[o] \in TxLocals
        BY DEF OrdersInv, OrdersReady
      <3>4. step[o] # "new" => tx'[o].price = tx[o].price
        BY <3>2, <3>3 DEF OrdersInv, PSTypeOK, TxLocals
      <3>5. step[o] = "new" => step'[o] = "new"
        BY <3>1
      <3> QED
        BY <3>4, <3>5 DEF PricesInv
    <2> QED
      BY <2>1, <2>2, <2>3
  <1> QED
    BY <1>1, <1>2, <1>3

\* Nor do those of a package request give one to a package, while none is typed.
LEMMA EditPrices ==
  ASSUME PackageAdminTypeOK, EditsReady, StoreTypeOK, PricesInv, NoNegativePrice,
         NEW e \in Edits, ReceiveEdit(e) \/ EditStep(e)
  PROVE  /\ \A p \in Packages : packages'[p] # None => packages'[p].price >= 0
         /\ \A x \in Edits : edit'[x] # "new" => form'[x].price \in PriceInputs \union {None}
  <1>1. CASE ReceiveEdit(e)
    <2>1. PICK f \in Forms : form' = [form EXCEPT ![e] = f]
                            /\ \E s : edit' = [edit EXCEPT ![e] = s]
      BY <1>1 DEF ReceiveEdit, EditGoto
    <2>2. f.price \in PriceInputs \union {None}
      BY DEF Forms
    <2>3. packages' = packages
      BY <1>1 DEF ReceiveEdit, storeVars, tableVars
    <2> QED
      BY <2>1, <2>2, <2>3 DEF PackageAdminTypeOK, PricesInv
  <1>2. CASE EditStep(e)
    <2>1. form' = form /\ edit[e] # "new" /\ \A x \in Edits \ {e} : edit'[x] = edit[x]
      BY <1>2 DEF EditStep, CreatePackage, UpdatePackage, CountActivePeers, DeletePackage,
            EditGoto, EditInFlight, PackageAdminTypeOK
    <2>2. form[e] \in FormFields /\ form[e].price \in PriceInputs \union {None}
      BY <2>1 DEF EditsReady, PricesInv
    <2>3. Stored(form[e]).price >= 0
      <3>1. \A m \in Int : m >= 0 => RoundToCents(m) >= 0
        BY DEF RoundToCents
      <3>2. form[e].price # None => form[e].price \in Int /\ form[e].price >= 0
        BY <2>2 DEF FormFields, NoNegativePrice
      <3>3. form[e].price # None => RoundToCents(form[e].price) >= 0
        BY <3>1, <3>2
      <3> QED
        BY <3>3 DEF Stored
    <2>4. \/ packages' = packages
          \/ packages' = [packages EXCEPT ![form[e].package] = Stored(form[e])]
          \/ packages' = [packages EXCEPT ![form[e].package] = None]
      BY <1>2 DEF EditStep, CreatePackage, UpdatePackage, CountActivePeers, DeletePackage
    <2>5. \A p \in Packages : packages'[p] # None => packages'[p].price >= 0
      BY <2>2, <2>3, <2>4 DEF PricesInv, StoreTypeOK
    <2> QED
      BY <2>1, <2>2, <2>5 DEF PricesInv
  <1> QED
    BY <1>1, <1>2

\* Every step of the server keeps prices so.
LEMMA PricesNext ==
  ASSUME ServiceInv, PricesInv, NoNegativePrice, [Next]_vars
  PROVE  PricesInv'
  <1> USE DEF ServiceInv, BooksInv, TypeInv, TypeOK, PSTypeOK
  <1>1. ASSUME NEW o \in Orders, ReceiveOrder(o) \/ OrderStep(o) \/ OrderFailure(o), ButOrders
        PROVE  PricesInv'
    <2>1. OrdersInv
      BY DEF OrdersInv
    <2> QED
      BY <1>1, <2>1, OrderPrices DEF PricesInv, ButOrders, packageVars
  <1>2. ASSUME NEW e \in Edits, ReceiveEdit(e) \/ EditStep(e), ButEdits
        PROVE  PricesInv'
    BY <1>2, EditPrices DEF PricesInv, ButEdits, orderVars
  <1>3. ASSUME UNCHANGED <<packages, form, tx>>,
               \A e \in Edits : edit'[e] # "new" => edit[e] # "new",
               \A o \in Orders : step'[o] # "new" => step[o] # "new"
        PROVE  PricesInv'
    BY <1>3 DEF PricesInv
  <1>4. ASSUME NEW t \in TopUps, ReceiveTopUp(t) \/ TopUpStep(t) \/ TopUpFailure(t), ButTopUps
        PROVE  PricesInv'
    <2>1. packages' = packages
      BY <1>4 DEF ReceiveTopUp, TopUpStep, TopUpFailure, BeginTopUp, CreditBalance,
            CreditNobody, CommitTopUp, AnswerTopUp, TopUpStatementFails,
            TopUpCommitReplyLost, TopUpCommitFails, TopUpSessionLost, LoseSession,
            PublishTopUp, RollbackTopUp, storeVars, tableVars
    <2> QED
      BY <1>3, <1>4, <2>1 DEF ButTopUps, orderVars, packageVars
  <1>5. ASSUME NEW d \in Removals, ReceiveRemoval(d) \/ RemovalStep(d), ButRemovals
        PROVE  PricesInv'
    <2>1. packages' = packages
      BY <1>5 DEF ReceiveRemoval, RemovalStep, FindRemovee, TakeOff, MarkRemoved, storeVars,
            tableVars
    <2> QED
      BY <1>3, <1>5, <2>1 DEF ButRemovals, orderVars, packageVars
  <1>6. CASE (WorkerStep \/ HourPasses) /\ ButTheWorker
    <2>1. packages' = packages
      BY <1>6 DEF WorkerStep, Scan, RemoveExpired, MarkExpired, TickReceived, StopReceived,
            HourPasses, storeVars, tableVars
    <2> QED
      BY <1>3, <1>6, <2>1 DEF ButTheWorker, requestVars, orderVars, packageVars
  <1>7. CASE SignalStop \/ ShutdownReturns \/ Exit \/ Restart \/ TimePasses \/ UNCHANGED vars
    <2>1. UNCHANGED <<packages, form, tx, edit, step>>
      BY <1>7 DEF SignalStop, ShutdownReturns, Exit, Restart, TimePasses, Tick, vars,
            storeVars, tableVars, requestVars, orderVars, packageVars
    <2> QED
      BY <1>3, <2>1
  <1>8. CASE Crash
    <2>1. /\ UNCHANGED <<packages, form, tx>>
          /\ edit' = Cut(edit, EditInFlight) /\ step' = Cut(step, InFlight)
      BY <1>8 DEF Crash, tableVars
    <2>2. \A e \in Edits : edit'[e] # "new" => edit[e] # "new"
      BY <2>1 DEF Cut, PackageAdminTypeOK, EditInFlight
    <2>3. \A o \in Orders : step'[o] # "new" => step[o] # "new"
      BY <2>1 DEF Cut, InFlight, InTx
    <2> QED
      BY <1>3, <2>1, <2>2, <2>3
  <1> QED
    BY <1>1, <1>2, <1>4, <1>5, <1>6, <1>7, <1>8
       DEF Next, Accept, RunOrder, RunTopUp, RunRemoval, RunEdit, RunWorker, RunTimer

\* What a reseller has been credited only grows.
LEMMA CreditsGrow ==
  ASSUME ServiceInv, [Next]_vars, NEW u \in Resellers
  PROVE  credited[u] \in Int /\ credited'[u] \in Int /\ credited[u] <= credited'[u]
  <1>1. /\ OrdersInv /\ DebitsHeld /\ RowsInv /\ TopUpsInv /\ BooksInv /\ ServiceInv'
    BY ServiceNext, StoreAssumption, BillingAssumption, PackageAdminAssumption
       DEF ServiceInv, BooksInv, TypeInv, TypeOK, PSTypeOK, OrdersInv, TopUpsInv
  <1>2. /\ u \in Users
        /\ credited[u] \in Int /\ credited'[u] \in Int
        /\ debited[u] \in Int /\ debited'[u] \in Int
    BY <1>1 DEF ServiceInv, BooksInv, TypeInv, TypeOK, PSTypeOK, StoreTypeOK, Users
  <1>3. credited[u] <= credited'[u]
    <2>1. ASSUME NEW t \in TopUps, ReceiveTopUp(t) \/ TopUpStep(t) \/ TopUpFailure(t)
          PROVE  credited[u] <= credited'[u]
      <3>1. CASE credited' = credited
        BY <1>2, <3>1
      <3>2. CASE /\ topup[t] = "credited"
                 /\ credited' = [credited EXCEPT ![credit[t].target] = @ + Cents(t)]
        <4>1. Cents(t) \in Nat
          BY <1>1, <3>2, Rounding DEF TopUpsInv, TopUpsReady, TopUpInFlight, CreditLocals, Cents
        <4>2. credited'[u] \in {credited[u], credited[u] + Cents(t)}
          BY <1>1, <3>2 DEF TopUpsInv, StoreTypeOK
        <4> QED
          BY <1>2, <4>1, <4>2
      <3> QED
        BY <1>1, <2>1, <3>1, <3>2, TopUpCredits DEF TopUpsInv
    <2> QED
      BY <1>1, <1>2, <2>1, OnlyTopUpsCredit, StoreAssumption
  <1> QED
    BY <1>2, <1>3

\* While no price is negative, what it has spent only grows too.
LEMMA LedgersGrow ==
  ASSUME ServiceInv, PricesInv, NoNegativePrice, [Next]_vars, NEW u \in Resellers
  PROVE  /\ credited[u] \in Int /\ credited'[u] \in Int /\ credited[u] <= credited'[u]
         /\ debited[u] \in Int /\ debited'[u] \in Int /\ debited[u] <= debited'[u]
  <1>1. /\ OrdersInv /\ DebitsHeld /\ RowsInv /\ TopUpsInv /\ BooksInv /\ ServiceInv'
    BY ServiceNext, StoreAssumption, BillingAssumption, PackageAdminAssumption
       DEF ServiceInv, BooksInv, TypeInv, TypeOK, PSTypeOK, OrdersInv, TopUpsInv
  <1>2. /\ u \in Users
        /\ credited[u] \in Int /\ credited'[u] \in Int
        /\ debited[u] \in Int /\ debited'[u] \in Int
    BY <1>1 DEF ServiceInv, BooksInv, TypeInv, TypeOK, PSTypeOK, StoreTypeOK, Users
  <1>3. debited[u] <= debited'[u]
    <2>1. ASSUME NEW o \in Orders, ReceiveOrder(o) \/ OrderStep(o) \/ OrderFailure(o)
          PROVE  debited[u] <= debited'[u]
      <3>1. CASE debited' = debited
        BY <1>2, <3>1
      <3>2. CASE /\ step[o] = "onInterface" /\ tx[o] \in TxLocals
                 /\ debited' = [debited EXCEPT ![tx[o].owner] = @ + tx[o].price]
        <4>1. tx[o].price \in Int /\ tx[o].price >= 0
          BY <3>2 DEF TxLocals, PricesInv
        <4>2. debited'[u] \in {debited[u], debited[u] + tx[o].price}
          BY <1>1, <3>2 DEF OrdersInv, PSTypeOK, StoreTypeOK
        <4> QED
          BY <1>2, <4>1, <4>2
      <3> QED
        BY <1>1, <2>1, <3>1, <3>2, StoreAssumption, OrderCharges
    <2> QED
      BY <1>1, <1>2, <2>1, OnlyOrdersCharge, StoreAssumption, BillingAssumption,
         PackageAdminAssumption
  <1> QED
    BY <1>2, <1>3, CreditsGrow

\* A page about one reseller is of one row and of its ledger, balance first.
LEMMA MoneyFigures ==
  ASSUME NEW kind \in {"reseller", "detail"}
  PROVE  /\ Len(Figures(kind)) \in {3, 4}
         /\ Figures(kind)[1] = "balance" /\ Figures(kind)[Len(Figures(kind))] = "revenue"
  <1>1. CASE kind = "detail"
    <2>1. Figures(kind) = <<"balance", "total", "revenue">>
      BY <1>1 DEF Figures
    <2> QED
      BY <2>1
  <1>2. CASE kind = "reseller"
    <2>1. Figures(kind) = <<"balance", "total", "active", "revenue">>
      BY <1>2 DEF Figures
    <2> QED
      BY <2>1
  <1> QED
    BY <1>1, <1>2

\* Its sums are of one entry.
LEMMA MoneyOfOne ==
  ASSUME StoreAssumption, StoreTypeOK, NEW u \in Resellers
  PROVE  Figure("balance", u) = balance[u] /\ Figure("revenue", u) = debited[u]
  <1>1. u \in Users /\ u # None
    BY DEF Users, StoreAssumption
  <1>2. balance[u] \in Int /\ debited[u] \in Int
    BY <1>1, StoreAssumption DEF StoreTypeOK, Amount, StoreAssumption
  <1>3. MapThenSumSet(LAMBDA x : balance[x], {u}) = balance[u]
    BY <1>2, SumOfEntries, SumOfOne
  <1>4. MapThenSumSet(LAMBDA x : debited[x], {u}) = debited[u]
    BY <1>2, SumOfEntries, SumOfOne
  <1>5. Mine(u) = {u}
    BY <1>1 DEF Mine
  <1>6. Total(balance, u) = balance[u] /\ Total(debited, u) = debited[u]
    BY <1>3, <1>4, <1>5 DEF Total
  <1> QED
    BY <1>6 DEF Figure

\* The books, as the page of a reseller would show them if it were read at once.
LEMMA MoneyNow ==
  ASSUME MoneyShownInv, NEW u \in Resellers
  PROVE  /\ balance[u] \in Int /\ debited[u] \in Int /\ credited[u] \in Int
         /\ OpeningBalance[u] \in Int
         /\ balance[u] + debited[u] >= OpeningBalance[u]
  <1>1. StoreTypeOK /\ BooksBalance /\ u \in Users
    BY DEF MoneyShownInv, DashboardInv, ServiceInv, BooksInv, TypeInv, TypeOK, PSTypeOK, Users
  <1>2. /\ balance[u] \in Int /\ debited[u] \in Int /\ credited[u] \in Int
        /\ OpeningBalance[u] \in Int
    BY <1>1, StoreAssumption DEF StoreTypeOK, Amount, StoreAssumption
  <1>3. balance[u] = credited[u] - debited[u] /\ credited[u] >= OpeningBalance[u]
    BY <1>1 DEF BooksBalance, MoneyShownInv
  <1> QED
    BY <1>2, <1>3

\* The steps of the server only add to what a page is still to read.
LEMMA MoneyLasts ==
  ASSUME MoneyShownInv, NoNegativePrice, [Next]_vars, UNCHANGED dashboardVars,
         faults' = 0 => faults = 0, NEW g \in Pages
  PROVE  MoneyReady(g)'
  <1> SUFFICES ASSUME page[g] # None, page[g].kind \in {"reseller", "detail"}, faults' = 0
               PROVE  /\ Had(g)' \in Int /\ Spent(g)' \in Int
                      /\ Had(g)' + Spent(g)' >= OpeningBalance[page[g].of]
    BY DEF MoneyReady, dashboardVars
  <1> DEFINE k == Len(shown[g])
             n == Len(Figures(page[g].kind))
             u == page[g].of
  <1>1. page' = page /\ shown' = shown /\ faults = 0
    BY DEF dashboardVars
  <1>2. u \in Resellers
    BY DEF MoneyShownInv, DashboardInv, Views
  <1>3. k \in Nat /\ DOMAIN shown[g] = 1 .. k /\ n \in {3, 4}
    BY MoneyFigures DEF MoneyShownInv, DashboardInv, PageReady, IsSequence
  <1>4. /\ Had(g) = IF k >= 1 THEN shown[g][1] ELSE balance[u]
        /\ Spent(g) = IF k >= n THEN shown[g][n] ELSE debited[u]
    <2>1. (1 \in DOMAIN shown[g] <=> k >= 1) /\ (n \in DOMAIN shown[g] <=> k >= n)
      <3> HIDE DEF k, n
      <3> QED
        BY <1>3
    <2> QED
      BY <2>1 DEF Had, Spent, Told
  <1>5. n' = n
    BY <1>1 DEF Figures
  <1>6. /\ Had(g)' = IF k >= 1 THEN shown[g][1] ELSE balance'[u]
        /\ Spent(g)' = IF k >= n THEN shown[g][n] ELSE debited'[u]
    BY <1>1, <1>3, <1>5 DEF Had, Spent, Told
  <1>7. /\ Had(g) \in Int /\ Spent(g) \in Int
        /\ Had(g) + Spent(g) >= OpeningBalance[u]
    BY <1>1 DEF MoneyShownInv, MoneyReady
  <1>8. /\ debited[u] \in Int /\ debited'[u] \in Int /\ debited[u] <= debited'[u]
        /\ credited[u] \in Int /\ credited'[u] \in Int /\ credited[u] <= credited'[u]
    BY <1>2, LedgersGrow DEF MoneyShownInv, DashboardInv
  <1>9. balance'[u] \in Int /\ balance'[u] = credited'[u] - debited'[u]
    <2>1. BooksBalance'
      BY ServiceNext, StoreAssumption, BillingAssumption, PackageAdminAssumption
         DEF MoneyShownInv, DashboardInv, ServiceInv, BooksInv
    <2> QED
      BY <1>2, <1>8, <2>1 DEF BooksBalance
  <1>10. OpeningBalance[u] \in Int /\ credited[u] >= OpeningBalance[u]
    BY <1>2, MoneyNow DEF MoneyShownInv
  <1> HIDE DEF k, n, u
  <1>11. k = 0 \/ (k >= 1 /\ k < n) \/ k >= n
    BY <1>3
  <1>12. CASE k = 0
    BY <1>3, <1>6, <1>8, <1>9, <1>10, <1>12 DEF u
  <1>13. CASE k >= 1 /\ k < n
    BY <1>3, <1>4, <1>6, <1>7, <1>8, <1>10, <1>13 DEF u
  <1>14. CASE k >= n
    BY <1>3, <1>4, <1>6, <1>7, <1>14 DEF u
  <1> QED
    BY <1>11, <1>12, <1>13, <1>14

\* What is read of the money is what was still to be read.
LEMMA MoneyRead ==
  ASSUME MoneyShownInv, NoNegativePrice, NEW g \in Pages, ReadFigure(g)
  PROVE  \A h \in Pages : MoneyReady(h)'
  <1>1. /\ UNCHANGED <<balance, debited>> /\ StoreTypeOK
        /\ \A h \in Pages : MoneyReady(h) /\ PageReady(h)
    BY DEF ReadFigure, tableVars, MoneyShownInv, DashboardInv, ServiceInv, BooksInv, TypeInv,
           TypeOK, PSTypeOK
  <1>2. \/ UNCHANGED faults /\ ~Fault("statement")
        \/ faults' # 0
    BY <1>1, FaultsAddUp DEF ReadFigure, Fault, StoreTypeOK
  <1>3. CASE faults' # 0
    BY <1>3 DEF MoneyReady
  <1>4. CASE UNCHANGED faults /\ ~Fault("statement")
    <2> DEFINE k == Len(shown[g])
               n == Len(Figures(page[g].kind))
               x == Figure(Figures(page[g].kind)[k + 1], page[g].of)
    <2>1. /\ page[g] # None /\ k + 1 <= n /\ page' = page
          /\ shown' = [shown EXCEPT ![g] = Append(@, x)]
      BY <1>4 DEF ReadFigure
    <2>2. DOMAIN shown = Pages
      BY DEF MoneyShownInv, DashboardInv
    <2>3. \A h \in Pages \ {g} : shown'[h] = shown[h]
      BY <2>1, <2>2
    <2>4. \A h \in Pages \ {g} : MoneyReady(h)'
      BY <1>1, <1>4, <2>1, <2>3 DEF MoneyReady, Had, Spent, Told, Figures
    <2>5. ASSUME page[g].kind \in {"reseller", "detail"}
          PROVE  Had(g)' = Had(g) /\ Spent(g)' = Spent(g)
      <3>1. page[g].of \in Resellers
        BY <2>1, <2>5 DEF MoneyShownInv, DashboardInv, Views
      <3>2. /\ Figure("balance", page[g].of) = balance[page[g].of]
            /\ Figure("revenue", page[g].of) = debited[page[g].of]
        BY <1>1, <3>1, StoreAssumption, MoneyOfOne
      <3>3. /\ n \in {3, 4}
            /\ Figures(page[g].kind)[1] = "balance" /\ Figures(page[g].kind)[n] = "revenue"
        BY <2>5, MoneyFigures
      <3>4. PICK t : t = shown'[g]
        OBVIOUS
      <3>5. IsSequence(shown[g]) /\ t = Append(shown[g], x)
        BY <1>1, <2>1, <2>2, <3>4 DEF PageReady
      <3>6. /\ k \in Nat /\ DOMAIN shown[g] = 1 .. k /\ DOMAIN t = 1 .. k + 1
            /\ \A i \in 1 .. k : t[i] = shown[g][i]
            /\ t[k + 1] = x
        <4> HIDE DEF x
        <4> QED
          BY <3>5, AppendAnything
      <3>7. Figures(page[g].kind)' = Figures(page[g].kind)
        BY <2>1 DEF Figures
      <3>8. n' = n
        BY <3>7
      <3>9. /\ k + 1 = 1 => x = balance[page[g].of]
            /\ k + 1 = n => x = debited[page[g].of]
        BY <3>2, <3>3
      <3>10. /\ Had(g) = IF 1 \in DOMAIN shown[g] THEN shown[g][1] ELSE balance[page[g].of]
             /\ Had(g)' = IF 1 \in DOMAIN t THEN t[1] ELSE balance[page[g].of]
             /\ Spent(g) = IF n \in DOMAIN shown[g] THEN shown[g][n] ELSE debited[page[g].of]
             /\ Spent(g)' = IF n \in DOMAIN t THEN t[n] ELSE debited[page[g].of]
        BY <1>1, <2>1, <3>4, <3>8 DEF Had, Spent, Told
      <3> HIDE DEF k, n, x
      <3>11. Had(g)' = Had(g)
        <4>1. CASE k = 0
          BY <3>6, <3>9, <3>10, <4>1
        <4>2. CASE k # 0
          BY <3>6, <3>10, <4>2
        <4> QED
          BY <4>1, <4>2
      <3>12. Spent(g)' = Spent(g)
        <4>1. CASE k + 1 = n
          BY <3>3, <3>6, <3>9, <3>10, <4>1
        <4>2. CASE k + 1 # n
          <5>1. n \in 1 .. k <=> n \in 1 .. k + 1
            BY <3>3, <3>6, <4>2
          <5> QED
            BY <3>6, <3>10, <5>1
        <4> QED
          BY <4>1, <4>2
      <3> QED
        BY <3>11, <3>12
    <2>6. MoneyReady(g)'
      BY <1>1, <1>4, <2>1, <2>5 DEF MoneyReady
    <2> QED
      BY <2>4, <2>6
  <1> QED
    BY <1>2, <1>3, <1>4

\* A page starts with all of the money still to be read.
LEMMA MoneyOpened ==
  ASSUME MoneyShownInv, NoNegativePrice, NEW g \in Pages, OpenPage(g)
  PROVE  \A h \in Pages : MoneyReady(h)'
  <1>1. /\ UNCHANGED <<balance, debited, faults>> /\ shown' = shown
        /\ page[g] = None /\ page'[g] \in Views
        /\ \A h \in Pages \ {g} : page'[h] = page[h]
        /\ \A h \in Pages : MoneyReady(h) /\ PageReady(h)
    BY DEF OpenPage, vars, storeVars, tableVars, MoneyShownInv, DashboardInv
  <1>2. \A h \in Pages \ {g} : MoneyReady(h)'
    BY <1>1 DEF MoneyReady, Had, Spent, Told, Figures
  <1>3. ASSUME page'[g].kind \in {"reseller", "detail"}
        PROVE  /\ Had(g)' \in Int /\ Spent(g)' \in Int
               /\ Had(g)' + Spent(g)' >= OpeningBalance[page'[g].of]
    <2>1. page'[g].of \in Resellers
      BY <1>1, <1>3 DEF Views
    <2>2. DOMAIN shown[g] = {}
      BY <1>1 DEF PageReady
    <2>3. Had(g)' = balance[page'[g].of] /\ Spent(g)' = debited[page'[g].of]
      BY <1>1, <2>2 DEF Had, Spent, Told
    <2> QED
      BY <2>1, <2>3, MoneyNow
  <1>4. MoneyReady(g)'
    BY <1>3 DEF MoneyReady
  <1> QED
    BY <1>2, <1>4

\* Every step keeps MoneyShownInv.
LEMMA MoneyKeeps ==
  ASSUME MoneyShownInv, [DashboardNext]_allVars
  PROVE  MoneyShownInv'
  <1>1. DashboardInv'
    BY FinitelyManyRequests, DashboardKeeps DEF MoneyShownInv
  <1>2. ServiceInv /\ StoreTypeOK
    BY DEF MoneyShownInv, DashboardInv, ServiceInv, BooksInv, TypeInv, TypeOK, PSTypeOK
  <1>3. CASE [Next]_vars /\ UNCHANGED dashboardVars
    <2>1. PricesInv'
      <3>1. CASE NoNegativePrice
        BY <1>2, <1>3, <3>1, PricesNext DEF MoneyShownInv
      <3>2. CASE ~NoNegativePrice
        BY <3>2 DEF PricesInv
      <3> QED
        BY <3>1, <3>2
    <2>2. faults' = 0 => faults = 0
      BY <1>2, <1>3, FaultsStay
    <2>3. NoNegativePrice => \A g \in Pages : MoneyReady(g)'
      BY <1>3, <2>2, MoneyLasts
    <2>4. \A u \in Resellers : credited'[u] >= OpeningBalance[u]
      <3> SUFFICES ASSUME NEW u \in Resellers
                   PROVE  credited'[u] >= OpeningBalance[u]
        OBVIOUS
      <3>1. /\ credited[u] \in Int /\ credited'[u] \in Int /\ credited[u] <= credited'[u]
        BY <1>2, <1>3, CreditsGrow
      <3>2. OpeningBalance[u] \in Int /\ credited[u] >= OpeningBalance[u]
        BY MoneyNow DEF MoneyShownInv
      <3> QED
        BY <3>1, <3>2
    <2> QED
      BY <1>1, <2>1, <2>3, <2>4 DEF MoneyShownInv
  <1>4. ASSUME NEW g \in Pages, OpenPage(g) \/ ReadFigure(g)
        PROVE  MoneyShownInv'
    <2>1. UNCHANGED <<packages, form, edit, step, tx, credited>>
      BY <1>4 DEF OpenPage, ReadFigure, vars, storeVars, tableVars, requestVars, orderVars,
                  packageVars
    <2>2. NoNegativePrice => \A h \in Pages : MoneyReady(h)'
      BY <1>4, MoneyRead, MoneyOpened
    <2> QED
      BY <1>1, <2>1, <2>2 DEF MoneyShownInv, PricesInv
  <1> QED
    BY <1>3, <1>4 DEF DashboardNext, allVars

\* The inductive invariant of a page about a reseller, whatever the prices are:
\* what has been read of it and what is still to be read account for its credits.
THEOREM MoneyShownInvariant == DashboardSpec => []MoneyShownInv
  <1>1. DashboardInit => MoneyShownInv
    <2> SUFFICES ASSUME DashboardInit
                 PROVE  MoneyShownInv
      OBVIOUS
    <2>1. DashboardInv
      BY DashboardStarts
    <2>2. PricesInv
      BY DEF DashboardInit, Init, PSInit, StoreInit, PackageAdminInit, PricesInv, NoNegativePrice
    <2>3. \A u \in Resellers : credited[u] >= OpeningBalance[u]
      BY StoreAssumption
         DEF DashboardInit, Init, PSInit, StoreInit, StoreAssumption, Users, Amount
    <2>4. \A g \in Pages : MoneyReady(g)
      BY DEF DashboardInit, MoneyReady
    <2> QED
      BY <2>1, <2>2, <2>3, <2>4 DEF MoneyShownInv
  <1>2. MoneyShownInv /\ [DashboardNext]_allVars => MoneyShownInv'
    BY MoneyKeeps
  <1> QED
    BY <1>1, <1>2, PTL DEF DashboardSpec

\* Whatever is bought and topped up while a page about a reseller is read, its
\* balance and its total spent account for all that the reseller had been credited
\* at the start, as long as no package has a negative price: the web form takes
\* one, and a purchase at it between the two figures lowers the total that is
\* still to be read.
THEOREM NoMoneyEverDropped ==
  ASSUME NoNegativePrice
  PROVE  DashboardSpec => []NoMoneyDropped
  <1>1. MoneyShownInv => NoMoneyDropped
    <2> SUFFICES ASSUME MoneyShownInv, NEW g \in Pages,
                        Complete(g, {"reseller", "detail"}), faults = 0
                 PROVE  Shows(g, "balance") + Shows(g, "revenue")
                          >= OpeningBalance[page[g].of]
      BY DEF NoMoneyDropped
    <2>1. /\ PageReady(g) /\ page[g] # None /\ page[g].kind \in {"reseller", "detail"}
          /\ Len(shown[g]) = Len(Figures(page[g].kind))
      BY DEF MoneyShownInv, DashboardInv, Complete
    <2> DEFINE F == Figures(page[g].kind)
    <2>2. \/ F = <<"balance", "total", "revenue">>
          \/ F = <<"balance", "total", "active", "revenue">>
      BY <2>1 DEF Figures
    <2> DEFINE n == Len(F)
    <2>3. /\ n \in {3, 4} /\ DOMAIN F = 1 .. n /\ F[1] = "balance" /\ F[n] = "revenue"
          /\ \A i \in 1 .. n : (F[i] = "balance" => i = 1) /\ (F[i] = "revenue" => i = n)
      <3>1. CASE F = <<"balance", "total", "revenue">>
        BY <3>1
      <3>2. CASE F = <<"balance", "total", "active", "revenue">>
        BY <3>2
      <3> QED
        BY <2>2, <3>1, <3>2
    <2>4. DOMAIN shown[g] = 1 .. n
      BY <2>1 DEF PageReady, IsSequence
    <2>5. /\ Had(g) = IF 1 \in DOMAIN shown[g] THEN shown[g][1] ELSE balance[page[g].of]
          /\ Spent(g) = IF n \in DOMAIN shown[g] THEN shown[g][n] ELSE debited[page[g].of]
      BY DEF Had, Spent, Told
    <2>6. /\ Shows(g, "balance") = shown[g][CHOOSE i \in DOMAIN F : F[i] = "balance"]
          /\ Shows(g, "revenue") = shown[g][CHOOSE i \in DOMAIN F : F[i] = "revenue"]
      BY DEF Shows
    <2> HIDE DEF F, n
    <2>7. /\ (CHOOSE i \in DOMAIN F : F[i] = "balance") = 1
          /\ (CHOOSE i \in DOMAIN F : F[i] = "revenue") = n
      BY <2>3
    <2>8. Shows(g, "balance") = shown[g][1] /\ Shows(g, "revenue") = shown[g][n]
      BY <2>6, <2>7
    <2>9. Had(g) = shown[g][1] /\ Spent(g) = shown[g][n]
      BY <2>3, <2>4, <2>5
    <2> QED
      BY <2>1, <2>8, <2>9 DEF MoneyShownInv, MoneyReady
  <1> QED
    BY <1>1, MoneyShownInvariant, PTL
============================================================================
