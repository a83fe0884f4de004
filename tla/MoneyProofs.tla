---------------------------- MODULE MoneyProofs ----------------------------
(* What resellers were charged and credited in all, for every value of the *)
(* constants: the sums over orders and over top-ups of the properties of   *)
(* RouteVPN.                                                               *)
EXTENDS ServiceProofs, FiniteSetTheorems, WellFoundedInduction

----------------------------------------------------------------------------
(* Sums over finite sets, as MapThenSumSet of FiniteSetsExt takes them.  A *)
(* fact about every finite set is shown by a smallest set that violates    *)
(* it.                                                                     *)

\* Of finite sets, one has none of the others inside: what stands here for
\* induction.
LEMMA Smallest ==
  ASSUME NEW S, IsFiniteSet(S), NEW T \in SUBSET SUBSET S, T # {}
  PROVE  \E s \in T : \A t \in T : t \subseteq s => t = s
  <1>1. IsWellFoundedOn(StrictSubsetOrdering(S), SUBSET S)
    BY FS_StrictSubsetOrderingWellFounded, FS_FiniteSubsetsOfFinite
  <1>2. PICK s \in T : \A t \in T : ~ (<<t, s>> \in StrictSubsetOrdering(S))
    BY <1>1, WFMin
  <1>3. \A t \in T : t \subseteq s /\ t # s => <<t, s>> \in StrictSubsetOrdering(S)
    BY DEF StrictSubsetOrdering
  <1>4. \A t \in T : t \subseteq s => t = s
    BY <1>2, <1>3
  <1> QED
    BY <1>4

\* The element that a sum takes first.
Pick(s) == CHOOSE x \in s : TRUE

\* g sums f over the subsets of S, as MapThenSumSet does.
Sums(f, S, g) ==
  g = [s \in SUBSET S |-> IF s = {} THEN 0 ELSE f[Pick(s)] + g[s \ {Pick(s)}]]

\* There is one such function, and it has the sum over S.
SumsOf(f, S) == CHOOSE g : Sums(f, S, g)

SumOver(f, S) == SumsOf(f, S)[S]

\* A set that is not empty has an element to pick.
LEMMA Picked == \A s : s # {} => Pick(s) \in s
  BY DEF Pick

\* What such a function is of a subset.
LEMMA SumsEntry ==
  ASSUME NEW f, NEW S, NEW g, Sums(f, S, g)
  PROVE  /\ g[{}] = 0
         /\ \A s \in SUBSET S : s # {} => g[s] = f[Pick(s)] + g[s \ {Pick(s)}]
  BY DEF Sums

\* No two functions sum f over the subsets of a finite set.
LEMMA SumsUnique ==
  ASSUME NEW f, NEW S, IsFiniteSet(S), NEW g, NEW h, Sums(f, S, g), Sums(f, S, h)
  PROVE  g = h
  <1> DEFINE T == {s \in SUBSET S : g[s] # h[s]}
  <1>1. SUFFICES ASSUME T # {} PROVE FALSE
    BY DEF Sums
  <1>2. PICK s \in T : \A t \in T : t \subseteq s => t = s
    <2>1. T \in SUBSET SUBSET S
      OBVIOUS
    <2> HIDE DEF T
    <2> QED
      BY <1>1, <2>1, Smallest
  <1>3. s # {}
    BY <1>2, SumsEntry
  <1>4. s \ {Pick(s)} \in SUBSET S /\ s \ {Pick(s)} \notin T
    BY <1>2, <1>3, Picked
  <1>5. g[s] = f[Pick(s)] + g[s \ {Pick(s)}] /\ h[s] = f[Pick(s)] + h[s \ {Pick(s)}]
    BY <1>2, <1>3, SumsEntry
  <1> QED
    BY <1>2, <1>4, <1>5

\* What sums f over the subsets of S does so over those of a part of S.
LEMMA SumsPart ==
  ASSUME NEW f, NEW S, NEW R \in SUBSET S, NEW g, Sums(f, S, g)
  PROVE  Sums(f, R, [s \in SUBSET R |-> g[s]])
  <1> DEFINE h == [s \in SUBSET R |-> g[s]]
  <1>1. ASSUME NEW s \in SUBSET R
        PROVE  h[s] = IF s = {} THEN 0 ELSE f[Pick(s)] + h[s \ {Pick(s)}]
    <2>1. s \in SUBSET S /\ s \ {Pick(s)} \in SUBSET R
      OBVIOUS
    <2>2. h[s] = g[s] /\ h[s \ {Pick(s)}] = g[s \ {Pick(s)}]
      BY <2>1
    <2>3. g[s] = IF s = {} THEN 0 ELSE f[Pick(s)] + g[s \ {Pick(s)}]
      <3>1. CASE s = {}
        BY <3>1, SumsEntry
      <3>2. CASE s # {}
        BY <2>1, <3>2, SumsEntry
      <3> QED
        BY <3>1, <3>2
    <2> QED
      BY <2>2, <2>3
  <1> QED
    BY <1>1 DEF Sums

\* One does: that of a smallest subset without would be made of those of its
\* parts, which agree.
LEMMA SumsExist ==
  ASSUME NEW f, NEW S, IsFiniteSet(S)
  PROVE  \E g : Sums(f, S, g)
  <1> DEFINE T == {s \in SUBSET S : ~ \E g : Sums(f, s, g)}
  <1>1. SUFFICES ASSUME T # {} PROVE FALSE
    OBVIOUS
  <1>2. PICK s \in T : \A t \in T : t \subseteq s => t = s
    <2>1. T \in SUBSET SUBSET S
      OBVIOUS
    <2> HIDE DEF T
    <2> QED
      BY <1>1, <2>1, Smallest
  <1> DEFINE G(t) == SumsOf(f, t)
  <1>3. \A t \in SUBSET s : t # s => Sums(f, t, G(t))
    BY <1>2 DEF SumsOf
  <1>4. \A r, t \in SUBSET s : t # s /\ r \subseteq t => G(t)[r] = G(r)[r]
    <2> SUFFICES ASSUME NEW t \in SUBSET s, NEW r \in SUBSET t, t # s
                 PROVE  G(t)[r] = G(r)[r]
      OBVIOUS
    <2>1. Sums(f, r, [x \in SUBSET r |-> G(t)[x]])
      <3>1. Sums(f, t, G(t))
        BY <1>3
      <3> HIDE DEF G
      <3> QED
        BY <3>1, SumsPart
    <2>2. r # s /\ IsFiniteSet(r)
      BY <1>2, FS_Subset
    <2>3. [x \in SUBSET r |-> G(t)[x]] = G(r)
      BY <1>3, <2>1, <2>2, SumsUnique
    <2>4. [x \in SUBSET r |-> G(t)[x]][r] = G(t)[r]
      OBVIOUS
    <2> QED
      BY <2>3, <2>4
  <1> DEFINE g == [t \in SUBSET s |-> IF t = {} THEN 0
                     ELSE f[Pick(t)] + G(t \ {Pick(t)})[t \ {Pick(t)}]]
  <1>5. ASSUME NEW t \in SUBSET s, t # s
        PROVE  g[t] = G(t)[t]
    <2>1. CASE t = {}
      BY <1>3, <1>5, <2>1, SumsEntry
    <2>2. CASE t # {}
      <3>1. G(t)[t] = f[Pick(t)] + G(t)[t \ {Pick(t)}]
        BY <1>3, <1>5, <2>2, SumsEntry
      <3>2. G(t)[t \ {Pick(t)}] = G(t \ {Pick(t)})[t \ {Pick(t)}]
        BY <1>4, <1>5
      <3> QED
        BY <2>2, <3>1, <3>2
    <2> QED
      BY <2>1, <2>2
  <1>6. ASSUME NEW t \in SUBSET s, t # {}
        PROVE  g[t] = f[Pick(t)] + g[t \ {Pick(t)}]
    <2>1. t \ {Pick(t)} \in SUBSET s /\ t \ {Pick(t)} # s
      BY <1>6, Picked
    <2> QED
      BY <1>5, <1>6, <2>1
  <1>7. Sums(f, s, g)
    <2>1. g[{}] = 0
      OBVIOUS
    <2>2. \A t \in SUBSET s : g[t] = IF t = {} THEN 0 ELSE f[Pick(t)] + g[t \ {Pick(t)}]
      BY <1>6, <2>1
    <2>3. g = [t \in SUBSET s |-> g[t]]
      OBVIOUS
    <2> HIDE DEF g
    <2> QED
      BY <2>2, <2>3 DEF Sums
  <1> QED
    BY <1>2, <1>7

\* The sum over a set, by the element that is picked first.
LEMMA SumPicked ==
  ASSUME NEW f, NEW S, IsFiniteSet(S)
  PROVE  /\ S = {} => SumOver(f, S) = 0
         /\ S # {} => SumOver(f, S) = f[Pick(S)] + SumOver(f, S \ {Pick(S)})
  <1> DEFINE R == S \ {Pick(S)}
             g == SumsOf(f, S)
  <1>1. Sums(f, S, g)
    BY SumsExist DEF SumsOf
  <1>2. R \in SUBSET S /\ IsFiniteSet(R)
    BY FS_Subset
  <1>3. Sums(f, R, [s \in SUBSET R |-> g[s]])
    <2>1. \A h : Sums(f, S, h) => Sums(f, R, [s \in SUBSET R |-> h[s]])
      <3> HIDE DEF R
      <3> QED
        BY <1>2, SumsPart
    <2> QED
      BY <1>1, <2>1
  <1>4. Sums(f, R, SumsOf(f, R))
    <2> HIDE DEF R
    <2> QED
      BY <1>2, SumsExist DEF SumsOf
  <1>5. SumsOf(f, R) = [s \in SUBSET R |-> g[s]]
    <2> HIDE DEF g, R
    <2> QED
      BY <1>2, <1>3, <1>4, SumsUnique
  <1>6. SumOver(f, R) = g[R]
    BY <1>5 DEF SumOver
  <1>7. /\ g[{}] = 0
        /\ S # {} => g[S] = f[Pick(S)] + g[R]
    <2> HIDE DEF g
    <2> QED
      BY <1>1, SumsEntry
  <1> QED
    BY <1>6, <1>7 DEF SumOver

\* A sum of integers is one.
LEMMA SumType ==
  ASSUME NEW S, IsFiniteSet(S), NEW f, \A x \in S : f[x] \in Int
  PROVE  SumOver(f, S) \in Int
  <1> DEFINE T == {s \in SUBSET S : SumOver(f, s) \notin Int}
  <1>1. SUFFICES ASSUME T # {} PROVE FALSE
    OBVIOUS
  <1>2. PICK s \in T : \A t \in T : t \subseteq s => t = s
    <2>1. T \in SUBSET SUBSET S
      OBVIOUS
    <2> HIDE DEF T
    <2> QED
      BY <1>1, <2>1, Smallest
  <1>3. IsFiniteSet(s)
    BY FS_Subset
  <1>4. s # {}
    <2>1. s = {} => SumOver(f, s) = 0
      BY <1>3, SumPicked
    <2> QED
      BY <1>2, <2>1
  <1>5. s \ {Pick(s)} \in SUBSET S /\ s \ {Pick(s)} \notin T /\ Pick(s) \in S
    BY <1>2, <1>4, Picked
  <1>6. SumOver(f, s) = f[Pick(s)] + SumOver(f, s \ {Pick(s)})
    BY <1>3, <1>4, SumPicked
  <1> QED
    BY <1>2, <1>5, <1>6

\* It does not matter which element is taken first.
LEMMA SumWithout ==
  ASSUME NEW S, IsFiniteSet(S), NEW f, \A x \in S : f[x] \in Int, NEW x \in S
  PROVE  SumOver(f, S) = f[x] + SumOver(f, S \ {x})
  <1> DEFINE T == {s \in SUBSET S :
                     \E y \in s : SumOver(f, s) # f[y] + SumOver(f, s \ {y})}
  <1>1. SUFFICES ASSUME T # {} PROVE FALSE
    OBVIOUS
  <1>2. PICK s \in T : \A t \in T : t \subseteq s => t = s
    <2>1. T \in SUBSET SUBSET S
      OBVIOUS
    <2> HIDE DEF T
    <2> QED
      BY <1>1, <2>1, Smallest
  <1>3. IsFiniteSet(s) /\ s \in SUBSET S
    BY FS_Subset
  <1>4. PICK y \in s : SumOver(f, s) # f[y] + SumOver(f, s \ {y})
    BY <1>2
  <1>5. \A t \in SUBSET s : t # s => \A z \in t : SumOver(f, t) = f[z] + SumOver(f, t \ {z})
    BY <1>2, <1>3
  <1> DEFINE p == Pick(s)
  <1>6. p \in s /\ SumOver(f, s) = f[p] + SumOver(f, s \ {p})
    BY <1>3, <1>4, SumPicked, Picked
  <1>7. p # y
    BY <1>4, <1>6
  <1> HIDE DEF p, T
  <1>8. SumOver(f, s \ {p}) = f[y] + SumOver(f, (s \ {p}) \ {y})
    BY <1>5, <1>6, <1>7
  <1>9. SumOver(f, s \ {y}) = f[p] + SumOver(f, (s \ {y}) \ {p})
    BY <1>5, <1>6, <1>7
  <1>10. (s \ {p}) \ {y} = (s \ {y}) \ {p}
    OBVIOUS
  <1>11. SumOver(f, (s \ {p}) \ {y}) \in Int /\ f[p] \in Int /\ f[y] \in Int
    <2>1. IsFiniteSet((s \ {p}) \ {y}) /\ \A z \in (s \ {p}) \ {y} : f[z] \in Int
      BY <1>3, FS_Subset
    <2> QED
      BY <1>3, <1>4, <1>6, <2>1, SumType
  <1>12. SumOver(f, s) = f[p] + (f[y] + SumOver(f, (s \ {p}) \ {y}))
    BY <1>6, <1>8
  <1>13. f[y] + SumOver(f, s \ {y}) = f[y] + (f[p] + SumOver(f, (s \ {p}) \ {y}))
    BY <1>9, <1>10
  <1>14. \A a, b, c \in Int : a + (b + c) = b + (a + c)
    OBVIOUS
  <1> QED
    BY <1>4, <1>11, <1>12, <1>13, <1>14

\* Only what the function is of the elements matters.
LEMMA SumSame ==
  ASSUME NEW S, IsFiniteSet(S), NEW f, NEW g, \A x \in S : f[x] = g[x]
  PROVE  SumOver(f, S) = SumOver(g, S)
  <1> DEFINE T == {s \in SUBSET S : SumOver(f, s) # SumOver(g, s)}
  <1>1. SUFFICES ASSUME T # {} PROVE FALSE
    OBVIOUS
  <1>2. PICK s \in T : \A t \in T : t \subseteq s => t = s
    <2>1. T \in SUBSET SUBSET S
      OBVIOUS
    <2> HIDE DEF T
    <2> QED
      BY <1>1, <2>1, Smallest
  <1>3. IsFiniteSet(s)
    BY FS_Subset
  <1>4. s # {}
    BY <1>2, <1>3, SumPicked
  <1>5. s \ {Pick(s)} \in SUBSET S /\ s \ {Pick(s)} \notin T /\ Pick(s) \in S
    BY <1>2, <1>4, Picked
  <1>6. /\ SumOver(f, s) = f[Pick(s)] + SumOver(f, s \ {Pick(s)})
        /\ SumOver(g, s) = g[Pick(s)] + SumOver(g, s \ {Pick(s)})
    BY <1>3, <1>4, SumPicked
  <1> QED
    BY <1>2, <1>5, <1>6

\* With one element more.
LEMMA SumAdd ==
  ASSUME NEW S, IsFiniteSet(S), NEW x, x \notin S, NEW f,
         \A y \in S \union {x} : f[y] \in Int
  PROVE  SumOver(f, S \union {x}) = SumOver(f, S) + f[x]
  <1>1. IsFiniteSet(S \union {x}) /\ (S \union {x}) \ {x} = S
    BY FS_AddElement
  <1>2. SumOver(f, S \union {x}) = f[x] + SumOver(f, (S \union {x}) \ {x})
    BY <1>1, SumWithout
  <1>3. SumOver(f, S \union {x}) = f[x] + SumOver(f, S)
    BY <1>1, <1>2, Zenon
  <1>4. SumOver(f, S) \in Int /\ f[x] \in Int
    BY SumType
  <1>5. \A a, b \in Int : a + b = b + a
    OBVIOUS
  <1> QED
    BY <1>3, <1>4, <1>5

\* Of one element.
LEMMA SumOfOne ==
  ASSUME NEW x, NEW f, f[x] \in Int
  PROVE  SumOver(f, {x}) = f[x]
  <1>1. IsFiniteSet({}) /\ SumOver(f, {}) = 0
    BY FS_EmptySet, SumPicked
  <1>2. SumOver(f, {} \union {x}) = SumOver(f, {}) + f[x]
    BY <1>1, SumAdd
  <1> QED
    BY <1>1, <1>2

\* What MapThenSumSet computes of a function.
LEMMA SumOfEntries ==
  ASSUME NEW f, NEW S
  PROVE  MapThenSumSet(LAMBDA x : f[x], S) = SumOver(f, S)
  BY DEF MapThenSumSet, MapThenFoldSet, SumOver, SumsOf, Sums, Pick

----------------------------------------------------------------------------
(* What resellers were charged. *)

\* What each order was quoted.
Prices == [o \in Orders |-> tx[o].price]

HeldBy(u) == {o \in Committed : peers[o].owner = u}

\* The sums of ChargedForWhatIsHeld, before and after a step.
LEMMA SumOfPrices ==
  ASSUME NEW f, NEW S \in SUBSET Orders, IsFiniteSet(S)
  PROVE  MapThenSumSet(LAMBDA o : f[o].price, S) = SumOver([o \in Orders |-> f[o].price], S)
  <1> DEFINE g == [o \in S |-> f[o].price]
             h == [o \in Orders |-> f[o].price]
  <1>1. MapThenSumSet(LAMBDA o : f[o].price, S) = SumOver(g, S)
    BY DEF MapThenSumSet, MapThenFoldSet, SumOver, SumsOf, Sums, Pick
  <1>2. \A o \in S : g[o] = h[o]
    OBVIOUS
  <1>3. SumOver(g, S) = SumOver(h, S)
    <2> HIDE DEF g, h
    <2> QED
      BY <1>2, SumSame
  <1> QED
    BY <1>1, <1>3

\* A step of an order leaves the charges and the committed rows as they are, or
\* publishes its row and charges what it was quoted.
LEMMA OrderCharges ==
  ASSUME StoreAssumption, OrdersInv, DebitsHeld, RowsInv, NEW o \in Orders,
         ReceiveOrder(o) \/ OrderStep(o) \/ OrderFailure(o)
  PROVE  \/ debited' = debited /\ peers' = peers /\ \A x \in Committed : tx'[x] = tx[x]
         \/ /\ o \notin Committed /\ NewRow(o) # None /\ step[o] = "onInterface"
            /\ tx[o] \in TxLocals /\ tx' = tx
            /\ debited' = [debited EXCEPT ![tx[o].owner] = @ + tx[o].price]
            /\ peers' = [peers EXCEPT ![o] = NewRow(o)]
  <1>1. CASE CommitOrder(o) \/ CommitReplyLost(o)
    <2>1. step[o] = "onInterface" /\ Alive(o) /\ Publish(o)
      BY <1>1 DEF CommitOrder, CommitReplyLost
    <2>2. peers[o] = None /\ uncommitted[o] = NewRow(o) /\ NewRow(o) # None
      BY <2>1, WaitingRow DEF HasInserted
    <2>3. tx[o] \in TxLocals
      BY <2>1 DEF OrdersInv, OrdersReady
    <2> QED
      BY <2>1, <2>2, <2>3 DEF Publish, Committed
  <1>2. CASE ~CommitOrder(o) /\ ~CommitReplyLost(o)
    <2>1. debited' = debited /\ peers' = peers
      BY <1>2 DEF ReceiveOrder, OrderStep, OrderFailure, BeginOrder, RefuseInsufficient,
            DebitReseller, AllocateIP, InsertPeer, AddToInterface, AnswerOrder,
            StatementFails, AddToInterfaceFails, CommitFails, SessionLost, LoseSession,
            RollbackOrder, storeVars, tableVars
    <2>2. o \in Committed => step[o] \in HasRow
      BY DEF Committed, RowsInv, RowReady
    <2>3. step[o] \in HasRow => tx' = tx
      BY <1>2 DEF HasRow, ReceiveOrder, OrderStep, OrderFailure, BeginOrder,
            RefuseInsufficient, DebitReseller, AllocateIP, InsertPeer, AddToInterface,
            AnswerOrder, StatementFails, AddToInterfaceFails, CommitFails, SessionLost,
            LoseSession, RollbackOrder, LockedRead, orderVars
    <2>4. \A x \in Orders \ {o} : tx'[x] = tx[x]
      BY OrderLocals
    <2> QED
      BY <2>1, <2>2, <2>3, <2>4 DEF Committed
  <1> QED
    BY <1>1, <1>2

\* No other step charges anybody, publishes a row or changes what was quoted.
LEMMA OnlyOrdersCharge ==
  ASSUME StoreAssumption, BillingAssumption, PackageAdminAssumption, BooksInv, [Next]_vars
  PROVE  \/ \E o \in Orders : ReceiveOrder(o) \/ OrderStep(o) \/ OrderFailure(o)
         \/ UNCHANGED <<debited, tx>> /\ Committed' = Committed
  <1> USE DEF BooksInv, TypeInv, TypeOK, PSTypeOK
  <1>1. ASSUME NEW t \in TopUps, ReceiveTopUp(t) \/ TopUpStep(t) \/ TopUpFailure(t), ButTopUps
        PROVE  UNCHANGED <<debited, tx>> /\ Committed' = Committed
    <2>1. peers' = peers
      BY <1>1, TopUpBooks DEF TopUpsInv
    <2>2. debited' = debited
      BY <1>1 DEF ReceiveTopUp, TopUpStep, TopUpFailure, BeginTopUp, CreditBalance,
            CreditNobody, CommitTopUp, AnswerTopUp, TopUpStatementFails,
            TopUpCommitReplyLost, TopUpCommitFails, TopUpSessionLost, LoseSession,
            PublishTopUp, RollbackTopUp, storeVars, tableVars
    <2> QED
      BY <1>1, <2>1, <2>2 DEF ButTopUps, orderVars, Committed
  <1>2. ASSUME NEW d \in Removals, ReceiveRemoval(d) \/ RemovalStep(d), ButRemovals
        PROVE  UNCHANGED <<debited, tx>> /\ Committed' = Committed
    BY <1>2, RemovalTypes DEF ButRemovals, orderVars, moneyVars
  <1>3. ASSUME NEW e \in Edits, ReceiveEdit(e) \/ EditStep(e), ButEdits
        PROVE  UNCHANGED <<debited, tx>> /\ Committed' = Committed
    BY <1>3, EditTypes DEF ButEdits, orderVars, moneyVars, Committed
  <1>4. CASE (WorkerStep \/ HourPasses) /\ ButTheWorker
    BY <1>4, WorkerTypes DEF ButTheWorker, requestVars, orderVars, moneyVars
  <1>5. CASE SignalStop \/ ShutdownReturns \/ Exit \/ Crash \/ Restart \/ TimePasses
             \/ UNCHANGED vars
    BY <1>5 DEF SignalStop, ShutdownReturns, Exit, Crash, Restart, TimePasses, Tick, vars,
          storeVars, tableVars, requestVars, orderVars, Committed
  <1> QED
    BY <1>1, <1>2, <1>3, <1>4, <1>5
       DEF Next, Accept, RunOrder, RunTopUp, RunRemoval, RunEdit, RunWorker, RunTimer

\* ChargedForWhatIsHeld, as a sum over the rows a reseller holds.
LEMMA ChargedSum ==
  ASSUME FinitelyManyRequests
  PROVE  ChargedForWhatIsHeld
           <=> \A u \in Resellers : debited[u] = SumOver(Prices, HeldBy(u))
  <1>1. \A u : HeldBy(u) \in SUBSET Orders /\ IsFiniteSet(HeldBy(u))
    BY FS_Subset DEF HeldBy, Committed, FinitelyManyRequests
  <1>2. \A u : MapThenSumSet(LAMBDA o : tx[o].price, HeldBy(u)) = SumOver(Prices, HeldBy(u))
    BY <1>1, SumOfPrices DEF Prices
  <1> QED
    BY <1>2 DEF ChargedForWhatIsHeld, HeldBy

\* The same after a step.
LEMMA ChargedSumNext ==
  ASSUME FinitelyManyRequests
  PROVE  ChargedForWhatIsHeld'
           <=> \A u \in Resellers : debited'[u] = SumOver(Prices', HeldBy(u)')
  <1>1. \A u : HeldBy(u)' \in SUBSET Orders /\ IsFiniteSet(HeldBy(u)')
    BY FS_Subset DEF HeldBy, Committed, FinitelyManyRequests
  <1>2. \A u : MapThenSumSet(LAMBDA o : tx[o].price, HeldBy(u))' = SumOver(Prices', HeldBy(u)')
    <2>1. \A u : MapThenSumSet(LAMBDA o : tx'[o].price, HeldBy(u)')
                   = SumOver(Prices', HeldBy(u)')
      BY <1>1, SumOfPrices DEF Prices
    <2>2. \A u : MapThenSumSet(LAMBDA o : tx[o].price, HeldBy(u))'
                   = MapThenSumSet(LAMBDA o : tx'[o].price, HeldBy(u)')
      BY DEF MapThenSumSet, MapThenFoldSet
    <2> QED
      BY <2>1, <2>2
  <1> QED
    BY <1>2 DEF ChargedForWhatIsHeld, HeldBy

\* The rows of a reseller and their prices stay, if nothing is published.
LEMMA HoldingsStay ==
  ASSUME StoreAssumption, FinitelyManyRequests, StoreTypeOK, ChargedForWhatIsHeld,
         debited' = debited, Committed' = Committed,
         \A x \in Committed : tx'[x] = tx[x] /\ Lasts(x)
  PROVE  ChargedForWhatIsHeld'
  <1> SUFFICES ASSUME NEW u \in Resellers
               PROVE  debited'[u] = SumOver(Prices', HeldBy(u)')
    BY ChargedSumNext
  <1>1. debited[u] = SumOver(Prices, HeldBy(u))
    BY ChargedSum
  <1>2. HeldBy(u)' = HeldBy(u)
    BY LastingRow DEF HeldBy
  <1>3. IsFiniteSet(HeldBy(u)) /\ \A o \in HeldBy(u) : Prices[o] = Prices'[o]
    BY FS_Subset DEF HeldBy, Committed, FinitelyManyRequests, Prices
  <1>4. SumOver(Prices, HeldBy(u)) = SumOver(Prices', HeldBy(u))
    BY <1>3, SumSame
  <1> QED
    BY <1>1, <1>2, <1>4

\* A COMMIT adds to the charges of one reseller the price of the row it adds.
LEMMA PublishedCharge ==
  ASSUME StoreAssumption, FinitelyManyRequests, OrdersInv, RowsInv, ChargedForWhatIsHeld,
         NEW o \in Orders, o \notin Committed, NewRow(o) # None,
         tx[o] \in TxLocals, tx' = tx,
         debited' = [debited EXCEPT ![tx[o].owner] = @ + tx[o].price],
         peers' = [peers EXCEPT ![o] = NewRow(o)]
  PROVE  ChargedForWhatIsHeld'
  <1> SUFFICES ASSUME NEW u \in Resellers
               PROVE  debited'[u] = SumOver(Prices', HeldBy(u)')
    BY ChargedSumNext
  <1>1. debited[u] = SumOver(Prices, HeldBy(u)) /\ Prices' = Prices
    BY ChargedSum DEF Prices
  <1>2. NewRow(o).owner = tx[o].owner
    BY DEF NewRow
  <1>3. \A x \in Orders \ {o} : peers'[x] = peers[x]
    BY DEF OrdersInv, PSTypeOK, StoreTypeOK
  <1>4. peers'[o] = NewRow(o)
    BY DEF OrdersInv, PSTypeOK, StoreTypeOK
  <1>5. HeldBy(u)' = IF u = tx[o].owner THEN HeldBy(u) \union {o} ELSE HeldBy(u)
    BY <1>2, <1>3, <1>4 DEF HeldBy, Committed
  <1>6. /\ IsFiniteSet(HeldBy(u)) /\ o \notin HeldBy(u)
        /\ \A x \in HeldBy(u) \union {o} : Prices[x] \in Int
    <2>1. IsFiniteSet(HeldBy(u)) /\ o \notin HeldBy(u)
      BY FS_Subset DEF HeldBy, Committed, FinitelyManyRequests
    <2>2. ASSUME NEW x \in HeldBy(u) \union {o}
          PROVE  x \in Orders /\ tx[x] \in TxLocals
      <3>1. x = o \/ step[x] \in HasRow
        BY <2>2 DEF HeldBy, Committed, RowsInv, RowReady
      <3> QED
        BY <2>2, <3>1 DEF HeldBy, Committed, HasRow, OrdersInv, OrdersReady
    <2> QED
      BY <2>1, <2>2 DEF Prices, TxLocals
  <1>7. debited[u] \in Int /\ u \in Users
    BY DEF OrdersInv, PSTypeOK, StoreTypeOK, Users
  <1>8. CASE u = tx[o].owner
    <2>1. SumOver(Prices, HeldBy(u) \union {o}) = SumOver(Prices, HeldBy(u)) + Prices[o]
      BY <1>6, SumAdd
    <2>2. debited'[u] = debited[u] + tx[o].price
      BY <1>7, <1>8 DEF OrdersInv, PSTypeOK, StoreTypeOK
    <2>3. Prices[o] = tx[o].price
      BY DEF Prices
    <2> QED
      BY <1>1, <1>5, <1>8, <2>1, <2>2, <2>3
  <1>9. CASE u # tx[o].owner
    BY <1>1, <1>5, <1>7, <1>9 DEF OrdersInv, PSTypeOK, StoreTypeOK
  <1> QED
    BY <1>8, <1>9

\* Resellers are charged for the rows they hold, and for nothing else, in every
\* state: an order that is rolled back, or whose COMMIT fails, costs nothing, and
\* one whose COMMIT went through unnoticed costs its price, once.
THEOREM ChargedForWhatTheyHold == Spec => []ChargedForWhatIsHeld
  <1>1. Init => ChargedForWhatIsHeld
    <2> SUFFICES ASSUME Init, NEW u \in Resellers
                 PROVE  debited[u] = SumOver(Prices, HeldBy(u))
      BY ChargedSum, FinitelyManyRequests
    <2>1. HeldBy(u) = {} /\ debited[u] = 0
      BY DEF Init, PSInit, StoreInit, HeldBy, Committed, Users
    <2> QED
      BY <2>1, FS_EmptySet, SumPicked
  <1>2. ServiceInv /\ ChargedForWhatIsHeld /\ [Next]_vars => ChargedForWhatIsHeld'
    <2> SUFFICES ASSUME ServiceInv, ChargedForWhatIsHeld, [Next]_vars
                 PROVE  ChargedForWhatIsHeld'
      OBVIOUS
    <2>1. /\ BooksInv /\ OrdersInv /\ DebitsHeld /\ RowsInv /\ StoreTypeOK
          /\ \A x \in Committed : Lasts(x)
      BY StoreAssumption, BillingAssumption, PackageAdminAssumption, ServiceNext
         DEF ServiceInv, BooksInv, TypeInv, TypeOK, PSTypeOK, OrdersInv
    <2>2. CASE UNCHANGED <<debited, tx>> /\ Committed' = Committed
      BY <2>1, <2>2, StoreAssumption, FinitelyManyRequests, HoldingsStay
    <2>3. ASSUME NEW o \in Orders, ReceiveOrder(o) \/ OrderStep(o) \/ OrderFailure(o)
          PROVE  ChargedForWhatIsHeld'
      <3>1. CASE debited' = debited /\ peers' = peers /\ \A x \in Committed : tx'[x] = tx[x]
        BY <2>1, <3>1, StoreAssumption, FinitelyManyRequests, HoldingsStay DEF Committed
      <3>2. CASE /\ o \notin Committed /\ NewRow(o) # None
                 /\ tx[o] \in TxLocals /\ tx' = tx
                 /\ debited' = [debited EXCEPT ![tx[o].owner] = @ + tx[o].price]
                 /\ peers' = [peers EXCEPT ![o] = NewRow(o)]
        BY <2>1, <3>2, StoreAssumption, FinitelyManyRequests, PublishedCharge
      <3> QED
        BY <2>1, <2>3, <3>1, <3>2, StoreAssumption, OrderCharges
    <2> QED
      BY <2>1, <2>2, <2>3, OnlyOrdersCharge, StoreAssumption, BillingAssumption,
         PackageAdminAssumption
  <1> QED
    BY <1>1, <1>2, ServiceInvariant, PTL DEF Spec

----------------------------------------------------------------------------
(* What resellers were credited. *)

\* What each top-up is worth.
Worth == [t \in TopUps |-> Cents(t)]

\* Steps at which a top-up may have been applied, and those at which it has been.
MaybeApplied == {"committed", "done", "commit_error", "no_reply"}
SurelyApplied == {"committed", "done"}

\* A is the set of the top-ups of u that have been applied, or could be as far as
\* anyone was told, and they add up to what u was credited.
Applied(A, u) ==
  /\ A \subseteq {t \in TopUps : topup[t] \in MaybeApplied /\ credit[t].target = u}
  /\ \A t \in TopUps : topup[t] \in SurelyApplied /\ credit[t].target = u => t \in A
  /\ credited[u] - OpeningBalance[u] = SumOver(Worth, A)

CreditsAddUp == \A u \in Resellers : \E A \in SUBSET TopUps : Applied(A, u)

\* The sums of TopUpsCountOnce.
LEMMA SumOfCents ==
  ASSUME NEW S \in SUBSET TopUps, IsFiniteSet(S)
  PROVE  MapThenSumSet(Cents, S) = SumOver(Worth, S)
  <1> DEFINE g == [t \in S |-> Cents(t)]
  <1>1. MapThenSumSet(Cents, S) = SumOver(g, S)
    BY DEF MapThenSumSet, MapThenFoldSet, SumOver, SumsOf, Sums, Pick
  <1>2. \A t \in S : g[t] = Worth[t]
    BY DEF Worth
  <1>3. SumOver(g, S) = SumOver(Worth, S)
    <2> HIDE DEF g
    <2> QED
      BY <1>2, SumSame
  <1> QED
    BY <1>1, <1>3

\* The set of those applied is one that TopUpsCountOnce asks for.
LEMMA CreditsCounted ==
  ASSUME FinitelyManyRequests, TopUpsInv, CreditsAddUp
  PROVE  TopUpsCountOnce
  <1> SUFFICES ASSUME NEW u \in Resellers
               PROVE  \E doubtful \in SUBSET {t \in TopUps :
                                              topup[t] \in {"commit_error", "no_reply"}} :
                        credited[u] - OpeningBalance[u] =
                          MapThenSumSet(Cents, {t \in TopUps :
                            /\ credit[t] # None /\ credit[t].target = u
                            /\ topup[t] \in {"committed", "done"} \/ t \in doubtful})
    BY DEF TopUpsCountOnce
  <1>1. PICK A \in SUBSET TopUps : Applied(A, u)
    BY DEF CreditsAddUp
  <1> DEFINE D == {t \in A : topup[t] \in {"commit_error", "no_reply"}}
             S == {t \in TopUps : /\ credit[t] # None /\ credit[t].target = u
                                  /\ topup[t] \in {"committed", "done"} \/ t \in D}
  <1>2. \A t \in TopUps : topup[t] \in MaybeApplied => credit[t] # None
    BY NoneIsNoCredit DEF TopUpsInv, TopUpsReady, MaybeApplied
  <1>3. S = A
    BY <1>1, <1>2 DEF Applied, MaybeApplied, SurelyApplied
  <1>4. MapThenSumSet(Cents, A) = SumOver(Worth, A)
    BY SumOfCents, FS_Subset DEF FinitelyManyRequests
  <1>5. credited[u] - OpeningBalance[u] = MapThenSumSet(Cents, S)
    BY <1>1, <1>3, <1>4 DEF Applied
  <1>6. D \in SUBSET {t \in TopUps : topup[t] \in {"commit_error", "no_reply"}}
    OBVIOUS
  <1> QED
    BY <1>5, <1>6

\* A step of a top-up leaves what was credited and which top-ups may have been
\* applied as they are, or applies it: it was under way and now may have been.
LEMMA TopUpCredits ==
  ASSUME BillingTypeOK, NEW t \in TopUps,
         ReceiveTopUp(t) \/ TopUpStep(t) \/ TopUpFailure(t)
  PROVE  \/ /\ credited' = credited
            /\ topup[t] \in MaybeApplied =>
                 /\ credit' = credit /\ topup'[t] \in MaybeApplied
                 /\ topup'[t] \in SurelyApplied => topup[t] \in SurelyApplied
            /\ topup[t] \notin MaybeApplied => topup'[t] \notin SurelyApplied
         \/ /\ topup[t] \notin MaybeApplied /\ topup'[t] \in MaybeApplied
            /\ topup[t] = "credited" /\ credit' = credit
            /\ credited' = [credited EXCEPT ![credit[t].target] = @ + Cents(t)]
  <1>1. CASE CommitTopUp(t) \/ TopUpCommitReplyLost(t)
    BY <1>1 DEF CommitTopUp, TopUpCommitReplyLost, PublishTopUp, TopUpGoto, BillingTypeOK,
                MaybeApplied
  <1>2. CASE AnswerTopUp(t)
    BY <1>2 DEF AnswerTopUp, TopUpGoto, BillingTypeOK, MaybeApplied, SurelyApplied,
                storeVars, tableVars
  <1>3. CASE ~CommitTopUp(t) /\ ~TopUpCommitReplyLost(t) /\ ~AnswerTopUp(t)
    <2>1. credited' = credited
      BY <1>3 DEF ReceiveTopUp, TopUpStep, TopUpFailure, BeginTopUp, CreditBalance,
            CreditNobody, TopUpStatementFails, TopUpCommitFails, TopUpSessionLost,
            LoseSession, RollbackTopUp, storeVars, tableVars
    <2>2. \/ topup[t] \notin MaybeApplied /\ topup'[t] \notin SurelyApplied
          \/ UNCHANGED billingVars
      BY <1>3 DEF ReceiveTopUp, TopUpStep, TopUpFailure, BeginTopUp, CreditBalance,
            CreditNobody, TopUpStatementFails, TopUpCommitFails, TopUpSessionLost,
            RollbackTopUp, TopUpGoto, BillingTypeOK, MaybeApplied, SurelyApplied
    <2> QED
      BY <2>1, <2>2 DEF billingVars, MaybeApplied, SurelyApplied
  <1> QED
    BY <1>1, <1>2, <1>3

\* While top-ups that may have been applied stay as they are, so does their sum.
LEMMA CreditsStay ==
  ASSUME FinitelyManyRequests, CreditsAddUp, credited' = credited,
         \A t \in TopUps : topup[t] \in MaybeApplied =>
           credit'[t] = credit[t] /\ topup'[t] \in MaybeApplied,
         \A t \in TopUps : topup'[t] \in SurelyApplied => topup[t] \in SurelyApplied
  PROVE  CreditsAddUp'
  <1> SUFFICES ASSUME NEW u \in Resellers
               PROVE  \E A \in SUBSET TopUps : Applied(A, u)'
    BY DEF CreditsAddUp
  <1>1. PICK A \in SUBSET TopUps : Applied(A, u)
    BY DEF CreditsAddUp
  <1>2. \A t \in A : Worth[t] = Worth'[t] /\ credit'[t] = credit[t]
    BY <1>1 DEF Applied, Worth, Cents
  <1>3. SumOver(Worth, A) = SumOver(Worth', A)
    BY <1>2, FS_Subset, SumSame DEF FinitelyManyRequests
  <1>4. /\ A \subseteq {t \in TopUps : topup'[t] \in MaybeApplied /\ credit'[t].target = u}
        /\ \A t \in TopUps : topup'[t] \in SurelyApplied /\ credit'[t].target = u => t \in A
    BY <1>1, <1>2 DEF Applied, SurelyApplied, MaybeApplied
  <1>5. credited'[u] - OpeningBalance[u] = SumOver(Worth', A)
    BY <1>1, <1>3 DEF Applied
  <1>6. Applied(A, u)'
    BY <1>4, <1>5 DEF Applied
  <1> QED
    BY <1>6

\* A COMMIT adds to the credits of one reseller what its top-up is worth.
LEMMA PublishedCredit ==
  ASSUME StoreAssumption, FinitelyManyRequests, TopUpsInv, CreditsAddUp,
         NEW t \in TopUps, topup[t] = "credited", credit' = credit,
         topup'[t] \in MaybeApplied,
         \A x \in TopUps \ {t} : topup'[x] = topup[x],
         credited' = [credited EXCEPT ![credit[t].target] = @ + Cents(t)]
  PROVE  CreditsAddUp'
  <1> SUFFICES ASSUME NEW u \in Resellers
               PROVE  \E A \in SUBSET TopUps : Applied(A, u)'
    BY DEF CreditsAddUp
  <1>1. PICK A \in SUBSET TopUps : Applied(A, u)
    BY DEF CreditsAddUp
  <1>2. t \notin A /\ t \notin {x \in TopUps : topup[x] \in SurelyApplied} /\ Worth' = Worth
    BY <1>1 DEF Applied, MaybeApplied, SurelyApplied, Worth, Cents
  <1>3. credited[u] \in Int /\ OpeningBalance[u] \in Int /\ u \in Users
    BY DEF TopUpsInv, StoreTypeOK, Users, StoreAssumption, Amount
  <1>4. CASE credit[t].target = u
    <2>1. \A x \in A \union {t} : Worth[x] \in Int
      <3>1. \A x \in A \union {t} : credit[x] \in CreditLocals
        BY <1>1 DEF Applied, MaybeApplied, TopUpsInv, TopUpsReady
      <3>2. \A m \in Int : RoundToCents(m) \in Int
        BY DEF RoundToCents
      <3> QED
        BY <3>1, <3>2 DEF Worth, Cents, CreditLocals
    <2>2. IsFiniteSet(A)
      BY FS_Subset DEF FinitelyManyRequests
    <2>3. SumOver(Worth, A \union {t}) = SumOver(Worth, A) + Worth[t]
      BY <1>2, <2>1, <2>2, SumAdd
    <2>4. SumOver(Worth, A) \in Int /\ Worth[t] \in Int /\ Worth[t] = Cents(t)
      BY <2>1, <2>2, SumType DEF Worth
    <2>5. credited'[u] = credited[u] + Worth[t]
      BY <1>3, <1>4, <2>4 DEF TopUpsInv, StoreTypeOK
    <2>6. credited[u] - OpeningBalance[u] = SumOver(Worth, A)
      BY <1>1 DEF Applied
    <2>7. credited'[u] - OpeningBalance[u] = SumOver(Worth', A \union {t})
      BY <1>2, <1>3, <2>3, <2>4, <2>5, <2>6
    <2>8. Applied(A \union {t}, u)'
      <3>1. /\ A \union {t} \subseteq {x \in TopUps : topup'[x] \in MaybeApplied
                                                     /\ credit'[x].target = u}
            /\ \A x \in TopUps : topup'[x] \in SurelyApplied /\ credit'[x].target = u
                                  => x \in A \union {t}
        BY <1>1, <1>4 DEF Applied
      <3> QED
        BY <2>7, <3>1 DEF Applied, MaybeApplied, SurelyApplied
    <2> QED
      BY <1>1, <2>8
  <1>5. CASE credit[t].target # u
    <2>1. credited'[u] = credited[u]
      BY <1>3, <1>5 DEF TopUpsInv, StoreTypeOK
    <2>2. credited'[u] - OpeningBalance[u] = SumOver(Worth', A)
      BY <1>1, <1>2, <2>1 DEF Applied
    <2>3. /\ A \subseteq {x \in TopUps : topup'[x] \in MaybeApplied
                                        /\ credit'[x].target = u}
          /\ \A x \in TopUps : topup'[x] \in SurelyApplied /\ credit'[x].target = u => x \in A
      BY <1>1, <1>2, <1>5 DEF Applied
    <2>4. Applied(A, u)'
      BY <2>2, <2>3 DEF Applied, MaybeApplied, SurelyApplied
    <2> QED
      BY <1>1, <2>4
  <1> QED
    BY <1>4, <1>5

\* No other step credits anybody or changes what became of a top-up, but that a
\* crash cuts the answers off.
LEMMA OnlyTopUpsCredit ==
  ASSUME StoreAssumption, BooksInv, [Next]_vars
  PROVE  \/ \E t \in TopUps : ReceiveTopUp(t) \/ TopUpStep(t) \/ TopUpFailure(t)
         \/ UNCHANGED <<credited, credit, topup>>
         \/ UNCHANGED <<credited, credit>> /\ topup' = Cut(topup, TopUpInFlight)
  <1>1. ASSUME NEW o \in Orders, ReceiveOrder(o) \/ OrderStep(o) \/ OrderFailure(o), ButOrders
        PROVE  UNCHANGED <<credited, credit, topup>>
    BY <1>1 DEF ButOrders, billingVars, ReceiveOrder, OrderStep, OrderFailure, BeginOrder,
          RefuseInsufficient, DebitReseller, AllocateIP, InsertPeer, AddToInterface,
          CommitOrder, AnswerOrder, StatementFails, AddToInterfaceFails, CommitReplyLost,
          CommitFails, SessionLost, LoseSession, Publish, RollbackOrder, storeVars, tableVars
  <1>2. ASSUME NEW d \in Removals, ReceiveRemoval(d) \/ RemovalStep(d), ButRemovals
        PROVE  UNCHANGED <<credited, credit, topup>>
    BY <1>2 DEF ButRemovals, billingVars, ReceiveRemoval, RemovalStep, FindRemovee, TakeOff,
          MarkRemoved, storeVars, tableVars
  <1>3. ASSUME NEW e \in Edits, ReceiveEdit(e) \/ EditStep(e), ButEdits
        PROVE  UNCHANGED <<credited, credit, topup>>
    BY <1>3 DEF ButEdits, billingVars, ReceiveEdit, EditStep, CreatePackage, UpdatePackage,
          CountActivePeers, DeletePackage, OnlyPackages, storeVars, tableVars
  <1>4. CASE (WorkerStep \/ HourPasses) /\ ButTheWorker
    <2>1. UNCHANGED moneyVars
      BY <1>4, WorkerTypes DEF BooksInv, TypeInv, TypeOK, PSTypeOK
    <2> QED
      BY <1>4, <2>1 DEF ButTheWorker, requestVars, billingVars, moneyVars
  <1>5. CASE SignalStop \/ ShutdownReturns \/ Exit \/ Restart \/ TimePasses \/ UNCHANGED vars
    BY <1>5 DEF SignalStop, ShutdownReturns, Exit, Restart, TimePasses, Tick, vars,
          storeVars, tableVars, requestVars, billingVars
  <1>6. CASE Crash
    BY <1>6 DEF Crash, tableVars
  <1> QED
    BY <1>1, <1>2, <1>3, <1>4, <1>5, <1>6
       DEF Next, Accept, RunOrder, RunTopUp, RunRemoval, RunEdit, RunWorker, RunTimer

\* Every step keeps the sum.
LEMMA CreditsNext ==
  ASSUME BooksInv, CreditsAddUp, [Next]_vars
  PROVE  CreditsAddUp'
  <1>1. StoreAssumption /\ BillingAssumption /\ FinitelyManyRequests /\ TopUpsInv
    BY StoreAssumption, BillingAssumption, FinitelyManyRequests
       DEF BooksInv, TypeInv, TypeOK, PSTypeOK, TopUpsInv
  <1>2. ASSUME NEW t \in TopUps, ReceiveTopUp(t) \/ TopUpStep(t) \/ TopUpFailure(t)
        PROVE  CreditsAddUp'
    <2>1. \A x \in TopUps \ {t} : topup'[x] = topup[x] /\ credit'[x] = credit[x]
      BY <1>1, <1>2, TopUpLocals DEF TopUpsInv
    <2>2. CASE /\ credited' = credited
               /\ topup[t] \in MaybeApplied =>
                    /\ credit' = credit /\ topup'[t] \in MaybeApplied
                    /\ topup'[t] \in SurelyApplied => topup[t] \in SurelyApplied
               /\ topup[t] \notin MaybeApplied => topup'[t] \notin SurelyApplied
      <3>1. \A x \in TopUps : topup[x] \in MaybeApplied =>
              credit'[x] = credit[x] /\ topup'[x] \in MaybeApplied
        BY <2>1, <2>2
      <3>2. \A x \in TopUps : topup'[x] \in SurelyApplied => topup[x] \in SurelyApplied
        BY <2>1, <2>2
      <3> QED
        BY <1>1, <2>2, <3>1, <3>2, CreditsStay
    <2>3. CASE /\ topup[t] = "credited" /\ topup'[t] \in MaybeApplied /\ credit' = credit
               /\ credited' = [credited EXCEPT ![credit[t].target] = @ + Cents(t)]
      BY <1>1, <2>1, <2>3, PublishedCredit
    <2> QED
      BY <1>1, <1>2, <2>2, <2>3, TopUpCredits DEF TopUpsInv
  <1>3. CASE UNCHANGED <<credited, credit, topup>>
    BY <1>1, <1>3, CreditsStay
  <1>4. CASE UNCHANGED <<credited, credit>> /\ topup' = Cut(topup, TopUpInFlight)
    <2>1. \A t \in TopUps :
            topup'[t] = IF topup[t] \in TopUpInFlight THEN "no_reply" ELSE topup[t]
      BY <1>1, <1>4 DEF Cut, TopUpsInv, BillingTypeOK
    <2>2. \A t \in TopUps : topup[t] \in MaybeApplied => topup'[t] \in MaybeApplied
      BY <2>1 DEF MaybeApplied
    <2>3. \A t \in TopUps : topup'[t] \in SurelyApplied => topup[t] \in SurelyApplied
      BY <2>1 DEF SurelyApplied
    <2> QED
      BY <1>1, <1>4, <2>2, <2>3, CreditsStay
  <1> QED
    BY <1>1, <1>2, <1>3, <1>4, OnlyTopUpsCredit

\* What a reseller was credited is the sum of its top-ups that were answered with
\* success and of some that were answered with an error of COMMIT or not at all:
\* none is applied twice or in part, and none that was refused is applied.
THEOREM TopUpsAlwaysCountOnce == Spec => []TopUpsCountOnce
  <1>1. Init => CreditsAddUp
    <2> SUFFICES ASSUME Init, NEW u \in Resellers
                 PROVE  Applied({}, u)
      BY DEF CreditsAddUp
    <2>1. /\ \A t \in TopUps : topup[t] \notin SurelyApplied
          /\ credited[u] - OpeningBalance[u] = 0
      BY StoreAssumption
         DEF Init, PSInit, StoreInit, BillingInit, SurelyApplied, StoreAssumption, Users, Amount
    <2>2. SumOver(Worth, {}) = 0
      BY FS_EmptySet, SumPicked
    <2> QED
      BY <2>1, <2>2 DEF Applied
  <1>2. BooksInv /\ CreditsAddUp /\ [Next]_vars => CreditsAddUp'
    BY CreditsNext
  <1>3. BooksInv /\ CreditsAddUp => TopUpsCountOnce
    BY FinitelyManyRequests, CreditsCounted
       DEF BooksInv, TypeInv, TypeOK, PSTypeOK, TopUpsInv
  <1> QED
    BY <1>1, <1>2, <1>3, BooksInvariant, PTL DEF Spec
=============================================================================
