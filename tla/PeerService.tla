---------------------------- MODULE PeerService ----------------------------
(***************************************************************************)
(* services.CreatePeer of internal/services/peer.go: one reseller buys one *)
(* peer.  The function is a database transaction with a call to `awg` just *)
(* before its COMMIT, so an order is a sequence of statements, each an     *)
(* action, between which other requests and failures interleave:           *)
(*                                                                         *)
(*   new -ReceiveOrder-> arrived -BeginOrder-> quoted -DebitReseller->     *)
(*   debited -AllocateIP-> allocated -InsertPeer-> inserted                *)
(*   -AddToInterface-> onInterface -CommitOrder-> committed                *)
(*   -AnswerOrder-> created                                                *)
(*                                                                         *)
(* The other outcomes name the error the caller is answered with.  Between *)
(* its first lock and its COMMIT a transaction's writes are its own: they  *)
(* are kept in tx and uncommitted, and other requests read the tables.     *)
(***************************************************************************)
EXTENDS Store

VARIABLES
  step,   \* where each order is in CreatePeer, or how it was answered
  tx      \* the local variables of CreatePeer for each order

orderVars == <<step, tx>>
psVars == <<storeVars, orderVars>>

InTx == {"quoted", "debited", "allocated", "inserted", "onInterface"}
InFlight == {"arrived", "committed"} \union InTx
Refusals == {"no_package", "insufficient", "no_ip", "conflict", "db_error",
             "awg_failed"}
Answered == {"created", "commit_error", "no_reply"} \union Refusals
Steps == {"new"} \union InFlight \union Answered

\* Steps at which the order has written users.balance and holds its row lock.
HasDebited == {"debited", "allocated", "inserted", "onInterface"}
\* Steps at which allocateIP has chosen its address.
HasAddress == {"allocated", "inserted", "onInterface"}
\* Steps at which it has a row in vpn_peers that others cannot see.
HasInserted == {"inserted", "onInterface"}
\* Steps at which its row may be visible.
HasRow == {"committed", "created", "commit_error", "no_reply"}

TxLocals == [owner : Resellers, package : Packages, price : Int, days : Int,
             newBalance : Amount, ip : Address \union {Unrouted}, expiry : Int]

PSTypeOK ==
  /\ StoreTypeOK
  /\ step \in [Orders -> Steps]
  /\ tx \in [Orders -> TxLocals \union {None}]

\* What TypeOK needs to be inductive: the locals a step reads have been set, and
\* the row a COMMIT publishes has been inserted.
OrdersReady ==
  \A o \in Orders :
    /\ step[o] # "new" => tx[o] \in TxLocals
    /\ step[o] \in HasAddress => tx[o].ip \in Address
    /\ step[o] \in HasInserted /\ Alive(o) => uncommitted[o] # None

PSInit ==
  /\ StoreInit
  /\ step = [o \in Orders |-> "new"]
  /\ tx = [o \in Orders |-> None]

Goto(o, s) == step' = [step EXCEPT ![o] = s]

\* Mutant of RollbackOrder: without the deferred tx.Rollback().
NoRollback(o, answer) ==
  /\ Goto(o, answer)
  /\ UNCHANGED <<tableVars, txVars, iface, now, tx>>

\* An error return: the deferred tx.Rollback() undoes everything but tx.
RollbackOrder(o, answer) ==
  /\ Goto(o, answer)
  /\ EndTx(o)
  /\ UNCHANGED <<tableVars, iface, now, tx>>

----------------------------------------------------------------------------

\* ResellerCreatePeer or the web form's CreatePeer calls the service for the
\* reseller of the token and a package id the client chose.
ReceiveOrder(o) ==
  /\ step[o] = "new"
  /\ \E u \in Resellers, p \in Packages :
       tx' = [tx EXCEPT ![o] = [owner |-> u, package |-> p, price |-> 0, days |-> 0,
                                newBalance |-> 0, ip |-> Unrouted, expiry |-> 0]]
  /\ Goto(o, "arrived")
  /\ UNCHANGED storeVars

\* Beginx waits for a connection; SELECT * FROM packages WHERE id=$1 takes no
\* lock and returns one version of the row.
BeginOrder(o) ==
  LET pkg == packages[tx[o].package]
  IN  /\ step[o] = "arrived"
      /\ PoolFree
      /\ \/ /\ pkg = None
            /\ Goto(o, "no_package")
            /\ UNCHANGED <<tx, conns>>
         \/ /\ pkg # None
            /\ Goto(o, "quoted")
            /\ tx' = [tx EXCEPT ![o].price = pkg.price, ![o].days = pkg.days]
            /\ conns' = conns \union {o}
      /\ UNCHANGED <<tableVars, uncommitted, rowLock, broken, iface, now, faults>>

\* Mutant of LockedRead: SELECT without FOR UPDATE.
UnlockedRead(o) ==
  /\ step[o] = "quoted"
  /\ Alive(o)

\* SELECT ... FOR UPDATE returns when the row lock is free, with the balance
\* last committed.
LockedRead(o) ==
  /\ step[o] = "quoted"
  /\ Alive(o)
  /\ rowLock[tx[o].owner] = None

RefuseInsufficient(o) ==
  /\ LockedRead(o)
  /\ balance[tx[o].owner] < tx[o].price
  /\ RollbackOrder(o, "insufficient")
  /\ UNCHANGED faults

\* UPDATE users SET balance=$1 to a value computed in Go, and the debit row.
\* A balance that NUMERIC(12,2) cannot hold makes the UPDATE fail.
DebitReseller(o) ==
  LET left == balance[tx[o].owner] - tx[o].price
  IN  /\ LockedRead(o)
      /\ left >= 0
      /\ \/ /\ left <= MaxNumeric
            /\ Goto(o, "debited")
            /\ rowLock' = [rowLock EXCEPT ![tx[o].owner] = o]
            /\ tx' = [tx EXCEPT ![o].newBalance = left]
            /\ UNCHANGED <<tableVars, uncommitted, conns, broken, iface, now>>
         \/ /\ left > MaxNumeric
            /\ RollbackOrder(o, "db_error")
      /\ UNCHANGED faults

\* Mutant of FreeAddresses: one incIP before the loop, the server's address.
FreeFromServer == (1 .. (SubnetSize - 1)) \ {peers[x].ip : x \in Committed}

\* Mutant of FreeAddresses: the loop stops before the last address.
FreeButLast == (2 .. (SubnetSize - 2)) \ {peers[x].ip : x \in Committed}

\* allocateIP: every committed row's address is taken, whatever its status.
FreeAddresses == Address \ {peers[x].ip : x \in Committed}

\* The lowest free address, and the expiry date, read from the clock before
\* the INSERT that follows.
AllocateIP(o) ==
  /\ step[o] = "debited"
  /\ Alive(o)
  /\ \/ /\ FreeAddresses = {}
        /\ RollbackOrder(o, "no_ip")
     \/ \E a \in FreeAddresses :
          /\ \A b \in FreeAddresses : a <= b
          /\ Goto(o, "allocated")
          /\ tx' = [tx EXCEPT ![o].ip = a, ![o].expiry = now + tx[o].days]
          /\ UNCHANGED <<tableVars, txVars, iface, now>>
  /\ UNCHANGED faults

\* An uncommitted row with the same address: the UNIQUE index makes the
\* INSERT wait until that transaction ends.
AddressContended(o) ==
  \E x \in Orders \ {o} : /\ uncommitted[x] # None
                          /\ uncommitted[x].ip = tx[o].ip

\* Mutant of AddressTaken: assigned_ip is not UNIQUE.
NeverTaken(o) == FALSE

AddressTaken(o) == \E x \in Committed : peers[x].ip = tx[o].ip

NewRow(o) == [owner |-> tx[o].owner, package |-> tx[o].package, ip |-> tx[o].ip,
              expiry |-> tx[o].expiry, status |-> "active"]

\* INSERT INTO vpn_peers: UNIQUE assigned_ip, then the foreign key to packages.
InsertPeer(o) ==
  /\ step[o] = "allocated"
  /\ Alive(o)
  /\ ~AddressContended(o)
  /\ \/ /\ AddressTaken(o)
        /\ RollbackOrder(o, "conflict")
     \/ /\ ~AddressTaken(o)
        /\ packages[tx[o].package] = None
        /\ RollbackOrder(o, "db_error")
     \/ /\ ~AddressTaken(o)
        /\ packages[tx[o].package] # None
        /\ Goto(o, "inserted")
        /\ uncommitted' = [uncommitted EXCEPT ![o] = NewRow(o)]
        /\ UNCHANGED <<tableVars, rowLock, conns, broken, iface, now, tx>>
  /\ UNCHANGED faults

\* Mutant of StatementFails: every error is answered as a duplicate address.
FailsAsConflict(o) ==
  /\ step[o] \in {"arrived", "quoted", "debited", "allocated"}
  /\ \/ Fault("statement")
     \/ ~Alive(o) /\ UNCHANGED faults
  /\ RollbackOrder(o, "conflict")

\* A statement fails, on its own or because the session is gone.
StatementFails(o) ==
  /\ step[o] \in {"arrived", "quoted", "debited", "allocated"}
  /\ \/ Fault("statement")
     \/ ~Alive(o) /\ UNCHANGED faults
  /\ RollbackOrder(o, "db_error")

\* wg.AddPeer.  It does not use the database, so nothing here notices a
\* session that ended after the INSERT.
AddToInterface(o) ==
  /\ step[o] = "inserted"
  /\ AddPeer(o, tx[o].ip)
  /\ Goto(o, "onInterface")
  /\ UNCHANGED <<tableVars, txVars, now, faults, tx>>

AddToInterfaceFails(o) ==
  /\ step[o] = "inserted"
  /\ Fault("awg_add")
  /\ RollbackOrder(o, "awg_failed")

\* What COMMIT makes visible, in one step.
Publish(o) ==
  /\ balance' = [balance EXCEPT ![tx[o].owner] = tx[o].newBalance]
  /\ debited' = [debited EXCEPT ![tx[o].owner] = @ + tx[o].price]
  /\ peers' = [peers EXCEPT ![o] = uncommitted[o]]
  /\ EndTx(o)
  /\ UNCHANGED <<credited, packages, iface, now, tx>>

CommitOrder(o) ==
  /\ step[o] = "onInterface"
  /\ Alive(o)
  /\ Publish(o)
  /\ Goto(o, "committed")
  /\ UNCHANGED faults

AnswerOrder(o) ==
  /\ step[o] = "committed"
  /\ Goto(o, "created")
  /\ UNCHANGED <<storeVars, tx>>

\* The server commits but its reply is lost: Commit returns an error.
CommitReplyLost(o) ==
  /\ step[o] = "onInterface"
  /\ Alive(o)
  /\ Fault("commit_reply")
  /\ Publish(o)
  /\ Goto(o, "commit_error")

\* Mutant of CommitFails: the error of tx.Commit() is ignored.
CommitErrorIgnored(o) ==
  /\ step[o] = "onInterface"
  /\ \/ Fault("commit")
     \/ ~Alive(o) /\ UNCHANGED faults
  /\ RollbackOrder(o, "committed")

\* Mutant of CommitFails: the debit is made with db, not with tx.
ChargedAllTheSame(o) ==
  /\ step[o] = "onInterface"
  /\ Fault("commit")
  /\ balance' = [balance EXCEPT ![tx[o].owner] = tx[o].newBalance]
  /\ debited' = [debited EXCEPT ![tx[o].owner] = @ + tx[o].price]
  /\ EndTx(o)
  /\ Goto(o, "commit_error")
  /\ UNCHANGED <<credited, packages, peers, iface, now, tx>>

CommitFails(o) ==
  /\ step[o] = "onInterface"
  /\ \/ Fault("commit")
     \/ ~Alive(o) /\ UNCHANGED faults
  /\ RollbackOrder(o, "commit_error")

SessionLost(o) == LoseSession(o) /\ UNCHANGED orderVars

OrderStep(o) ==
  \/ BeginOrder(o) \/ RefuseInsufficient(o) \/ DebitReseller(o)
  \/ AllocateIP(o) \/ InsertPeer(o) \/ AddToInterface(o) \/ CommitOrder(o)
  \/ AnswerOrder(o)

OrderFailure(o) ==
  \/ StatementFails(o) \/ AddToInterfaceFails(o)
  \/ CommitReplyLost(o) \/ CommitFails(o) \/ SessionLost(o)

----------------------------------------------------------------------------

PSDone ==
  /\ \A o \in Orders : step[o] \in Answered
  /\ UNCHANGED psVars

PSNext ==
  \/ \E o \in Orders : ReceiveOrder(o) \/ OrderStep(o) \/ OrderFailure(o)
  \/ Tick /\ UNCHANGED orderVars
  \/ PSDone

PSSpec == PSInit /\ [][PSNext]_psVars

----------------------------------------------------------------------------
(* Properties. *)

\* A transaction that has debited holds the row lock until it ends or its
\* session does, so the balance it computed is still the right one.
DebitsHeld ==
  \A o \in Orders :
    step[o] \in HasDebited /\ Alive(o) =>
      /\ rowLock[tx[o].owner] = o
      /\ tx[o].newBalance = balance[tx[o].owner] - tx[o].price

\* An order answered 201 has its row; one answered with an error has none,
\* unless it was COMMIT itself that reported the error.
AnswersAreTruthful ==
  \A o \in Orders :
    /\ step[o] \in {"committed", "created"} => peers[o] # None
    /\ step[o] \in Refusals => peers[o] = None

RowOf(o) == IF peers[o] # None THEN peers[o] ELSE uncommitted[o]

\* No two rows of vpn_peers, visible or not yet, have the same address, though
\* allocateIP picks it from a read that locks nothing.
DistinctAddresses ==
  \A x, y \in Orders :
    x # y /\ RowOf(x) # None /\ RowOf(y) # None => RowOf(x).ip # RowOf(y).ip

\* A "duplicate key" answer means another order got the address meanwhile: a
\* conflict never stops everyone.
ConflictMeansProgress ==
  \A o \in Orders :
    step[o] = "conflict" =>
      \E x \in Committed \ {o} : peers[x].ip = tx[o].ip

\* "no available IPs" is answered only when every address of the subnet after
\* .0 and .1 is assigned to some row.
ExhaustionIsReal ==
  (\E o \in Orders : step[o] = "no_ip") =>
    \A a \in Address : \E x \in Committed : peers[x].ip = a

\* A row is visible only after its COMMIT; until then it is what its order
\* holds, while the session lasts; and an expiry date is counted from a time not
\* later than now.
RowReady(o) ==
  /\ peers[o] # None => step[o] \in HasRow
  /\ uncommitted[o] # None =>
       step[o] \in HasInserted /\ Alive(o) /\ uncommitted[o] = NewRow(o)
  /\ step[o] \in HasAddress => tx[o].expiry - tx[o].days \in 0 .. now

\* The inductive form of the properties of rows and answers.
RowsInv ==
  /\ AnswersAreTruthful /\ DistinctAddresses
  /\ ConflictMeansProgress /\ ExhaustionIsReal
  /\ \A o \in Orders : RowReady(o)
============================================================================
