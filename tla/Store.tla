------------------------------- MODULE Store -------------------------------
(***************************************************************************)
(* The state every request handler of RouteVPN works on: the PostgreSQL    *)
(* tables of internal/database/migrations.go, the locks and uncommitted    *)
(* rows PostgreSQL keeps for open transactions, the database/sql           *)
(* connection pool, and the peers configured on the AmneziaWG interface.   *)
(*                                                                         *)
(* Amounts are integers in units of 0.01 BDT, the scale of NUMERIC(12,2).  *)
(* Time is counted in days.  Address n is the n-th address of WG_SUBNET.   *)
(* An order (one POST /reseller/peers) makes at most one key pair and one  *)
(* row, so the order itself stands for the row's id and its public key.    *)
(***************************************************************************)
EXTENDS Integers, FiniteSets

CONSTANTS
  Resellers,        \* users with role 'reseller'
  Admins,           \* users with role 'admin'
  Packages,         \* ids of packages
  Orders,           \* POST .../peers requests, and the peers they create
  TopUps,           \* POST .../resellers/:id/balance requests
  SubnetSize,       \* addresses in WG_SUBNET, 256 for the default /24
  MaxNumeric,       \* largest amount NUMERIC(12,2) holds
  PoolSize,         \* SetMaxOpenConns, 25 in the code
  MaxTime,          \* bound on the clock
  Clients,          \* "api": JSON handlers, "web": form handlers
  Faults,           \* kinds of failure this instance may suffer
  MaxFaults,        \* bound on the number of failures
  OpeningBalance,   \* contents of users when the model starts
  OpeningPackages,  \* contents of packages when the model starts
  None              \* no row, no lock holder, not on the interface

FaultKinds == { "statement", "session", "commit", "commit_reply",
                "awg_add", "awg_remove", "stop", "crash", "reboot" }

Users      == Resellers \union Admins
Txs        == Orders \union TopUps
Address    == 2 .. (SubnetSize - 1)   \* .0 and .1 (the server) are skipped
Amount     == 0 .. MaxNumeric
Unrouted   == 0                       \* configured peer without allowed-ips

PackageRow == [price : Int, days : Int]
PeerRow    == [owner : Resellers, package : Packages, ip : Address,
               expiry : Int, status : {"active", "expired"}]

ASSUME StoreAssumption ==
  /\ Resellers \intersect Admins = {}
  /\ Orders \intersect TopUps = {}
  /\ SubnetSize \in Nat /\ MaxNumeric \in Nat /\ PoolSize \in Nat \ {0}
  /\ MaxTime \in Nat /\ MaxFaults \in Nat
  /\ Clients \subseteq {"api", "web"}
  /\ Faults \subseteq FaultKinds
  /\ OpeningBalance \in [Users -> Amount]
  /\ OpeningPackages \in [Packages -> PackageRow \union {None}]
  /\ None \notin Users \union Packages \union Txs
  /\ None \notin PackageRow \union PeerRow \union Int

\* However many requests there have been, they can be counted: what properties
\* add up over them is a sum.
ASSUME FinitelyManyRequests == IsFiniteSet(Orders) /\ IsFiniteSet(TopUps)

VARIABLES
  balance,      \* users.balance
  credited,     \* SUM(transactions.amount) of type 'credit', per user
  debited,      \* SUM(transactions.amount) of type 'debit', per user
  packages,     \* the packages table
  peers,        \* committed rows of vpn_peers
  uncommitted,  \* vpn_peers rows inserted by transactions still open
  rowLock,      \* transaction holding the row lock of a users row
  conns,        \* transactions holding a connection of the pool
  broken,       \* those whose session the server has already ended
  iface,        \* peers on the interface and the address routed to each
  now,          \* the clock
  faults        \* failures so far

tableVars == <<balance, credited, debited, packages, peers>>
txVars    == <<uncommitted, rowLock, conns, broken>>
storeVars == <<tableVars, txVars, iface, now, faults>>

StoreTypeOK ==
  /\ balance \in [Users -> Amount]
  /\ credited \in [Users -> Int]
  /\ debited \in [Users -> Int]
  /\ packages \in [Packages -> PackageRow \union {None}]
  /\ peers \in [Orders -> PeerRow \union {None}]
  /\ uncommitted \in [Orders -> PeerRow \union {None}]
  /\ rowLock \in [Users -> Txs \union {None}]
  /\ conns \subseteq Txs
  /\ broken \subseteq conns
  /\ iface \in [Orders -> Address \union {Unrouted, None}]
  /\ now \in 0 .. MaxTime
  /\ faults \in 0 .. MaxFaults

StoreInit ==
  /\ balance = OpeningBalance
  /\ credited = OpeningBalance
  /\ debited = [u \in Users |-> 0]
  /\ packages = OpeningPackages
  /\ peers = [o \in Orders |-> None]
  /\ uncommitted = [o \in Orders |-> None]
  /\ rowLock = [u \in Users |-> None]
  /\ conns = {}
  /\ broken = {}
  /\ iface = [o \in Orders |-> None]
  /\ now = 0
  /\ faults = 0

----------------------------------------------------------------------------
(* Failures and time. *)

\* One of the failures this instance allows happens.
Fault(kind) ==
  /\ kind \in Faults
  /\ faults < MaxFaults
  /\ faults' = faults + 1

Tick ==
  /\ now < MaxTime
  /\ now' = now + 1
  /\ UNCHANGED <<tableVars, txVars, iface, faults>>

----------------------------------------------------------------------------
(* The database. *)

Committed == {o \in Orders : peers[o] # None}

\* database/sql hands out a connection or blocks the caller until one is free.
PoolFree == Cardinality(conns) < PoolSize

\* The session is up: a statement sent now is executed.
Alive(t) == t \notin broken

\* The server gives up everything a transaction had not committed.
Unlock(t) == [u \in Users |-> IF rowLock[u] = t THEN None ELSE rowLock[u]]

DropRow(t) == [o \in Orders |-> IF o = t THEN None ELSE uncommitted[o]]

\* Mutant of EndTx: the connection is not given back.
LeakConnection(t) ==
  /\ uncommitted' = DropRow(t)
  /\ rowLock' = Unlock(t)
  /\ UNCHANGED <<conns, broken>>

\* Rollback or the end of Commit: locks and connection are given back.
EndTx(t) ==
  /\ uncommitted' = DropRow(t)
  /\ rowLock' = Unlock(t)
  /\ conns' = conns \ {t}
  /\ broken' = broken \ {t}

\* The process is gone: the server rolls back all its transactions.
DropAllTxs ==
  /\ uncommitted' = [o \in Orders |-> None]
  /\ rowLock' = [u \in Users |-> None]
  /\ conns' = {}
  /\ broken' = {}

\* The server ends the session of a transaction; the process has not noticed.
LoseSession(t) ==
  /\ t \in conns \ broken
  /\ Fault("session")
  /\ broken' = broken \union {t}
  /\ uncommitted' = DropRow(t)
  /\ rowLock' = Unlock(t)
  /\ UNCHANGED <<tableVars, conns, iface, now>>

----------------------------------------------------------------------------
(* The interface: internal/wg/wg.go over `awg set`.  An allowed address    *)
(* belongs to one peer; giving it to a peer takes it from any other.       *)

AddPeer(k, ip) ==
  iface' = [x \in Orders |-> IF x = k THEN ip
                             ELSE IF iface[x] = ip THEN Unrouted
                             ELSE iface[x]]

RemovePeer(k) == iface' = [iface EXCEPT ![k] = None]

----------------------------------------------------------------------------
(* Amounts. *)

\* Storing thousandths of a BDT in a NUMERIC(12,2) column: to the nearest
\* hundredth, halves away from zero.
RoundToCents(m) == IF m >= 0 THEN (m + 5) \div 10 ELSE -((5 - m) \div 10)

----------------------------------------------------------------------------
(* Properties of the tables, whoever writes them. *)

\* The books: a reseller's balance is what was credited less what was debited,
\* and fits its column.  CreatePeer writes an absolute balance it computed
\* from an earlier read, and top-ups add to whatever balance they find: without
\* the row lock a purchase that raced either would lose one of the two.
BooksBalance ==
  \A u \in Resellers : /\ balance[u] = credited[u] - debited[u]
                       /\ balance[u] \in Amount
============================================================================
