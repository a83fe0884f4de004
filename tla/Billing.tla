------------------------------ MODULE Billing ------------------------------
(***************************************************************************)
(* Balance top-ups: AdminAddBalance of api/handlers.go and AddBalance of   *)
(* internal/handlers/admin.go.  Both run UPDATE users SET balance =        *)
(* balance + $1 and INSERT a credit in one transaction.  The API handler   *)
(* answers 404 when no reseller has the id, and reads the row back after   *)
(* the COMMIT; the web handler does neither.                               *)
(*                                                                         *)
(*   new -ReceiveTopUp-> arrived -BeginTopUp-> begun -CreditBalance->      *)
(*   credited -CommitTopUp-> committed -AnswerTopUp-> done                 *)
(***************************************************************************)
EXTENDS Store

CONSTANTS
  TopUpTargets,   \* ids administrators type: users, or None for no such user
  TopUpAmounts    \* amounts they type, in thousandths of a BDT

ASSUME BillingAssumption ==
  /\ TopUpTargets \subseteq Users \union {None}
  /\ TopUpAmounts \subseteq Int

VARIABLES
  topup,    \* where each top-up is in its handler, or how it was answered
  credit    \* its parameters, and the balance its UPDATE computed

billingVars == <<topup, credit>>

TopUpInFlight == {"arrived", "begun", "credited", "committed"}
TopUpRefusals == {"invalid", "not_found", "db_error"}
TopUpAnswered == {"done", "commit_error", "no_reply"} \union TopUpRefusals

CreditLocals == [target : Users \union {None}, amount : Int,
                 via : Clients, after : Amount]

ASSUME NoneIsNoCredit == None \notin CreditLocals

BillingTypeOK ==
  /\ topup \in [TopUps -> {"new"} \union TopUpInFlight \union TopUpAnswered]
  /\ credit \in [TopUps -> CreditLocals \union {None}]

\* What TypeOK needs to be inductive.
TopUpsReady ==
  \A t \in TopUps :
    /\ topup[t] # "new" => credit[t] \in CreditLocals
    /\ topup[t] \in TopUpInFlight => credit[t].amount > 0

BillingInit ==
  /\ topup = [t \in TopUps |-> "new"]
  /\ credit = [t \in TopUps |-> None]

TopUpGoto(t, s) == topup' = [topup EXCEPT ![t] = s]

\* An error return: the deferred tx.Rollback().
RollbackTopUp(t, answer) ==
  /\ TopUpGoto(t, answer)
  /\ EndTx(t)
  /\ UNCHANGED <<tableVars, iface, now, credit>>

----------------------------------------------------------------------------

\* decimal.NewFromString, and the test for a positive amount.
ReceiveTopUp(t) ==
  /\ topup[t] = "new"
  /\ \E u \in TopUpTargets, m \in TopUpAmounts, v \in Clients :
       /\ credit' = [credit EXCEPT ![t] =
                       [target |-> u, amount |-> m, via |-> v, after |-> 0]]
       /\ TopUpGoto(t, IF m <= 0 THEN "invalid" ELSE "arrived")
  /\ UNCHANGED storeVars

BeginTopUp(t) ==
  /\ topup[t] = "arrived"
  /\ PoolFree
  /\ TopUpGoto(t, "begun")
  /\ conns' = conns \union {t}
  /\ UNCHANGED <<tableVars, uncommitted, rowLock, broken, iface, now, faults, credit>>

\* Mutant of Cents: the ledger truncates what the balance rounds.
TruncatedCents(t) == credit[t].amount \div 10

\* What the amount is worth in the ledger and in the balance.
Cents(t) == RoundToCents(credit[t].amount)

\* UPDATE users ... AND role='reseller' of an existing reseller: it waits for
\* the row lock and adds to the balance last committed.  The INSERT follows.
CreditBalance(t) ==
  LET u == credit[t].target
      sum == RoundToCents(10 * balance[u] + credit[t].amount)
  IN  /\ topup[t] = "begun"
      /\ Alive(t)
      /\ u \in Resellers
      /\ rowLock[u] = None
      /\ \/ /\ sum > MaxNumeric
            /\ RollbackTopUp(t, "db_error")
         \/ /\ sum <= MaxNumeric
            /\ TopUpGoto(t, "credited")
            /\ rowLock' = [rowLock EXCEPT ![u] = t]
            /\ credit' = [credit EXCEPT ![t].after = sum]
            /\ UNCHANGED <<tableVars, uncommitted, conns, broken, iface, now>>
      /\ UNCHANGED faults

\* The UPDATE matched no row.  The API handler looks at RowsAffected; the web
\* handler goes on to the INSERT, which only the foreign key or the width of
\* the amount can stop.
CreditNobody(t) ==
  LET u == credit[t].target
  IN  /\ topup[t] = "begun"
      /\ Alive(t)
      /\ u \notin Resellers
      /\ \/ /\ credit[t].via = "api"
            /\ RollbackTopUp(t, "not_found")
         \/ /\ credit[t].via = "web"
            /\ u = None \/ Cents(t) > MaxNumeric
            /\ RollbackTopUp(t, "db_error")
         \/ /\ credit[t].via = "web"
            /\ u # None /\ Cents(t) <= MaxNumeric
            /\ TopUpGoto(t, "credited")
            /\ UNCHANGED <<tableVars, txVars, iface, now, credit>>
      /\ UNCHANGED faults

TopUpStatementFails(t) ==
  /\ topup[t] \in {"arrived", "begun"}
  /\ \/ Fault("statement")
     \/ ~Alive(t) /\ UNCHANGED faults
  /\ RollbackTopUp(t, "db_error")

\* What COMMIT makes visible, in one step.
PublishTopUp(t) ==
  LET u == credit[t].target
  IN  /\ balance' = IF u \in Resellers THEN [balance EXCEPT ![u] = credit[t].after]
                                       ELSE balance
      /\ credited' = [credited EXCEPT ![u] = @ + Cents(t)]
      /\ EndTx(t)
      /\ UNCHANGED <<debited, packages, peers, iface, now, credit>>

CommitTopUp(t) ==
  /\ topup[t] = "credited"
  /\ Alive(t)
  /\ PublishTopUp(t)
  /\ TopUpGoto(t, "committed")
  /\ UNCHANGED faults

TopUpCommitReplyLost(t) ==
  /\ topup[t] = "credited"
  /\ Alive(t)
  /\ Fault("commit_reply")
  /\ PublishTopUp(t)
  /\ TopUpGoto(t, "commit_error")

\* Mutant of TopUpCommitFails: the error of tx.Commit() is ignored.
TopUpCommitErrorIgnored(t) ==
  /\ topup[t] = "credited"
  /\ \/ Fault("commit")
     \/ ~Alive(t) /\ UNCHANGED faults
  /\ RollbackTopUp(t, "committed")

TopUpCommitFails(t) ==
  /\ topup[t] = "credited"
  /\ \/ Fault("commit")
     \/ ~Alive(t) /\ UNCHANGED faults
  /\ RollbackTopUp(t, "commit_error")

\* The API handler reads the reseller back on a connection of the pool, with
\* its own transaction over, and ignores an error; the web one redirects.
AnswerTopUp(t) ==
  /\ topup[t] = "committed"
  /\ credit[t].via = "api" => PoolFree
  /\ TopUpGoto(t, "done")
  /\ UNCHANGED <<storeVars, credit>>

TopUpSessionLost(t) == LoseSession(t) /\ UNCHANGED billingVars

TopUpStep(t) ==
  \/ BeginTopUp(t) \/ CreditBalance(t) \/ CreditNobody(t)
  \/ CommitTopUp(t) \/ AnswerTopUp(t)

TopUpFailure(t) ==
  \/ TopUpStatementFails(t) \/ TopUpCommitReplyLost(t)
  \/ TopUpCommitFails(t) \/ TopUpSessionLost(t)

----------------------------------------------------------------------------
(* Properties. *)

\* A top-up whose UPDATE ran holds the row lock until its transaction or its
\* session ends, and adds to the balance what it adds to the ledger.
CreditsHeld ==
  \A t \in TopUps :
    topup[t] = "credited" /\ Alive(t) /\ credit[t].target \in Resellers =>
      /\ rowLock[credit[t].target] = t
      /\ credit[t].after = balance[credit[t].target] + Cents(t)
============================================================================
