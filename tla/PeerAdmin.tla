----------------------------- MODULE PeerAdmin -----------------------------
(***************************************************************************)
(* AdminRemovePeer of api/handlers.go: an administrator ends a             *)
(* subscription early.  It reads the row, runs `awg set ... remove` and    *)
(* ignores its error, and updates the row; the three are not a             *)
(* transaction, so the expiry worker or a second removal can interleave.   *)
(***************************************************************************)
EXTENDS Store

CONSTANT Removals   \* DELETE /admin/peers/:id requests

VARIABLES
  removal,   \* where each removal is in the handler, or how it was answered
  removee    \* the peer it names

removalVars == <<removal, removee>>

RemovalInFlight == {"arrived", "found", "off"}
RemovalAnswered == {"done", "not_found", "failed", "no_reply"}

PeerAdminTypeOK ==
  /\ removal \in [Removals -> {"new"} \union RemovalInFlight \union RemovalAnswered]
  /\ removee \in [Removals -> Orders \union {None}]

\* What TypeOK needs to be inductive: rows are never deleted.
RemovalsReady ==
  \A d \in Removals :
    /\ removal[d] # "new" => removee[d] \in Orders
    /\ removal[d] \in {"found", "off"} => removee[d] \in Committed

PeerAdminInit ==
  /\ removal = [d \in Removals |-> "new"]
  /\ removee = [d \in Removals |-> None]

RemovalGoto(d, s) == removal' = [removal EXCEPT ![d] = s]

ReceiveRemoval(d) ==
  /\ removal[d] = "new"
  /\ \E o \in Orders : removee' = [removee EXCEPT ![d] = o]
  /\ RemovalGoto(d, "arrived")
  /\ UNCHANGED storeVars

\* SELECT * FROM vpn_peers WHERE id=$1, whatever the status; every error is
\* answered as "peer not found".
FindRemovee(d) ==
  /\ removal[d] = "arrived"
  /\ \/ /\ PoolFree
        /\ RemovalGoto(d, IF removee[d] \in Committed THEN "found" ELSE "not_found")
        /\ UNCHANGED faults
     \/ Fault("statement") /\ RemovalGoto(d, "not_found")
  /\ UNCHANGED <<tableVars, txVars, iface, now, removee>>

TakeOff(d) ==
  /\ removal[d] = "found"
  /\ \/ RemovePeer(removee[d]) /\ UNCHANGED faults
     \/ Fault("awg_remove") /\ UNCHANGED iface
  /\ RemovalGoto(d, "off")
  /\ UNCHANGED <<tableVars, txVars, now, removee>>

MarkRemoved(d) ==
  /\ removal[d] = "off"
  /\ \/ /\ PoolFree
        /\ peers' = [peers EXCEPT ![removee[d]].status = "expired"]
        /\ RemovalGoto(d, "done")
        /\ UNCHANGED faults
     \/ /\ Fault("statement")
        /\ RemovalGoto(d, "failed")
        /\ UNCHANGED peers
  /\ UNCHANGED <<balance, credited, debited, packages, txVars, iface, now, removee>>

RemovalStep(d) == FindRemovee(d) \/ TakeOff(d) \/ MarkRemoved(d)
============================================================================
