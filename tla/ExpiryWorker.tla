---------------------------- MODULE ExpiryWorker ----------------------------
(***************************************************************************)
(* worker.ExpiryWorker of internal/worker/expiry.go: one goroutine that    *)
(* looks for expired peers when it starts and on every tick of an hourly   *)
(* timer, takes each off the interface and marks its row.  Every statement *)
(* of run() is its own autocommitted transaction; errors are only logged.  *)
(*                                                                         *)
(*   scan -Scan-> remove -RemoveExpired-> update -MarkExpired-> remove ... *)
(*        `------------> wait -TickReceived-> scan                         *)
(***************************************************************************)
EXTENDS Store

VARIABLES
  worker,   \* where the goroutine is
  batch,    \* peers of the SELECT it has not dealt with yet
  current,  \* the peer it is dealing with
  ticked,   \* a value is buffered in ticker.C
  done      \* Stop() has closed the channel done

workerVars == <<worker, batch, current, ticked, done>>

WorkerSteps == {"off", "scan", "remove", "update", "wait"}

WorkerTypeOK ==
  /\ worker \in WorkerSteps
  /\ batch \subseteq Orders
  /\ current \in Orders \union {None}
  /\ ticked \in BOOLEAN
  /\ done \in BOOLEAN

\* What TypeOK needs to be inductive.
WorkerReady ==
  /\ batch \subseteq Committed
  /\ worker = "update" => current \in Committed

\* NewExpiryWorker and `go w.Start()`: run() comes before the first tick.
WorkerStarts ==
  /\ worker' = "scan"
  /\ batch' = {}
  /\ current' = None
  /\ ticked' = FALSE
  /\ done' = FALSE

\* The process that ran the goroutine has ended.
WorkerDies ==
  /\ worker' = "off"
  /\ batch' = {}
  /\ current' = None
  /\ ticked' = FALSE
  /\ UNCHANGED done

WorkerInit ==
  /\ worker = "scan"
  /\ batch = {}
  /\ current = None
  /\ ticked = FALSE
  /\ done = FALSE

----------------------------------------------------------------------------

\* Stop() is deferred by main, which then closes the connection pool: once
\* done is closed a statement may fail with "database is closed".
QueryFails == \/ Fault("statement")
              \/ done /\ UNCHANGED faults

\* Mutant of Expired: expiry_date <= NOW().
ExpiredADayEarly == {o \in Committed : peers[o].status = "active" /\ peers[o].expiry <= now}

\* SELECT ... WHERE status='active' AND expiry_date < NOW().
Expired == {o \in Committed : peers[o].status = "active" /\ peers[o].expiry < now}

\* Mutant of NextOf: Start has no loop.
RunsOnce(rest) == IF rest = {} THEN "off" ELSE "remove"

NextOf(rest) == IF rest = {} THEN "wait" ELSE "remove"

Scan ==
  /\ worker = "scan"
  /\ \/ /\ PoolFree
        /\ batch' = Expired
        /\ worker' = NextOf(Expired)
        /\ UNCHANGED faults
     \/ /\ QueryFails
        /\ worker' = "wait"
        /\ UNCHANGED batch
  /\ UNCHANGED <<tableVars, txVars, iface, now, current, ticked, done>>

\* wg.RemovePeer on one peer of the result; an error is logged and ignored.
RemoveExpired ==
  /\ worker = "remove"
  /\ \E o \in batch :
       /\ current' = o
       /\ batch' = batch \ {o}
       /\ \/ RemovePeer(o) /\ UNCHANGED faults
          \/ Fault("awg_remove") /\ UNCHANGED iface
  /\ worker' = "update"
  /\ UNCHANGED <<tableVars, txVars, now, ticked, done>>

\* Mutant of SetExpired: one UPDATE for every row past its expiry date.
SetAllExpired(o) ==
  peers' = [x \in Orders |-> IF x \in Expired THEN [peers[x] EXCEPT !.status = "expired"]
                                            ELSE peers[x]]

\* Mutant of SetExpired: DELETE FROM vpn_peers.
DeleteRow(o) == peers' = [peers EXCEPT ![o] = None]

SetExpired(o) == peers' = [peers EXCEPT ![o].status = "expired"]

\* UPDATE vpn_peers SET status='expired'; after an error the row is left to
\* the scan of a later tick.
MarkExpired ==
  /\ worker = "update"
  /\ \/ PoolFree /\ SetExpired(current) /\ UNCHANGED faults
     \/ QueryFails /\ UNCHANGED peers
  /\ worker' = NextOf(batch)
  /\ current' = None
  /\ UNCHANGED <<balance, credited, debited, packages, txVars, iface, now,
                 batch, ticked, done>>

\* select: case <-w.ticker.C.
TickReceived ==
  /\ worker = "wait"
  /\ ticked
  /\ ticked' = FALSE
  /\ worker' = "scan"
  /\ UNCHANGED <<storeVars, batch, current, done>>

\* select: case <-w.done, taken at random when both are ready.
StopReceived ==
  /\ worker = "wait"
  /\ done
  /\ worker' = "off"
  /\ ticked' = FALSE
  /\ UNCHANGED <<storeVars, batch, current, done>>

\* The timer of an hour; a tick that finds the buffer full is dropped.
HourPasses ==
  /\ worker # "off"
  /\ ~ticked
  /\ ticked' = TRUE
  /\ UNCHANGED <<storeVars, worker, batch, current, done>>

Stop ==
  /\ ~done
  /\ done' = TRUE
  /\ UNCHANGED <<worker, batch, current, ticked>>

WorkerStep ==
  Scan \/ RemoveExpired \/ MarkExpired \/ TickReceived \/ StopReceived
============================================================================
