---------------------------- MODULE PackageAdmin ----------------------------
(***************************************************************************)
(* Creating, updating and deleting packages: AdminCreatePackage,           *)
(* AdminUpdatePackage and AdminDeletePackage of api/handlers.go, and       *)
(* CreatePackage, UpdatePackage and DeletePackage of                       *)
(* internal/handlers/admin.go, which check less.  Each statement commits   *)
(* on its own; only the API's delete has two.                              *)
(***************************************************************************)
EXTENDS Store

CONSTANTS
  Edits,         \* package requests
  PriceInputs,   \* prices typed, in thousandths of a BDT; None does not parse
  DaysInputs     \* durations typed; None does not parse

ASSUME PackageAdminAssumption ==
  /\ PriceInputs \subseteq Int \union {None}
  /\ DaysInputs \subseteq Int \union {None}

VARIABLES
  edit,     \* where each request is in its handler, or how it was answered
  form,     \* its parameters
  issued    \* ids the sequence of packages.id has handed out

packageVars == <<edit, form, issued>>

EditInFlight == {"arrived", "counted"}
EditAnswered == {"done", "invalid", "blocked", "not_found", "failed", "no_reply"}

FormFields == [op : {"create", "update", "delete"}, via : Clients,
               package : Packages, price : Int \union {None},
               days : Int \union {None}]

PackageAdminTypeOK ==
  /\ edit \in [Edits -> {"new"} \union EditInFlight \union EditAnswered]
  /\ form \in [Edits -> FormFields \union {None}]
  /\ issued \subseteq Packages

\* What TypeOK needs to be inductive.
EditsReady == \A e \in Edits : edit[e] # "new" => form[e] \in FormFields

PackageAdminInit ==
  /\ edit = [e \in Edits |-> "new"]
  /\ form = [e \in Edits |-> None]
  /\ issued = {p \in Packages : packages[p] # None}

EditGoto(e, s) == edit' = [edit EXCEPT ![e] = s]

\* Everything but the packages table and the requests.
OnlyPackages ==
  UNCHANGED <<balance, credited, debited, peers, txVars, iface, now>>

----------------------------------------------------------------------------

\* The API wants a positive price and a day or more; the web form's create
\* wants numbers; its update takes what does not parse as zero.
Acceptable(f) ==
  CASE f.op = "delete"                   -> TRUE
    [] f.op # "delete" /\ f.via = "api"  -> /\ f.price # None /\ f.days # None
                                            /\ f.price > 0 /\ f.days >= 1
    [] f.op = "create" /\ f.via = "web"  -> f.price # None /\ f.days # None
    [] f.op = "update" /\ f.via = "web"  -> TRUE

Forms == [op : {"create", "update"}, via : Clients, package : Packages,
          price : PriceInputs, days : DaysInputs]
         \union
         [op : {"delete"}, via : Clients, package : Packages,
          price : {None}, days : {None}]

\* A create is given here the id that the sequence, which never hands out one
\* twice, will give its row; |Packages| bounds how many are accepted.
ReceiveEdit(e) ==
  /\ edit[e] = "new"
  /\ \E f \in Forms :
       /\ f.op = "create" => f.package \notin issued
       /\ form' = [form EXCEPT ![e] = f]
       /\ EditGoto(e, IF Acceptable(f) THEN "arrived" ELSE "invalid")
       /\ issued' = IF f.op = "create" THEN issued \union {f.package} ELSE issued
  /\ UNCHANGED storeVars

\* The row the database stores.
Stored(f) == [price |-> IF f.price = None THEN 0 ELSE RoundToCents(f.price),
              days  |-> IF f.days = None THEN 0 ELSE f.days]

\* NUMERIC(12,2) holds the price.
Fits(f) == Stored(f).price \in -MaxNumeric .. MaxNumeric

\* INSERT INTO packages.
CreatePackage(e) ==
  LET f == form[e]
  IN  /\ edit[e] = "arrived"
      /\ f.op = "create"
      /\ \/ /\ PoolFree
            /\ Fits(f)
            /\ packages' = [packages EXCEPT ![f.package] = Stored(f)]
            /\ EditGoto(e, "done")
            /\ UNCHANGED faults
         \/ /\ \/ PoolFree /\ ~Fits(f) /\ UNCHANGED faults
               \/ Fault("statement")
            /\ EditGoto(e, "failed")
            /\ UNCHANGED packages
      /\ OnlyPackages
      /\ UNCHANGED <<form, issued>>

\* Mutant of UpdatePackage: without WHERE id.
UpdateEveryPackage(e) ==
  /\ edit[e] = "arrived"
  /\ form[e].op = "update"
  /\ PoolFree
  /\ Fits(form[e])
  /\ packages' = [p \in Packages |-> IF packages[p] = None THEN None ELSE Stored(form[e])]
  /\ EditGoto(e, "done")
  /\ OnlyPackages
  /\ UNCHANGED <<form, issued, faults>>

\* UPDATE packages ... WHERE id: it changes no key, so it does not wait for
\* orders.  The API answers every error, and no row, with 404.
UpdatePackage(e) ==
  LET f == form[e]
  IN  /\ edit[e] = "arrived"
      /\ f.op = "update"
      /\ \/ /\ PoolFree
            /\ packages[f.package] = None \/ Fits(f)
            /\ packages' = IF packages[f.package] = None THEN packages
                           ELSE [packages EXCEPT ![f.package] = Stored(f)]
            /\ EditGoto(e, IF packages[f.package] = None /\ f.via = "api"
                           THEN "not_found" ELSE "done")
            /\ UNCHANGED faults
         \/ /\ \/ PoolFree /\ packages[f.package] # None /\ ~Fits(f) /\ UNCHANGED faults
               \/ Fault("statement")
            /\ EditGoto(e, IF f.via = "api" THEN "not_found" ELSE "failed")
            /\ UNCHANGED packages
      /\ OnlyPackages
      /\ UNCHANGED <<form, issued>>

ActivePeersOf(p) ==
  {o \in Committed : peers[o].package = p /\ peers[o].status = "active"}

\* SELECT COUNT(*) of the active peers; its error is ignored and counts as 0.
CountActivePeers(e) ==
  LET f == form[e]
  IN  /\ edit[e] = "arrived"
      /\ f.op = "delete"
      /\ f.via = "api"
      /\ \/ /\ PoolFree
            /\ EditGoto(e, IF ActivePeersOf(f.package) = {} THEN "counted" ELSE "blocked")
            /\ UNCHANGED faults
         \/ Fault("statement") /\ EditGoto(e, "counted")
      /\ OnlyPackages
      /\ UNCHANGED <<packages, form, issued>>

\* Mutant of DeletePackage: vpn_peers.package_id has no foreign key.
DeleteUnreferenced(e) ==
  /\ edit[e] \in EditInFlight
  /\ form[e].op = "delete"
  /\ edit[e] = "counted" <=> form[e].via = "api"
  /\ PoolFree
  /\ packages' = [packages EXCEPT ![form[e].package] = None]
  /\ EditGoto(e, "done")
  /\ OnlyPackages
  /\ UNCHANGED <<form, issued, faults>>

\* An order that inserted a row for the package has its key share-locked: the
\* DELETE waits for that transaction.  Then the foreign key of every committed
\* row, active or expired, refuses it.
DeletePackage(e) ==
  LET f == form[e]
      p == f.package
      failure == IF f.via = "api" THEN "failed" ELSE "done"
  IN  /\ edit[e] \in EditInFlight
      /\ f.op = "delete"
      /\ edit[e] = "counted" <=> f.via = "api"
      /\ \/ /\ PoolFree
            /\ \A o \in Orders : uncommitted[o] # None => uncommitted[o].package # p
            /\ \/ /\ \A o \in Committed : peers[o].package # p
                  /\ packages' = [packages EXCEPT ![p] = None]
                  /\ EditGoto(e, IF packages[p] = None /\ f.via = "api"
                                 THEN "not_found" ELSE "done")
               \/ /\ \E o \in Committed : peers[o].package = p
                  /\ EditGoto(e, failure)
                  /\ UNCHANGED packages
            /\ UNCHANGED faults
         \/ Fault("statement") /\ EditGoto(e, failure) /\ UNCHANGED packages
      /\ OnlyPackages
      /\ UNCHANGED <<form, issued>>

EditStep(e) ==
  CreatePackage(e) \/ UpdatePackage(e) \/ CountActivePeers(e) \/ DeletePackage(e)

----------------------------------------------------------------------------
(* Properties. *)

\* Every row of vpn_peers, visible or not yet, has its package: neither the
\* count of active peers nor the order's unlocked read of the package ensures
\* it, when a delete races an order.
RowsHavePackages ==
  \A o \in Orders :
    /\ peers[o] # None => packages[peers[o].package] # None
    /\ uncommitted[o] # None => packages[uncommitted[o].package] # None
============================================================================
