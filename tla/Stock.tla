------------------------------- MODULE Stock -------------------------------
(***************************************************************************)
(* Product rows under concurrent requests (domain/inventory/services.py,   *)
(* application/use_cases/inventory_use_cases.py and the product            *)
(* repository).  A worker is a Django request or a Celery task with its    *)
(* own PostgreSQL connection (READ COMMITTED).  Two kinds of writers meet  *)
(* on a row:                                                               *)
(*   - movements (record_stock_entry / record_stock_exit, alone or for     *)
(*     every line of an invoice being created or cancelled) lock the row   *)
(*     with SELECT .. FOR UPDATE, read it, and write it at commit;         *)
(*   - UpdateProductUseCase and check_expired_products read without a lock *)
(*     or a transaction and later write the WHOLE row back, so that the    *)
(*     quantity they write is the one they read.                           *)
(***************************************************************************)
EXTENDS Integers, Sequences

CONSTANTS Products,   \* product rows a business may create
          Workers,    \* concurrent requests and tasks
          NoWorker,   \* "no transaction holds the row lock"
          MaxQty,     \* largest value of the quantity column (PositiveIntegerField)
          MaxDay,     \* bound: last day of the model; an expiry of MaxDay is never reached
          Orders,     \* sequences of distinct products: the line orders of a request
          LineQty,    \* bound: quantities asked on a line
          Openings,   \* bound: opening quantities of a new product
          Edits,      \* bound: the quantity and expiry fields of a product update
          Requests    \* bound: requests each worker starts

\* "The update does not set this field."
Keep == -1

ASSUME StockConstants ==
    /\ NoWorker \notin Workers
    /\ MaxQty \in Nat /\ MaxDay \in Nat /\ Requests \in Nat
    /\ Orders \subseteq Seq(Products)
    /\ LineQty \subseteq Nat \ {0}
    /\ Openings \subseteq 0..MaxQty
    /\ Edits \subseteq [qty : {Keep} \cup 0..MaxQty, expiry : {Keep} \cup 0..MaxDay]

VARIABLES row,       \* row[p]: the committed product row
          ledger,    \* ledger[p]: signed sum of the committed stock_movements of p
          lock,      \* lock[p]: the worker whose transaction holds the row lock
          req,       \* req[w]: what worker w is doing, and what it has read
          left,      \* left[w]: requests w may still start
          today,     \* the day
          opening,   \* history: the part of the quantity that no movement accounts for
          clobbered  \* history: a stale quantity was written over a newer one

vars == <<row, ledger, lock, req, left, today, opening, clobbered>>

Row == [state : {"new", "live", "gone"}, qty : 0..MaxQty, expiry : 0..MaxDay, marked : BOOLEAN]
NoRow == [state |-> "new", qty |-> 0, expiry |-> MaxDay, marked |-> FALSE]
NoEdit == [qty |-> Keep, expiry |-> Keep]

Moving == {"entry", "exit"}
Request == [op   : {"idle", "edit", "scan"} \cup Moving,
            todo : Seq(Products),                  \* rows still to lock, or to write
            need : [Products -> Nat],              \* units each line moves
            view : [Products -> Row],              \* rows as the worker read them
            edit : Edits \cup {NoEdit}]
Idle == [op |-> "idle", todo |-> <<>>, need |-> [p \in Products |-> 0],
         view |-> [p \in Products |-> NoRow], edit |-> NoEdit]

Named(order) == {order[i] : i \in 1..Len(order)}
Live(p) == row[p].state = "live"
Expired(r) == today > r.expiry
-----------------------------------------------------------------------------
Init == /\ row = [p \in Products |-> NoRow]
        /\ ledger = [p \in Products |-> 0]
        /\ lock = [p \in Products |-> NoWorker]
        /\ req = [w \in Workers |-> Idle]
        /\ left = [w \in Workers |-> Requests]
        /\ today = 0
        /\ opening = [p \in Products |-> 0]
        /\ clobbered = [p \in Products |-> FALSE]

\* A worker takes up its next request.
Accept(w) == /\ req[w].op = "idle"
             /\ left[w] > 0
             /\ left' = [left EXCEPT ![w] = @ - 1]

(* Variant of Release whose rollback leaves the row locks behind. *)
ReleaseButKeepLocks(w) == /\ req' = [req EXCEPT ![w] = Idle]
                          /\ lock' = lock

\* The transaction of w ends: its row locks are released.
Release(w) == /\ req' = [req EXCEPT ![w] = Idle]
              /\ lock' = [p \in Products |-> IF lock[p] = w THEN NoWorker ELSE lock[p]]

\* The transaction of w is rolled back.
Rollback(w) == /\ Release(w)
               /\ UNCHANGED <<row, ledger, left, today, opening, clobbered>>

(* Variant: SELECT without FOR UPDATE. *)
RowFreeUnlocked(p) == p \in Products

\* The row lock of p can be taken, or the row written, without waiting.
RowFree(p) == lock[p] = NoWorker
-----------------------------------------------------------------------------
(* Movements: RecordStockMovement (one line), CreateInvoice and CancelInvoice (all lines). *)

StartMove(w) ==
    /\ Accept(w)
    /\ \E kind \in Moving, order \in Orders, need \in [Products -> LineQty \cup {0}] :
         /\ order # <<>>
         /\ \A p \in Products : need[p] > 0 <=> p \in Named(order)
         /\ req' = [req EXCEPT ![w] = [Idle EXCEPT !.op = kind, !.todo = order, !.need = need]]
    /\ UNCHANGED <<row, ledger, lock, today, opening, clobbered>>

\* The product exists and, for an exit, has enough units.
Serves(w, p) == Live(p) /\ (req[w].op = "exit" => row[p].qty >= req[w].need[p])

\* SELECT .. FOR UPDATE on the next line's product; a missing product or a lack
\* of stock raises, and the transaction is rolled back.
LockNext(w) ==
    /\ req[w].op \in Moving
    /\ req[w].todo # <<>>
    /\ LET p == Head(req[w].todo) IN
         /\ RowFree(p)
         /\ \/ /\ Serves(w, p)
               /\ lock' = [lock EXCEPT ![p] = w]
               /\ req' = [req EXCEPT ![w].todo = Tail(@), ![w].view[p] = row[p]]
               /\ UNCHANGED <<row, ledger, left, today, opening, clobbered>>
            \/ ~Serves(w, p) /\ Rollback(w)

(* Variant: the EXIT movement keeps the positive sign it was asked with. *)
SignedAsAsked(kind, n) == n

\* An EXIT movement is stored with a negative quantity.
Signed(kind, n) == IF kind = "exit" THEN -n ELSE n

Moved(w, p) == req[w].view[p].qty + (IF req[w].op = "exit" THEN -req[w].need[p] ELSE req[w].need[p])

\* The quantity column takes n (PositiveIntegerField: a range and a CHECK).
Storable(n) == n \in 0..MaxQty

\* All rows are locked: write them from the copies read under the lock, insert
\* the movements, commit.  A quantity the column cannot hold fails the UPDATE.
Commit(w) ==
    /\ req[w].op \in Moving
    /\ req[w].todo = <<>>
    /\ \/ /\ \A p \in Products : Storable(Moved(w, p))
          /\ row' = [p \in Products |-> IF req[w].need[p] > 0
                                        THEN [req[w].view[p] EXCEPT !.qty = Moved(w, p)]
                                        ELSE row[p]]
          /\ ledger' = [p \in Products |-> ledger[p] + Signed(req[w].op, req[w].need[p])]
          /\ Release(w)
          /\ UNCHANGED <<left, today, opening, clobbered>>
       \/ /\ \E p \in Products : ~Storable(Moved(w, p))
          /\ Rollback(w)

WaitsFor(v, w) == /\ req[v].op \in Moving
                  /\ req[v].todo # <<>>
                  /\ lock[Head(req[v].todo)] = w

\* PostgreSQL finds w in a circle of transactions that wait for each other and
\* aborts it.
DeadlockVictim(w) ==
    /\ \E ring \in SUBSET Workers :
         /\ w \in ring
         /\ \A v \in ring : \E u \in ring : WaitsFor(v, u)
         /\ \A u \in ring : \E v \in ring : WaitsFor(v, u)
    /\ Rollback(w)
-----------------------------------------------------------------------------
(* Writers without a lock. *)

\* A whole-row UPDATE of p with r, whose quantity is the one that was read.
Rewrite(p, r) ==
    /\ row' = [row EXCEPT ![p] = r]
    /\ clobbered' = [clobbered EXCEPT ![p] = @ \/ r.qty # row[p].qty]
    /\ UNCHANGED opening

\* The same UPDATE with a quantity set on purpose: it opens the book anew.
Recount(p, r) ==
    /\ row' = [row EXCEPT ![p] = r]
    /\ opening' = [opening EXCEPT ![p] = r.qty - ledger[p]]
    /\ clobbered' = [clobbered EXCEPT ![p] = FALSE]

\* A whole-row save of a row that has been deleted since it was read: the
\* repository's get() raises, or, when the deletion falls between get() and
\* save(), Django inserts the row again.
WriteGone(p, r) ==
    \/ UNCHANGED <<row, opening, clobbered>>
    \/ /\ row' = [row EXCEPT ![p] = r]
       /\ opening' = [opening EXCEPT ![p] = r.qty]
       /\ UNCHANGED clobbered

\* The rows of S, as a query without a lock reads them.
Seen(S) == [p \in Products |-> IF p \in S THEN row[p] ELSE NoRow]

EditRead(w) ==
    /\ Accept(w)
    /\ \E p \in Products, e \in Edits :
         /\ Live(p)
         /\ req' = [req EXCEPT ![w] =
                      [Idle EXCEPT !.op = "edit", !.todo = <<p>>, !.view = Seen({p}), !.edit = e]]
    /\ UNCHANGED <<row, ledger, lock, today, opening, clobbered>>

(* Variant: a new expiry date does not recompute is_expired. *)
PatchedKeepingFlag(r, e) == [r EXCEPT !.qty = IF e.qty = Keep THEN @ ELSE e.qty,
                                      !.expiry = IF e.expiry = Keep THEN @ ELSE e.expiry]

\* The entity as read, with the fields of the update.
Patched(r, e) == [state  |-> r.state,
                  qty    |-> IF e.qty = Keep THEN r.qty ELSE e.qty,
                  expiry |-> IF e.expiry = Keep THEN r.expiry ELSE e.expiry,
                  marked |-> IF e.expiry = Keep THEN r.marked ELSE today > e.expiry]

EditWrite(w) ==
    /\ req[w].op = "edit"
    /\ LET p == Head(req[w].todo)
           r == Patched(req[w].view[p], req[w].edit) IN
         /\ RowFree(p)
         /\ \/ Live(p) /\ req[w].edit.qty = Keep /\ Rewrite(p, r)
            \/ Live(p) /\ req[w].edit.qty # Keep /\ Recount(p, r)
            \/ ~Live(p) /\ WriteGone(p, r)
    /\ req' = [req EXCEPT ![w] = Idle]
    /\ UNCHANGED <<ledger, lock, left, today>>

\* check_expired_products reads all the products of the business at once.
ScanRead(w) ==
    /\ Accept(w)
    /\ \E order \in Orders :
         /\ order # <<>>
         /\ Named(order) = {p \in Products : Live(p)}
         /\ req' = [req EXCEPT ![w] =
                      [Idle EXCEPT !.op = "scan", !.todo = order, !.view = Seen(Named(order))]]
    /\ UNCHANGED <<row, ledger, lock, today, opening, clobbered>>

ScanDone(w) == req' = [req EXCEPT ![w] = Idle]
ScanOn(w) == IF Len(req[w].todo) = 1 THEN ScanDone(w)
                                     ELSE req' = [req EXCEPT ![w].todo = Tail(@)]

\* check_expiry: the row as read, with the flag recomputed.
Checked(r) == [r EXCEPT !.marked = Expired(r)]

\* One product of the scan: nothing to write, a write, or the failure that ends it.
ScanWrite(w) ==
    /\ req[w].op = "scan"
    /\ LET p == Head(req[w].todo)
           r == Checked(req[w].view[p]) IN
         \/ /\ r = req[w].view[p]
            /\ ScanOn(w)
            /\ UNCHANGED <<row, opening, clobbered>>
         \/ /\ r # req[w].view[p]
            /\ RowFree(p)
            /\ \/ Live(p) /\ Rewrite(p, r) /\ ScanOn(w)
               \/ ~Live(p) /\ WriteGone(p, r) /\ (IF row' = row THEN ScanDone(w) ELSE ScanOn(w))
    /\ UNCHANGED <<ledger, lock, left, today>>
-----------------------------------------------------------------------------
(* Creation, deletion, time and crashes. *)

CreateProduct(w) ==
    /\ Accept(w)
    /\ \E p \in Products, q \in Openings, day \in 0..MaxDay :
         /\ row[p].state = "new"
         /\ row' = [row EXCEPT ![p] = [state |-> "live", qty |-> q, expiry |-> day,
                                       marked |-> today > day]]
         /\ opening' = [opening EXCEPT ![p] = q]
    /\ UNCHANGED <<ledger, lock, req, today, clobbered>>

\* The movements go with the product (on_delete=CASCADE).
DeleteProduct(w) ==
    /\ Accept(w)
    /\ \E p \in Products :
         /\ Live(p)
         /\ RowFree(p)
         /\ row' = [row EXCEPT ![p] = [NoRow EXCEPT !.state = "gone"]]
         /\ ledger' = [ledger EXCEPT ![p] = 0]
         /\ opening' = [opening EXCEPT ![p] = 0]
         /\ clobbered' = [clobbered EXCEPT ![p] = FALSE]
    /\ UNCHANGED <<lock, req, today>>

\* The process dies or loses its connection in the middle of a request.
Crash(w) == req[w].op # "idle" /\ Rollback(w)

NextDay == /\ today < MaxDay
           /\ today' = today + 1
           /\ UNCHANGED <<row, ledger, lock, req, left, opening, clobbered>>

\* What a worker does by itself once it has taken up a request.
Step(w) == LockNext(w) \/ Commit(w) \/ DeadlockVictim(w) \/ EditWrite(w) \/ ScanWrite(w)

Start(w) == StartMove(w) \/ EditRead(w) \/ ScanRead(w) \/ CreateProduct(w) \/ DeleteProduct(w)

Next == NextDay \/ \E w \in Workers : Start(w) \/ Step(w) \/ Crash(w)

Spec == Init /\ [][Next]_vars
FairSpec == Spec /\ \A w \in Workers : WF_vars(Step(w))
-----------------------------------------------------------------------------
(* Properties. *)

\* Every variable has its type; in particular no sequence of sales, edits and
\* scans makes the quantity column negative or larger than it can hold.
TypeOK == /\ row \in [Products -> Row]
          /\ ledger \in [Products -> Int]
          /\ lock \in [Products -> Workers \cup {NoWorker}]
          /\ req \in [Workers -> Request]
          /\ left \in [Workers -> 0..Requests]
          /\ today \in 0..MaxDay
          /\ opening \in [Products -> Int]
          /\ clobbered \in [Products -> BOOLEAN]

\* Unless a writer without a lock has overwritten it, a product's quantity is
\* its opening quantity plus its movements: concurrent sales, cancellations and
\* movements never lose each other's update (the row lock of
\* get_by_id_for_update held until commit).
LedgerExact == \A p \in Products :
                 Live(p) /\ ~clobbered[p] => row[p].qty = opening[p] + ledger[p]

\* A product flagged is_expired is past its expiry date, whatever order the
\* daily scan and the edits of the date run in.
FlagHonest == \A p \in Products : row[p].marked => Expired(row[p])

\* Movements behave as if each request changed the current quantities and the
\* movement table in one indivisible step (transaction.atomic and row locks).
Counter == INSTANCE StockCounter WITH quantity <- [p \in Products |-> row[p].qty],
                                      book <- ledger
CounterSpec == Counter!Spec

\* Every request comes to an end: waiting for row locks, deadlocks between
\* invoices that list the same products in different orders, and crashes
\* included.
EveryRequestEnds == \A w \in Workers : req[w].op # "idle" ~> req[w].op = "idle"

\* Why LedgerExact holds: a locked row is still the one its holder read, ...
LockedCopyFresh == \A w \in Workers, p \in Products :
                     lock[p] = w => /\ req[w].op \in Moving
                                    /\ Live(p)
                                    /\ req[w].view[p] = row[p]
\* ... every line of a request is locked or still to be locked, ...
LinesCovered == \A w \in Workers, p \in Products :
                  req[w].op \in Moving /\ req[w].need[p] > 0 =>
                    lock[p] = w \/ p \in Named(req[w].todo)
\* ... a writer without a lock has a next row, and only rows it has found, ...
WritersHaveWork == \A w \in Workers : req[w].op \in {"edit", "scan"} =>
                     /\ req[w].todo # <<>>
                     /\ \A i \in 1..Len(req[w].todo) : req[w].view[req[w].todo[i]].state = "live"
\* ... and a product without a row has no movements.
GoneIsEmpty == \A p \in Products : ~Live(p) => ledger[p] = 0
\* Why FlagHonest holds: the copies that will be written back are honest too.
CopiesHonest == \A w \in Workers, p \in Products :
                  req[w].view[p].marked => Expired(req[w].view[p])
StockInv == /\ TypeOK /\ LockedCopyFresh /\ LinesCovered /\ WritersHaveWork
            /\ GoneIsEmpty /\ LedgerExact /\ FlagHonest /\ CopiesHonest

\* What get_by_id_for_update is said to ensure ("row lock for update (prevents
\* race conditions)"), for every product and whoever else writes it.
NoLostStockUpdate == \A p \in Products : Live(p) => row[p].qty = opening[p] + ledger[p]
=============================================================================
