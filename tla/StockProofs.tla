---------------------------- MODULE StockProofs ----------------------------
(***************************************************************************)
(* Proofs about Stock, for any number of products and workers.             *)
(***************************************************************************)
EXTENDS Stock, TLAPS

LEMMA IdleType == Idle \in Request /\ NoRow \in Row
  <1>1. NoRow \in Row
    BY StockConstants DEF NoRow, Row
  <1>2. QED
    BY <1>1 DEF Idle, Request, Moving, NoEdit

\* Ending a transaction keeps the types and leaves only other workers' locks.
LEMMA ReleaseType ==
  ASSUME TypeOK, NEW w \in Workers, Release(w)
  PROVE  /\ req' \in [Workers -> Request]
         /\ lock' \in [Products -> Workers \cup {NoWorker}]
         /\ req'[w] = Idle
         /\ \A v \in Workers \ {w} : req'[v] = req[v]
         /\ \A p \in Products : lock'[p] # w /\ (lock'[p] # NoWorker => lock'[p] = lock[p])
         /\ \A p \in Products : lock[p] # w => lock'[p] = lock[p]
  BY IdleType, StockConstants DEF TypeOK, Release

LEMMA InitInv == Init => StockInv
  BY IdleType, StockConstants
     DEF Init, StockInv, TypeOK, LockedCopyFresh, LinesCovered, WritersHaveWork, GoneIsEmpty, LedgerExact,
         FlagHonest, CopiesHonest, Idle, NoRow, Live, Row, Request, Moving, Expired

LEMMA RollbackInv ==
  ASSUME StockInv, NEW w \in Workers, Rollback(w)
  PROVE  StockInv'
  <1>0. TypeOK /\ Release(w) /\ UNCHANGED <<row, ledger, left, today, opening, clobbered>>
    BY DEF StockInv, Rollback
  <1>1. TypeOK'
    BY <1>0, ReleaseType DEF TypeOK
  <1>a. req'[w] = Idle /\ \A v \in Workers \ {w} : req'[v] = req[v]
    BY <1>0, ReleaseType
  <1>b. Idle.op = "idle" /\ \A p \in Products : ~Idle.view[p].marked
    BY DEF Idle, NoRow
  <1>2a. LockedCopyFresh'
    BY <1>0, <1>a, ReleaseType, StockConstants DEF StockInv, LockedCopyFresh, Live
  <1>2b. LinesCovered'
    BY <1>0, <1>a, <1>b, ReleaseType DEF StockInv, LinesCovered, Moving
  <1>2c. WritersHaveWork'
    BY <1>a, <1>b DEF StockInv, WritersHaveWork
  <1>2d. CopiesHonest'
    BY <1>0, <1>a, <1>b DEF StockInv, CopiesHonest, Expired
  <1>3. GoneIsEmpty' /\ LedgerExact' /\ FlagHonest'
    BY <1>0 DEF StockInv, GoneIsEmpty, LedgerExact, FlagHonest, Live, Expired
  <1> QED
    BY <1>1, <1>2a, <1>2b, <1>2c, <1>2d, <1>3 DEF StockInv

LEMMA StartMoveInv ==
  ASSUME StockInv, NEW w \in Workers, StartMove(w)
  PROVE  StockInv'
  <1>0. TypeOK /\ UNCHANGED <<row, ledger, lock, today, opening, clobbered>>
        /\ left[w] > 0 /\ left' = [left EXCEPT ![w] = @ - 1] /\ req[w].op = "idle"
    BY DEF StockInv, StartMove, Accept
  <1>1. PICK kind \in Moving, order \in Orders, need \in [Products -> LineQty \cup {0}] :
          /\ \A p \in Products : need[p] > 0 <=> p \in Named(order)
          /\ req' = [req EXCEPT ![w] = [Idle EXCEPT !.op = kind, !.todo = order, !.need = need]]
    BY DEF StartMove
  <1> DEFINE r == [Idle EXCEPT !.op = kind, !.todo = order, !.need = need]
  <1>2. r.op = kind /\ r.todo = order /\ r.need = need /\ r.view = Idle.view
    BY DEF Idle
  <1>3. r \in Request
    BY IdleType, StockConstants DEF Request, Idle
  <1>4. req'[w] = r /\ \A v \in Workers \ {w} : req'[v] = req[v]
    BY <1>0, <1>1 DEF TypeOK
  <1> HIDE DEF r
  <1>5. TypeOK'
    BY <1>0, <1>1, <1>3, StockConstants DEF TypeOK, r
  <1>6. LockedCopyFresh'
    BY <1>0, <1>4 DEF StockInv, LockedCopyFresh, Live, Moving
  <1>7. LinesCovered'
    BY <1>0, <1>1, <1>2, <1>4 DEF StockInv, LinesCovered
  <1>8. WritersHaveWork'
    BY <1>0, <1>2, <1>4 DEF StockInv, WritersHaveWork, Moving
  <1>9. CopiesHonest'
    BY <1>0, <1>2, <1>4 DEF StockInv, CopiesHonest, Expired, Idle, NoRow
  <1>10. GoneIsEmpty' /\ LedgerExact' /\ FlagHonest'
    BY <1>0 DEF StockInv, GoneIsEmpty, LedgerExact, FlagHonest, Live, Expired
  <1> QED
    BY <1>5, <1>6, <1>7, <1>8, <1>9, <1>10 DEF StockInv

LEMMA LockNextInv ==
  ASSUME StockInv, NEW w \in Workers, LockNext(w)
  PROVE  StockInv'
  <1> DEFINE p == Head(req[w].todo)
  <1>0. TypeOK /\ req[w].op \in Moving /\ req[w].todo # <<>> /\ lock[p] = NoWorker
    BY DEF StockInv, LockNext, RowFree
  <1>1. p \in Products /\ req[w].todo \in Seq(Products) /\ Tail(req[w].todo) \in Seq(Products)
    BY <1>0 DEF TypeOK, Request
  <1>2. CASE Rollback(w)
    BY <1>2, RollbackInv
  <1>3. CASE /\ Serves(w, p)
             /\ lock' = [lock EXCEPT ![p] = w]
             /\ req' = [req EXCEPT ![w].todo = Tail(@), ![w].view[p] = row[p]]
             /\ UNCHANGED <<row, ledger, left, today, opening, clobbered>>
    <2> DEFINE r == [req[w] EXCEPT !.todo = Tail(@), !.view[p] = row[p]]
    <2>1. req' = [req EXCEPT ![w] = r]
      BY <1>3, <1>0 DEF TypeOK, Request
    <2>2. /\ r.op = req[w].op /\ r.todo = Tail(req[w].todo) /\ r.need = req[w].need
          /\ r.view = [req[w].view EXCEPT ![p] = row[p]]
      BY <1>0 DEF TypeOK, Request
    <2>3. r \in Request
      <3>1. req[w] \in Request /\ row[p] \in Row
        BY <1>0, <1>1 DEF TypeOK
      <3>2. [req[w].view EXCEPT ![p] = row[p]] \in [Products -> Row]
        BY <3>1 DEF Request
      <3>3. r = [req[w] EXCEPT !.todo = Tail(req[w].todo), !.view = [req[w].view EXCEPT ![p] = row[p]]]
        BY <3>1 DEF Request
      <3> HIDE DEF r, p
      <3> QED
        BY <3>1, <3>2, <3>3, <1>1 DEF Request
    <2> HIDE DEF r
    <2>4. req'[w] = r /\ \A v \in Workers \ {w} : req'[v] = req[v]
      BY <2>1, <1>0 DEF TypeOK
    <2> HIDE DEF p
    <2>5. TypeOK'
      BY <1>0, <1>1, <1>3, <2>1, <2>3 DEF TypeOK
    <2>6. LockedCopyFresh'
      <3> SUFFICES ASSUME NEW v \in Workers, NEW q \in Products, lock'[q] = v
                   PROVE  req'[v].op \in Moving /\ Live(q)' /\ req'[v].view[q] = row'[q]
        BY DEF LockedCopyFresh
      <3>0. Live(p) /\ row' = row
        BY <1>3 DEF Serves
      <3>1. CASE q = p
        <4>1. v = w
          BY <3>1, <1>3, <1>0, <1>1 DEF TypeOK
        <4> QED
          BY <4>1, <3>0, <3>1, <1>0, <1>1, <2>2, <2>4 DEF TypeOK, Request, Live
      <3>2. CASE q # p
        <4>1. lock[q] = v
          BY <3>2, <1>3, <1>0 DEF TypeOK
        <4>2. req[v].op \in Moving /\ Live(q) /\ req[v].view[q] = row[q]
          BY <4>1 DEF StockInv, LockedCopyFresh
        <4>3. CASE v = w
          BY <4>2, <4>3, <3>0, <3>2, <1>0, <1>1, <2>2, <2>4 DEF TypeOK, Request, Live
        <4>4. CASE v # w
          BY <4>2, <4>4, <3>0, <2>4 DEF Live
        <4> QED
          BY <4>3, <4>4
      <3> QED
        BY <3>1, <3>2
    <2>7. LinesCovered'
      <3> SUFFICES ASSUME NEW v \in Workers, NEW q \in Products,
                          req'[v].op \in Moving, req'[v].need[q] > 0, lock'[q] # v
                   PROVE  q \in Named(req'[v].todo)
        BY DEF LinesCovered
      <3>1. req[v].op \in Moving /\ req[v].need[q] > 0
        BY <2>2, <2>4
      <3>2. lock[q] # v
        BY <1>0, <1>1, <1>3, StockConstants DEF TypeOK
      <3>3. q \in Named(req[v].todo)
        BY <3>1, <3>2 DEF StockInv, LinesCovered
      <3>4. CASE v # w
        BY <3>3, <3>4, <2>4
      <3>5. CASE v = w
        <4>1. PICK i \in 1..Len(req[w].todo) : q = req[w].todo[i]
          BY <3>3, <3>5 DEF Named
        <4>2. q # p
          BY <3>5, <1>0, <1>1, <1>3 DEF TypeOK
        <4>3. i # 1
          BY <4>1, <4>2, <1>0, <1>1 DEF p
        <4>4. /\ i - 1 \in 1..Len(Tail(req[w].todo))
              /\ Tail(req[w].todo)[i - 1] = q
          BY <4>1, <4>3, <1>0, <1>1
        <4> QED
          BY <4>4, <3>5, <2>2, <2>4 DEF Named
      <3> QED
        BY <3>4, <3>5
    <2>8. WritersHaveWork'
      BY <1>0, <2>2, <2>4 DEF StockInv, WritersHaveWork, Moving
    <2>9. CopiesHonest'
      <3> SUFFICES ASSUME NEW v \in Workers, NEW q \in Products, req'[v].view[q].marked
                   PROVE  today' > req'[v].view[q].expiry
        BY DEF CopiesHonest, Expired
      <3>1. CASE v = w /\ q = p
        BY <3>1, <1>0, <1>1, <1>3, <2>2, <2>4 DEF TypeOK, Request, StockInv, FlagHonest, Expired
      <3>2. CASE ~(v = w /\ q = p)
        <4>1. req'[v].view[q] = req[v].view[q]
          <5>1. CASE v # w
            BY <5>1, <2>4
          <5>2. CASE v = w
            <6>1. q # p
              BY <3>2, <5>2
            <6> QED
              BY <6>1, <5>2, <1>0, <1>1, <2>2, <2>4 DEF TypeOK, Request
          <5> QED
            BY <5>1, <5>2
        <4>2. today > req[v].view[q].expiry
          BY <4>1 DEF StockInv, CopiesHonest, Expired
        <4> QED
          BY <4>1, <4>2, <1>3
      <3> QED
        BY <3>1, <3>2
    <2>10. GoneIsEmpty' /\ LedgerExact' /\ FlagHonest'
      BY <1>3 DEF StockInv, GoneIsEmpty, LedgerExact, FlagHonest, Live, Expired
    <2> QED
      BY <2>5, <2>6, <2>7, <2>8, <2>9, <2>10 DEF StockInv
  <1> QED
    BY <1>2, <1>3 DEF LockNext

\* The commit of a request writes rows it has locked, from copies that are
\* still the rows: this is where the row locks make the ledger exact.
LEMMA CommitInv ==
  ASSUME StockInv, NEW w \in Workers, Commit(w)
  PROVE  StockInv'
  <1>0. TypeOK /\ req[w].op \in Moving /\ req[w].todo = <<>>
    BY DEF StockInv, Commit
  <1>1. CASE Rollback(w)
    BY <1>1, RollbackInv
  <1>2. CASE /\ \A p \in Products : Storable(Moved(w, p))
             /\ row' = [p \in Products |-> IF req[w].need[p] > 0
                                           THEN [req[w].view[p] EXCEPT !.qty = Moved(w, p)]
                                           ELSE row[p]]
             /\ ledger' = [p \in Products |-> ledger[p] + Signed(req[w].op, req[w].need[p])]
             /\ Release(w)
             /\ UNCHANGED <<left, today, opening, clobbered>>
    <2>1. \A p \in Products : req[w].need[p] \in Nat /\ req[w].view[p] \in Row /\ row[p] \in Row
      BY <1>0 DEF TypeOK, Request
    <2>2. \A p \in Products : req[w].need[p] > 0 =>
            lock[p] = w /\ Live(p) /\ req[w].view[p] = row[p]
      <3> SUFFICES ASSUME NEW p \in Products, req[w].need[p] > 0
                   PROVE  lock[p] = w
        BY DEF StockInv, LockedCopyFresh
      <3>1. p \notin Named(req[w].todo)
        BY <1>0 DEF Named
      <3> QED
        BY <3>1, <1>0 DEF StockInv, LinesCovered
    \* Each row that changes is the current row with the line's units added or taken.
    <2>3. \A p \in Products :
            /\ req[w].need[p] > 0 => row'[p] = [row[p] EXCEPT !.qty = Moved(w, p)] /\ Live(p)
            /\ ~(req[w].need[p] > 0) => row'[p] = row[p]
      BY <1>2, <2>2
    <2>4. \A p \in Products : row'[p].qty - row[p].qty = ledger'[p] - ledger[p]
      <3> SUFFICES ASSUME NEW p \in Products
                   PROVE  row'[p].qty - row[p].qty = ledger'[p] - ledger[p]
        OBVIOUS
      <3>1. ledger'[p] = ledger[p] + Signed(req[w].op, req[w].need[p]) /\ ledger[p] \in Int
        BY <1>2, <1>0 DEF TypeOK
      <3>2. CASE req[w].need[p] > 0
        <4>1. row'[p].qty = Moved(w, p)
          BY <3>2, <2>1, <2>3 DEF Row
        <4>2. Moved(w, p) = row[p].qty + Signed(req[w].op, req[w].need[p])
          BY <3>2, <2>1, <2>2 DEF Moved, Signed
        <4> QED
          BY <4>1, <4>2, <3>1, <2>1 DEF Row, Signed
      <3>3. CASE ~(req[w].need[p] > 0)
        <4>1. Signed(req[w].op, req[w].need[p]) = 0
          BY <3>3, <2>1 DEF Signed
        <4>2. row'[p] = row[p]
          BY <3>3, <2>3
        <4>3. ledger'[p] = ledger[p]
          BY <4>1, <3>1
        <4> QED
          BY <4>2, <4>3, <3>1, <2>1 DEF Row
      <3> QED
        BY <3>2, <3>3
    <2>5. \A p \in Products : /\ row'[p] \in Row /\ row'[p].state = row[p].state
                              /\ row'[p].marked = row[p].marked
                              /\ row'[p].expiry = row[p].expiry
      <3> SUFFICES ASSUME NEW p \in Products
                   PROVE  /\ row'[p] \in Row /\ row'[p].state = row[p].state
                          /\ row'[p].marked = row[p].marked
                          /\ row'[p].expiry = row[p].expiry
        OBVIOUS
      <3>1. row[p] \in Row
        BY <2>1
      <3>2. CASE req[w].need[p] > 0
        <4>1. row'[p] = [row[p] EXCEPT !.qty = Moved(w, p)]
          BY <2>3, <3>2
        <4>2. Moved(w, p) \in 0..MaxQty
          BY <1>2 DEF Storable
        <4> QED
          BY <3>1, <4>1, <4>2 DEF Row
      <3>3. CASE ~(req[w].need[p] > 0)
        BY <2>3, <3>1, <3>3
      <3> QED
        BY <3>2, <3>3
    <2>6. TypeOK'
      <3>1. ledger' \in [Products -> Int]
        BY <1>0, <1>2, <2>1 DEF TypeOK, Signed
      <3>2. row' \in [Products -> Row]
        BY <1>2, <2>5
      <3> QED
        BY <3>1, <3>2, <1>0, <1>2, ReleaseType DEF TypeOK
    <2>a. req'[w] = Idle /\ \A v \in Workers \ {w} : req'[v] = req[v]
      BY <1>0, <1>2, ReleaseType
    <2>b. Idle.op = "idle" /\ \A p \in Products : ~Idle.view[p].marked
      BY DEF Idle, NoRow
    <2>7. LockedCopyFresh'
      <3> SUFFICES ASSUME NEW v \in Workers, NEW p \in Products, lock'[p] = v
                   PROVE  req'[v].op \in Moving /\ Live(p)' /\ req'[v].view[p] = row'[p]
        BY DEF LockedCopyFresh
      <3>1. v # w /\ lock[p] = v
        BY <1>0, <1>2, ReleaseType, StockConstants
      <3>2. row'[p] = row[p]
        BY <3>1, <2>2, <2>3
      <3> QED
        BY <3>1, <3>2, <2>a DEF StockInv, LockedCopyFresh, Live
    <2>8. LinesCovered'
      BY <1>0, <1>2, <2>a, <2>b, ReleaseType DEF StockInv, LinesCovered, Moving
    <2>9. WritersHaveWork'
      BY <2>a, <2>b DEF StockInv, WritersHaveWork
    <2>10. CopiesHonest'
      BY <1>2, <2>a, <2>b DEF StockInv, CopiesHonest, Expired
    <2>11. LedgerExact'
      <3> SUFFICES ASSUME NEW p \in Products, row'[p].state = "live", ~clobbered'[p]
                   PROVE  row'[p].qty = opening'[p] + ledger'[p]
        BY DEF LedgerExact, Live
      <3>1. row[p].qty = opening[p] + ledger[p]
        BY <1>2, <2>5 DEF StockInv, LedgerExact, Live
      <3>2. row[p].qty \in Int /\ row'[p].qty \in Int /\ opening[p] \in Int
            /\ ledger[p] \in Int /\ ledger'[p] \in Int
        BY <1>0, <2>1, <2>5, <2>6 DEF TypeOK, Row
      <3>3. row'[p].qty - row[p].qty = ledger'[p] - ledger[p] /\ opening'[p] = opening[p]
        BY <2>4, <1>2
      <3> DEFINE q0 == row[p].qty
                 q1 == row'[p].qty
                 o  == opening[p]
                 l0 == ledger[p]
                 l1 == ledger'[p]
      <3>4. /\ q0 \in Int /\ q1 \in Int /\ o \in Int /\ l0 \in Int /\ l1 \in Int
            /\ q0 = o + l0 /\ q1 - q0 = l1 - l0
        BY <3>1, <3>2, <3>3
      <3> HIDE DEF q0, q1, o, l0, l1
      <3>5. q1 = o + l1
        BY <3>4
      <3> QED
        BY <3>3, <3>5 DEF q1, o, l1
    <2>12. FlagHonest'
      BY <1>2, <2>5 DEF StockInv, FlagHonest, Expired
    <2>13. GoneIsEmpty'
      <3> SUFFICES ASSUME NEW p \in Products, row'[p].state # "live"
                   PROVE  ledger'[p] = 0
        BY DEF GoneIsEmpty, Live
      <3>1. ~Live(p) /\ ledger[p] = 0
        BY <2>5 DEF StockInv, GoneIsEmpty, Live
      <3>2. req[w].need[p] = 0
        BY <3>1, <2>1, <2>2
      <3> QED
        BY <3>1, <3>2, <1>2 DEF Signed
    <2> QED
      BY <2>6, <2>7, <2>8, <2>9, <2>10, <2>11, <2>12, <2>13 DEF StockInv
  <1> QED
    BY <1>1, <1>2 DEF Commit

\* A worker takes up a request that will write rows without locking them.
LEMMA ReadInv ==
  ASSUME StockInv, NEW w \in Workers, Accept(w),
         UNCHANGED <<row, ledger, lock, today, opening, clobbered>>,
         NEW r \in Request, req' = [req EXCEPT ![w] = r],
         r.op \in {"edit", "scan"}, r.todo # <<>>,
         \A i \in 1..Len(r.todo) : r.view[r.todo[i]].state = "live",
         \A p \in Products : r.view[p].marked => Expired(r.view[p])
  PROVE  StockInv'
  <1>0. TypeOK /\ left[w] > 0 /\ left' = [left EXCEPT ![w] = @ - 1] /\ req[w].op = "idle"
    BY DEF StockInv, Accept
  <1>1. req'[w] = r /\ \A v \in Workers \ {w} : req'[v] = req[v]
    BY <1>0 DEF TypeOK
  <1>2. TypeOK'
    BY <1>0, StockConstants DEF TypeOK
  <1>3. LockedCopyFresh'
    BY <1>0, <1>1 DEF StockInv, LockedCopyFresh, Live, Moving
  <1>4. LinesCovered'
    BY <1>0, <1>1 DEF StockInv, LinesCovered, Moving
  <1>5. WritersHaveWork'
    BY <1>1 DEF StockInv, WritersHaveWork
  <1>6. CopiesHonest'
    BY <1>1 DEF StockInv, CopiesHonest, Expired
  <1>7. GoneIsEmpty' /\ LedgerExact' /\ FlagHonest'
    BY DEF StockInv, GoneIsEmpty, LedgerExact, FlagHonest, Live, Expired
  <1> QED
    BY <1>2, <1>3, <1>4, <1>5, <1>6, <1>7 DEF StockInv

LEMMA SeenType ==
  ASSUME StockInv, NEW S
  PROVE  /\ Seen(S) \in [Products -> Row]
         /\ \A q \in Products : Seen(S)[q].marked => Expired(Seen(S)[q])
         /\ \A q \in Products : q \in S => Seen(S)[q] = row[q]
  <1>1. ~NoRow.marked
    BY DEF NoRow
  <1> QED
    BY <1>1, IdleType DEF StockInv, TypeOK, FlagHonest, Seen

LEMMA EditReadInv ==
  ASSUME StockInv, NEW w \in Workers, EditRead(w)
  PROVE  StockInv'
  <1>0. TypeOK /\ Accept(w) /\ UNCHANGED <<row, ledger, lock, today, opening, clobbered>>
    BY DEF StockInv, EditRead
  <1>1. PICK p \in Products, e \in Edits :
          /\ Live(p)
          /\ req' = [req EXCEPT ![w] =
                       [Idle EXCEPT !.op = "edit", !.todo = <<p>>, !.view = Seen({p}), !.edit = e]]
    BY DEF EditRead
  <1> DEFINE r == [Idle EXCEPT !.op = "edit", !.todo = <<p>>, !.view = Seen({p}), !.edit = e]
  <1>2. r.op = "edit" /\ r.todo = <<p>> /\ r.view = Seen({p})
    BY DEF Idle
  <1>3. r \in Request
    <2>1. <<p>> \in Seq(Products) /\ Seen({p}) \in [Products -> Row]
      BY SeenType
    <2> QED
      BY <2>1, IdleType DEF Request, Idle
  <1>4. req' = [req EXCEPT ![w] = r]
    BY <1>1
  <1> HIDE DEF r
  <1>5. r.todo # <<>> /\ Len(r.todo) = 1 /\ r.todo[1] = p
    BY <1>2
  <1>6. \A i \in 1..Len(r.todo) : r.view[r.todo[i]].state = "live"
    BY <1>1, <1>2, <1>5, SeenType DEF Live
  <1>7. \A q \in Products : r.view[q].marked => Expired(r.view[q])
    BY <1>2, SeenType
  <1> QED
    BY <1>0, <1>2, <1>3, <1>4, <1>5, <1>6, <1>7, ReadInv

LEMMA ScanReadInv ==
  ASSUME StockInv, NEW w \in Workers, ScanRead(w)
  PROVE  StockInv'
  <1>0. TypeOK /\ Accept(w) /\ UNCHANGED <<row, ledger, lock, today, opening, clobbered>>
    BY DEF StockInv, ScanRead
  <1>1. PICK order \in Orders :
          /\ order # <<>>
          /\ Named(order) = {p \in Products : Live(p)}
          /\ req' = [req EXCEPT ![w] =
                       [Idle EXCEPT !.op = "scan", !.todo = order, !.view = Seen(Named(order))]]
    BY DEF ScanRead
  <1> DEFINE r == [Idle EXCEPT !.op = "scan", !.todo = order, !.view = Seen(Named(order))]
  <1>2. r.op = "scan" /\ r.todo = order /\ r.view = Seen(Named(order))
    BY DEF Idle
  <1>3. r \in Request
    BY IdleType, SeenType, StockConstants DEF Request, Idle
  <1>4. req' = [req EXCEPT ![w] = r]
    BY <1>1
  <1> HIDE DEF r
  <1>5. \A q \in Products : r.view[q].marked => Expired(r.view[q])
    BY <1>2, SeenType
  <1>6. \A i \in 1..Len(r.todo) : r.view[r.todo[i]].state = "live"
    <2> SUFFICES ASSUME NEW i \in 1..Len(order) PROVE Seen(Named(order))[order[i]].state = "live"
      BY <1>2
    <2>1. order[i] \in Named(order) /\ order[i] \in Products /\ Live(order[i])
      BY <1>1 DEF Named
    <2> QED
      BY <2>1, SeenType DEF Live
  <1> QED
    BY <1>0, <1>1, <1>2, <1>3, <1>4, <1>5, <1>6, ReadInv

\* What a whole-row write without a lock may do to the row of p, its opening
\* quantity and its ghost flag.
Written(p, r) ==
  \/ UNCHANGED <<row, opening, clobbered>>
  \/ /\ lock[p] = NoWorker
     /\ row' = [row EXCEPT ![p] = r]
     /\ \/ /\ Live(p)
           /\ opening' = [opening EXCEPT ![p] = r.qty - ledger[p]]
           /\ clobbered' = [clobbered EXCEPT ![p] = FALSE]
        \/ /\ Live(p)
           /\ opening' = opening
           /\ clobbered' = [clobbered EXCEPT ![p] = @ \/ r.qty # row[p].qty]
        \/ /\ ~Live(p)
           /\ opening' = [opening EXCEPT ![p] = r.qty]
           /\ clobbered' = clobbered

LEMMA WriteIsWritten ==
  ASSUME NEW p \in Products, NEW r, RowFree(p),
         \/ Live(p) /\ Rewrite(p, r)
         \/ Live(p) /\ Recount(p, r)
         \/ ~Live(p) /\ WriteGone(p, r)
  PROVE  Written(p, r)
  BY DEF Written, Rewrite, Recount, WriteGone, RowFree

\* A writer without a lock writes one row whole, or finds it deleted, and goes
\* on to the request n.  No lock is held on the row, so no locked copy ages.
LEMMA UnlockedWriteInv ==
  ASSUME StockInv, NEW w \in Workers, req[w].op \in {"edit", "scan"},
         NEW n \in Request, req' = [req EXCEPT ![w] = n],
         n.op = "idle" \/ (n.op = "scan" /\ n.todo # <<>>),
         n.op = "scan" => \A i \in 1..Len(n.todo) : n.view[n.todo[i]].state = "live",
         \A q \in Products : n.view[q].marked => Expired(n.view[q]),
         UNCHANGED <<ledger, lock, left, today>>,
         NEW p \in Products, NEW r \in Row, r.state = "live", r.marked => Expired(r),
         Written(p, r)
  PROVE  StockInv'
  <1>0. TypeOK
    BY DEF StockInv
  <1>1. req'[w] = n /\ \A v \in Workers \ {w} : req'[v] = req[v]
    BY <1>0 DEF TypeOK
  <1>2. \/ UNCHANGED <<row, opening, clobbered>>
        \/ lock[p] = NoWorker /\ row' = [row EXCEPT ![p] = r]
    BY DEF Written
  <1>3. \A q \in Products : row'[q] = row[q] \/ (q = p /\ row'[q] = r /\ lock[q] = NoWorker)
    BY <1>0, <1>2 DEF TypeOK
  <1>4. TypeOK'
    <2>1. row' \in [Products -> Row]
      BY <1>0, <1>2 DEF TypeOK
    <2>2. r.qty \in Int /\ r.qty - ledger[p] \in Int
      BY <1>0, StockConstants DEF TypeOK, Row
    <2>3. opening' \in [Products -> Int] /\ clobbered' \in [Products -> BOOLEAN]
      <3>1. opening' = opening \/ \E o \in Int : opening' = [opening EXCEPT ![p] = o]
        BY <2>2 DEF Written
      <3>2. clobbered' = clobbered \/ \E b \in BOOLEAN : clobbered' = [clobbered EXCEPT ![p] = b]
        BY <1>0 DEF Written, TypeOK
      <3> QED
        BY <1>0, <3>1, <3>2 DEF TypeOK
    <2> QED
      BY <1>0, <2>1, <2>3 DEF TypeOK
  <1>5. LockedCopyFresh'
    <2> SUFFICES ASSUME NEW v \in Workers, NEW q \in Products, lock'[q] = v
                 PROVE  req'[v].op \in Moving /\ Live(q)' /\ req'[v].view[q] = row'[q]
      BY DEF LockedCopyFresh
    <2>1. v # w /\ req'[v] = req[v]
      BY <1>1 DEF StockInv, LockedCopyFresh, Moving
    <2>2. row'[q] = row[q]
      BY <1>3, StockConstants
    <2> QED
      BY <2>1, <2>2 DEF StockInv, LockedCopyFresh, Live
  <1>6. LinesCovered'
    BY <1>1 DEF StockInv, LinesCovered, Moving
  <1>7. WritersHaveWork'
    BY <1>1 DEF StockInv, WritersHaveWork
  <1>8. CopiesHonest'
    BY <1>1 DEF StockInv, CopiesHonest, Expired
  <1>9. GoneIsEmpty'
    BY <1>3, <1>0 DEF StockInv, GoneIsEmpty, Live
  <1>10. LedgerExact'
    <2> SUFFICES ASSUME NEW q \in Products, row'[q].state = "live", ~clobbered'[q]
                 PROVE  row'[q].qty = opening'[q] + ledger[q]
      BY DEF LedgerExact, Live
    <2>1. CASE UNCHANGED <<row, opening, clobbered>>
      BY <2>1 DEF StockInv, LedgerExact, Live
    <2>2. CASE q # p
      <3>1. row'[q] = row[q] /\ opening'[q] = opening[q] /\ clobbered'[q] = clobbered[q]
        BY <2>2, <1>0, <1>2 DEF TypeOK, Written
      <3> QED
        BY <3>1 DEF StockInv, LedgerExact, Live
    <2>a. r.qty \in Int /\ row[p].qty \in Int /\ ledger[p] \in Int /\ (~Live(p) => ledger[p] = 0)
      BY <1>0, StockConstants DEF TypeOK, Row, StockInv, GoneIsEmpty
    <2>3. CASE /\ q = p /\ row' = [row EXCEPT ![p] = r] /\ Live(p)
               /\ opening' = [opening EXCEPT ![p] = r.qty - ledger[p]]
      BY <2>3, <2>a, <1>0 DEF TypeOK
    <2>4. CASE /\ q = p /\ row' = [row EXCEPT ![p] = r] /\ Live(p) /\ opening' = opening
               /\ clobbered' = [clobbered EXCEPT ![p] = @ \/ r.qty # row[p].qty]
      <3>1. row'[p] = r /\ ~clobbered[p] /\ r.qty = row[p].qty
        BY <2>4, <1>0 DEF TypeOK
      <3> QED
        BY <3>1, <2>4 DEF StockInv, LedgerExact
    <2>5. CASE /\ q = p /\ row' = [row EXCEPT ![p] = r] /\ ~Live(p)
               /\ opening' = [opening EXCEPT ![p] = r.qty]
      BY <2>5, <2>a, <1>0 DEF TypeOK
    <2> QED
      BY <2>1, <2>2, <2>3, <2>4, <2>5 DEF Written
  <1>11. FlagHonest'
    BY <1>3 DEF StockInv, FlagHonest, Expired
  <1> QED
    BY <1>4, <1>5, <1>6, <1>7, <1>8, <1>9, <1>10, <1>11 DEF StockInv

LEMMA EditWriteInv ==
  ASSUME StockInv, NEW w \in Workers, EditWrite(w)
  PROVE  StockInv'
  <1> DEFINE p == Head(req[w].todo)
             r == Patched(req[w].view[p], req[w].edit)
  <1>0. TypeOK /\ req[w].op = "edit" /\ req' = [req EXCEPT ![w] = Idle]
        /\ UNCHANGED <<ledger, lock, left, today>>
    BY DEF StockInv, EditWrite
  <1>1. req[w].todo # <<>> /\ req[w].todo[1] = p /\ 1 \in 1..Len(req[w].todo) /\ p \in Products
    BY <1>0 DEF TypeOK, Request, StockInv, WritersHaveWork
  <1>2. req[w].view[p].state = "live"
    BY <1>0, <1>1 DEF StockInv, WritersHaveWork
  <1>3. req[w].view[p] \in Row /\ req[w].edit \in Edits \cup {NoEdit}
    BY <1>0, <1>1 DEF TypeOK, Request
  <1>4. Written(p, r)
    <2>1. /\ RowFree(p)
          /\ \/ Live(p) /\ Rewrite(p, r)
             \/ Live(p) /\ Recount(p, r)
             \/ ~Live(p) /\ WriteGone(p, r)
      BY DEF EditWrite
    <2> HIDE DEF p, r
    <2> QED
      BY <2>1, <1>1, WriteIsWritten
  <1> HIDE DEF p
  <1>5. r \in Row /\ r.state = "live" /\ (r.marked => Expired(r))
    <2> DEFINE x == req[w].view[p]
               e == req[w].edit
               day == IF e.expiry = Keep THEN x.expiry ELSE e.expiry
               mark == IF e.expiry = Keep THEN x.marked ELSE today > e.expiry
               qty == IF e.qty = Keep THEN x.qty ELSE e.qty
    <2>1. e.qty \in {Keep} \cup 0..MaxQty /\ e.expiry \in {Keep} \cup 0..MaxDay
      BY <1>3, StockConstants DEF NoEdit
    <2>2. x \in Row /\ x.state = "live" /\ (x.marked => today > x.expiry)
      BY <1>1, <1>2, <1>3 DEF StockInv, CopiesHonest, Expired
    <2>3. day \in 0..MaxDay /\ qty \in 0..MaxQty
      BY <2>1, <2>2 DEF Row
    <2>4. mark \in BOOLEAN /\ (mark => today > day)
      <3>1. CASE e.expiry = Keep
        BY <3>1, <2>2 DEF Row
      <3>2. CASE e.expiry # Keep
        BY <3>2
      <3> QED
        BY <3>1, <3>2
    <2>6. r = [state |-> x.state, qty |-> qty, expiry |-> day, marked |-> mark]
      BY DEF Patched
    <2> HIDE DEF x, e, day, mark, qty, r
    <2>7. r \in Row /\ r.state = x.state /\ r.expiry = day /\ r.marked = mark
      BY <2>2, <2>3, <2>4, <2>6 DEF Row
    <2> QED
      BY <2>2, <2>4, <2>7 DEF Expired
  <1>6. Idle.op = "idle" /\ Idle.op # "scan"
        /\ (\A q \in Products : Idle.view[q].marked => Expired(Idle.view[q]))
        /\ \A i \in 1..Len(Idle.todo) : Idle.view[Idle.todo[i]].state = "live"
    BY DEF Idle, NoRow
  <1> HIDE DEF r
  <1> QED
    BY <1>0, <1>1, <1>4, <1>5, <1>6, IdleType, UnlockedWriteInv

LEMMA ScanWriteInv ==
  ASSUME StockInv, NEW w \in Workers, ScanWrite(w)
  PROVE  StockInv'
  <1> DEFINE p == Head(req[w].todo)
             x == req[w].view[p]
             r == Checked(x)
             m == [req[w] EXCEPT !.todo = Tail(@)]
  <1>0. TypeOK /\ req[w].op = "scan" /\ UNCHANGED <<ledger, lock, left, today>>
    BY DEF StockInv, ScanWrite
  <1>1. /\ req[w].todo # <<>> /\ req[w].todo \in Seq(Products) /\ p \in Products
        /\ \A i \in 1..Len(req[w].todo) : req[w].view[req[w].todo[i]].state = "live"
    BY <1>0 DEF TypeOK, Request, StockInv, WritersHaveWork
  <1>2. x \in Row /\ req[w] \in Request /\ x.state = "live"
    <2>1. req[w] \in Request
      BY <1>0 DEF TypeOK
    <2>2. req[w].view \in [Products -> Row]
      BY <2>1 DEF Request
    <2>3. p = req[w].todo[1] /\ 1 \in 1..Len(req[w].todo)
      BY <1>1
    <2> QED
      BY <1>1, <2>1, <2>2, <2>3
  <1>3. Written(p, r)
    <2>1. CASE UNCHANGED <<row, opening, clobbered>>
      <3> HIDE DEF p, r
      <3> QED
        BY <2>1 DEF Written
    <2>2. CASE /\ RowFree(p)
               /\ (Live(p) /\ Rewrite(p, r)) \/ (~Live(p) /\ WriteGone(p, r))
      <3> HIDE DEF p, r
      <3> QED
        BY <2>2, <1>1, WriteIsWritten
    <2>3. \/ UNCHANGED <<row, opening, clobbered>>
          \/ RowFree(p) /\ ((Live(p) /\ Rewrite(p, r)) \/ (~Live(p) /\ WriteGone(p, r)))
      BY DEF ScanWrite
    <2> QED
      BY <2>1, <2>2, <2>3
  <1>4. \/ req' = [req EXCEPT ![w] = Idle]
        \/ Len(req[w].todo) # 1 /\ req' = [req EXCEPT ![w] = m]
    BY <1>0, <1>2 DEF ScanWrite, ScanOn, ScanDone, TypeOK
  <1> HIDE DEF p
  <1>5. r \in Row /\ r.state = "live" /\ (r.marked => Expired(r))
    <2> DEFINE mark == Expired(x)
    <2>1. mark \in BOOLEAN /\ (mark => today > x.expiry)
      BY DEF Expired
    <2>2. r = [x EXCEPT !.marked = mark]
      BY DEF Checked
    <2> HIDE DEF mark, x, r
    <2>3. r \in Row /\ r.state = x.state /\ r.expiry = x.expiry /\ r.marked = mark
      BY <1>2, <2>1, <2>2 DEF Row
    <2> QED
      BY <2>1, <2>3, <1>2 DEF Expired
  <1>6. Idle.op = "idle" /\ Idle.op # "scan"
        /\ (\A q \in Products : Idle.view[q].marked => Expired(Idle.view[q]))
        /\ \A i \in 1..Len(Idle.todo) : Idle.view[Idle.todo[i]].state = "live"
    BY DEF Idle, NoRow
  <1>7. CASE req' = [req EXCEPT ![w] = Idle]
    <2> HIDE DEF r
    <2> QED
      BY <1>0, <1>1, <1>3, <1>5, <1>6, <1>7, IdleType, UnlockedWriteInv
  <1>8. CASE Len(req[w].todo) # 1 /\ req' = [req EXCEPT ![w] = m]
    <2> DEFINE rest == Tail(req[w].todo)
    <2>1. m.op = "scan" /\ m.todo = rest /\ m.view = req[w].view
      BY <1>0, <1>2 DEF Request
    <2>a. rest \in Seq(Products) /\ Len(req[w].todo) \in Nat \ {0} /\ Len(rest) = Len(req[w].todo) - 1
      BY <1>1
    <2>2. rest # <<>>
      <3>1. Len(rest) # 0
        BY <2>a, <1>8
      <3> HIDE DEF rest
      <3> QED
        BY <3>1
    <2>3. \A i \in 1..Len(rest) : rest[i] = req[w].todo[i + 1] /\ i + 1 \in 1..Len(req[w].todo)
      BY <1>1, <2>a
    <2>4. m \in Request
      BY <1>2, <2>a DEF Request
    <2> HIDE DEF m, rest, r
    <2>5. \A i \in 1..Len(m.todo) : m.view[m.todo[i]].state = "live"
      BY <1>1, <2>1, <2>3
    <2>6. \A q \in Products : m.view[q].marked => Expired(m.view[q])
      BY <2>1 DEF StockInv, CopiesHonest
    <2> QED
      BY <1>0, <1>1, <1>3, <1>5, <1>8, <2>1, <2>2, <2>4, <2>5, <2>6, UnlockedWriteInv
  <1> QED
    BY <1>4, <1>7, <1>8

LEMMA CreateProductInv ==
  ASSUME StockInv, NEW w \in Workers, CreateProduct(w)
  PROVE  StockInv'
  <1>0. /\ TypeOK /\ UNCHANGED <<ledger, lock, req, today, clobbered>>
        /\ left[w] > 0 /\ left' = [left EXCEPT ![w] = @ - 1]
    BY DEF StockInv, CreateProduct, Accept
  <1>1. PICK p \in Products, q \in Openings, day \in 0..MaxDay :
          /\ row[p].state = "new"
          /\ row' = [row EXCEPT ![p] = [state |-> "live", qty |-> q, expiry |-> day,
                                        marked |-> today > day]]
          /\ opening' = [opening EXCEPT ![p] = q]
    BY DEF CreateProduct
  <1> DEFINE mark == today > day
             r == [state |-> "live", qty |-> q, expiry |-> day, marked |-> mark]
  <1>2. r \in Row
    <2>1. mark \in BOOLEAN
      OBVIOUS
    <2> HIDE DEF mark
    <2> QED
      BY <2>1, StockConstants DEF Row
  <1>3. r.state = "live" /\ r.qty = q /\ r.expiry = day /\ r.marked = (today > day)
    OBVIOUS
  <1>4. row' = [row EXCEPT ![p] = r]
    BY <1>1
  <1> HIDE DEF r
  <1>5. q \in Int /\ ledger[p] = 0 /\ ~Live(p)
    BY <1>1, StockConstants DEF Live, StockInv, GoneIsEmpty
  <1>6. TypeOK'
    BY <1>0, <1>1, <1>2, <1>4, <1>5, StockConstants DEF TypeOK
  <1>7. LockedCopyFresh'
    BY <1>0, <1>4, <1>5 DEF TypeOK, StockInv, LockedCopyFresh, Live
  <1>8. LinesCovered' /\ WritersHaveWork' /\ CopiesHonest'
    BY <1>0 DEF StockInv, LinesCovered, WritersHaveWork, CopiesHonest, Expired
  <1>9. GoneIsEmpty'
    BY <1>0, <1>3, <1>4 DEF TypeOK, StockInv, GoneIsEmpty, Live
  <1>10. LedgerExact'
    BY <1>0, <1>1, <1>3, <1>4, <1>5 DEF TypeOK, StockInv, LedgerExact, Live
  <1>11. FlagHonest'
    BY <1>0, <1>3, <1>4 DEF TypeOK, StockInv, FlagHonest, Expired
  <1> QED
    BY <1>6, <1>7, <1>8, <1>9, <1>10, <1>11 DEF StockInv

LEMMA DeleteProductInv ==
  ASSUME StockInv, NEW w \in Workers, DeleteProduct(w)
  PROVE  StockInv'
  <1>0. /\ TypeOK /\ UNCHANGED <<lock, req, today>>
        /\ left[w] > 0 /\ left' = [left EXCEPT ![w] = @ - 1]
    BY DEF StockInv, DeleteProduct, Accept
  <1>1. PICK p \in Products :
          /\ Live(p) /\ lock[p] = NoWorker
          /\ row' = [row EXCEPT ![p] = [NoRow EXCEPT !.state = "gone"]]
          /\ ledger' = [ledger EXCEPT ![p] = 0]
          /\ opening' = [opening EXCEPT ![p] = 0]
          /\ clobbered' = [clobbered EXCEPT ![p] = FALSE]
    BY DEF DeleteProduct, RowFree
  <1> DEFINE r == [NoRow EXCEPT !.state = "gone"]
  <1>2. r \in Row /\ r.state = "gone" /\ ~r.marked
    BY IdleType DEF Row, NoRow
  <1>3. row' = [row EXCEPT ![p] = r]
    BY <1>1
  <1> HIDE DEF r
  <1>4. TypeOK'
    <2>1. row' \in [Products -> Row]
      BY <1>0, <1>2, <1>3 DEF TypeOK
    <2>2. ledger' \in [Products -> Int] /\ opening' \in [Products -> Int]
          /\ clobbered' \in [Products -> BOOLEAN]
      BY <1>0, <1>1 DEF TypeOK
    <2>3. left' \in [Workers -> 0..Requests]
      BY <1>0, StockConstants DEF TypeOK
    <2> QED
      BY <1>0, <2>1, <2>2, <2>3 DEF TypeOK
  <1>5. LockedCopyFresh'
    BY <1>0, <1>1, <1>3, StockConstants DEF TypeOK, StockInv, LockedCopyFresh, Live
  <1>6. LinesCovered' /\ WritersHaveWork' /\ CopiesHonest'
    BY <1>0 DEF StockInv, LinesCovered, WritersHaveWork, CopiesHonest, Expired
  <1>7. GoneIsEmpty' /\ LedgerExact' /\ FlagHonest'
    BY <1>0, <1>1, <1>2, <1>3
       DEF TypeOK, StockInv, GoneIsEmpty, LedgerExact, FlagHonest, Live, Expired
  <1> QED
    BY <1>4, <1>5, <1>6, <1>7 DEF StockInv

LEMMA NextDayInv ==
  ASSUME StockInv, NextDay
  PROVE  StockInv'
  <1>0. /\ TypeOK /\ today < MaxDay /\ today' = today + 1
        /\ UNCHANGED <<row, ledger, lock, req, left, opening, clobbered>>
    BY DEF StockInv, NextDay
  <1>1. TypeOK'
    BY <1>0, StockConstants DEF TypeOK
  <1>2. LockedCopyFresh' /\ LinesCovered' /\ WritersHaveWork' /\ GoneIsEmpty' /\ LedgerExact'
    BY <1>0 DEF StockInv, LockedCopyFresh, LinesCovered, WritersHaveWork, GoneIsEmpty,
                LedgerExact, Live
  <1>3. \A r \in Row : Expired(r) => Expired(r)'
    BY <1>0, StockConstants DEF TypeOK, Row, Expired
  <1>4. FlagHonest'
    BY <1>0, <1>3 DEF TypeOK, StockInv, FlagHonest, Expired
  <1>5. CopiesHonest'
    <2>1. \A v \in Workers, p \in Products : req[v].view[p] \in Row
      BY <1>0 DEF TypeOK, Request
    <2> QED
      BY <2>1, <1>0, <1>3 DEF StockInv, CopiesHonest, Expired
  <1> QED
    BY <1>1, <1>2, <1>4, <1>5 DEF StockInv

LEMMA NextInv ==
  ASSUME StockInv, [Next]_vars
  PROVE  StockInv'
  <1>1. CASE NextDay
    BY <1>1, NextDayInv
  <1>2. CASE UNCHANGED vars
    BY <1>2 DEF vars, StockInv, TypeOK, LockedCopyFresh, LinesCovered, WritersHaveWork,
                GoneIsEmpty, LedgerExact, FlagHonest, CopiesHonest, Live, Expired
  <1>3. ASSUME NEW w \in Workers, Start(w) PROVE StockInv'
    BY <1>3, StartMoveInv, EditReadInv, ScanReadInv, CreateProductInv, DeleteProductInv DEF Start
  <1>4. ASSUME NEW w \in Workers, Step(w) \/ Crash(w) PROVE StockInv'
    <2>1. CASE DeadlockVictim(w) \/ Crash(w)
      BY <2>1, RollbackInv DEF DeadlockVictim, Crash
    <2> QED
      BY <2>1, <1>4, LockNextInv, CommitInv, EditWriteInv, ScanWriteInv DEF Step
  <1> QED
    BY <1>1, <1>2, <1>3, <1>4 DEF Next

\* The inductive invariant: what concurrent requests preserve between them.
THEOREM StockInvariant == Spec => []StockInv
  <1>1. Init => StockInv
    BY InitInv
  <1>2. StockInv /\ [Next]_vars => StockInv'
    BY NextInv
  <1> QED
    BY <1>1, <1>2, PTL DEF Spec

\* No sequence of sales, cancellations, edits, scans and deletions takes the
\* quantity column out of its range (the checks of record_stock_entry and
\* record_stock_exit on the locked row).
THEOREM StockTypeCorrect == Spec => []TypeOK
  <1>1. StockInv => TypeOK
    BY DEF StockInv
  <1> QED
    BY <1>1, StockInvariant, PTL

\* The quantity of a product that no unlocked writer has overwritten is its
\* opening quantity plus its movements (get_by_id_for_update until commit).
THEOREM StockLedgerExact == Spec => []LedgerExact
  <1>1. StockInv => LedgerExact
    BY DEF StockInv
  <1> QED
    BY <1>1, StockInvariant, PTL

\* A product flagged as expired is past its expiry date (check_expiry on every
\* path that writes the flag).
THEOREM StockFlagHonest == Spec => []FlagHonest
  <1>1. StockInv => FlagHonest
    BY DEF StockInv
  <1> QED
    BY <1>1, StockInvariant, PTL

-----------------------------------------------------------------------------
(* The refinement: with quantity read off the rows and book off the ledger,  *)
(* every step is a step of StockCounter or leaves both alone.                *)

Qty == [p \in Products |-> row[p].qty]

LEMMA QtyType ==
  ASSUME TypeOK
  PROVE  Qty \in [Products -> Nat] /\ \A p \in Products : Qty[p] = row[p].qty
  <1>1. \A p \in Products : row[p].qty \in Nat
    BY StockConstants DEF TypeOK, Row
  <1> QED
    BY <1>1 DEF Qty

LEMMA QtyTypeNext ==
  ASSUME TypeOK'
  PROVE  Qty' \in [Products -> Nat] /\ \A p \in Products : Qty'[p] = row'[p].qty
  <1>1. \A p \in Products : row'[p].qty \in Nat
    BY StockConstants DEF TypeOK, Row
  <1> QED
    BY <1>1 DEF Qty

\* A whole-row write of one product, by hand or from a stale copy.
LEMMA OverwriteRefines ==
  ASSUME TypeOK, TypeOK', NEW p \in Products, ledger' = ledger,
         \A q \in Products \ {p} : row'[q] = row[q]
  PROVE  Counter!Next
  <1>1. Counter!Overwrite(p)
    BY QtyType, QtyTypeNext DEF Counter!Overwrite, Qty
  <1> QED
    BY <1>1 DEF Counter!Next

\* A committed movement request moves every quantity by what it adds to the book.
LEMMA CommitRefines ==
  ASSUME StockInv, StockInv', NEW w \in Workers, Commit(w)
  PROVE  [Counter!Next]_Counter!vars
  <1>0. TypeOK /\ TypeOK' /\ req[w].op \in Moving /\ req[w].todo = <<>>
    BY DEF StockInv, Commit
  <1>1. CASE Rollback(w)
    BY <1>1 DEF Rollback, Counter!vars
  <1>2. CASE /\ row' = [p \in Products |-> IF req[w].need[p] > 0
                                           THEN [req[w].view[p] EXCEPT !.qty = Moved(w, p)]
                                           ELSE row[p]]
             /\ ledger' = [p \in Products |-> ledger[p] + Signed(req[w].op, req[w].need[p])]
    <2>1. \A p \in Products : req[w].need[p] \in Nat /\ req[w].view[p] \in Row /\ row[p] \in Row
                              /\ ledger[p] \in Int
      BY <1>0 DEF TypeOK, Request
    <2>2. \A p \in Products :
            ledger'[p] = ledger[p] + Signed(req[w].op, req[w].need[p])
      BY <1>2
    <2>3. \A p \in Products : row'[p].qty = row[p].qty + Signed(req[w].op, req[w].need[p])
      <3> SUFFICES ASSUME NEW p \in Products
                   PROVE  row'[p].qty = row[p].qty + Signed(req[w].op, req[w].need[p])
        OBVIOUS
      <3>1. CASE req[w].need[p] > 0
        <4>1. row'[p].qty = Moved(w, p)
          BY <1>2, <3>1, <2>1 DEF Row
        <4>2. lock[p] = w
          BY <1>0, <3>1 DEF StockInv, LinesCovered, Named
        <4>3. req[w].view[p] = row[p]
          BY <4>2 DEF StockInv, LockedCopyFresh
        <4> QED
          BY <4>1, <4>3, <2>1 DEF Moved, Signed, Row
      <3>2. CASE ~(req[w].need[p] > 0)
        <4>1. row'[p] = row[p]
          BY <1>2, <3>2
        <4>2. Signed(req[w].op, req[w].need[p]) = 0
          BY <3>2, <2>1 DEF Signed
        <4> QED
          BY <4>1, <4>2, <2>1, StockConstants DEF Row
      <3> QED
        BY <3>1, <3>2
    <2>4. \A p \in Products : row[p].qty \in Int /\ Signed(req[w].op, req[w].need[p]) \in Int
      BY <2>1, StockConstants DEF Row, Signed
    <2>5. \A p \in Products : row'[p].qty - row[p].qty = ledger'[p] - ledger[p]
      BY <2>1, <2>2, <2>3, <2>4
    <2>6. \/ \A p \in Products : ledger'[p] >= ledger[p]
          \/ \A p \in Products : ledger'[p] <= ledger[p]
      <3>1. CASE req[w].op = "exit"
        BY <3>1, <2>1, <2>2 DEF Signed
      <3>2. CASE req[w].op # "exit"
        BY <3>2, <2>1, <2>2 DEF Signed
      <3> QED
        BY <3>1, <3>2
    <2>7. Counter!Move
      BY <1>0, <2>5, <2>6, QtyType, QtyTypeNext DEF Counter!Move, Qty
    <2> QED
      BY <2>7 DEF Counter!Next
  <1> QED
    BY <1>1, <1>2 DEF Commit

LEMMA NextRefines ==
  ASSUME StockInv, StockInv', [Next]_vars
  PROVE  [Counter!Next]_Counter!vars
  <1>0. TypeOK /\ TypeOK'
    BY DEF StockInv
  <1>1. CASE UNCHANGED <<row, ledger>>
    BY <1>1 DEF Counter!vars
  <1>2. ASSUME NEW w \in Workers, Commit(w) PROVE [Counter!Next]_Counter!vars
    BY <1>2, CommitRefines
  <1>3. ASSUME NEW w \in Workers, EditWrite(w) PROVE [Counter!Next]_Counter!vars
    <2> DEFINE p == Head(req[w].todo)
    <2>1. p \in Products
      BY <1>0, <1>3 DEF EditWrite, TypeOK, Request, StockInv, WritersHaveWork
    <2>2. ledger' = ledger /\ \A q \in Products \ {p} : row'[q] = row[q]
      <3>1. ledger' = ledger /\ (row' = row \/ \E r : row' = [row EXCEPT ![p] = r])
        BY <1>3 DEF EditWrite, Rewrite, Recount, WriteGone
      <3> HIDE DEF p
      <3> QED
        BY <1>0, <3>1 DEF TypeOK
    <2> HIDE DEF p
    <2> QED
      BY <1>0, <2>1, <2>2, OverwriteRefines
  <1>4. ASSUME NEW w \in Workers, ScanWrite(w) PROVE [Counter!Next]_Counter!vars
    <2> DEFINE p == Head(req[w].todo)
    <2>1. p \in Products
      BY <1>0, <1>4 DEF ScanWrite, TypeOK, Request, StockInv, WritersHaveWork
    <2>2. ledger' = ledger /\ \A q \in Products \ {p} : row'[q] = row[q]
      <3>1. ledger' = ledger /\ (row' = row \/ \E r : row' = [row EXCEPT ![p] = r])
        BY <1>4 DEF ScanWrite, Rewrite, WriteGone
      <3> HIDE DEF p
      <3> QED
        BY <1>0, <3>1 DEF TypeOK
    <2> HIDE DEF p
    <2> QED
      BY <1>0, <2>1, <2>2, OverwriteRefines
  <1>5. ASSUME NEW w \in Workers, CreateProduct(w) PROVE [Counter!Next]_Counter!vars
    <2>1. PICK p \in Products : ledger' = ledger /\ \A q \in Products \ {p} : row'[q] = row[q]
      BY <1>0, <1>5 DEF CreateProduct, TypeOK
    <2> QED
      BY <1>0, <2>1, OverwriteRefines
  <1>6. ASSUME NEW w \in Workers, DeleteProduct(w) PROVE [Counter!Next]_Counter!vars
    <2>1. PICK p \in Products : /\ row' = [row EXCEPT ![p] = [NoRow EXCEPT !.state = "gone"]]
                                /\ ledger' = [ledger EXCEPT ![p] = 0]
      BY <1>6 DEF DeleteProduct
    <2>2. row'[p].qty = 0 /\ \A q \in Products \ {p} : row'[q] = row[q]
      BY <1>0, <2>1 DEF TypeOK, NoRow
    <2>3. Qty' = [Qty EXCEPT ![p] = 0]
      BY <1>0, <2>2, QtyType, QtyTypeNext
    <2>4. Counter!Drop(p)
      BY <2>1, <2>3 DEF Counter!Drop, Qty
    <2> QED
      BY <2>4 DEF Counter!Next
  <1>7. ASSUME NEW w \in Workers,
               \/ StartMove(w) \/ EditRead(w) \/ ScanRead(w)
               \/ LockNext(w) \/ DeadlockVictim(w) \/ Crash(w)
        PROVE  [Counter!Next]_Counter!vars
    <2>1. UNCHANGED <<row, ledger>>
      BY <1>7 DEF StartMove, EditRead, ScanRead, LockNext, DeadlockVictim, Crash, Rollback
    <2> QED
      BY <1>1, <2>1
  <1>8. CASE NextDay \/ UNCHANGED vars
    BY <1>1, <1>8 DEF NextDay, vars
  <1> QED
    BY <1>2, <1>3, <1>4, <1>5, <1>6, <1>7, <1>8 DEF Next, Start, Step

\* The locking transactions implement the one-step movements of StockCounter:
\* no interleaving of line-by-line locking, unlocked writers, deadlocks and
\* crashes makes a committed movement act on a quantity that is not the row's.
THEOREM StockImplementsCounter == Spec => CounterSpec
  <1>1. Init => Counter!Init
    BY DEF Init, Counter!Init, NoRow
  <1>2. StockInv /\ StockInv' /\ [Next]_vars => [Counter!Next]_Counter!vars
    BY NextRefines
  <1> QED
    BY <1>1, <1>2, StockInvariant, PTL DEF Spec, CounterSpec, Counter!Spec
=============================================================================
