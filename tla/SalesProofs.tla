---------------------------- MODULE SalesProofs ----------------------------
(***************************************************************************)
(* Proofs about Sales, for any number of invoices, credits, keys and jobs, *)
(* any amounts and any updates.                                            *)
(***************************************************************************)
EXTENDS Sales, TLAPS

-----------------------------------------------------------------------------
(* Rows. *)

LEMMA RowTypes ==
  /\ NoInvoice \in Invoice /\ DebtTrue(NoInvoice)
  /\ NoCredit \in Credit /\ Balanced(NoCredit) /\ StatusTrue(NoCredit)
  /\ Idle \in Job
  <1>1. NoInvoice \in Invoice /\ DebtTrue(NoInvoice)
    BY DEF NoInvoice, Invoice, InvoiceStatus, DebtTrue
  <1>2. NoCredit \in Credit /\ Balanced(NoCredit) /\ StatusTrue(NoCredit)
    BY SalesConstants DEF NoCredit, Credit, CreditStatus, Balanced, StatusTrue
  <1>3. Idle \in Job
    BY <1>2 DEF Idle, Job
  <1> QED
    BY <1>1, <1>2, <1>3

LEMMA DebtNat ==
  ASSUME NEW total \in Nat, NEW paid \in Nat
  PROVE  Debt(total, paid) \in Nat
  BY DEF Debt

LEMMA StatusForTrue ==
  ASSUME NEW r \in Credit, TypeOK, NEW old, r.status = StatusFor(old, r.paid, r.rem, r.due)
  PROVE  StatusTrue(r)
  BY SalesConstants DEF Credit, TypeOK, StatusFor, StatusTrue

LEMMA StatusForType ==
  ASSUME NEW old, NEW paid, NEW rem, NEW due
  PROVE  StatusFor(old, paid, rem, due) \in CreditStatus
  BY DEF StatusFor, CreditStatus

\* Paying n on a credit keeps its amounts balanced and its status true, when
\* no amount becomes negative.
LEMMA PaidOffRow ==
  ASSUME TypeOK, NEW r \in Credit, Balanced(r), NEW n \in Int, r.paid + n >= 0, r.rem - n >= 0
  PROVE  /\ PaidOff(r, n) \in Credit
         /\ Balanced(PaidOff(r, n)) /\ StatusTrue(PaidOff(r, n))
         /\ PaidOff(r, n).paid = r.paid + n
         /\ PaidOff(r, n).state = r.state /\ PaidOff(r, n).invoice = r.invoice
  <1> DEFINE q == PaidOff(r, n)
  <1>1. /\ q.paid = r.paid + n /\ q.rem = r.rem - n /\ q.amount = r.amount /\ q.due = r.due
        /\ q.state = r.state /\ q.invoice = r.invoice
        /\ q.status = StatusFor(r.status, r.paid + n, r.rem - n, r.due)
    BY DEF PaidOff, Credit
  <1>2. r.paid + n \in Nat /\ r.rem - n \in Nat
    BY DEF Credit
  <1>3. q \in Credit
    BY <1>2, StatusForType DEF PaidOff, Credit
  <1> HIDE DEF q
  <1>4. Balanced(q)
    BY <1>1 DEF Balanced, Credit
  <1>5. StatusTrue(q)
    BY <1>1, <1>3, StatusForTrue
  <1> QED
    BY <1>1, <1>3, <1>4, <1>5 DEF q

LEMMA NewCreditRow ==
  ASSUME TypeOK, NEW i \in Invoices \cup {None}, NEW amount \in Nat, NEW paid \in Nat,
         paid <= amount, NEW due \in 0..MaxDay
  PROVE  /\ NewCredit(i, amount, paid, due) \in Credit
         /\ Balanced(NewCredit(i, amount, paid, due))
         /\ StatusTrue(NewCredit(i, amount, paid, due))
         /\ NewCredit(i, amount, paid, due).paid = paid
         /\ NewCredit(i, amount, paid, due).state = "live"
  <1> DEFINE q == NewCredit(i, amount, paid, due)
  <1>1. /\ q.paid = paid /\ q.rem = amount - paid /\ q.amount = amount /\ q.due = due
        /\ q.state = "live" /\ q.status = StatusFor("PENDING", paid, amount - paid, due)
    BY DEF NewCredit
  <1>2. amount - paid \in Nat
    OBVIOUS
  <1>3. q \in Credit
    BY <1>2, StatusForType DEF NewCredit, Credit
  <1> HIDE DEF q
  <1>4. Balanced(q)
    BY <1>1 DEF Balanced
  <1>5. StatusTrue(q)
    BY <1>1, <1>3, StatusForTrue
  <1> QED
    BY <1>1, <1>3, <1>4, <1>5 DEF q

LEMMA ReceivedRow ==
  ASSUME NEW r \in Invoice, NEW n \in Int, r.paid + n >= 0
  PROVE  LET rem == Debt(r.total, r.paid + n) IN
         /\ Received(r, n, rem) \in Invoice
         /\ DebtTrue(Received(r, n, rem))
         /\ Received(r, n, rem).state = r.state
         /\ Received(r, n, rem).total = r.total
         /\ Received(r, n, rem).status \in {"COMPLETED", r.status}
  <1> DEFINE rem == Debt(r.total, r.paid + n)
             q == Received(r, n, rem)
  <1>1. r.paid + n \in Nat
    BY DEF Invoice
  <1>2. rem \in Nat
    BY <1>1, DebtNat DEF Invoice
  <1> HIDE DEF rem
  <1>3. /\ q.paid = r.paid + n /\ q.rem = rem /\ q.total = r.total /\ q.state = r.state
        /\ q.status = IF rem = 0 THEN "COMPLETED" ELSE r.status
    BY DEF Received, Invoice
  <1>4. q \in Invoice
    BY <1>1, <1>2 DEF Received, Invoice, InvoiceStatus
  <1> HIDE DEF q
  <1>5. DebtTrue(q)
    BY <1>3 DEF DebtTrue, rem
  <1> QED
    BY <1>3, <1>4, <1>5 DEF q, rem
-----------------------------------------------------------------------------
(* The invariant, by the variables it is about. *)

InvoicesRight == inv \in [Invoices -> Invoice] /\ DebtHonest
CreditsRight == /\ cred \in [Credits -> Credit]
                /\ got \in [Credits -> Int]
                /\ clobbered \in [Credits -> BOOLEAN]
                /\ CreditBalances /\ CreditStatusHonest
                /\ NothingLostUnlessClobbered /\ NothingGotEarly
JobsRight == job \in [Workers -> Job] /\ CopiesTrue
KeysRight == /\ keyAt \in [Keys -> Invoices \cup {None}]
             /\ charged \in [Invoices -> [Keys -> Nat]]
             /\ KeysHeld
CountsRight == today \in 0..MaxDay /\ left \in 0..MaxRequests /\ returned \in [Invoices -> Nat]

LEMMA Parts ==
  SalesInv <=> /\ InvoicesRight /\ CreditsRight /\ JobsRight
               /\ CancelHolds /\ KeysRight /\ CountsRight
  BY DEF SalesInv, TypeOK, InvoicesRight, CreditsRight, JobsRight, KeysRight, CountsRight

LEMMA PartsNext ==
  ASSUME InvoicesRight', CreditsRight', JobsRight', CancelHolds', KeysRight', CountsRight'
  PROVE  SalesInv'
  BY DEF SalesInv, TypeOK, InvoicesRight, CreditsRight, JobsRight, KeysRight, CountsRight

\* One invoice row is written.
LEMMA InvoiceWritten ==
  ASSUME InvoicesRight, NEW i \in Invoices, NEW r \in Invoice, DebtTrue(r),
         inv' = [inv EXCEPT ![i] = r]
  PROVE  InvoicesRight'
  BY DEF InvoicesRight, DebtHonest

LEMMA InvoicesKept ==
  ASSUME InvoicesRight, UNCHANGED inv
  PROVE  InvoicesRight'
  BY DEF InvoicesRight, DebtHonest

\* Every credit keeps its row or gets one that is right.
LEMMA CreditsWritten ==
  ASSUME CreditsRight, UNCHANGED today,
         cred' \in [Credits -> Credit], got' \in [Credits -> Int],
         clobbered' \in [Credits -> BOOLEAN],
         \A c \in Credits :
           \/ cred'[c] = cred[c] /\ got'[c] = got[c] /\ clobbered'[c] = clobbered[c]
           \/ /\ Balanced(cred'[c]) /\ StatusTrue(cred'[c]) /\ cred'[c].state # "new"
              /\ cred'[c].state = "live" => (clobbered'[c] \/ cred'[c].paid = got'[c])
  PROVE  CreditsRight'
  <1>1. CreditBalances'
    BY DEF CreditsRight, CreditBalances
  <1>2. CreditStatusHonest'
    BY DEF CreditsRight, CreditStatusHonest, StatusTrue
  <1>3. NothingLostUnlessClobbered'
    BY DEF CreditsRight, NothingLostUnlessClobbered, Owed
  <1>4. NothingGotEarly'
    BY DEF CreditsRight, NothingGotEarly
  <1> QED
    BY <1>1, <1>2, <1>3, <1>4 DEF CreditsRight

\* One credit row is written.
LEMMA CreditWritten ==
  ASSUME CreditsRight, UNCHANGED today,
         NEW c \in Credits, NEW q \in Credit, NEW g \in Int, NEW b \in BOOLEAN,
         Balanced(q), StatusTrue(q), q.state = "live", b \/ q.paid = g,
         cred' = [cred EXCEPT ![c] = q],
         got' = [got EXCEPT ![c] = g],
         clobbered' = [clobbered EXCEPT ![c] = b]
  PROVE  CreditsRight'
  <1>1. /\ cred' \in [Credits -> Credit] /\ got' \in [Credits -> Int]
        /\ clobbered' \in [Credits -> BOOLEAN]
    BY DEF CreditsRight
  <1>2. /\ cred'[c] = q /\ got'[c] = g /\ clobbered'[c] = b
        /\ \A d \in Credits \ {c} : /\ cred'[d] = cred[d] /\ got'[d] = got[d]
                                    /\ clobbered'[d] = clobbered[d]
    BY DEF CreditsRight
  <1>3. q.state # "new"
    OBVIOUS
  <1> QED
    BY <1>1, <1>2, <1>3, CreditsWritten

LEMMA CreditsKept ==
  ASSUME CreditsRight, UNCHANGED <<cred, got, clobbered, today>>
  PROVE  CreditsRight'
  BY CreditsWritten DEF CreditsRight

\* One job takes a new state, whose copies are right.
LEMMA JobWritten ==
  ASSUME JobsRight, UNCHANGED today, NEW w \in Workers, NEW j \in Job,
         \A c \in Credits : /\ Balanced(j.seen[c]) /\ StatusTrue(j.seen[c])
                            /\ c \in j.todo => j.seen[c].state = "live",
         job' = [job EXCEPT ![w] = j]
  PROVE  JobsRight'
  <1>1. job'[w] = j /\ \A v \in Workers \ {w} : job'[v] = job[v]
    BY DEF JobsRight
  <1>2. CopiesTrue'
    BY <1>1 DEF JobsRight, CopiesTrue, StatusTrue
  <1> QED
    BY <1>2 DEF JobsRight

LEMMA JobEnds ==
  ASSUME JobsRight, UNCHANGED today, NEW w \in Workers, job' = [job EXCEPT ![w] = Idle]
  PROVE  JobsRight'
  <1>1. \A c \in Credits : /\ Balanced(Idle.seen[c]) /\ StatusTrue(Idle.seen[c])
                           /\ c \in Idle.todo => Idle.seen[c].state = "live"
    BY RowTypes DEF Idle
  <1> QED
    BY <1>1, RowTypes, JobWritten

LEMMA JobsKept ==
  ASSUME JobsRight, UNCHANGED <<job, today>>
  PROVE  JobsRight'
  BY DEF JobsRight, CopiesTrue, StatusTrue

\* The cancellations in progress are old ones that nobody has disturbed.
LEMMA CancelsKept ==
  ASSUME CancelHolds, job \in [Workers -> Job],
         \A w \in Workers : job'[w].op = "cancel" =>
           /\ job'[w] = job[w]
           /\ inv'[job[w].invoice].state = inv[job[w].invoice].state
           /\ inv'[job[w].invoice].status = inv[job[w].invoice].status
           /\ \A c \in job[w].todo : /\ cred'[c].state = cred[c].state
                                     /\ cred'[c].invoice = cred[c].invoice
  PROVE  CancelHolds'
  BY DEF CancelHolds, Live, Owed

\* The same when no job moves and only free invoices are written.
LEMMA CancelsUndisturbed ==
  ASSUME CancelHolds, InvoicesRight, JobsRight, UNCHANGED job,
         \A i \in Invoices : \/ Free(i)
                             \/ inv'[i].state = inv[i].state /\ inv'[i].status = inv[i].status,
         \A c \in Credits : Owed(c) =>
           \/ cred[c].invoice \in Invoices /\ Free(cred[c].invoice)
           \/ cred'[c].state = cred[c].state /\ cred'[c].invoice = cred[c].invoice
  PROVE  CancelHolds'
  <1>1. SUFFICES ASSUME NEW w \in Workers, job[w].op = "cancel"
                 PROVE  /\ inv'[job[w].invoice].state = inv[job[w].invoice].state
                        /\ inv'[job[w].invoice].status = inv[job[w].invoice].status
                        /\ \A c \in job[w].todo : /\ cred'[c].state = cred[c].state
                                                  /\ cred'[c].invoice = cred[c].invoice
    BY CancelsKept DEF JobsRight
  <1>2. job[w].invoice \in Invoices /\ ~Free(job[w].invoice)
    BY <1>1 DEF CancelHolds, Free
  <1>3. job[w].todo \subseteq Credits
    BY DEF JobsRight, Job
  <1>4. \A c \in job[w].todo : Owed(c) /\ cred[c].invoice = job[w].invoice
    BY <1>1 DEF CancelHolds
  <1> QED
    BY <1>2, <1>3, <1>4

LEMMA KeysKept ==
  ASSUME KeysRight, UNCHANGED <<keyAt, charged>>
  PROVE  KeysRight'
  BY DEF KeysRight, KeysHeld

LEMMA CountsKept ==
  ASSUME CountsRight, UNCHANGED <<today, returned>>, left' = left \/ Request
  PROVE  CountsRight'
  BY SalesConstants DEF CountsRight, Request

LEMMA InitInv == Init => SalesInv
  <1> SUFFICES ASSUME Init PROVE SalesInv
    OBVIOUS
  <1>1. InvoicesRight
    BY RowTypes DEF Init, InvoicesRight, DebtHonest
  <1>2. CreditsRight
    BY RowTypes DEF Init, CreditsRight, CreditBalances, CreditStatusHonest,
                    NothingLostUnlessClobbered, NothingGotEarly, Owed, NoCredit
  <1>3. JobsRight
    BY RowTypes DEF Init, JobsRight, CopiesTrue, Idle
  <1>4. CancelHolds
    BY DEF Init, CancelHolds, Idle
  <1>5. KeysRight
    BY DEF Init, KeysRight, KeysHeld
  <1>6. CountsRight
    BY SalesConstants DEF Init, CountsRight
  <1> QED
    BY <1>1, <1>2, <1>3, <1>4, <1>5, <1>6, Parts
-----------------------------------------------------------------------------
(* One lemma per action. *)

LEMMA CreateInvoiceInv ==
  ASSUME SalesInv, NEW i \in Invoices, CreateInvoice(i)
  PROVE  SalesInv'
  <1> USE Parts
  <1>1. TypeOK /\ UNCHANGED today
    BY DEF SalesInv, CreateInvoice
  <1>2. PICK bill \in Bills, advance \in Amounts \cup {0}, onCredit \in BOOLEAN,
             customer \in BOOLEAN, due \in 0..MaxDay :
          LET total == bill.lines + bill.tax
              status == StatusOnCreation(onCredit, advance, total)
          IN /\ inv' = [inv EXCEPT ![i] =
                          [state |-> "live", customer |-> customer, lines |-> bill.lines,
                           tax |-> bill.tax, disc |-> bill.disc, total |-> total,
                           paid |-> advance, rem |-> Debt(total, advance),
                           status |-> status, archived |-> FALSE]]
             /\ IF status = "CREDIT" /\ customer
                THEN /\ total > 0
                     /\ \E c \in Credits : /\ NextCredit(c)
                                           /\ cred' = [cred EXCEPT ![c] = NewCredit(i, total, advance, due)]
                                           /\ got' = [got EXCEPT ![c] = advance]
                ELSE UNCHANGED <<cred, got>>
    BY DEF CreateInvoice
  <1> DEFINE total == bill.lines + bill.tax
             status == StatusOnCreation(onCredit, advance, total)
             debt == Debt(total, advance)
             r == [state |-> "live", customer |-> customer, lines |-> bill.lines,
                   tax |-> bill.tax, disc |-> bill.disc, total |-> total,
                   paid |-> advance, rem |-> debt, status |-> status, archived |-> FALSE]
  <1>3. bill.lines \in Nat /\ bill.tax \in Nat /\ bill.disc \in Nat /\ advance \in Nat
    BY SalesConstants
  <1>4. total \in Nat
    BY <1>3
  <1>5. status \in {"CREDIT", "COMPLETED"} /\ (status = "CREDIT" => advance <= total)
    BY <1>3, <1>4 DEF StatusOnCreation
  <1>6. inv' = [inv EXCEPT ![i] = r]
    BY <1>2
  <1>7. status = "CREDIT" /\ customer =>
          \E c \in Credits : /\ NextCredit(c)
                             /\ cred' = [cred EXCEPT ![c] = NewCredit(i, total, advance, due)]
                             /\ got' = [got EXCEPT ![c] = advance]
    BY <1>2
  <1>8. ~(status = "CREDIT" /\ customer) => UNCHANGED <<cred, got>>
    BY <1>2
  <1> HIDE DEF total, status
  <1>9. debt \in Nat
    BY <1>3, <1>4, DebtNat
  <1>10. debt = Debt(total, advance)
    OBVIOUS
  <1> HIDE DEF debt
  <1>11. r \in Invoice
    BY <1>3, <1>4, <1>5, <1>9 DEF Invoice, InvoiceStatus
  <1>12. DebtTrue(r)
    BY <1>10 DEF DebtTrue
  <1> HIDE DEF r
  <1>13. InvoicesRight'
    BY <1>6, <1>11, <1>12, InvoiceWritten
  <1>14. UNCHANGED <<keyAt, job, today, returned, charged, clobbered>> /\ Request
    BY DEF CreateInvoice
  <1>15. CreditsRight' /\ \A c \in Credits : Owed(c) => cred'[c] = cred[c]
    <2>1. CASE status = "CREDIT" /\ customer
      <3>1. PICK c \in Credits : /\ NextCredit(c)
                                 /\ cred' = [cred EXCEPT ![c] = NewCredit(i, total, advance, due)]
                                 /\ got' = [got EXCEPT ![c] = advance]
        BY <2>1, <1>7
      <3> DEFINE q == NewCredit(i, total, advance, due)
      <3>2. /\ q \in Credit /\ Balanced(q) /\ StatusTrue(q) /\ q.paid = advance
            /\ q.state = "live"
        BY <1>1, <1>3, <1>4, <1>5, <2>1, NewCreditRow
      <3>3. cred' = [cred EXCEPT ![c] = q]
        BY <3>1
      <3> HIDE DEF q
      <3>4. clobbered' = [clobbered EXCEPT ![c] = clobbered[c]] /\ clobbered[c] \in BOOLEAN
        BY <1>14 DEF CreditsRight
      <3>5. CreditsRight'
        <4>1. advance \in Int /\ (clobbered[c] \/ q.paid = advance)
          BY <1>3, <3>2
        <4>2. got' = [got EXCEPT ![c] = advance]
          BY <3>1
        <4> QED
          BY <1>1, <4>1, <4>2, <3>2, <3>3, <3>4, CreditWritten
      <3>6. \A d \in Credits : Owed(d) => d # c
        BY <3>1 DEF NextCredit, Owed
      <3> QED
        BY <3>3, <3>5, <3>6 DEF CreditsRight
    <2>2. CASE ~(status = "CREDIT" /\ customer)
      BY <2>2, <1>8, <1>14, CreditsKept
    <2> QED
      BY <2>1, <2>2
  <1>16. Free(i)
    BY DEF CreateInvoice, CancelHolds, Free, Live
  <1>17. CancelHolds'
    BY <1>6, <1>14, <1>15, <1>16, CancelsUndisturbed DEF InvoicesRight
  <1> QED
    BY PartsNext, <1>13, <1>14, <1>15, <1>17, JobsKept, KeysKept, CountsKept

LEMMA UpdateInvoiceInv ==
  ASSUME SalesInv, NEW i \in Invoices, UpdateInvoice(i)
  PROVE  SalesInv'
  <1> USE Parts
  <1> DEFINE r == inv[i]
  <1>1. r \in Invoice /\ DebtTrue(r)
    BY DEF InvoicesRight, DebtHonest
  <1>2. PICK patch \in Patches :
         LET status == Given(patch, "status", r.status)
             tax == Given(patch, "tax", r.tax)
             disc == Given(patch, "disc", r.disc)
             paid == Given(patch, "paid", r.paid)
             retotal == DOMAIN patch \cap {"tax", "disc"} # {}
             total == IF retotal THEN r.lines + tax - disc ELSE r.total
         IN /\ Updatable(i, patch)
            /\ retotal => disc <= r.lines + tax
            /\ inv' = [inv EXCEPT ![i] =
                         [r EXCEPT !.status = status, !.tax = tax, !.disc = disc,
                                   !.paid = paid, !.total = total,
                                   !.archived = Given(patch, "archived", r.archived),
                                   !.rem = Remaining(status, total, paid)]]
    BY DEF UpdateInvoice
  <1> HIDE DEF r
  <1> DEFINE status == Given(patch, "status", r.status)
             tax == Given(patch, "tax", r.tax)
             disc == Given(patch, "disc", r.disc)
             paid == Given(patch, "paid", r.paid)
             archived == Given(patch, "archived", r.archived)
             retotal == DOMAIN patch \cap {"tax", "disc"} # {}
             total == IF retotal THEN r.lines + tax - disc ELSE r.total
             rem == Remaining(status, total, paid)
             q == [r EXCEPT !.status = status, !.tax = tax, !.disc = disc, !.paid = paid,
                            !.total = total, !.archived = archived, !.rem = rem]
  <1>3. inv' = [inv EXCEPT ![i] = q] /\ (retotal => disc <= r.lines + tax)
    BY <1>2
  <1>4. /\ r.status \in InvoiceStatus /\ r.tax \in Nat /\ r.disc \in Nat /\ r.paid \in Nat
        /\ r.total \in Nat /\ r.lines \in Nat /\ r.archived \in BOOLEAN
    BY <1>1 DEF Invoice
  <1>5. /\ status \in InvoiceStatus /\ tax \in Nat /\ disc \in Nat /\ paid \in Nat
        /\ archived \in BOOLEAN
    BY <1>4, SalesConstants DEF Given
  <1>6. total \in Nat
    <2> HIDE DEF tax, disc
    <2>1. CASE retotal
      BY <2>1, <1>3, <1>4, <1>5
    <2>2. CASE ~retotal
      BY <2>2, <1>4
    <2> QED
      BY <2>1, <2>2
  <1> HIDE DEF status, tax, disc, paid, archived, total
  <1>7. rem \in Nat /\ rem \in {0, Debt(total, paid)} /\ (status = "CREDIT" => rem = Debt(total, paid))
    BY <1>5, <1>6, DebtNat DEF Remaining
  <1> HIDE DEF rem
  <1>8. q \in Invoice
    BY <1>1, <1>5, <1>6, <1>7 DEF Invoice
  <1>9. q.rem = rem /\ q.total = total /\ q.paid = paid /\ q.status = status
    BY <1>1 DEF Invoice
  <1> HIDE DEF q
  <1>10. DebtTrue(q)
    BY <1>7, <1>9 DEF DebtTrue
  <1>11. InvoicesRight'
    BY <1>3, <1>8, <1>10, InvoiceWritten
  <1>12. UNCHANGED <<cred, keyAt, job, today, returned, charged, got, clobbered>> /\ Request /\ Free(i)
    BY DEF UpdateInvoice
  <1>13. CancelHolds'
    BY <1>3, <1>12, CancelsUndisturbed DEF InvoicesRight
  <1> QED
    BY PartsNext, <1>11, <1>12, <1>13, CreditsKept, JobsKept, KeysKept, CountsKept

LEMMA ArchiveInvoiceInv ==
  ASSUME SalesInv, NEW i \in Invoices, ArchiveInvoice(i)
  PROVE  SalesInv'
  <1> USE Parts
  <1> DEFINE q == [inv[i] EXCEPT !.archived = TRUE]
  <1>1. inv' = [inv EXCEPT ![i] = q]
    BY DEF ArchiveInvoice
  <1>2. q \in Invoice /\ DebtTrue(q)
    BY DEF InvoicesRight, DebtHonest, DebtTrue, Invoice
  <1> HIDE DEF q
  <1>3. InvoicesRight'
    BY <1>1, <1>2, InvoiceWritten
  <1>4. UNCHANGED <<cred, keyAt, job, today, returned, charged, got, clobbered>> /\ Request /\ Free(i)
    BY DEF ArchiveInvoice
  <1>5. CancelHolds'
    BY <1>1, <1>4, CancelsUndisturbed DEF InvoicesRight
  <1> QED
    BY PartsNext, <1>3, <1>4, <1>5, CreditsKept, JobsKept, KeysKept, CountsKept

LEMMA DeleteInvoiceInv ==
  ASSUME SalesInv, NEW i \in Invoices, DeleteInvoice(i)
  PROVE  SalesInv'
  <1> USE Parts
  <1> DEFINE q == [NoInvoice EXCEPT !.state = "gone"]
             z == [NoCredit EXCEPT !.state = "gone"]
  <1>1. /\ inv' = [inv EXCEPT ![i] = q]
        /\ cred' = [c \in Credits |-> IF c \in CreditsOf(i) THEN z ELSE cred[c]]
        /\ keyAt' = [k \in Keys |-> IF keyAt[k] = i THEN None ELSE keyAt[k]]
        /\ charged' = [charged EXCEPT ![i] = [k \in Keys |-> 0]]
        /\ UNCHANGED <<job, today, returned, got, clobbered>> /\ Request /\ Free(i)
    BY DEF DeleteInvoice
  <1>2. q \in Invoice /\ DebtTrue(q)
    BY RowTypes DEF NoInvoice, DebtTrue, Invoice
  <1>3. z \in Credit /\ Balanced(z) /\ StatusTrue(z) /\ z.state = "gone"
    BY RowTypes DEF NoCredit, Balanced, StatusTrue, Credit
  <1> HIDE DEF q, z
  <1>4. InvoicesRight'
    BY <1>1, <1>2, InvoiceWritten
  <1>5. CreditsRight'
    <2>1. cred' \in [Credits -> Credit] /\ got' \in [Credits -> Int] /\ clobbered' \in [Credits -> BOOLEAN]
      BY <1>1, <1>3 DEF CreditsRight
    <2> QED
      BY <1>1, <1>3, <2>1, CreditsWritten
  <1>6. CancelHolds'
    BY <1>1, CancelsUndisturbed DEF InvoicesRight, CreditsOf
  <1>7. KeysRight'
    <2>1. keyAt' \in [Keys -> Invoices \cup {None}] /\ charged' \in [Invoices -> [Keys -> Nat]]
      BY <1>1 DEF KeysRight
    <2>2. KeysHeld'
      BY <1>1 DEF KeysRight, KeysHeld
    <2> QED
      BY <2>1, <2>2 DEF KeysRight
  <1> QED
    BY PartsNext, <1>1, <1>4, <1>5, <1>6, <1>7, JobsKept, CountsKept

LEMMA ProductDeletedInv ==
  ASSUME SalesInv, NEW i \in Invoices, ProductDeleted(i)
  PROVE  SalesInv'
  <1> USE Parts
  <1>1. PICK rest \in 0..(inv[i].lines - 1) : inv' = [inv EXCEPT ![i].lines = rest]
    BY DEF ProductDeleted
  <1> DEFINE q == [inv[i] EXCEPT !.lines = rest]
  <1>2. inv' = [inv EXCEPT ![i] = q]
    BY <1>1
  <1>3. q \in Invoice /\ DebtTrue(q) /\ q.state = inv[i].state /\ q.status = inv[i].status
    BY DEF InvoicesRight, DebtHonest, DebtTrue, Invoice
  <1> HIDE DEF q
  <1>4. InvoicesRight'
    BY <1>2, <1>3, InvoiceWritten
  <1>5. UNCHANGED <<cred, keyAt, job, today, returned, charged, got, clobbered>> /\ Request
    BY DEF ProductDeleted
  <1>6. CancelHolds'
    BY <1>2, <1>3, <1>5, CancelsUndisturbed DEF InvoicesRight
  <1> QED
    BY PartsNext, <1>4, <1>5, <1>6, CreditsKept, JobsKept, KeysKept, CountsKept

\* What paying n on a live credit does to its row and to its history.
LEMMA CreditPaid ==
  ASSUME SalesInv, NEW c \in Credits, Owed(c), NEW n \in Int,
         cred[c].paid + n >= 0, cred[c].rem - n >= 0
  PROVE  LET q == PaidOff(cred[c], n) IN
         /\ q \in Credit /\ Balanced(q) /\ StatusTrue(q)
         /\ q.state = "live" /\ q.invoice = cred[c].invoice
         /\ got[c] + n \in Int /\ clobbered[c] \in BOOLEAN
         /\ clobbered[c] \/ q.paid = got[c] + n
  <1>1. TypeOK /\ cred[c] \in Credit /\ Balanced(cred[c])
    BY DEF SalesInv, TypeOK, CreditBalances
  <1>2. cred[c].state = "live" /\ got[c] \in Int /\ clobbered[c] \in BOOLEAN
    BY DEF SalesInv, TypeOK, Owed
  <1>3. clobbered[c] \/ cred[c].paid = got[c]
    BY DEF SalesInv, NothingLostUnlessClobbered
  <1> DEFINE q == PaidOff(cred[c], n)
  <1>4. /\ q \in Credit /\ Balanced(q) /\ StatusTrue(q) /\ q.paid = cred[c].paid + n
        /\ q.state = cred[c].state /\ q.invoice = cred[c].invoice
    BY <1>1, PaidOffRow
  <1> HIDE DEF q
  <1>5. clobbered[c] \/ q.paid = got[c] + n
    BY <1>3, <1>4
  <1>6. got[c] + n \in Int
    BY <1>2
  <1>7. /\ q \in Credit /\ Balanced(q) /\ StatusTrue(q)
        /\ q.state = "live" /\ q.invoice = cred[c].invoice
        /\ got[c] + n \in Int /\ clobbered[c] \in BOOLEAN
        /\ clobbered[c] \/ q.paid = got[c] + n
    BY <1>2, <1>4, <1>5, <1>6
  <1> QED
    BY <1>7 DEF q

LEMMA PayInvoiceInv ==
  ASSUME SalesInv, NEW i \in Invoices, PayInvoice(i)
  PROVE  SalesInv'
  <1> USE Parts
  <1>1. PICK amount \in Amounts, k \in Keys \cup {NoKey} :
         LET n == Applied(i, amount)
         IN /\ k \in Keys => keyAt[k] = None
            /\ \A c \in Following(i) : cred[c].paid + n >= 0 /\ cred[c].rem - n >= 0
            /\ inv' = [inv EXCEPT ![i] = Received(inv[i], n, Debt(inv[i].total, inv[i].paid + n))]
            /\ cred' = [c \in Credits |-> IF c \in Following(i) THEN PaidOff(cred[c], n) ELSE cred[c]]
            /\ got' = [c \in Credits |-> IF c \in Following(i) THEN got[c] + n ELSE got[c]]
            /\ StoreKey(k, i)
            /\ charged' = [charged EXCEPT ![i] =
                                    [x \in Keys |-> charged[i][x] + IF x = k THEN 1 ELSE 0]]
    BY DEF PayInvoice
  <1>2. UNCHANGED <<job, today, returned, clobbered>> /\ Request /\ Free(i)
    BY DEF PayInvoice
  <1> DEFINE n == Applied(i, amount)
             q == Received(inv[i], n, Debt(inv[i].total, inv[i].paid + n))
  <1>3. inv[i] \in Invoice /\ amount \in Nat
    BY SalesConstants DEF InvoicesRight
  <1>4. n \in Int /\ inv[i].paid + n >= 0
    BY <1>3 DEF Applied, Least, Invoice
  <1>5. /\ \A c \in Following(i) : cred[c].paid + n >= 0 /\ cred[c].rem - n >= 0
        /\ inv' = [inv EXCEPT ![i] = q]
        /\ cred' = [c \in Credits |-> IF c \in Following(i) THEN PaidOff(cred[c], n) ELSE cred[c]]
        /\ got' = [c \in Credits |-> IF c \in Following(i) THEN got[c] + n ELSE got[c]]
    BY <1>1
  <1> HIDE DEF n
  <1>6. q \in Invoice /\ DebtTrue(q)
    BY <1>3, <1>4, ReceivedRow
  <1> HIDE DEF q
  <1>7. InvoicesRight'
    BY <1>5, <1>6, InvoiceWritten
  <1>8. \A c \in Following(i) : c \in Credits /\ Owed(c) /\ cred[c].invoice = i
    BY DEF Following, CreditsOf
  <1>9. \A c \in Following(i) :
          LET p == PaidOff(cred[c], n) IN
            /\ p \in Credit /\ Balanced(p) /\ StatusTrue(p)
            /\ p.state = "live" /\ p.invoice = cred[c].invoice
            /\ got[c] + n \in Int /\ clobbered[c] \in BOOLEAN
            /\ clobbered[c] \/ p.paid = got[c] + n
    BY <1>4, <1>5, <1>8, CreditPaid
  <1>10. CreditsRight'
    <2>1. /\ cred' \in [Credits -> Credit] /\ got' \in [Credits -> Int]
          /\ clobbered' \in [Credits -> BOOLEAN]
      BY <1>2, <1>5, <1>9 DEF CreditsRight
    <2>2. ASSUME NEW c \in Credits
          PROVE  \/ cred'[c] = cred[c] /\ got'[c] = got[c] /\ clobbered'[c] = clobbered[c]
                 \/ /\ Balanced(cred'[c]) /\ StatusTrue(cred'[c]) /\ cred'[c].state # "new"
                    /\ cred'[c].state = "live" => (clobbered'[c] \/ cred'[c].paid = got'[c])
      <3>1. CASE c \in Following(i)
        <4> DEFINE p == PaidOff(cred[c], n)
        <4>1. cred'[c] = p /\ got'[c] = got[c] + n /\ clobbered'[c] = clobbered[c]
          BY <3>1, <1>2, <1>5
        <4>2. /\ Balanced(p) /\ StatusTrue(p) /\ p.state = "live"
              /\ clobbered[c] \/ p.paid = got[c] + n
          BY <3>1, <1>9
        <4> HIDE DEF p
        <4> QED
          BY <4>1, <4>2
      <3>2. CASE c \notin Following(i)
        BY <3>2, <1>2, <1>5
      <3> QED
        BY <3>1, <3>2
    <2> QED
      BY <1>2, <2>1, <2>2, CreditsWritten
  <1>11. CancelHolds'
    <2>1. \A j \in Invoices \ {i} : inv'[j] = inv[j]
      BY <1>5 DEF InvoicesRight
    <2>2. \A c \in Credits : \/ cred[c].invoice = i
                             \/ cred'[c] = cred[c]
      BY <1>5, <1>8
    <2> QED
      BY <1>2, <2>1, <2>2, CancelsUndisturbed
  <1>12. KeysRight'
    <2>1. /\ keyAt' = [x \in Keys |-> IF x = k THEN i ELSE keyAt[x]]
          /\ charged' = [charged EXCEPT ![i] =
                                    [x \in Keys |-> charged[i][x] + IF x = k THEN 1 ELSE 0]]
          /\ k \in Keys => keyAt[k] = None
      BY <1>1 DEF StoreKey
    <2>2. keyAt' \in [Keys -> Invoices \cup {None}]
      BY <2>1 DEF KeysRight
    <2>3. \A x \in Keys : charged[i][x] + (IF x = k THEN 1 ELSE 0) \in Nat
      BY DEF KeysRight
    <2>4. charged' \in [Invoices -> [Keys -> Nat]]
      BY <2>1, <2>3 DEF KeysRight
    <2>5. ASSUME NEW x \in Keys, NEW j \in Invoices, charged'[j][x] > 0
          PROVE  charged'[j][x] = 1 /\ keyAt'[x] = j
      <3>1. charged[j][x] \in Nat /\ (charged[j][x] > 0 => charged[j][x] = 1 /\ keyAt[x] = j)
        BY DEF KeysRight, KeysHeld
      <3>2. charged'[j][x] = IF j = i /\ x = k THEN charged[j][x] + 1 ELSE charged[j][x]
        BY <2>1, <3>1 DEF KeysRight
      <3>3. keyAt'[x] = IF x = k THEN i ELSE keyAt[x]
        BY <2>1
      <3>4. x = k => keyAt[x] = None
        BY <2>1
      <3>5. x = k => charged[j][x] = 0
        BY <3>1, <3>4, SalesConstants
      <3> QED
        BY <2>5, <3>1, <3>2, <3>3, <3>5
    <2> QED
      BY <2>2, <2>4, <2>5 DEF KeysRight, KeysHeld
  <1> QED
    BY PartsNext, <1>2, <1>7, <1>10, <1>11, <1>12, JobsKept, CountsKept

LEMMA ApplyCreditPaymentInv ==
  ASSUME SalesInv, NEW i \in Invoices, ApplyCreditPayment(i)
  PROVE  SalesInv'
  <1> USE Parts
  <1>1. PICK c \in Credits, amount \in Amounts :
         /\ CreditsOf(i) = {c}
         /\ cred[c].status \notin {"SETTLED", "CANCELLED"}
         /\ LET n == Least(amount, Least(inv[i].rem, cred[c].rem))
                rem == Remaining("CREDIT", inv[i].total, inv[i].paid + n)
            IN /\ n > 0
               /\ inv' = [inv EXCEPT ![i] = Received(inv[i], n, rem)]
               /\ cred' = [cred EXCEPT ![c] = PaidOff(cred[c], n)]
               /\ got' = [got EXCEPT ![c] = @ + n]
    BY DEF ApplyCreditPayment
  <1>2. UNCHANGED <<keyAt, job, today, returned, charged, clobbered>> /\ Request /\ Free(i)
    BY DEF ApplyCreditPayment
  <1> DEFINE n == Least(amount, Least(inv[i].rem, cred[c].rem))
             q == Received(inv[i], n, Debt(inv[i].total, inv[i].paid + n))
             p == PaidOff(cred[c], n)
  <1>3. inv[i] \in Invoice /\ cred[c] \in Credit /\ amount \in Nat
    BY SalesConstants DEF InvoicesRight, CreditsRight
  <1>4. n \in Nat /\ inv[i].paid + n >= 0 /\ cred[c].paid + n >= 0 /\ cred[c].rem - n >= 0
    BY <1>3 DEF Least, Invoice, Credit
  <1>5. /\ inv' = [inv EXCEPT ![i] = q] /\ cred' = [cred EXCEPT ![c] = p]
        /\ got' = [got EXCEPT ![c] = got[c] + n]
    BY <1>1 DEF Remaining
  <1> HIDE DEF n
  <1>6. q \in Invoice /\ DebtTrue(q)
    BY <1>3, <1>4, ReceivedRow
  <1> HIDE DEF q
  <1>7. InvoicesRight'
    BY <1>5, <1>6, InvoiceWritten
  <1>8. Owed(c) /\ cred[c].invoice = i
    BY <1>1 DEF CreditsOf
  <1>9. /\ p \in Credit /\ Balanced(p) /\ StatusTrue(p)
        /\ p.state = "live" /\ p.invoice = cred[c].invoice
        /\ got[c] + n \in Int /\ clobbered[c] \in BOOLEAN
        /\ clobbered[c] \/ p.paid = got[c] + n
    BY <1>4, <1>8, CreditPaid
  <1> HIDE DEF p
  <1>10. clobbered' = [clobbered EXCEPT ![c] = clobbered[c]]
    BY <1>2 DEF CreditsRight
  <1>11. CreditsRight'
    BY <1>2, <1>5, <1>9, <1>10, CreditWritten
  <1>12. CancelHolds'
    <2>1. \A j \in Invoices \ {i} : inv'[j] = inv[j]
      BY <1>5 DEF InvoicesRight
    <2>2. \A d \in Credits \ {c} : cred'[d] = cred[d]
      BY <1>5 DEF CreditsRight
    <2> QED
      BY <1>2, <1>8, <2>1, <2>2, CancelsUndisturbed
  <1> QED
    BY PartsNext, <1>2, <1>7, <1>11, <1>12, JobsKept, KeysKept, CountsKept

LEMMA CreateCreditInv ==
  ASSUME SalesInv, NEW c \in Credits, CreateCredit(c)
  PROVE  SalesInv'
  <1> USE Parts
  <1>1. PICK i \in Invoices \cup {None}, amount \in Amounts, due \in 0..MaxDay :
           /\ i \in Invoices => Live(i) /\ Free(i)
           /\ cred' = [cred EXCEPT ![c] = NewCredit(i, amount, 0, due)]
    BY DEF CreateCredit
  <1>2. /\ UNCHANGED <<inv, keyAt, job, today, returned, charged, got, clobbered>>
        /\ Request /\ cred[c].state = "new"
    BY DEF CreateCredit, NextCredit
  <1> DEFINE q == NewCredit(i, amount, 0, due)
  <1>3. TypeOK /\ amount \in Nat /\ 0 <= amount
    BY SalesConstants DEF SalesInv
  <1>4. q \in Credit /\ Balanced(q) /\ StatusTrue(q) /\ q.paid = 0 /\ q.state = "live"
    BY <1>3, NewCreditRow
  <1>5. cred' = [cred EXCEPT ![c] = q]
    BY <1>1
  <1> HIDE DEF q
  <1>6. /\ got' = [got EXCEPT ![c] = 0] /\ clobbered' = [clobbered EXCEPT ![c] = clobbered[c]]
        /\ clobbered[c] \in BOOLEAN
    BY <1>2 DEF CreditsRight, NothingGotEarly
  <1>7. CreditsRight'
    <2>1. 0 \in Int /\ (clobbered[c] \/ q.paid = 0)
      BY <1>4
    <2> QED
      BY <1>2, <1>4, <1>5, <1>6, <2>1, CreditWritten
  <1>8. \A d \in Credits : Owed(d) => cred'[d] = cred[d]
    BY <1>2, <1>5 DEF CreditsRight, Owed
  <1>9. CancelHolds'
    BY <1>2, <1>8, CancelsUndisturbed
  <1> QED
    BY PartsNext, <1>2, <1>7, <1>9, InvoicesKept, JobsKept, KeysKept, CountsKept

LEMMA PayCreditInv ==
  ASSUME SalesInv, NEW c \in Credits, PayCredit(c)
  PROVE  SalesInv'
  <1> USE Parts
  <1>1. PICK n \in Amounts : /\ n <= cred[c].rem
                             /\ cred' = [cred EXCEPT ![c] = PaidOff(cred[c], n)]
                             /\ got' = [got EXCEPT ![c] = got[c] + n]
    BY DEF PayCredit
  <1>2. UNCHANGED <<inv, keyAt, job, today, returned, charged, clobbered>> /\ Request /\ Owed(c)
    BY DEF PayCredit
  <1> DEFINE p == PaidOff(cred[c], n)
  <1>3. cred[c] \in Credit /\ n \in Nat
    BY SalesConstants DEF CreditsRight
  <1>4. cred[c].paid + n >= 0 /\ cred[c].rem - n >= 0
    BY <1>1, <1>3 DEF Credit
  <1>5. cred' = [cred EXCEPT ![c] = p] /\ got' = [got EXCEPT ![c] = got[c] + n]
    BY <1>1
  <1>6. /\ p \in Credit /\ Balanced(p) /\ StatusTrue(p)
        /\ p.state = "live" /\ p.invoice = cred[c].invoice
        /\ got[c] + n \in Int /\ clobbered[c] \in BOOLEAN
        /\ clobbered[c] \/ p.paid = got[c] + n
    BY <1>2, <1>3, <1>4, CreditPaid
  <1> HIDE DEF p
  <1>7. clobbered' = [clobbered EXCEPT ![c] = clobbered[c]]
    BY <1>2 DEF CreditsRight
  <1>8. CreditsRight'
    BY <1>2, <1>5, <1>6, <1>7, CreditWritten
  <1>9. \A d \in Credits : Owed(d) => cred'[d].state = cred[d].state /\ cred'[d].invoice = cred[d].invoice
    BY <1>2, <1>5, <1>6 DEF CreditsRight, Owed
  <1>10. CancelHolds'
    BY <1>2, <1>9, CancelsUndisturbed
  <1> QED
    BY PartsNext, <1>2, <1>8, <1>10, InvoicesKept, JobsKept, KeysKept, CountsKept

\* What is known of a copy held by a job, and of the row it is written over.
LEMMA CopyRight ==
  ASSUME SalesInv, NEW w \in Workers, NEW c \in job[w].todo
  PROVE  /\ c \in Credits /\ job[w].todo \subseteq Credits
         /\ job[w].seen[c] \in Credit
         /\ Balanced(job[w].seen[c]) /\ StatusTrue(job[w].seen[c])
         /\ job[w].seen[c].state = "live"
  <1>1. job[w] \in Job
    BY DEF SalesInv, TypeOK
  <1>2. c \in Credits /\ job[w].todo \subseteq Credits /\ job[w].seen[c] \in Credit
    BY <1>1 DEF Job
  <1> QED
    BY <1>2 DEF SalesInv, CopiesTrue

\* A copy is written back over a live credit.
LEMMA CopyWritten ==
  ASSUME SalesInv, NEW c \in Credits, Owed(c), NEW r \in Credit, Balanced(r), StatusTrue(r),
         r.state = "live", WriteBack(c, r), UNCHANGED <<today, got>>
  PROVE  /\ CreditsRight'
         /\ \A d \in Credits : cred'[d].invoice = cred[d].invoice /\ cred'[d].state = cred[d].state
  <1>1. CreditsRight /\ cred[c] \in Credit
    BY Parts DEF CreditsRight
  <1> DEFINE q == [r EXCEPT !.invoice = cred[c].invoice]
             lost == clobbered[c] \/ r.paid # cred[c].paid
  <1>2. /\ q.state = "live" /\ q.paid = r.paid /\ q.rem = r.rem /\ q.amount = r.amount
        /\ q.status = r.status /\ q.due = r.due /\ q.invoice = cred[c].invoice
    BY DEF Credit
  <1>3. q \in Credit
    BY <1>1 DEF Credit
  <1>4. cred' = [cred EXCEPT ![c] = q] /\ clobbered' = [clobbered EXCEPT ![c] = lost]
    BY DEF WriteBack
  <1> HIDE DEF q
  <1>5. Balanced(q) /\ StatusTrue(q)
    BY <1>2 DEF Balanced, StatusTrue
  <1>6. lost \/ q.paid = got[c]
    BY <1>2 DEF SalesInv, NothingLostUnlessClobbered
  <1>7. lost \in BOOLEAN /\ got[c] \in Int /\ got' = [got EXCEPT ![c] = got[c]]
    BY <1>1 DEF CreditsRight
  <1> HIDE DEF lost
  <1>8. CreditsRight'
    BY <1>1, <1>2, <1>3, <1>4, <1>5, <1>6, <1>7, CreditWritten
  <1>9. \A d \in Credits : cred'[d].invoice = cred[d].invoice /\ cred'[d].state = cred[d].state
    BY <1>1, <1>2, <1>4 DEF CreditsRight, Owed
  <1> QED
    BY <1>8, <1>9

LEMMA CancelReadInv ==
  ASSUME SalesInv, NEW w \in Workers, NEW i \in Invoices, CancelRead(w, i)
  PROVE  SalesInv'
  <1> USE Parts
  <1> DEFINE newest == {c \in Following(i) : \A d \in Following(i) : d <= c}
             j == [op |-> "cancel", invoice |-> i, seen |-> cred, todo |-> newest]
  <1>1. /\ UNCHANGED <<inv, cred, keyAt, today, returned, charged, got, clobbered>> /\ Request
        /\ Live(i) /\ Free(i) /\ inv[i].status # "CANCELLED" /\ job' = [job EXCEPT ![w] = j]
    BY DEF CancelRead
  <1>2. newest \subseteq Credits /\ \A c \in newest : Owed(c) /\ cred[c].invoice = i
    BY DEF Following, CreditsOf
  <1> HIDE DEF newest
  <1>3. j \in Job
    BY <1>2 DEF CreditsRight, Job
  <1>4. \A c \in Credits : /\ Balanced(j.seen[c]) /\ StatusTrue(j.seen[c])
                           /\ c \in j.todo => j.seen[c].state = "live"
    BY <1>2 DEF CreditsRight, CreditBalances, CreditStatusHonest, Owed
  <1>5. j.op = "cancel" /\ j.invoice = i /\ j.todo = newest
    OBVIOUS
  <1> HIDE DEF j
  <1>6. JobsRight'
    BY <1>1, <1>3, <1>4, JobWritten
  <1>7. job'[w] = j /\ \A v \in Workers \ {w} : job'[v] = job[v]
    BY <1>1 DEF JobsRight
  <1>8. CancelHolds'
    <2>1. ASSUME NEW v \in Workers, job'[v].op = "cancel"
          PROVE  /\ job'[v].invoice \in Invoices
                 /\ Live(job'[v].invoice)
                 /\ inv[job'[v].invoice].status # "CANCELLED"
                 /\ \A u \in Workers \ {v} : job'[u].op = "cancel" => job'[u].invoice # job'[v].invoice
                 /\ \A c \in job'[v].todo : Owed(c) /\ cred[c].invoice = job'[v].invoice
      <3>1. CASE v = w
        BY <3>1, <1>1, <1>2, <1>5, <1>7 DEF Free
      <3>2. CASE v # w
        BY <3>2, <2>1, <1>1, <1>5, <1>7 DEF Free, CancelHolds
      <3> QED
        BY <3>1, <3>2
    <2> QED
      BY <2>1, <1>1 DEF CancelHolds, Live, Owed
  <1> QED
    BY PartsNext, <1>1, <1>6, <1>8, InvoicesKept, CreditsKept, KeysKept, CountsKept

LEMMA CancelWriteInv ==
  ASSUME SalesInv, NEW w \in Workers, CancelWrite(w)
  PROVE  SalesInv'
  <1> USE Parts
  <1> DEFINE i == job[w].invoice
             q == [inv[i] EXCEPT !.status = "CANCELLED"]
  <1>1. /\ job[w].op = "cancel"
        /\ job' = [job EXCEPT ![w] = Idle]
        /\ UNCHANGED <<keyAt, today, left, charged, got>>
        /\ inv' = [inv EXCEPT ![i] = q]
        /\ returned' = [returned EXCEPT ![i] = returned[i] + 1]
    BY DEF CancelWrite
  <1>2. \/ UNCHANGED <<cred, clobbered>>
        \/ \E c \in job[w].todo : WriteBack(c, [job[w].seen[c] EXCEPT !.status = "CANCELLED"])
    BY DEF CancelWrite
  <1>3. i \in Invoices /\ \A c \in job[w].todo : Owed(c)
    BY <1>1 DEF CancelHolds
  <1>4. \A v \in Workers \ {w} : job[v].op = "cancel" => job[v].invoice # i /\ job[v].invoice \in Invoices
    BY <1>1 DEF CancelHolds
  <1> HIDE DEF i
  <1>5. q \in Invoice /\ DebtTrue(q)
    BY <1>3 DEF InvoicesRight, DebtHonest, DebtTrue, Invoice, InvoiceStatus
  <1> HIDE DEF q
  <1>6. InvoicesRight'
    BY <1>1, <1>3, <1>5, InvoiceWritten
  <1>7. /\ CreditsRight'
        /\ \A d \in Credits : cred'[d].invoice = cred[d].invoice /\ cred'[d].state = cred[d].state
    <2>1. CASE UNCHANGED <<cred, clobbered>>
      BY <2>1, <1>1, CreditsKept
    <2>2. CASE \E c \in job[w].todo : WriteBack(c, [job[w].seen[c] EXCEPT !.status = "CANCELLED"])
      <3>1. PICK c \in job[w].todo : WriteBack(c, [job[w].seen[c] EXCEPT !.status = "CANCELLED"])
        BY <2>2
      <3> DEFINE r == [job[w].seen[c] EXCEPT !.status = "CANCELLED"]
      <3>2. /\ c \in Credits /\ job[w].seen[c] \in Credit
            /\ Balanced(job[w].seen[c]) /\ job[w].seen[c].state = "live"
        BY CopyRight
      <3>3. r \in Credit /\ Balanced(r) /\ StatusTrue(r) /\ r.state = "live"
        BY <3>2 DEF Credit, CreditStatus, Balanced, StatusTrue
      <3>4. WriteBack(c, r) /\ Owed(c)
        BY <3>1, <1>3
      <3> HIDE DEF r
      <3> QED
        BY <3>2, <3>3, <3>4, <1>1, CopyWritten
    <2> QED
      BY <2>1, <2>2, <1>2
  <1>8. JobsRight'
    BY <1>1, JobEnds
  <1>9. CancelHolds'
    <2>1. job'[w].op = "idle" /\ \A v \in Workers \ {w} : job'[v] = job[v]
      BY <1>1 DEF JobsRight, Idle
    <2>2. \A j \in Invoices \ {i} : inv'[j] = inv[j]
      BY <1>1 DEF InvoicesRight
    <2>3. \A v \in Workers : job[v].todo \subseteq Credits
      BY DEF JobsRight, Job
    <2>4. ASSUME NEW v \in Workers, job'[v].op = "cancel"
          PROVE  /\ job'[v] = job[v]
                 /\ inv'[job[v].invoice].state = inv[job[v].invoice].state
                 /\ inv'[job[v].invoice].status = inv[job[v].invoice].status
                 /\ \A c \in job[v].todo : /\ cred'[c].state = cred[c].state
                                           /\ cred'[c].invoice = cred[c].invoice
      <3>1. v # w /\ job'[v] = job[v]
        BY <2>1, <2>4
      <3>2. job[v].invoice \in Invoices \ {i}
        BY <3>1, <2>4, <1>4
      <3> QED
        BY <3>1, <3>2, <2>2, <2>3, <1>7
    <2> QED
      BY <2>4, CancelsKept DEF JobsRight
  <1>10. CountsRight'
    BY <1>1, <1>3 DEF CountsRight
  <1> QED
    BY PartsNext, <1>1, <1>6, <1>7, <1>8, <1>9, <1>10, KeysKept

LEMMA OverdueReadInv ==
  ASSUME SalesInv, NEW w \in Workers, OverdueRead(w)
  PROVE  SalesInv'
  <1> USE Parts
  <1> DEFINE late == {c \in Credits : /\ Owed(c)
                                      /\ cred[c].status \in {"PENDING", "PARTIALLY_PAID"}
                                      /\ today > cred[c].due}
             j == [op |-> "overdue", invoice |-> None, todo |-> late, seen |-> cred]
  <1>1. /\ UNCHANGED <<inv, cred, keyAt, today, returned, charged, got, clobbered>>
        /\ Request /\ job' = [job EXCEPT ![w] = j]
    BY DEF OverdueRead
  <1>2. late \subseteq Credits /\ \A c \in late : Owed(c)
    OBVIOUS
  <1> HIDE DEF late
  <1>3. j \in Job
    BY <1>2 DEF CreditsRight, Job
  <1>4. \A c \in Credits : /\ Balanced(j.seen[c]) /\ StatusTrue(j.seen[c])
                           /\ c \in j.todo => j.seen[c].state = "live"
    BY <1>2 DEF CreditsRight, CreditBalances, CreditStatusHonest, Owed
  <1>5. j.op = "overdue"
    OBVIOUS
  <1> HIDE DEF j
  <1>6. JobsRight'
    BY <1>1, <1>3, <1>4, JobWritten
  <1>7. CancelHolds'
    <2>1. \A v \in Workers : job'[v].op = "cancel" => job'[v] = job[v]
      BY <1>1, <1>5 DEF JobsRight
    <2> QED
      BY <2>1, <1>1, CancelsKept DEF JobsRight
  <1> QED
    BY PartsNext, <1>1, <1>6, <1>7, InvoicesKept, CreditsKept, KeysKept, CountsKept

LEMMA OverdueWriteInv ==
  ASSUME SalesInv, NEW w \in Workers, OverdueWrite(w)
  PROVE  SalesInv'
  <1> USE Parts
  <1>1. PICK c \in job[w].todo :
         LET r == MarkedOverdue(job[w].seen[c])
             rest == job[w].todo \ {c}
             next == IF rest = {} THEN Idle ELSE [job[w] EXCEPT !.todo = rest]
         IN \/ /\ r.status # "OVERDUE"
               /\ job' = [job EXCEPT ![w] = next]
               /\ UNCHANGED <<cred, clobbered>>
            \/ /\ r.status = "OVERDUE" /\ Owed(c)
               /\ WriteBack(c, r)
               /\ job' = [job EXCEPT ![w] = next]
            \/ /\ r.status = "OVERDUE" /\ ~Owed(c)
               /\ job' = [job EXCEPT ![w] = Idle]
               /\ UNCHANGED <<cred, clobbered>>
    BY DEF OverdueWrite
  <1> DEFINE r == MarkedOverdue(job[w].seen[c])
             rest == job[w].todo \ {c}
             over == [job[w] EXCEPT !.todo = rest]
             next == IF rest = {} THEN Idle ELSE over
  <1>2. job' = [job EXCEPT ![w] = next] \/ job' = [job EXCEPT ![w] = Idle]
    BY <1>1
  <1>3. UNCHANGED <<cred, clobbered>> \/ (Owed(c) /\ WriteBack(c, r))
    BY <1>1
  <1>4. job[w].op = "overdue" /\ UNCHANGED <<inv, keyAt, today, left, returned, charged, got>>
    BY DEF OverdueWrite
  <1>5. /\ c \in Credits /\ job[w].seen[c] \in Credit /\ Balanced(job[w].seen[c])
        /\ job[w].seen[c].state = "live"
    BY CopyRight
  <1>6. r \in Credit /\ Balanced(r) /\ StatusTrue(r) /\ r.state = "live"
    <2>1. /\ r.paid = job[w].seen[c].paid /\ r.rem = job[w].seen[c].rem
          /\ r.amount = job[w].seen[c].amount /\ r.due = job[w].seen[c].due
          /\ r.state = "live" /\ r.status = StatusFor(job[w].seen[c].status, r.paid, r.rem, r.due)
      BY <1>5 DEF MarkedOverdue, Credit
    <2>2. r \in Credit
      BY <1>5, StatusForType DEF MarkedOverdue, Credit
    <2> HIDE DEF r
    <2>3. Balanced(r)
      BY <1>5, <2>1 DEF Balanced
    <2>4. TypeOK
      BY DEF SalesInv
    <2> QED
      BY <2>1, <2>2, <2>3, <2>4, StatusForTrue
  <1> HIDE DEF r
  <1>7. /\ CreditsRight'
        /\ \A d \in Credits : cred'[d].invoice = cred[d].invoice /\ cred'[d].state = cred[d].state
    <2>1. CASE UNCHANGED <<cred, clobbered>>
      BY <2>1, <1>4, CreditsKept
    <2>2. CASE Owed(c) /\ WriteBack(c, r)
      BY <2>2, <1>4, <1>5, <1>6, CopyWritten
    <2> QED
      BY <2>1, <2>2, <1>3
  <1>8. job[w] \in Job /\ JobsRight
    BY DEF JobsRight
  <1>9. /\ over \in Job /\ over.op = "overdue"
        /\ \A d \in Credits : /\ Balanced(over.seen[d]) /\ StatusTrue(over.seen[d])
                              /\ d \in over.todo => over.seen[d].state = "live"
    <2>1. over.seen = job[w].seen /\ over.todo = rest /\ over.op = "overdue"
      BY <1>4, <1>8 DEF Job
    <2>2. over \in Job
      BY <1>8 DEF Job
    <2> QED
      BY <2>1, <2>2, <1>8 DEF JobsRight, CopiesTrue
  <1> HIDE DEF over, rest
  <1>10. job' = [job EXCEPT ![w] = over] \/ job' = [job EXCEPT ![w] = Idle]
    BY <1>2
  <1>11. JobsRight'
    <2>1. CASE job' = [job EXCEPT ![w] = over]
      BY <2>1, <1>4, <1>8, <1>9, JobWritten
    <2>2. CASE job' = [job EXCEPT ![w] = Idle]
      BY <2>2, <1>4, <1>8, JobEnds
    <2> QED
      BY <2>1, <2>2, <1>10
  <1>12. CancelHolds'
    <2>1. \A v \in Workers : job'[v].op = "cancel" => job'[v] = job[v]
      BY <1>9, <1>10 DEF JobsRight, Idle
    <2>2. \A v \in Workers : job[v].todo \subseteq Credits
      BY DEF JobsRight, Job
    <2> QED
      BY <2>1, <2>2, <1>4, <1>7, CancelsKept DEF JobsRight
  <1> QED
    BY PartsNext, <1>4, <1>7, <1>11, <1>12, InvoicesKept, KeysKept, CountsKept

LEMMA JobFailsInv ==
  ASSUME SalesInv, NEW w \in Workers, JobFails(w)
  PROVE  SalesInv'
  <1> USE Parts
  <1>1. /\ job' = [job EXCEPT ![w] = Idle]
        /\ UNCHANGED <<inv, cred, keyAt, today, left, returned, charged, got, clobbered>>
    BY DEF JobFails
  <1>2. \A v \in Workers : job'[v].op = "cancel" => job'[v] = job[v]
    BY <1>1 DEF JobsRight, Idle
  <1>3. CancelHolds'
    BY <1>1, <1>2, CancelsKept DEF JobsRight
  <1> QED
    BY PartsNext, <1>1, <1>3, JobEnds, InvoicesKept, CreditsKept, KeysKept, CountsKept

\* Time only turns false "today > r.due" true.
LEMMA NextDayInv ==
  ASSUME SalesInv, NextDay
  PROVE  SalesInv'
  <1> USE Parts
  <1>1. /\ today' = today + 1 /\ today < MaxDay
        /\ UNCHANGED <<inv, cred, keyAt, job, left, returned, charged, got, clobbered>>
    BY DEF NextDay
  <1>2. today \in Nat /\ today' \in 0..MaxDay /\ today' > today
    BY <1>1, SalesConstants DEF CountsRight
  <1>3. ASSUME NEW r \in Credit, StatusTrue(r)
        PROVE  StatusTrue(r)'
    <2>1. r.due \in Int
      BY SalesConstants DEF Credit
    <2> QED
      BY <1>2, <1>3, <2>1 DEF StatusTrue
  <1>4. CreditsRight'
    <2>1. CreditStatusHonest'
      BY <1>1, <1>3 DEF CreditsRight, CreditStatusHonest
    <2> QED
      BY <1>1, <2>1 DEF CreditsRight, CreditBalances, NothingLostUnlessClobbered, NothingGotEarly, Owed
  <1>5. JobsRight'
    <2>1. \A w \in Workers, c \in Credits : job[w].seen[c] \in Credit
      BY DEF JobsRight, Job
    <2> QED
      BY <1>1, <1>3, <2>1 DEF JobsRight, CopiesTrue
  <1>6. CancelHolds'
    BY <1>1, CancelsKept DEF JobsRight
  <1>7. CountsRight'
    BY <1>1, <1>2 DEF CountsRight
  <1> QED
    BY PartsNext, <1>1, <1>4, <1>5, <1>6, <1>7, InvoicesKept, KeysKept

LEMMA NextInv == SalesInv /\ [Next]_vars => SalesInv'
  <1> SUFFICES ASSUME SalesInv, [Next]_vars PROVE SalesInv'
    OBVIOUS
  <1>1. ASSUME NEW i \in Invoices, OnInvoice(i) PROVE SalesInv'
    BY <1>1, CreateInvoiceInv, UpdateInvoiceInv, ArchiveInvoiceInv, DeleteInvoiceInv,
       ProductDeletedInv, PayInvoiceInv, ApplyCreditPaymentInv DEF OnInvoice
  <1>2. ASSUME NEW c \in Credits, OnCredit(c) PROVE SalesInv'
    BY <1>2, CreateCreditInv, PayCreditInv DEF OnCredit
  <1>3. ASSUME NEW w \in Workers, InJob(w) PROVE SalesInv'
    BY <1>3, CancelReadInv, CancelWriteInv, OverdueReadInv, OverdueWriteInv, JobFailsInv DEF InJob
  <1>4. CASE NextDay
    BY <1>4, NextDayInv
  <1>5. CASE UNCHANGED vars
    <2>1. InvoicesRight' /\ CreditsRight' /\ JobsRight'
      BY <1>5, Parts, InvoicesKept, CreditsKept, JobsKept DEF vars
    <2>2. KeysRight' /\ CountsRight'
      BY <1>5, Parts, KeysKept, CountsKept DEF vars
    <2>3. CancelHolds'
      BY <1>5, Parts, CancelsKept DEF vars, JobsRight
    <2> QED
      BY <2>1, <2>2, <2>3, PartsNext
  <1> QED
    BY <1>1, <1>2, <1>3, <1>4, <1>5 DEF Next
-----------------------------------------------------------------------------
(* The theorems. *)

\* The invariant of invoices, payments, credits and jobs holds in every state.
THEOREM SalesInvariant == Spec => []SalesInv
  <1>1. Init => SalesInv
    BY InitInv
  <1>2. SalesInv /\ [Next]_vars => SalesInv'
    BY NextInv
  <1> QED
    BY <1>1, <1>2, PTL DEF Spec

\* No amount of an invoice or of a credit ever becomes negative.
THEOREM SalesTypeCorrect == Spec => []TypeOK
  <1>1. SalesInv => TypeOK
    BY DEF SalesInv
  <1> QED
    BY <1>1, SalesInvariant, PTL

\* A credit's paid and remaining amounts always add up to what was lent, also
\* after a stale copy was written back.
THEOREM SalesCreditBalances == Spec => []CreditBalances
  <1>1. SalesInv => CreditBalances
    BY DEF SalesInv
  <1> QED
    BY <1>1, SalesInvariant, PTL

\* A credit's status always tells its amounts.
THEOREM SalesCreditStatusHonest == Spec => []CreditStatusHonest
  <1>1. SalesInv => CreditStatusHonest
    BY DEF SalesInv
  <1> QED
    BY <1>1, SalesInvariant, PTL

\* A CREDIT invoice always owes its total less what was paid.
THEOREM SalesDebtHonest == Spec => []DebtHonest
  <1>1. SalesInv => DebtHonest
    BY DEF SalesInv
  <1> QED
    BY <1>1, SalesInvariant, PTL

\* A credit that no stale copy was written over has lost no payment.
THEOREM SalesNothingLost == Spec => []NothingLostUnlessClobbered
  <1>1. SalesInv => NothingLostUnlessClobbered
    BY DEF SalesInv
  <1> QED
    BY <1>1, SalesInvariant, PTL

\* A payment repeated with its idempotency key is taken at most once, however
\* many invoices it is sent to.
THEOREM SalesChargedOnce == Spec => []ChargedOnce
  <1>1. SalesInv => ChargedOnce
    <2> SUFFICES ASSUME SalesInv, NEW k \in Keys, NEW i \in Invoices, charged[i][k] > 0
                 PROVE  charged[i][k] = 1 /\ \A j \in Invoices \ {i} : charged[j][k] = 0
      BY DEF ChargedOnce
    <2>1. charged[i][k] = 1 /\ keyAt[k] = i
      BY DEF SalesInv, KeysHeld
    <2>2. ASSUME NEW j \in Invoices \ {i} PROVE charged[j][k] = 0
      <3>1. charged[j][k] \in Nat
        BY DEF SalesInv, TypeOK
      <3>2. ~(charged[j][k] > 0)
        BY <2>1 DEF SalesInv, KeysHeld
      <3> QED
        BY <3>1, <3>2
    <2> QED
      BY <2>1, <2>2
  <1> QED
    BY <1>1, SalesInvariant, PTL

\* No step reopens a completed invoice or changes its total.
THEOREM SalesCompletedStay == Spec => CompletedInvoicesStay
  <1>1. SalesInv /\ [Next]_vars => [CompletedStays]_vars
    <2> SUFFICES ASSUME SalesInv, Next PROVE CompletedStays
      BY DEF CompletedStays
    <2>1. inv \in [Invoices -> Invoice]
      BY DEF SalesInv, TypeOK
    <2>2. ASSUME NEW i \in Invoices, CreateInvoice(i) PROVE CompletedStays
      BY <2>1, <2>2 DEF CreateInvoice, CompletedStays, Live
    <2>3. ASSUME NEW i \in Invoices, UpdateInvoice(i) PROVE CompletedStays
      <3>1. PICK patch \in Patches :
              /\ Updatable(i, patch)
              /\ inv'[i].status = Given(patch, "status", inv[i].status)
        BY <2>1, <2>3 DEF UpdateInvoice, Invoice
      <3>2. inv[i].status = "COMPLETED" => inv'[i].status = "CANCELLED"
        BY <3>1 DEF Updatable, Given
      <3>3. \A j \in Invoices \ {i} : inv'[j] = inv[j]
        BY <2>1, <2>3 DEF UpdateInvoice
      <3> QED
        BY <3>2, <3>3 DEF CompletedStays
    <2>4. ASSUME NEW i \in Invoices, ArchiveInvoice(i) PROVE CompletedStays
      BY <2>1, <2>4 DEF ArchiveInvoice, CompletedStays, Invoice
    <2>5. ASSUME NEW i \in Invoices, DeleteInvoice(i) PROVE CompletedStays
      <3>1. inv'[i].state = "gone" /\ \A j \in Invoices \ {i} : inv'[j] = inv[j]
        BY <2>1, <2>5 DEF DeleteInvoice, NoInvoice
      <3> QED
        BY <3>1 DEF CompletedStays
    <2>6. ASSUME NEW i \in Invoices, PayInvoice(i) PROVE CompletedStays
      <3>1. PICK n, rem : inv' = [inv EXCEPT ![i] = Received(inv[i], n, rem)]
        BY <2>6 DEF PayInvoice
      <3>2. inv'[i].total = inv[i].total /\ inv'[i].status \in {"COMPLETED", inv[i].status}
        BY <2>1, <3>1 DEF Received, Invoice
      <3>3. \A j \in Invoices \ {i} : inv'[j] = inv[j]
        BY <2>1, <3>1
      <3> QED
        BY <3>2, <3>3 DEF CompletedStays
    <2>7. ASSUME NEW i \in Invoices, ApplyCreditPayment(i) PROVE CompletedStays
      <3>1. inv[i].status = "CREDIT" /\ \A j \in Invoices \ {i} : inv'[j] = inv[j]
        BY <2>1, <2>7 DEF ApplyCreditPayment
      <3> QED
        BY <3>1 DEF CompletedStays
    <2>8. ASSUME NEW w \in Workers, CancelWrite(w) PROVE CompletedStays
      <3>1. job[w].invoice \in Invoices
        BY <2>8 DEF SalesInv, CancelHolds, CancelWrite
      <3> QED
        BY <2>1, <2>8, <3>1 DEF CancelWrite, CompletedStays, Invoice
    <2>9. ASSUME NEW i \in Invoices, ProductDeleted(i) PROVE CompletedStays
      <3>1. PICK rest : inv' = [inv EXCEPT ![i].lines = rest]
        BY <2>9 DEF ProductDeleted
      <3> QED
        BY <2>1, <3>1 DEF CompletedStays, Invoice
    <2>10. ASSUME UNCHANGED inv PROVE CompletedStays
      BY <2>10 DEF CompletedStays
    <2> QED
      BY <2>2, <2>3, <2>4, <2>5, <2>6, <2>7, <2>8, <2>9, <2>10
      DEF Next, OnInvoice, OnCredit, InJob, CreateCredit, PayCredit, CancelRead, OverdueRead,
          OverdueWrite, JobFails, NextDay
  <1> QED
    BY <1>1, SalesInvariant, PTL DEF Spec, CompletedInvoicesStay

\* The units of an invoice go back to stock only while it is not cancelled.
THEOREM SalesNoDoubleCancel == Spec => NoDoubleCancel
  <1>1. SalesInv /\ [Next]_vars => [ReturnOnce]_vars
    <2> SUFFICES ASSUME SalesInv, Next PROVE ReturnOnce
      BY DEF ReturnOnce
    <2>1. ASSUME NEW w \in Workers, CancelWrite(w) PROVE ReturnOnce
      <3>1. inv[job[w].invoice].status # "CANCELLED"
        BY <2>1 DEF SalesInv, CancelHolds, CancelWrite
      <3>2. \A i \in Invoices \ {job[w].invoice} : returned'[i] = returned[i]
        BY <2>1 DEF SalesInv, TypeOK, CancelWrite
      <3> QED
        BY <3>1, <3>2 DEF ReturnOnce
    <2>2. ASSUME UNCHANGED returned PROVE ReturnOnce
      BY <2>2 DEF ReturnOnce
    <2> QED
      BY <2>1, <2>2
      DEF Next, OnInvoice, OnCredit, InJob, CreateInvoice, UpdateInvoice, ArchiveInvoice,
          DeleteInvoice, ProductDeleted, PayInvoice, ApplyCreditPayment, CreateCredit, PayCredit, CancelRead,
          OverdueRead, OverdueWrite, JobFails, NextDay
  <1> QED
    BY <1>1, SalesInvariant, PTL DEF Spec, NoDoubleCancel
-----------------------------------------------------------------------------
(* Loans: what was lent on a credit never changes, because a copy that is    *)
(* written back still has it.                                                *)

LoansAgree == \A w \in Workers : \A c \in job[w].todo :
                /\ cred[c].state # "new"
                /\ Owed(c) => job[w].seen[c].amount = cred[c].amount
LoansStay == \A c \in Credits : cred[c].state # "new" =>
               /\ cred'[c].state # "new"
               /\ cred'[c].state = "live" => Owed(c) /\ cred'[c].amount = cred[c].amount

LEMMA PaidOffLoan ==
  ASSUME NEW r \in Credit, NEW n
  PROVE  PaidOff(r, n).amount = r.amount /\ PaidOff(r, n).state = r.state
  BY DEF PaidOff, Credit

LEMMA WriteBackLoan ==
  ASSUME SalesInv, LoansAgree, NEW w \in Workers, NEW c \in job[w].todo, Owed(c),
         NEW r, r.amount = job[w].seen[c].amount, r.state = "live", r \in Credit, WriteBack(c, r)
  PROVE  LoansStay
  <1>1. c \in Credits /\ cred \in [Credits -> Credit]
    BY CopyRight DEF SalesInv, TypeOK
  <1>2. cred'[c].amount = cred[c].amount /\ cred'[c].state = "live"
    BY <1>1 DEF WriteBack, LoansAgree, Credit
  <1>3. \A d \in Credits \ {c} : cred'[d] = cred[d]
    BY <1>1 DEF WriteBack
  <1> QED
    BY <1>2, <1>3 DEF LoansStay, Owed

LEMMA LoansStep ==
  ASSUME SalesInv, LoansAgree, [Next]_vars
  PROVE  LoansStay
  <1>1. cred \in [Credits -> Credit]
    BY DEF SalesInv, TypeOK
  <1>2. ASSUME UNCHANGED cred
        PROVE  LoansStay
    BY <1>2 DEF LoansStay, Owed
  <1>3. ASSUME NEW c \in Credits, NextCredit(c), NEW r, cred' = [cred EXCEPT ![c] = r]
        PROVE  LoansStay
    BY <1>1, <1>3 DEF LoansStay, NextCredit, Owed
  <1>4. ASSUME NEW i \in Invoices, CreateInvoice(i)
        PROVE  LoansStay
    BY <1>2, <1>3, <1>4 DEF CreateInvoice
  <1>5. ASSUME NEW i \in Invoices, DeleteInvoice(i)
        PROVE  LoansStay
    <2>1. \A c \in Credits : cred'[c] = cred[c] \/ cred'[c].state = "gone"
      BY <1>5 DEF DeleteInvoice, NoCredit
    <2> QED
      BY <2>1 DEF LoansStay, Owed
  <1>6. ASSUME \A c \in Credits : cred'[c] = cred[c] \/ \E n : cred'[c] = PaidOff(cred[c], n)
        PROVE  LoansStay
    <2>1. \A c \in Credits : cred'[c].state = cred[c].state /\ cred'[c].amount = cred[c].amount
      BY <1>1, <1>6, PaidOffLoan
    <2> QED
      BY <2>1 DEF LoansStay, Owed
  <1>7. ASSUME NEW i \in Invoices, PayInvoice(i)
        PROVE  LoansStay
    BY <1>6, <1>7 DEF PayInvoice
  <1>8. ASSUME NEW i \in Invoices, ApplyCreditPayment(i)
        PROVE  LoansStay
    BY <1>1, <1>6, <1>8 DEF ApplyCreditPayment
  <1>9. ASSUME NEW c \in Credits, CreateCredit(c)
        PROVE  LoansStay
    BY <1>3, <1>9 DEF CreateCredit
  <1>10. ASSUME NEW c \in Credits, PayCredit(c)
         PROVE  LoansStay
    BY <1>1, <1>6, <1>10 DEF PayCredit
  <1>11. ASSUME NEW w \in Workers, CancelWrite(w)
         PROVE  LoansStay
    <2>1. CASE UNCHANGED <<cred, clobbered>>
      BY <1>2, <2>1
    <2>2. ASSUME NEW c \in job[w].todo, WriteBack(c, [job[w].seen[c] EXCEPT !.status = "CANCELLED"])
          PROVE  LoansStay
      <3> DEFINE r == [job[w].seen[c] EXCEPT !.status = "CANCELLED"]
      <3>1. job[w].seen[c] \in Credit /\ job[w].seen[c].state = "live"
        BY CopyRight
      <3>2. r \in Credit /\ r.amount = job[w].seen[c].amount /\ r.state = "live"
        BY <3>1 DEF Credit, CreditStatus
      <3>3. Owed(c)
        BY <1>11 DEF SalesInv, CancelHolds, CancelWrite
      <3> HIDE DEF r
      <3>4. WriteBack(c, r)
        BY <2>2 DEF r
      <3> QED
        BY <3>2, <3>3, <3>4, WriteBackLoan
    <2> QED
      BY <1>11, <2>1, <2>2 DEF CancelWrite
  <1>12. ASSUME NEW w \in Workers, OverdueWrite(w)
         PROVE  LoansStay
    <2>1. PICK c \in job[w].todo : \/ UNCHANGED cred
                                   \/ Owed(c) /\ WriteBack(c, MarkedOverdue(job[w].seen[c]))
      BY <1>12 DEF OverdueWrite
    <2> DEFINE r == MarkedOverdue(job[w].seen[c])
    <2>2. job[w].seen[c] \in Credit /\ job[w].seen[c].state = "live"
      BY CopyRight
    <2>3. r \in Credit /\ r.amount = job[w].seen[c].amount /\ r.state = "live"
      BY <2>2, StatusForType DEF MarkedOverdue, Credit
    <2> HIDE DEF r
    <2>4. CASE Owed(c) /\ WriteBack(c, r)
      BY <2>3, <2>4, WriteBackLoan
    <2> QED
      BY <1>2, <2>1, <2>4 DEF r
  <1>13. CASE \/ UNCHANGED vars \/ NextDay
              \/ \E i \in Invoices : UpdateInvoice(i) \/ ArchiveInvoice(i) \/ ProductDeleted(i)
              \/ \E w \in Workers : OverdueRead(w) \/ JobFails(w) \/ \E i \in Invoices : CancelRead(w, i)
    BY <1>2, <1>13 DEF vars, NextDay, UpdateInvoice, ArchiveInvoice, ProductDeleted, OverdueRead, JobFails, CancelRead
  <1> QED
    BY <1>4, <1>5, <1>7, <1>8, <1>9, <1>10, <1>11, <1>12, <1>13 DEF Next, OnInvoice, OnCredit, InJob

\* A job's list only loses credits after it was read.
LEMMA LoansKept ==
  ASSUME SalesInv, LoansAgree, [Next]_vars
  PROVE  LoansAgree'
  <1>1. LoansStay
    BY LoansStep
  <1>2. \A w \in Workers : job[w] \in Job /\ job[w].todo \subseteq Credits
    BY DEF SalesInv, TypeOK, Job
  <1>3. ASSUME NEW w \in Workers
        PROVE  \/ job'[w].todo \subseteq job[w].todo /\ job'[w].seen = job[w].seen
               \/ job'[w].todo = {}
               \/ /\ cred' = cred /\ job'[w].seen = cred
                  /\ \A c \in job'[w].todo : c \in Credits /\ Owed(c)
    <2>1. job \in [Workers -> Job]
      BY DEF SalesInv, TypeOK
    <2>2. CASE UNCHANGED job
      BY <2>2
    <2>3. ASSUME NEW v \in Workers, job' = [job EXCEPT ![v] = Idle]
          PROVE  job'[w].todo = {} \/ job'[w] = job[w]
      BY <2>1, <2>3 DEF Idle
    <2>4. ASSUME NEW v \in Workers, NEW i \in Invoices, CancelRead(v, i)
          PROVE  \/ job'[w] = job[w]
                 \/ /\ cred' = cred /\ job'[w].seen = cred
                    /\ \A c \in job'[w].todo : c \in Credits /\ Owed(c)
      BY <2>1, <2>4 DEF CancelRead, Following, CreditsOf
    <2>5. ASSUME NEW v \in Workers, OverdueRead(v)
          PROVE  \/ job'[w] = job[w]
                 \/ /\ cred' = cred /\ job'[w].seen = cred
                    /\ \A c \in job'[w].todo : c \in Credits /\ Owed(c)
      BY <2>1, <2>5 DEF OverdueRead
    <2>6. ASSUME NEW v \in Workers, OverdueWrite(v)
          PROVE  \/ job'[w].todo \subseteq job[w].todo /\ job'[w].seen = job[w].seen
                 \/ job'[w].todo = {}
      <3>1. PICK c \in job[v].todo :
              \/ job' = [job EXCEPT ![v] = Idle]
              \/ job' = [job EXCEPT ![v] = [job[v] EXCEPT !.todo = job[v].todo \ {c}]]
        BY <2>6 DEF OverdueWrite
      <3> QED
        BY <1>2, <2>1, <2>3, <3>1 DEF Job
    <2>7. CASE \E v \in Workers : CancelWrite(v) \/ JobFails(v)
      BY <2>3, <2>7 DEF CancelWrite, JobFails
    <2> QED
      BY <2>2, <2>4, <2>5, <2>6, <2>7
         DEF Next, OnInvoice, OnCredit, InJob, vars, NextDay, CreateInvoice, UpdateInvoice, ArchiveInvoice,
             DeleteInvoice, ProductDeleted, PayInvoice, ApplyCreditPayment, CreateCredit, PayCredit
  <1> QED
    BY <1>1, <1>2, <1>3 DEF LoansAgree, LoansStay, Owed

LEMMA LoansAgreeInit == Init => LoansAgree
  BY DEF Init, LoansAgree, Idle

\* What was lent on a credit stays what it is as long as the credit exists,
\* although cancellations and overdue checks write all its columns back.
LEMMA LoansInvariant == Spec => []LoansAgree
  <1>1. SalesInv /\ LoansAgree /\ [Next]_vars => LoansAgree'
    BY LoansKept
  <1> QED
    BY <1>1, LoansAgreeInit, SalesInvariant, PTL DEF Spec
-----------------------------------------------------------------------------
(* Sales implements Receivables: the books are read off the rows, and every  *)
(* step is a step of the books or leaves them alone.                         *)

\* One row of an invoice, or of a credit, is written.
LEMMA SaleWritten ==
  ASSUME SalesInv, NEW i \in Invoices, NEW r, inv' = [inv EXCEPT ![i] = r]
  PROVE  SaleBook' = [SaleBook EXCEPT ![i] = Sale(r)] /\ SaleBook'[i] = Sale(r)
  BY DEF SalesInv, TypeOK, SaleBook

LEMMA AccountWritten ==
  ASSUME SalesInv, NEW c \in Credits, NEW r, cred' = [cred EXCEPT ![c] = r]
  PROVE  AccountBook' = [AccountBook EXCEPT ![c] = Account(r)] /\ AccountBook'[c] = Account(r)
  BY DEF SalesInv, TypeOK, AccountBook

\* What the books show of the rows.
LEMMA Shown ==
  /\ \A i \in Invoices : /\ SaleBook[i] = Sale(inv[i])
                         /\ SaleBook[i].state = inv[i].state
                         /\ SaleBook[i].customer = inv[i].customer
                         /\ SaleBook[i].status = inv[i].status
                         /\ SaleBook[i].total = inv[i].total
                         /\ SaleBook[i].paid = inv[i].paid
                         /\ Books!Live(i) <=> Live(i)
  /\ \A c \in Credits : /\ AccountBook[c] = Account(cred[c])
                        /\ AccountBook[c].state = cred[c].state
                        /\ AccountBook[c].of = cred[c].invoice
                        /\ AccountBook[c].loan = cred[c].amount
                        /\ AccountBook[c].paid = cred[c].paid
  <1>1. ASSUME NEW i \in Invoices
        PROVE  /\ SaleBook[i] = Sale(inv[i])
               /\ SaleBook[i].state = inv[i].state
               /\ SaleBook[i].customer = inv[i].customer
               /\ SaleBook[i].status = inv[i].status
               /\ SaleBook[i].total = inv[i].total
               /\ SaleBook[i].paid = inv[i].paid
    BY DEF SaleBook, Sale
  <1>2. \A i \in Invoices : Books!Live(i) <=> Live(i)
    BY <1>1 DEF Books!Live, Live
  <1>3. ASSUME NEW c \in Credits
        PROVE  /\ AccountBook[c] = Account(cred[c])
               /\ AccountBook[c].state = cred[c].state
               /\ AccountBook[c].of = cred[c].invoice
               /\ AccountBook[c].loan = cred[c].amount
               /\ AccountBook[c].paid = cred[c].paid
    BY DEF AccountBook, Account
  <1> QED
    BY <1>1, <1>2, <1>3

\* The accounts of a sale are the credits of its invoice.
LEMMA OfCredits ==
  ASSUME NEW i \in Invoices
  PROVE  Books!Of(i) = CreditsOf(i)
  BY Shown DEF Books!Of, CreditsOf, Owed

LEMMA BooksSame ==
  /\ UNCHANGED inv => UNCHANGED SaleBook
  /\ UNCHANGED cred => UNCHANGED AccountBook
  BY DEF SaleBook, AccountBook

LEMMA SellRefines ==
  ASSUME SalesInv, NEW i \in Invoices, CreateInvoice(i)
  PROVE  Books!Sell(i)
  <1>1. PICK bill \in Bills, advance \in Amounts \cup {0}, onCredit \in BOOLEAN,
             customer \in BOOLEAN, due \in 0..MaxDay :
          LET total == bill.lines + bill.tax
              status == StatusOnCreation(onCredit, advance, total)
          IN /\ inv' = [inv EXCEPT ![i] =
                          [state |-> "live", customer |-> customer, lines |-> bill.lines,
                           tax |-> bill.tax, disc |-> bill.disc, total |-> total,
                           paid |-> advance, rem |-> Debt(total, advance),
                           status |-> status, archived |-> FALSE]]
             /\ IF status = "CREDIT" /\ customer
                THEN /\ total > 0
                     /\ \E c \in Credits : /\ NextCredit(c)
                                           /\ cred' = [cred EXCEPT ![c] = NewCredit(i, total, advance, due)]
                                           /\ got' = [got EXCEPT ![c] = advance]
                ELSE UNCHANGED <<cred, got>>
    BY DEF CreateInvoice
  <1> DEFINE total == bill.lines + bill.tax
             status == StatusOnCreation(onCredit, advance, total)
             s == [state |-> "live", customer |-> customer, status |-> status, total |-> total, paid |-> advance]
  <1>2. bill.lines \in Nat /\ bill.tax \in Nat /\ advance \in Nat
    <2>1. bill \in [lines : Nat, tax : Nat, disc : Nat] /\ advance \in Nat
      BY ONLY SalesConstants, bill \in Bills, advance \in Amounts \cup {0}
    <2> QED
      BY ONLY <2>1
  <1>3. total \in Nat
    BY <1>2
  <1>4. /\ status = "COMPLETED" => advance >= total
        /\ status = "CREDIT" => advance <= total
    BY <1>2, <1>3 DEF StatusOnCreation
  <1>5. SaleBook' = [SaleBook EXCEPT ![i] = s] /\ SaleBook'[i] = s
    <2> DEFINE r == [state |-> "live", customer |-> customer, lines |-> bill.lines,
                     tax |-> bill.tax, disc |-> bill.disc, total |-> total,
                     paid |-> advance, rem |-> Debt(total, advance), status |-> status, archived |-> FALSE]
    <2>1. Sale(r) = s
      BY DEF Sale
    <2>2. inv' = [inv EXCEPT ![i] = r]
      BY <1>1
    <2> HIDE DEF r, s
    <2> QED
      BY <2>1, <2>2, SaleWritten
  <1>6. SaleBook[i].state = "new" /\ UNCHANGED returned
    BY Shown DEF CreateInvoice
  <1>7. ASSUME status = "CREDIT", customer
        PROVE  \E c \in Credits : Books!Open(c, i, total, advance)
    <2>1. PICK c \in Credits : /\ NextCredit(c)
                               /\ cred' = [cred EXCEPT ![c] = NewCredit(i, total, advance, due)]
                               /\ got' = [got EXCEPT ![c] = advance]
      BY <1>1, <1>7
    <2>2. total > 0
      BY <1>1, <1>7
    <2>3. AccountBook' = [AccountBook EXCEPT ![c] = [state |-> "live", of |-> i, loan |-> total, paid |-> advance]]
      BY <2>1, AccountWritten DEF Account, NewCredit
    <2>4. AccountBook[c].state = "new" /\ advance \in 0..total
      BY <1>2, <1>3, <1>4, <1>7, <2>1, Shown DEF NextCredit
    <2>5. Books!Open(c, i, total, advance)
      BY <2>1, <2>2, <2>3, <2>4 DEF Books!Open
    <2> QED
      BY <2>5
  <1>8. ASSUME ~(status = "CREDIT" /\ customer)
        PROVE  UNCHANGED <<AccountBook, got>>
    BY <1>1, <1>8, BooksSame
  <1>9. s.state = "live" /\ (s.customer <=> customer) /\ s.status = status /\ s.total = total /\ s.paid = advance
    OBVIOUS
  <1> HIDE DEF s, status, total
  <1> DEFINE t == SaleBook'[i]
  <1>12. s = t
    BY <1>5
  <1> HIDE DEF t
  <1>10. IF s.status = "CREDIT" /\ s.customer
         THEN \E c \in Credits : Books!Open(c, i, s.total, s.paid)
         ELSE UNCHANGED <<AccountBook, got>>
    <2>1. CASE status = "CREDIT" /\ customer
      <3>1. PICK c \in Credits : Books!Open(c, i, total, advance)
        BY <1>7, <2>1
      <3>2. Books!Open(c, i, s.total, s.paid)
        BY <1>9, <3>1
      <3>3. s.status = "CREDIT" /\ s.customer
        BY <1>9, <2>1
      <3> QED
        BY <3>2, <3>3
    <2>2. CASE ~(status = "CREDIT" /\ customer)
      <3>1. ~(s.status = "CREDIT" /\ s.customer)
        BY <1>9, <2>2
      <3> QED
        BY <1>8, <2>2, <3>1
    <2> QED
      BY <2>1, <2>2
  <1>11. /\ s.status = "COMPLETED" => s.paid >= s.total
         /\ s.status = "CREDIT" => s.paid <= s.total
    BY <1>4, <1>9
  <1>13. /\ t.state = "live" /\ SaleBook' = [SaleBook EXCEPT ![i] = t]
         /\ (t.status = "COMPLETED" => t.paid >= t.total)
         /\ (t.status = "CREDIT" => t.paid <= t.total)
    BY <1>5, <1>9, <1>11, <1>12
  <1>14. IF t.status = "CREDIT" /\ t.customer
         THEN \E c \in Credits : Books!Open(c, i, t.total, t.paid)
         ELSE UNCHANGED <<AccountBook, got>>
    BY ONLY <1>10, <1>12
  <1> QED
    BY ONLY <1>6, <1>13, <1>14 DEF Books!Sell, t

\* What an account shows as paid is replaced.
LEMMA AccountChanged ==
  ASSUME NEW c \in Credits, NEW p
  PROVE  [AccountBook[c] EXCEPT !.paid = p]
         = [state |-> cred[c].state, of |-> cred[c].invoice, loan |-> cred[c].amount, paid |-> p]
  <1>1. AccountBook[c] = [state |-> cred[c].state, of |-> cred[c].invoice,
                          loan |-> cred[c].amount, paid |-> cred[c].paid]
    BY Shown DEF Account
  <1> QED
    BY <1>1

\* n more is paid on an invoice, up to its total.
LEMMA PaidOnSale ==
  ASSUME SalesInv, NEW i \in Invoices, NEW n \in Int, inv[i].paid + n <= inv[i].total,
         inv' = [inv EXCEPT ![i] = Received(inv[i], n, Debt(inv[i].total, inv[i].paid + n))]
  PROVE  LET paid == SaleBook'[i].paid IN
         /\ paid - SaleBook[i].paid = n
         /\ paid <= SaleBook[i].total
         /\ SaleBook' = [SaleBook EXCEPT ![i].paid = paid,
                                ![i].status = IF paid = SaleBook[i].total THEN "COMPLETED" ELSE SaleBook[i].status]
  <1> DEFINE m == inv[i].paid + n
             q == Received(inv[i], n, Debt(inv[i].total, m))
             st == IF m = inv[i].total THEN "COMPLETED" ELSE inv[i].status
  <1>1. inv[i] \in Invoice
    BY DEF SalesInv, TypeOK
  <1>2. m \in Int /\ m - inv[i].paid = n /\ m <= inv[i].total /\ inv[i].total \in Nat
    BY <1>1 DEF Invoice
  <1>3. Debt(inv[i].total, m) = 0 <=> m = inv[i].total
    BY ONLY <1>2 DEF Debt
  <1>4. Sale(q) = [state |-> inv[i].state, customer |-> inv[i].customer,
                   status |-> st, total |-> inv[i].total, paid |-> m]
    BY <1>1, <1>3 DEF Sale, Received, Invoice
  <1>5. inv' = [inv EXCEPT ![i] = q]
    OBVIOUS
  <1> HIDE DEF q
  <1>6. SaleBook' = [SaleBook EXCEPT ![i] = Sale(q)] /\ SaleBook'[i] = Sale(q)
    BY <1>5, SaleWritten
  <1>7. SaleBook'[i].paid = m
    BY <1>4, <1>6
  <1>8. SaleBook[i].paid = inv[i].paid /\ SaleBook[i].total = inv[i].total /\ SaleBook[i].status = inv[i].status
    BY Shown
  <1> HIDE DEF m, st
  <1>9. SaleBook' = [SaleBook EXCEPT ![i].paid = m, ![i].status = st]
    <2> DEFINE r == SaleBook[i]
               x == [r EXCEPT !.paid = m]
    <2>1. r = [state |-> inv[i].state, customer |-> inv[i].customer,
               status |-> inv[i].status, total |-> inv[i].total, paid |-> inv[i].paid]
      BY Shown DEF Sale
    <2>2. x = [state |-> inv[i].state, customer |-> inv[i].customer,
               status |-> inv[i].status, total |-> inv[i].total, paid |-> m]
      BY <2>1
    <2> HIDE DEF x
    <2>3. [x EXCEPT !.status = st] = [state |-> inv[i].state, customer |-> inv[i].customer,
                                      status |-> st, total |-> inv[i].total, paid |-> m]
      BY <2>2
    <2>4. [r EXCEPT !.paid = m, !.status = st] = [x EXCEPT !.status = st]
      BY Zenon DEF x
    <2>5. SaleBook = [j \in Invoices |-> SaleBook[j]]
      BY DEF SaleBook
    <2>6. [SaleBook EXCEPT ![i].paid = m, ![i].status = st]
          = [SaleBook EXCEPT ![i] = [SaleBook[i] EXCEPT !.paid = m, !.status = st]]
      BY ONLY <2>5, i \in Invoices
    <2> QED
      BY ONLY <1>4, <1>6, <2>3, <2>4, <2>6
  <1>10. st = IF m = SaleBook[i].total THEN "COMPLETED" ELSE SaleBook[i].status
    BY <1>8 DEF st
  <1> QED
    BY <1>2, <1>7, <1>8, <1>9, <1>10

\* n more is paid on each of the credits C.
LEMMA PaidOnAccounts ==
  ASSUME SalesInv, NEW C \in SUBSET Credits, NEW n \in Int,
         \A c \in C : cred[c].paid + n >= 0 /\ cred[c].rem - n >= 0,
         cred' = [c \in Credits |-> IF c \in C THEN PaidOff(cred[c], n) ELSE cred[c]],
         got' = [c \in Credits |-> IF c \in C THEN got[c] + n ELSE got[c]]
  PROVE  Books!Receive(C, n)
  <1>1. \A c \in Credits : cred[c] \in Credit /\ cred[c].paid + cred[c].rem = cred[c].amount
    BY DEF SalesInv, TypeOK, CreditBalances, Balanced
  <1>2. \A c \in C : AccountBook[c].paid + n \in 0..AccountBook[c].loan
    BY <1>1, Shown DEF Credit
  <1>3. ASSUME NEW c \in Credits
        PROVE  Account(PaidOff(cred[c], n)) = [AccountBook[c] EXCEPT !.paid = @ + n]
    <2>1. PaidOff(cred[c], n).state = cred[c].state /\ PaidOff(cred[c], n).invoice = cred[c].invoice
          /\ PaidOff(cred[c], n).amount = cred[c].amount /\ PaidOff(cred[c], n).paid = cred[c].paid + n
      BY <1>1 DEF PaidOff, Credit
    <2>2. Account(PaidOff(cred[c], n)) = [state |-> cred[c].state, of |-> cred[c].invoice,
                                          loan |-> cred[c].amount, paid |-> cred[c].paid + n]
      BY <2>1 DEF Account
    <2>3. [AccountBook[c] EXCEPT !.paid = @ + n] = [AccountBook[c] EXCEPT !.paid = cred[c].paid + n]
      BY Shown
    <2> QED
      BY <2>2, <2>3, AccountChanged
  <1>4. AccountBook' = [c \in Credits |-> IF c \in C THEN [AccountBook[c] EXCEPT !.paid = @ + n]
                                                      ELSE AccountBook[c]]
    <2>1. AccountBook' = [c \in Credits |-> Account(cred'[c])]
      BY DEF AccountBook
    <2>2. \A c \in Credits : Account(cred'[c]) = IF c \in C THEN Account(PaidOff(cred[c], n)) ELSE Account(cred[c])
      OBVIOUS
    <2> QED
      BY <1>3, <2>1, <2>2, Shown
  <1> QED
    BY <1>2, <1>4 DEF Books!Receive

LEMMA PayRefines ==
  ASSUME SalesInv, NEW i \in Invoices, PayInvoice(i)
  PROVE  Books!Pay(i)
  <1>1. PICK amount \in Amounts, k \in Keys \cup {NoKey} :
         LET n == Applied(i, amount)
         IN /\ \A c \in Following(i) : cred[c].paid + n >= 0 /\ cred[c].rem - n >= 0
            /\ inv' = [inv EXCEPT ![i] = Received(inv[i], n, Debt(inv[i].total, inv[i].paid + n))]
            /\ cred' = [c \in Credits |-> IF c \in Following(i) THEN PaidOff(cred[c], n) ELSE cred[c]]
            /\ got' = [c \in Credits |-> IF c \in Following(i) THEN got[c] + n ELSE got[c]]
    BY DEF PayInvoice
  <1> DEFINE n == Applied(i, amount)
  <1>2. inv[i] \in Invoice /\ amount \in Nat
    BY SalesConstants DEF SalesInv, TypeOK
  <1>3. n \in Int /\ inv[i].paid + n <= inv[i].total
    BY <1>2 DEF Applied, Least, Invoice
  <1>4. /\ \A c \in Following(i) : cred[c].paid + n >= 0 /\ cred[c].rem - n >= 0
        /\ inv' = [inv EXCEPT ![i] = Received(inv[i], n, Debt(inv[i].total, inv[i].paid + n))]
        /\ cred' = [c \in Credits |-> IF c \in Following(i) THEN PaidOff(cred[c], n) ELSE cred[c]]
        /\ got' = [c \in Credits |-> IF c \in Following(i) THEN got[c] + n ELSE got[c]]
    BY <1>1
  <1> HIDE DEF n
  <1>5. Following(i) \in SUBSET Credits
    BY DEF Following, CreditsOf
  <1>6. Books!Receive(Following(i), n)
    BY <1>3, <1>4, <1>5, PaidOnAccounts
  <1>7. \/ SaleBook[i].customer /\ Books!Receive(Books!Of(i), n)
        \/ ~SaleBook[i].customer /\ Books!Receive({}, n)
    <2>1. CASE inv[i].customer
      BY <1>6, <2>1, OfCredits, Shown DEF Following
    <2>2. CASE ~inv[i].customer
      BY <1>6, <2>2, Shown DEF Following
    <2> QED
      BY <2>1, <2>2
  <1>8. Books!Live(i) /\ UNCHANGED returned
    BY Shown DEF PayInvoice
  <1> DEFINE paid == SaleBook'[i].paid
  <1>9. /\ paid - SaleBook[i].paid = n
        /\ paid <= SaleBook[i].total
        /\ SaleBook' = [SaleBook EXCEPT ![i].paid = paid,
                               ![i].status = IF paid = SaleBook[i].total THEN "COMPLETED" ELSE SaleBook[i].status]
    BY <1>3, <1>4, PaidOnSale
  <1> QED
    BY <1>7, <1>8, <1>9 DEF Books!Pay

LEMMA ApplyRefines ==
  ASSUME SalesInv, NEW i \in Invoices, ApplyCreditPayment(i)
  PROVE  Books!Pay(i)
  <1>1. PICK c \in Credits, amount \in Amounts :
         /\ CreditsOf(i) = {c}
         /\ LET n == Least(amount, Least(inv[i].rem, cred[c].rem))
                rem == Remaining("CREDIT", inv[i].total, inv[i].paid + n)
            IN /\ n > 0
               /\ inv' = [inv EXCEPT ![i] = Received(inv[i], n, rem)]
               /\ cred' = [cred EXCEPT ![c] = PaidOff(cred[c], n)]
               /\ got' = [got EXCEPT ![c] = @ + n]
    BY DEF ApplyCreditPayment
  <1> DEFINE n == Least(amount, Least(inv[i].rem, cred[c].rem))
  <1>2. /\ inv[i] \in Invoice /\ cred[c] \in Credit /\ amount \in Nat
        /\ inv[i].rem = Debt(inv[i].total, inv[i].paid)
    BY SalesConstants DEF SalesInv, TypeOK, DebtHonest, DebtTrue, ApplyCreditPayment
  <1>3. n \in Int /\ n <= inv[i].rem /\ n <= cred[c].rem
    BY <1>2 DEF Least, Invoice, Credit
  <1>4. /\ n > 0
        /\ inv' = [inv EXCEPT ![i] = Received(inv[i], n, Debt(inv[i].total, inv[i].paid + n))]
        /\ cred' = [cred EXCEPT ![c] = PaidOff(cred[c], n)]
        /\ got' = [got EXCEPT ![c] = got[c] + n]
    BY <1>1 DEF Remaining
  <1> HIDE DEF n
  <1>5. inv[i].paid + n <= inv[i].total
    BY <1>2, <1>3, <1>4 DEF Debt, Invoice
  <1>6. cred[c].paid + n >= 0 /\ cred[c].rem - n >= 0
    BY <1>2, <1>3, <1>4 DEF Credit
  <1>7. Books!Receive({c}, n)
    <2>1. cred \in [Credits -> Credit] /\ got \in [Credits -> Int]
      BY DEF SalesInv, TypeOK
    <2>2. cred' = [d \in Credits |-> IF d \in {c} THEN PaidOff(cred[d], n) ELSE cred[d]]
      BY <1>4, <2>1
    <2>3. got' = [d \in Credits |-> IF d \in {c} THEN got[d] + n ELSE got[d]]
      BY <1>4, <2>1
    <2>4. {c} \in SUBSET Credits /\ \A d \in {c} : cred[d].paid + n >= 0 /\ cred[d].rem - n >= 0
      BY <1>6
    <2> QED
      BY <1>3, <2>2, <2>3, <2>4, PaidOnAccounts
  <1>8. Books!Of(i) = {c}
    BY <1>1, OfCredits
  <1>9. Books!Live(i) /\ UNCHANGED returned
    BY Shown DEF ApplyCreditPayment
  <1> DEFINE paid == SaleBook'[i].paid
  <1>10. /\ paid - SaleBook[i].paid = n
         /\ paid <= SaleBook[i].total
         /\ SaleBook' = [SaleBook EXCEPT ![i].paid = paid,
                                ![i].status = IF paid = SaleBook[i].total THEN "COMPLETED" ELSE SaleBook[i].status]
    BY <1>3, <1>4, <1>5, PaidOnSale
  <1>11. n > 0 /\ \E d \in Credits : Books!Of(i) = {d} /\ Books!Receive({d}, n)
    BY <1>4, <1>7, <1>8
  <1> QED
    BY <1>9, <1>10, <1>11 DEF Books!Pay

LEMMA AmendRefines ==
  ASSUME SalesInv, NEW i \in Invoices, UpdateInvoice(i)
  PROVE  Books!Amend(i)
  <1>1. PICK patch \in Patches :
         LET r == inv[i]
             status == Given(patch, "status", r.status)
             tax == Given(patch, "tax", r.tax)
             disc == Given(patch, "disc", r.disc)
             paid == Given(patch, "paid", r.paid)
             retotal == DOMAIN patch \cap {"tax", "disc"} # {}
             total == IF retotal THEN r.lines + tax - disc ELSE r.total
         IN /\ Updatable(i, patch)
            /\ inv' = [inv EXCEPT ![i] =
                         [r EXCEPT !.status = status, !.tax = tax, !.disc = disc,
                                   !.paid = paid, !.total = total,
                                   !.archived = Given(patch, "archived", r.archived),
                                   !.rem = Remaining(status, total, paid)]]
    BY DEF UpdateInvoice
  <1> DEFINE r == inv[i]
             status == Given(patch, "status", r.status)
             tax == Given(patch, "tax", r.tax)
             disc == Given(patch, "disc", r.disc)
             paid == Given(patch, "paid", r.paid)
             total == IF DOMAIN patch \cap {"tax", "disc"} # {} THEN r.lines + tax - disc ELSE r.total
             q == [r EXCEPT !.status = status, !.tax = tax, !.disc = disc,
                            !.paid = paid, !.total = total,
                            !.archived = Given(patch, "archived", r.archived),
                            !.rem = Remaining(status, total, paid)]
             s == Sale(q)
  <1>2. r \in Invoice
    BY DEF SalesInv, TypeOK
  <1>3. inv' = [inv EXCEPT ![i] = q] /\ Live(i) /\ Updatable(i, patch)
    BY <1>1 DEF UpdateInvoice, Updatable
  <1>4. q.state = r.state /\ q.customer = r.customer /\ q.status = status
    <2> HIDE DEF status, tax, disc, paid, total
    <2> QED
      BY <1>2 DEF Invoice
  <1>5. r.status = "COMPLETED" => status = "CANCELLED"
    BY <1>3 DEF Updatable, Given
  <1> HIDE DEF q, status
  <1>6. SaleBook' = [SaleBook EXCEPT ![i] = s] /\ SaleBook'[i] = s
    BY <1>3, SaleWritten
  <1>7. s.state = "live" /\ s.customer = r.customer /\ s.status = status
    BY <1>3, <1>4 DEF Sale, Live
  <1>8. s = [s EXCEPT !.customer = r.customer]
    BY <1>7 DEF Sale
  <1>9. Books!Live(i) /\ SaleBook[i].status = r.status /\ SaleBook[i].customer = r.customer
    BY <1>3, Shown
  <1>10. UNCHANGED <<AccountBook, got, returned>>
    BY BooksSame DEF UpdateInvoice
  <1> HIDE DEF s, r
  <1> QED
    BY <1>5, <1>6, <1>7, <1>8, <1>9, <1>10 DEF Books!Amend

\* A row changes only where the books do not look.
LEMMA SaleHidden ==
  ASSUME SalesInv, NEW i \in Invoices, NEW r, inv' = [inv EXCEPT ![i] = r], Sale(r) = Sale(inv[i])
  PROVE  UNCHANGED SaleBook
  <1>1. SaleBook' = [SaleBook EXCEPT ![i] = Sale(r)]
    BY SaleWritten
  <1>2. Sale(r) = SaleBook[i]
    BY Shown
  <1> QED
    BY <1>1, <1>2 DEF SaleBook

LEMMA ArchiveStutters ==
  ASSUME SalesInv, NEW i \in Invoices, ArchiveInvoice(i) \/ ProductDeleted(i)
  PROVE  UNCHANGED <<SaleBook, AccountBook, got, returned>>
  <1>1. inv[i] \in Invoice
    BY DEF SalesInv, TypeOK
  <1>2. CASE ArchiveInvoice(i)
    <2> DEFINE r == [inv[i] EXCEPT !.archived = TRUE]
    <2>1. Sale(r) = Sale(inv[i])
      BY <1>1 DEF Sale, Invoice
    <2>2. inv' = [inv EXCEPT ![i] = r]
      BY <1>2 DEF ArchiveInvoice
    <2> HIDE DEF r
    <2> QED
      BY <1>2, <2>1, <2>2, SaleHidden, BooksSame DEF ArchiveInvoice
  <1>3. CASE ProductDeleted(i)
    <2>1. PICK rest \in 0..(inv[i].lines - 1) : inv' = [inv EXCEPT ![i].lines = rest]
      BY <1>3 DEF ProductDeleted
    <2> DEFINE r == [inv[i] EXCEPT !.lines = rest]
    <2>2. Sale(r) = Sale(inv[i])
      BY <1>1 DEF Sale, Invoice
    <2>3. inv' = [inv EXCEPT ![i] = r]
      BY <2>1
    <2> HIDE DEF r
    <2> QED
      BY <1>3, <2>2, <2>3, SaleHidden, BooksSame DEF ProductDeleted
  <1> QED
    BY <1>2, <1>3

LEMMA DeleteRefines ==
  ASSUME SalesInv, NEW i \in Invoices, DeleteInvoice(i)
  PROVE  Books!Delete(i)
  <1>1. inv' = [inv EXCEPT ![i] = [NoInvoice EXCEPT !.state = "gone"]]
    BY DEF DeleteInvoice
  <1>2. Sale([NoInvoice EXCEPT !.state = "gone"]) = [Books!NoSale EXCEPT !.state = "gone"]
    <2> DEFINE r == [NoInvoice EXCEPT !.state = "gone"]
    <2>1. /\ r.state = "gone" /\ r.customer = FALSE /\ r.status = "CANCELLED"
          /\ r.total = 0 /\ r.paid = 0
      BY DEF NoInvoice
    <2>2. [Books!NoSale EXCEPT !.state = "gone"]
          = [state |-> "gone", customer |-> FALSE, status |-> "CANCELLED", total |-> 0, paid |-> 0]
      <3>1. \A f : [[state |-> "new", customer |-> f, status |-> "CANCELLED", total |-> 0, paid |-> 0]
                     EXCEPT !.state = "gone"]
                   = [state |-> "gone", customer |-> f, status |-> "CANCELLED", total |-> 0, paid |-> 0]
        OBVIOUS
      <3> QED
        BY ONLY <3>1, Zenon DEF Books!NoSale
    <2> HIDE DEF r
    <2>3. Sale(r) = [state |-> "gone", customer |-> FALSE, status |-> "CANCELLED", total |-> 0, paid |-> 0]
      BY <2>1 DEF Sale
    <2> QED
      BY <2>2, <2>3 DEF r
  <1>3. SaleBook' = [SaleBook EXCEPT ![i] = [Books!NoSale EXCEPT !.state = "gone"]]
    BY <1>1, <1>2, SaleWritten
  <1>4. Account([NoCredit EXCEPT !.state = "gone"]) = [Books!NoAccount EXCEPT !.state = "gone"]
    BY DEF Account, NoCredit, Books!NoAccount
  <1>5. AccountBook' = [c \in Credits |-> IF c \in CreditsOf(i) THEN [Books!NoAccount EXCEPT !.state = "gone"]
                                                                ELSE AccountBook[c]]
    <2>1. AccountBook' = [c \in Credits |-> Account(cred'[c])]
      BY DEF AccountBook
    <2>2. \A c \in Credits : Account(cred'[c]) = IF c \in CreditsOf(i) THEN Account([NoCredit EXCEPT !.state = "gone"])
                                                                       ELSE Account(cred[c])
      BY DEF DeleteInvoice
    <2> QED
      BY <1>4, <2>1, <2>2, Shown
  <1>6. Books!Live(i) /\ UNCHANGED <<got, returned>> /\ \A c, d \in Books!Of(i) : c = d
    BY Shown, OfCredits DEF DeleteInvoice
  <1> QED
    BY <1>3, <1>5, <1>6, OfCredits DEF Books!Delete

LEMMA LendRefines ==
  ASSUME SalesInv, NEW c \in Credits, CreateCredit(c)
  PROVE  Books!Lend(c)
  <1>1. PICK i \in Invoices \cup {None}, amount \in Amounts, due \in 0..MaxDay :
           /\ i \in Invoices => Live(i)
           /\ cred' = [cred EXCEPT ![c] = NewCredit(i, amount, 0, due)]
    BY DEF CreateCredit
  <1> DEFINE a == [state |-> "live", of |-> i, loan |-> amount, paid |-> 0]
  <1>2. amount \in Nat /\ amount > 0
    BY SalesConstants
  <1>3. Account(NewCredit(i, amount, 0, due)) = a
    BY DEF Account, NewCredit
  <1>4. AccountBook' = [AccountBook EXCEPT ![c] = a] /\ AccountBook'[c] = a
    BY <1>1, <1>3, AccountWritten
  <1>5. AccountBook[c].state = "new" /\ 0 \in 0..amount
    BY <1>2, Shown DEF CreateCredit, NextCredit
  <1>6. got' = [got EXCEPT ![c] = 0]
    BY DEF CreateCredit, NextCredit, SalesInv, NothingGotEarly, TypeOK
  <1>7. Books!Open(c, i, amount, 0)
    BY <1>2, <1>4, <1>5, <1>6 DEF Books!Open
  <1>8. i # None => i \in Invoices /\ Books!Live(i)
    BY <1>1, Shown
  <1>9. UNCHANGED <<SaleBook, returned>>
    BY BooksSame DEF CreateCredit
  <1>10. AccountBook'[c].of = i /\ AccountBook'[c].loan = amount
    BY <1>4
  <1> QED
    BY <1>7, <1>8, <1>9, <1>10 DEF Books!Lend

LEMMA RepayRefines ==
  ASSUME SalesInv, NEW c \in Credits, PayCredit(c)
  PROVE  Books!Repay(c)
  <1>1. PICK n \in Amounts : /\ n <= cred[c].rem
                             /\ cred' = [cred EXCEPT ![c] = PaidOff(cred[c], n)]
                             /\ got' = [got EXCEPT ![c] = @ + n]
    BY DEF PayCredit
  <1>2. n \in Int /\ n > 0 /\ cred[c].paid + n >= 0 /\ cred[c].rem - n >= 0
    BY <1>1, SalesConstants DEF SalesInv, TypeOK, Credit
  <1>3. cred \in [Credits -> Credit] /\ got \in [Credits -> Int]
    BY DEF SalesInv, TypeOK
  <1>4. cred' = [d \in Credits |-> IF d \in {c} THEN PaidOff(cred[d], n) ELSE cred[d]]
    BY <1>1, <1>3
  <1>5. got' = [d \in Credits |-> IF d \in {c} THEN got[d] + n ELSE got[d]]
    BY <1>1, <1>3
  <1>6. {c} \in SUBSET Credits /\ \A d \in {c} : cred[d].paid + n >= 0 /\ cred[d].rem - n >= 0
    BY <1>2
  <1>7. Books!Receive({c}, n)
    BY <1>2, <1>4, <1>5, <1>6, PaidOnAccounts
  <1>8. got'[c] - got[c] = n
    BY <1>1, <1>2, <1>3
  <1>9. AccountBook[c].state = "live" /\ UNCHANGED <<SaleBook, returned>>
    BY Shown, BooksSame DEF PayCredit, Owed
  <1> QED
    BY <1>2, <1>7, <1>8, <1>9 DEF Books!Repay

\* A copy that is written back sets what the account shows as paid to an
\* earlier amount, which never exceeds the loan.
LEMMA ResetRefines ==
  ASSUME SalesInv, LoansAgree, NEW w \in Workers, NEW c \in job[w].todo, Owed(c),
         NEW r, r \in Credit, r.amount = job[w].seen[c].amount, r.state = "live", Balanced(r),
         WriteBack(c, r), UNCHANGED got
  PROVE  c \in Credits /\ Books!Reset(c)
  <1>1. c \in Credits /\ cred[c] \in Credit
    BY CopyRight DEF SalesInv, TypeOK
  <1> DEFINE q == [r EXCEPT !.invoice = cred[c].invoice]
  <1>2. q.state = "live" /\ q.invoice = cred[c].invoice /\ q.amount = r.amount /\ q.paid = r.paid
    BY DEF Credit
  <1>3. cred[c].state = "live" /\ cred[c].amount = r.amount
    BY DEF Owed, LoansAgree
  <1>4. Account(q) = [AccountBook[c] EXCEPT !.paid = r.paid]
    <2>1. Account(q) = [state |-> cred[c].state, of |-> cred[c].invoice, loan |-> cred[c].amount, paid |-> r.paid]
      BY <1>2, <1>3 DEF Account
    <2> QED
      BY <1>1, <2>1, AccountChanged
  <1>5. cred' = [cred EXCEPT ![c] = q]
    BY DEF WriteBack
  <1> HIDE DEF q
  <1>6. AccountBook' = [AccountBook EXCEPT ![c] = Account(q)] /\ AccountBook'[c] = Account(q)
    BY <1>1, <1>5, AccountWritten
  <1>7. AccountBook'[c].paid = r.paid
    BY <1>2, <1>6 DEF Account
  <1>8. r.paid \in 0..AccountBook[c].loan
    BY <1>1, <1>3, Shown DEF Credit, Balanced
  <1>9. [AccountBook EXCEPT ![c].paid = r.paid] = [AccountBook EXCEPT ![c] = [AccountBook[c] EXCEPT !.paid = r.paid]]
    OBVIOUS
  <1>10. AccountBook' = [AccountBook EXCEPT ![c].paid = AccountBook'[c].paid]
    BY ONLY <1>4, <1>6, <1>7, <1>9
  <1>11. AccountBook[c].state = "live"
    BY <1>1, <1>3, Shown
  <1> QED
    BY <1>1, <1>7, <1>8, <1>10, <1>11 DEF Books!Reset

LEMMA CancelRefines ==
  ASSUME SalesInv, LoansAgree, NEW w \in Workers, CancelWrite(w)
  PROVE  \E i \in Invoices : Books!Cancel(i)
  <1> DEFINE i == job[w].invoice
  <1>1. /\ inv' = [inv EXCEPT ![i].status = "CANCELLED"]
        /\ returned' = [returned EXCEPT ![i] = @ + 1]
        /\ UNCHANGED got
    BY DEF CancelWrite
  <1>2. /\ i \in Invoices /\ Live(i) /\ inv[i].status # "CANCELLED"
        /\ \A c \in job[w].todo : Owed(c) /\ cred[c].invoice = i
    BY DEF CancelWrite, SalesInv, CancelHolds
  <1>3. inv[i] \in Invoice
    BY <1>2 DEF SalesInv, TypeOK
  <1> HIDE DEF i
  <1>4. SaleBook' = [SaleBook EXCEPT ![i].status = "CANCELLED"]
    <2> DEFINE r == [inv[i] EXCEPT !.status = "CANCELLED"]
    <2>1. SaleBook[i] = [state |-> inv[i].state, customer |-> inv[i].customer,
                         status |-> inv[i].status, total |-> inv[i].total, paid |-> inv[i].paid]
      BY <1>2, Shown DEF Sale
    <2>2. [SaleBook[i] EXCEPT !.status = "CANCELLED"]
          = [state |-> inv[i].state, customer |-> inv[i].customer,
             status |-> "CANCELLED", total |-> inv[i].total, paid |-> inv[i].paid]
      BY <2>1
    <2>3. Sale(r) = [state |-> inv[i].state, customer |-> inv[i].customer,
                     status |-> "CANCELLED", total |-> inv[i].total, paid |-> inv[i].paid]
      BY <1>3 DEF Sale, Invoice
    <2>4. inv' = [inv EXCEPT ![i] = r]
      BY <1>1
    <2> HIDE DEF r
    <2>5. SaleBook' = [SaleBook EXCEPT ![i] = Sale(r)]
      BY <1>2, <2>4, SaleWritten
    <2>6. [SaleBook EXCEPT ![i].status = "CANCELLED"]
          = [SaleBook EXCEPT ![i] = [SaleBook[i] EXCEPT !.status = "CANCELLED"]]
      OBVIOUS
    <2> QED
      BY ONLY <2>2, <2>3, <2>5, <2>6
  <1>5. (\E c \in Books!Of(i) : Books!Reset(c)) \/ UNCHANGED <<AccountBook, got>>
    <2>1. CASE UNCHANGED cred
      BY <1>1, <2>1, BooksSame
    <2>2. ASSUME NEW c \in job[w].todo, WriteBack(c, [job[w].seen[c] EXCEPT !.status = "CANCELLED"])
          PROVE  \E d \in Books!Of(i) : Books!Reset(d)
      <3> DEFINE r == [job[w].seen[c] EXCEPT !.status = "CANCELLED"]
      <3>1. /\ job[w].seen[c] \in Credit /\ job[w].seen[c].state = "live"
            /\ job[w].seen[c].paid + job[w].seen[c].rem = job[w].seen[c].amount
        BY CopyRight DEF Balanced
      <3>2. /\ r \in Credit /\ r.amount = job[w].seen[c].amount /\ r.state = "live"
            /\ r.paid + r.rem = r.amount
        BY <3>1 DEF Credit, CreditStatus
      <3> HIDE DEF r
      <3>3. WriteBack(c, r) /\ Balanced(r) /\ Owed(c)
        BY <1>2, <2>2, <3>2 DEF r, Balanced
      <3>4. c \in Credits /\ Books!Reset(c)
        BY <1>1, <3>2, <3>3, ResetRefines
      <3>5. c \in Books!Of(i)
        BY <1>2, <3>4, OfCredits DEF CreditsOf
      <3> QED
        BY <3>4, <3>5
    <2> QED
      BY <2>1, <2>2 DEF CancelWrite
  <1>6. Books!Live(i) /\ SaleBook[i].status # "CANCELLED"
    BY <1>2, Shown
  <1> QED
    BY <1>1, <1>2, <1>4, <1>5, <1>6 DEF Books!Cancel

LEMMA MarkRefines ==
  ASSUME SalesInv, LoansAgree, NEW w \in Workers, OverdueWrite(w)
  PROVE  (\E c \in Credits : Books!Mark(c)) \/ UNCHANGED <<SaleBook, AccountBook, got, returned>>
  <1>1. PICK c \in job[w].todo : \/ UNCHANGED cred
                                 \/ Owed(c) /\ WriteBack(c, MarkedOverdue(job[w].seen[c]))
    BY DEF OverdueWrite
  <1>2. UNCHANGED <<SaleBook, got, returned>>
    BY BooksSame DEF OverdueWrite
  <1> DEFINE r == MarkedOverdue(job[w].seen[c])
  <1>3. /\ job[w].seen[c] \in Credit /\ job[w].seen[c].state = "live"
        /\ job[w].seen[c].paid + job[w].seen[c].rem = job[w].seen[c].amount
    BY CopyRight DEF Balanced
  <1>4. /\ r \in Credit /\ r.amount = job[w].seen[c].amount /\ r.state = "live"
        /\ r.paid + r.rem = r.amount
    BY <1>3, StatusForType DEF MarkedOverdue, Credit
  <1> HIDE DEF r
  <1>5. CASE Owed(c) /\ WriteBack(c, r)
    <2>1. Balanced(r)
      BY <1>4 DEF Balanced
    <2>2. c \in Credits /\ Books!Reset(c)
      BY <1>2, <1>4, <1>5, <2>1, ResetRefines
    <2> QED
      BY <1>2, <2>2 DEF Books!Mark
  <1>6. CASE UNCHANGED cred
    BY <1>2, <1>6, BooksSame
  <1> QED
    BY <1>1, <1>5, <1>6 DEF r

LEMMA BooksInit == Init => Books!Init
  <1> SUFFICES ASSUME Init PROVE Books!Init
    OBVIOUS
  <1>1. Sale(NoInvoice) = Books!NoSale
    BY DEF Sale, NoInvoice, Books!NoSale
  <1>2. Account(NoCredit) = Books!NoAccount
    BY DEF Account, NoCredit, Books!NoAccount
  <1>3. SaleBook = [i \in Invoices |-> Books!NoSale]
    BY <1>1 DEF Init, SaleBook
  <1>4. AccountBook = [c \in Credits |-> Books!NoAccount]
    BY <1>2 DEF Init, AccountBook
  <1> QED
    BY <1>3, <1>4 DEF Init, Books!Init

LEMMA BooksStep ==
  ASSUME SalesInv, LoansAgree, [Next]_vars
  PROVE  [Books!Next]_(Books!vars)
  <1> DEFINE Quiet == UNCHANGED <<SaleBook, AccountBook, got, returned>>
  <1>1. ASSUME NEW i \in Invoices, OnInvoice(i)
        PROVE  Quiet \/ Books!Sell(i) \/ Books!Pay(i) \/ Books!Amend(i) \/ Books!Delete(i)
    <2>1. CASE CreateInvoice(i)
      BY <2>1, SellRefines
    <2>2. CASE UpdateInvoice(i)
      BY <2>2, AmendRefines
    <2>3. CASE ArchiveInvoice(i) \/ ProductDeleted(i)
      BY <2>3, ArchiveStutters
    <2>4. CASE DeleteInvoice(i)
      BY <2>4, DeleteRefines
    <2>5. CASE PayInvoice(i)
      BY <2>5, PayRefines
    <2>6. CASE ApplyCreditPayment(i)
      BY <2>6, ApplyRefines
    <2> QED
      BY <1>1, <2>1, <2>2, <2>3, <2>4, <2>5, <2>6 DEF OnInvoice
  <1>2. ASSUME NEW c \in Credits, OnCredit(c)
        PROVE  Books!Lend(c) \/ Books!Repay(c)
    BY <1>2, LendRefines, RepayRefines DEF OnCredit
  <1>3. ASSUME NEW w \in Workers, InJob(w)
        PROVE  \/ Quiet
               \/ \E i \in Invoices : Books!Cancel(i)
               \/ \E c \in Credits : Books!Mark(c)
    <2>1. CASE (\E i \in Invoices : CancelRead(w, i)) \/ OverdueRead(w) \/ JobFails(w)
      BY <2>1, BooksSame DEF CancelRead, OverdueRead, JobFails
    <2>2. CASE CancelWrite(w)
      BY <2>2, CancelRefines
    <2>3. CASE OverdueWrite(w)
      BY <2>3, MarkRefines
    <2> QED
      BY <1>3, <2>1, <2>2, <2>3 DEF InJob
  <1>4. CASE NextDay \/ UNCHANGED vars
    BY <1>4, BooksSame DEF NextDay, vars, Books!vars
  <1>5. Quiet => UNCHANGED Books!vars
    BY DEF Books!vars
  <1> HIDE DEF Quiet
  <1> QED
    BY <1>1, <1>2, <1>3, <1>4, <1>5 DEF Next, Books!Next

\* The program implements Receivables: whatever the interleaving of requests and
\* jobs, money reaches a sale and its accounts in one step and within what is
\* missing, completed sales keep their terms, and only a copy that is written
\* back makes an account show less than was received for it.
THEOREM SalesImplementBooks == Spec => BooksSpec
  <1>1. Init => Books!Init
    BY BooksInit
  <1>2. SalesInv /\ LoansAgree /\ [Next]_vars => [Books!Next]_(Books!vars)
    BY BooksStep
  <1> QED
    BY <1>1, <1>2, SalesInvariant, LoansInvariant, PTL DEF Spec, BooksSpec, Books!Spec

\* What was lent on a credit never changes, and the credit is not reopened.
THEOREM SalesLoansStay == Spec => [][LoansStay]_vars
  <1>1. SalesInv /\ LoansAgree /\ [Next]_vars => LoansStay
    BY LoansStep
  <1> QED
    BY <1>1, SalesInvariant, LoansInvariant, PTL DEF Spec
=============================================================================
